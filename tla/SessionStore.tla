---------------------------- MODULE SessionStore ----------------------------
(***************************************************************************)
(* The session and chat registry of fancy_gpt (class SessionStore in       *)
(* store.py): sessions/<id>/session.json and sessions/<id>/chats/<id>.json *)
(*                                                                         *)
(* Every operation that changes a record runs under the session's file     *)
(* lock, so each is one action here; LockedFile justifies that step.  A    *)
(* process that dies inside a section that writes two files leaves only    *)
(* the first one written, which is an action of its own (WriteChatFile).   *)
(*                                                                         *)
(* StoreSpec lets any caller run any section at any moment: what it        *)
(* guarantees does not rest on how ConversationManager, ReviewEngine, the  *)
(* CLI and the MCP server sequence their calls.  Titles, tunnel ids and    *)
(* time stamps are left out; closed_at and archived_at become Booleans.    *)
(* chat_ids and request_ids are sets, their order being display only.      *)
(***************************************************************************)

CONSTANTS
    Sessions,       \* session ids
    Chats,          \* chat ids, each drawn once (uuid4)
    Requests,       \* request ids
    Roots,          \* canonical repo_root paths
    Conversations,  \* ids of provider conversations
    None            \* Python's None, and a file that does not exist

VARIABLES
    session,  \* session[s]: content of session.json of s, or None
    chat      \* chat[c]: content of the file of chat c, or None

storeVars == <<session, chat>>

ChatKinds == {"main", "standard", "independent"}

SessionRecord ==
    [repo_root : Roots,
     closed    : BOOLEAN,
     chat_ids  : SUBSET Chats,
     active    : Chats \cup {None}]

\* session_id is the directory the file is in as well as a field of it.
ChatRecord ==
    [session_id   : Sessions,
     kind         : ChatKinds,
     conversation : Conversations \cup {None},
     archived     : BOOLEAN,
     requests     : SUBSET Requests]

\* None is no record and no id.
ASSUME NoneAssumption ==
    /\ None \notin SessionRecord
    /\ None \notin ChatRecord
    /\ None \notin Chats
    /\ None \notin Conversations
    /\ None \notin Sessions

StoreTypeOK ==
    /\ session \in [Sessions -> SessionRecord \cup {None}]
    /\ chat \in [Chats -> ChatRecord \cup {None}]

StoreInit ==
    /\ session = [s \in Sessions |-> None]
    /\ chat = [c \in Chats |-> None]

-----------------------------------------------------------------------------
(* What a section reads before it writes.                                  *)

Exists(s) == session[s] # None

\* Mutant: the closed_at test of lines 309, 325 and 369 is missing.
Mutant_OpenIgnoresClosed(s) == Exists(s)

Open(s) == Exists(s) /\ ~session[s].closed

\* The chat's file is in the directory of s.
Stored(s, c) == chat[c] # None /\ chat[c].session_id = s

\* A chat that select_chat accepts.
Selectable(s, c) ==
    /\ c \in session[s].chat_ids
    /\ Stored(s, c)
    /\ ~chat[c].archived

NewChatRecord(s, kind) ==
    [session_id |-> s, kind |-> kind, conversation |-> None,
     archived |-> FALSE, requests |-> {}]

\* The second write of create_chat and get_or_create_main_chat.
LinkChat(s, c, makeActive) ==
    session' = [session EXCEPT ![s].chat_ids = @ \cup {c},
                               ![s].active = IF makeActive THEN c ELSE @]

-----------------------------------------------------------------------------
(* The sections.                                                           *)

CreateSession(s, root) ==
    /\ ~Exists(s)
    /\ session' = [session EXCEPT ![s] =
            [repo_root |-> root, closed |-> FALSE, chat_ids |-> {}, active |-> None]]
    /\ UNCHANGED chat

CloseSession(s) ==
    /\ Exists(s)
    /\ session' = [session EXCEPT ![s].closed = TRUE]
    /\ UNCHANGED chat

\* create_chat or get_or_create_main_chat dies between its two writes.
WriteChatFile(s, c, kind) ==
    /\ Open(s) /\ chat[c] = None
    /\ kind = "main" => session[s].active = None
    /\ chat' = [chat EXCEPT ![c] = NewChatRecord(s, kind)]
    /\ UNCHANGED session

CreateChat(s, c, kind, makeActive) ==
    /\ Open(s) /\ chat[c] = None
    /\ chat' = [chat EXCEPT ![c] = NewChatRecord(s, kind)]
    /\ LinkChat(s, c, makeActive)

\* Mutant: the active chat looked at is one read before the lock was taken.
Mutant_CreateMainChat(s, c) == CreateChat(s, c, "main", TRUE)

\* A continue request whose session has no active chat: the main chat is
\* created.  With an active chat the section only reads.
CreateMainChat(s, c) ==
    /\ Open(s) /\ session[s].active = None
    /\ CreateChat(s, c, "main", TRUE)

SelectChat(s, c) ==
    /\ Open(s)
    /\ Selectable(s, c)
    /\ session' = [session EXCEPT ![s].active = c]
    /\ UNCHANGED chat

\* update_chat: rewrite the fields of one chat; it also touches the time
\* stamp of the session, which is not modelled.
UpdateChat(s, c, record) ==
    /\ Stored(s, c)
    /\ chat' = [chat EXCEPT ![c] = record]
    /\ UNCHANGED session

ArchivedRecord(c) == [chat[c] EXCEPT !.archived = TRUE]

BoundRecord(c, conversation) == [chat[c] EXCEPT !.conversation = conversation]

\* append_request; a request already listed is left alone.
AppendRequest(s, c, r) ==
    /\ Stored(s, c)
    /\ chat' = [chat EXCEPT ![c].requests = @ \cup {r}]
    /\ UNCHANGED session

StoreNext ==
    \E s \in Sessions :
        \/ \E root \in Roots : CreateSession(s, root)
        \/ CloseSession(s)
        \/ \E c \in Chats :
            \/ \E kind \in ChatKinds : WriteChatFile(s, c, kind)
            \/ \E kind \in {"standard", "independent"}, makeActive \in BOOLEAN :
                    CreateChat(s, c, kind, makeActive)
            \/ CreateMainChat(s, c)
            \/ SelectChat(s, c)
            \/ UpdateChat(s, c, ArchivedRecord(c))
            \/ \E v \in Conversations : UpdateChat(s, c, BoundRecord(c, v))
            \/ \E r \in Requests : AppendRequest(s, c, r)

StoreSpec == StoreInit /\ [][StoreNext]_storeVars

-----------------------------------------------------------------------------
(* Properties.                                                             *)

\* Whatever crash or interleaving, every chat a session lists can be read:
\* its file exists, in that session's directory.  list_chats, select_chat
\* and get_or_create_main_chat rely on it (store.py:311 writes the chat file
\* before store.py:317 lists it).
MembersStored ==
    \A s \in Sessions : Exists(s) =>
        \A c \in session[s].chat_ids : Stored(s, c)

\* The active chat of a session is one the session lists, so that a chat
\* selected or resolved as active is never one list_chats hides.
ActiveIsMember ==
    \A s \in Sessions : Exists(s) =>
        session[s].active \in session[s].chat_ids \cup {None}

\* "creating the main chat once" (store.py:321): concurrent continue requests
\* and crashes never leave a session listing two main chats.
OneMainChat ==
    \A s \in Sessions : Exists(s) =>
        \A c, d \in session[s].chat_ids :
            chat[c].kind = "main" /\ chat[d].kind = "main" => c = d

\* What a reader of the registry relies on, at any moment and after any crash.
RegistryConsistent == MembersStored /\ ActiveIsMember /\ OneMainChat

\* OneMainChat is not inductive: that the main chat is only created when no
\* chat is active counts because a session with a main chat always has an
\* active one.
MainImpliesActive ==
    \A s \in Sessions : Exists(s) /\ session[s].active = None =>
        \A c \in session[s].chat_ids : chat[c].kind # "main"

\* The inductive invariant of the store.
StoreInv ==
    StoreTypeOK /\ MembersStored /\ ActiveIsMember /\ OneMainChat /\ MainImpliesActive

\* A closed session is history: no section run after the close, by a caller
\* that checked before it, adds a chat to it, changes its active chat or
\* reopens it.
ClosedIsFrozen ==
    [][\A s \in Sessions : Exists(s) /\ session[s].closed => session'[s] = session[s]]_storeVars

=============================================================================
