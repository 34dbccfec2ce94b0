--------------------------- MODULE Conversations ---------------------------
(***************************************************************************)
(* ConversationManager (conversations.py) and the callers of the session   *)
(* store that take several locked sections: resolve, which turns a request *)
(* into a chat, and archive_chat.  Between two sections of one operation   *)
(* any other process runs, and what was read in the first is stale in the  *)
(* second.                                                                 *)
(*                                                                         *)
(* A client is a thread of an MCP server or a CLI process.  It runs one    *)
(* operation at a time; pc is where it stands and input, target, bound are *)
(* the operation's local variables.  An exception returns it to "idle"     *)
(* with nothing more done; a client that dies between two sections just    *)
(* takes no further step, and DieCreating is death inside one.             *)
(***************************************************************************)
EXTENDS SessionStore

CONSTANTS
    Clients,         \* processes and threads that use the registry
    Inputs,          \* the requests they may make (fields RawRequest uses here)
    DefaultSession   \* default_session_id: session of each repo_root

VARIABLES
    pc,      \* pc[p]: next step of client p
    input,   \* input[p]: the request being resolved, or the chat to archive
    target,  \* target[p]: id of the chat found so far, or None
    bound,   \* bound[p]: conversation_id of that ChatRecord when it was read
    stale    \* stale[p]: history: the call named a closed session or an
             \* archived chat when it was made

clientVars == <<pc, input, target, bound, stale>>
convVars == <<session, chat, pc, input, target, bound, stale>>

Policies == {"continue", "new_chat", "independent", "temporary"}

Request ==
    [session_id : Sessions \cup {None}, repo_root : Roots, policy : Policies,
     chat_id : Chats \cup {None}, conversation_id : Conversations \cup {None}]

ArchiveRequest == [session_id : Sessions, chat_id : Chats]

ASSUME InputsAssumption == Inputs \subseteq Request
ASSUME DefaultSessionAssumption == DefaultSession \in [Roots -> Sessions]

ResolveLabels ==
    {"idle", "exists", "create", "get", "pick", "bind", "resolved", "dead"}
ArchiveLabels == {"archive-session", "archive-chat", "archive-write"}

ClientTypeOK ==
    /\ pc \in [Clients -> ResolveLabels \cup ArchiveLabels]
    /\ input \in [Clients -> Inputs \cup ArchiveRequest \cup {None}]
    /\ target \in [Clients -> Chats \cup {None}]
    /\ bound \in [Clients -> Conversations \cup {None}]
    /\ stale \in [Clients -> BOOLEAN]

ClientInit ==
    /\ pc = [p \in Clients |-> "idle"]
    /\ input = [p \in Clients |-> None]
    /\ target = [p \in Clients |-> None]
    /\ bound = [p \in Clients |-> None]
    /\ stale = [p \in Clients |-> FALSE]

Goto(p, label) == pc' = [pc EXCEPT ![p] = label]

\* Return, or leave by an exception: local variables are gone.
Leave(p) ==
    /\ Goto(p, "idle")
    /\ input' = [input EXCEPT ![p] = None]
    /\ target' = [target EXCEPT ![p] = None]
    /\ bound' = [bound EXCEPT ![p] = None]
    /\ stale' = [stale EXCEPT ![p] = FALSE]

-----------------------------------------------------------------------------
(* resolve                                                                 *)

\* The session of a request: its own, or the default one of its repo_root.
SessionOf(in) ==
    IF in.session_id = None THEN DefaultSession[in.repo_root] ELSE in.session_id

\* A user names a chat that some session lists.
Nameable(c) == \E s \in Sessions : Exists(s) /\ c \in session[s].chat_ids

CallResolve(p, in) ==
    /\ pc[p] = "idle"
    /\ in.chat_id # None => Nameable(in.chat_id)
    /\ input' = [input EXCEPT ![p] = in]
    /\ stale' = [stale EXCEPT ![p] =
            \/ in.policy # "temporary" /\ Exists(SessionOf(in)) /\ session[SessionOf(in)].closed
            \/ in.policy # "temporary" /\ in.chat_id # None /\ chat[in.chat_id].archived]
    /\ Goto(p, IF in.policy = "temporary" THEN "resolved" ELSE "exists")
    /\ UNCHANGED <<session, chat, target, bound>>

\* ensure_session looks for the file before it takes the lock.
EnsureExists(p) ==
    /\ pc[p] = "exists"
    /\ Goto(p, IF Exists(SessionOf(input[p])) THEN "get" ELSE "create")
    /\ UNCHANGED <<session, chat, input, target, bound, stale>>

\* Mutant: a session created in the meantime is overwritten.
Mutant_EnsureCreate(p) ==
    /\ pc[p] = "create"
    /\ Goto(p, "pick")
    /\ session' = [session EXCEPT ![SessionOf(input[p])] =
            [repo_root |-> input[p].repo_root, closed |-> FALSE, chat_ids |-> {}, active |-> None]]
    /\ UNCHANGED <<chat, input, target, bound, stale>>

\* Mutant: a session created in the meantime is used unseen.
Mutant_EnsureCreateUnchecked(p) ==
    /\ pc[p] = "create"
    /\ Goto(p, "pick")
    /\ IF Exists(SessionOf(input[p]))
       THEN UNCHANGED <<session, chat>>
       ELSE CreateSession(SessionOf(input[p]), input[p].repo_root)
    /\ UNCHANGED <<input, target, bound, stale>>

\* create_session; the InvalidStateError of a lost race is swallowed and the
\* session of the winner read instead.
EnsureCreate(p) ==
    /\ pc[p] = "create"
    /\ \/ /\ CreateSession(SessionOf(input[p]), input[p].repo_root)
          /\ Goto(p, "pick")
       \/ /\ Exists(SessionOf(input[p]))
          /\ Goto(p, "get")
          /\ UNCHANGED <<session, chat>>
    /\ UNCHANGED <<input, target, bound, stale>>

\* Mutant: ensure_session checks the repo_root only.
Mutant_Usable(in) == session[SessionOf(in)].repo_root = in.repo_root

\* The tests of ensure_session on the record it read.
Usable(in) ==
    /\ session[SessionOf(in)].repo_root = in.repo_root
    /\ ~session[SessionOf(in)].closed

EnsureGet(p) ==
    /\ pc[p] = "get"
    /\ UNCHANGED <<session, chat>>
    /\ IF Usable(input[p])
       THEN Goto(p, "pick") /\ UNCHANGED <<input, target, bound, stale>>
       ELSE Leave(p)

\* Mutant: the conversation of the request always goes first.
Mutant_Found(p, c, v) ==
    /\ target' = [target EXCEPT ![p] = c]
    /\ bound' = [bound EXCEPT ![p] = v]
    /\ Goto(p, IF input[p].conversation_id # None THEN "bind" ELSE "resolved")
    /\ UNCHANGED <<input, stale>>

\* The chat is found: conversation v is the one its record showed.  A request
\* that names a conversation needs the chat to have none, or that one.
Found(p, c, v) ==
    LET wanted == input[p].conversation_id IN
    IF wanted # None /\ v # None /\ v # wanted
    THEN Leave(p)
    ELSE /\ target' = [target EXCEPT ![p] = c]
         /\ bound' = [bound EXCEPT ![p] = v]
         /\ Goto(p, IF wanted # None /\ v = None THEN "bind" ELSE "resolved")
         /\ UNCHANGED <<input, stale>>

Readable(in) ==
    /\ Stored(SessionOf(in), in.chat_id)
    /\ ~chat[in.chat_id].archived

PickNamed(p) ==
    /\ pc[p] = "pick"
    /\ input[p].chat_id # None
    /\ UNCHANGED <<session, chat>>
    /\ IF Readable(input[p])
       THEN Found(p, input[p].chat_id, chat[input[p].chat_id].conversation)
       ELSE Leave(p)

PickNew(p) ==
    /\ pc[p] = "pick"
    /\ input[p].chat_id = None
    /\ \E c \in Chats :
         /\ \/ /\ input[p].policy = "new_chat"
               /\ CreateChat(SessionOf(input[p]), c, "standard", TRUE)
            \/ /\ input[p].policy = "independent"
               /\ CreateChat(SessionOf(input[p]), c, "independent", FALSE)
         /\ Found(p, c, None)

\* get_or_create_main_chat: the active chat is returned as it is, archived or
\* not; without one the main chat is created.
PickMain(p) ==
    LET s == SessionOf(input[p]) IN
    /\ pc[p] = "pick"
    /\ input[p].chat_id = None /\ input[p].policy = "continue"
    /\ \/ \E c \in Chats : CreateMainChat(s, c) /\ Found(p, c, None)
       \/ /\ Open(s) /\ session[s].active # None
          /\ Found(p, session[s].active, chat[session[s].active].conversation)
          /\ UNCHANGED <<session, chat>>

\* Every section that would create or use a chat refuses a closed session.
PickClosed(p) ==
    /\ pc[p] = "pick"
    /\ input[p].chat_id = None
    /\ ~Open(SessionOf(input[p]))
    /\ Leave(p)
    /\ UNCHANGED <<session, chat>>

\* The explicit conversation of the request is recorded, whatever the chat
\* file says by now.
BindExplicit(p) ==
    /\ pc[p] = "bind"
    /\ UpdateChat(SessionOf(input[p]), target[p],
                  BoundRecord(target[p], input[p].conversation_id))
    /\ bound' = [bound EXCEPT ![p] = input[p].conversation_id]
    /\ Goto(p, "resolved")
    /\ UNCHANGED <<input, target, stale>>

\* The process dies between the two writes of create_chat or of
\* get_or_create_main_chat.
DieCreating(p) ==
    /\ pc[p] = "pick"
    /\ input[p].chat_id = None
    /\ \E c \in Chats :
        WriteChatFile(SessionOf(input[p]), c,
            CASE input[p].policy = "continue" -> "main"
              [] input[p].policy = "new_chat" -> "standard"
              [] OTHER -> "independent")
    /\ Goto(p, "dead")
    /\ UNCHANGED <<input, target, bound, stale>>

ResolveStep(p) ==
    \/ EnsureExists(p) \/ EnsureCreate(p) \/ EnsureGet(p)
    \/ PickNamed(p) \/ PickNew(p) \/ PickMain(p) \/ PickClosed(p)
    \/ BindExplicit(p)
    \/ DieCreating(p)

-----------------------------------------------------------------------------
(* archive_chat: three sections.                                           *)

CallArchive(p, s, c) ==
    /\ pc[p] = "idle"
    /\ Exists(s) /\ c \in session[s].chat_ids
    /\ input' = [input EXCEPT ![p] = [session_id |-> s, chat_id |-> c]]
    /\ Goto(p, "archive-session")
    /\ UNCHANGED <<session, chat, target, bound, stale>>

\* get_session; the active chat may not be archived.
ArchiveReadSession(p) ==
    /\ pc[p] = "archive-session"
    /\ IF session[input[p].session_id].active = input[p].chat_id
       THEN Leave(p)
       ELSE Goto(p, "archive-chat") /\ UNCHANGED <<input, target, bound, stale>>
    /\ UNCHANGED <<session, chat>>

\* get_chat; a chat already archived is returned as it is.
ArchiveReadChat(p) ==
    /\ pc[p] = "archive-chat"
    /\ IF chat[input[p].chat_id].archived
       THEN Leave(p)
       ELSE Goto(p, "archive-write") /\ UNCHANGED <<input, target, bound, stale>>
    /\ UNCHANGED <<session, chat>>

ArchiveWrite(p) ==
    /\ pc[p] = "archive-write"
    /\ UpdateChat(input[p].session_id, input[p].chat_id,
                  ArchivedRecord(input[p].chat_id))
    /\ Leave(p)

ArchiveStep(p) == ArchiveReadSession(p) \/ ArchiveReadChat(p) \/ ArchiveWrite(p)

-----------------------------------------------------------------------------
(* Operations of one section: engine.create_session, close_session,        *)
(* select_chat and create_chat, called by the MCP tools and the CLI.       *)

ManageStep ==
    /\ UNCHANGED clientVars
    /\ \E s \in Sessions :
        \* a drawn id, never a default one
        \/ /\ \A root \in Roots : DefaultSession[root] # s
           /\ \E root \in Roots : CreateSession(s, root)
        \/ CloseSession(s)
        \/ \E c \in Chats :
            \/ SelectChat(s, c)
            \/ \E independent, makeActive \in BOOLEAN :
                CreateChat(s, c, IF independent THEN "independent" ELSE "standard",
                           makeActive /\ ~independent)

\* The caller takes the resolution and goes on.
Return(p) == pc[p] = "resolved" /\ Leave(p) /\ UNCHANGED <<session, chat>>

ConvInit == StoreInit /\ ClientInit

ConvNext ==
    \/ \E p \in Clients :
        \/ \E in \in Inputs : CallResolve(p, in)
        \/ \E s \in Sessions, c \in Chats : CallArchive(p, s, c)
        \/ ResolveStep(p)
        \/ ArchiveStep(p)
        \/ Return(p)
    \/ ManageStep

ConvSpec == ConvInit /\ [][ConvNext]_convVars

-----------------------------------------------------------------------------
(* Properties.                                                             *)

\* What resolve hands to the engine is usable, whoever created the session
\* or changed it meanwhile: the chat is listed by the session of the request,
\* its file is there, and the session belongs to the request's repo_root.  A
\* temporary request gets no chat, and only a temporary one.  When a request
\* brought a conversation its chat has one, so that the final turn, which
\* reads the chat again (engine.py:279), opens no other; it is the request's
\* own unless another request replaced it, see ReplacedOnlyUnseen.
ResolutionUsable ==
    \A p \in Clients : pc[p] = "resolved" =>
        LET in == input[p]  s == SessionOf(in) IN
        /\ (target[p] = None) <=> (in.policy = "temporary")
        /\ target[p] # None =>
            /\ Stored(s, target[p]) /\ target[p] \in session[s].chat_ids
            /\ session[s].repo_root = in.repo_root
            /\ in.conversation_id # None => chat[target[p]].conversation # None

\* A conversation that requests brought is replaced by another only through
\* the gap between resolve's look at the chat and its write: by a request
\* that saw none there, with its own (conversations.py:54-63).  A request that
\* sees one, and the rewriting of the record by archive_chat, keep it.
ReplacedOnlyUnseen ==
    [][\A c \in Chats :
          chat[c] # None /\ chat[c].conversation # None
            /\ chat'[c].conversation # chat[c].conversation =>
                \E p \in Clients :
                    /\ pc[p] = "bind" /\ target[p] = c /\ bound[p] = None
                    /\ chat'[c].conversation = input[p].conversation_id]_convVars

\* "Closing a session prevents it from being resolved for new requests"
\* (docs/SESSION_ARCHITECTURE.md:76) and an archived chat is refused
\* (conversations.py:38): a request made after the close, or after the
\* chat it names was archived, is never resolved, however its sections
\* interleave with others.
StaleNotResolved ==
    \A p \in Clients : stale[p] => pc[p] \notin {"bind", "resolved"}

\* "the active chat must be changed before it can be archived"
\* (docs/SESSION_ARCHITECTURE.md:74-75).
ActiveNotArchived ==
    \A s \in Sessions : Exists(s) /\ session[s].active # None =>
        ~chat[session[s].active].archived

\* A chat owns one provider conversation: once recorded it is not replaced.
BindingIsStable ==
    [][\A c \in Chats : chat[c] # None /\ chat[c].conversation # None =>
          chat'[c].conversation = chat[c].conversation]_convVars

=============================================================================
