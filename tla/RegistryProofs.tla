---------------------------- MODULE RegistryProofs ----------------------------
(***************************************************************************)
(* What the session store and its manager guarantee for every number of    *)
(* sessions, chats, requests and callers.  The store: StoreInv is          *)
(* inductive, a closed session never changes, and nothing recorded goes    *)
(* away (RegistryGrows).  The manager: what resolve hands out is usable,   *)
(* and a request made too late is never resolved.  The lemmas about one    *)
(* step of one client do not say who the other clients are, so that        *)
(* AutomaticRunProofs uses them for runs as well.                          *)
(***************************************************************************)
EXTENDS Conversations, TLAPS

\* Rewriting one chat file with a record of the same session and kind.
LEMMA UpdateChatTypes ==
    ASSUME StoreTypeOK,
           NEW s \in Sessions, NEW c \in Chats, NEW record \in ChatRecord,
           UpdateChat(s, c, record)
    PROVE  StoreTypeOK' /\ chat'[c] = record /\ UNCHANGED session
           /\ \A d \in Chats \ {c} : chat'[d] = chat[d]
  BY DEF UpdateChat, StoreTypeOK

LEMMA RewrittenRecords ==
    ASSUME StoreTypeOK, NEW s \in Sessions, NEW c \in Chats, Stored(s, c)
    PROVE  /\ chat[c] \in ChatRecord
           /\ ArchivedRecord(c) \in ChatRecord
           /\ ArchivedRecord(c).kind = chat[c].kind
           /\ ArchivedRecord(c).session_id = s
           /\ \A v \in Conversations :
                /\ BoundRecord(c, v) \in ChatRecord
                /\ BoundRecord(c, v).kind = chat[c].kind
                /\ BoundRecord(c, v).session_id = s
           /\ \A r \in Requests :
                LET record == [chat[c] EXCEPT !.requests = @ \cup {r}] IN
                /\ record \in ChatRecord
                /\ record.kind = chat[c].kind
                /\ record.session_id = s
  <1>1. chat[c] \in ChatRecord /\ chat[c].session_id = s
    BY DEF Stored, StoreTypeOK
  <1>2. QED
    BY <1>1 DEF ArchivedRecord, BoundRecord, ChatRecord

\* A rewrite that keeps session and kind of the chat keeps the invariant.
LEMMA RewriteKeepsInv ==
    ASSUME StoreInv,
           NEW s \in Sessions, NEW c \in Chats, NEW record \in ChatRecord,
           UpdateChat(s, c, record),
           record.kind = chat[c].kind, record.session_id = s
    PROVE  StoreInv'
  <1>1. StoreTypeOK' /\ UNCHANGED session
    BY UpdateChatTypes DEF StoreInv
  <1>2. \A d \in Chats : /\ chat[d] # None => chat'[d] # None
                         /\ chat'[d].kind = chat[d].kind
                         /\ chat[d] # None => chat'[d].session_id = chat[d].session_id
    BY UpdateChatTypes, NoneAssumption DEF StoreInv, UpdateChat, Stored
  <1>3. \A t \in Sessions : Exists(t) => session[t].chat_ids \subseteq Chats
    BY DEF StoreInv, StoreTypeOK, Exists, SessionRecord
  <1>4. MembersStored'
    BY <1>1, <1>2, <1>3 DEF StoreInv, MembersStored, Stored, Exists
  <1>5. ActiveIsMember'
    BY <1>1 DEF StoreInv, ActiveIsMember, Exists
  <1>6. OneMainChat' /\ MainImpliesActive'
    BY <1>1, <1>2, <1>3 DEF StoreInv, OneMainChat, MainImpliesActive, Exists
  <1>7. QED
    BY <1>1, <1>4, <1>5, <1>6 DEF StoreInv

\* A new chat keeps the invariant, provided a main chat is only created in a
\* session without an active chat and made active.
LEMMA CreateKeepsInv ==
    ASSUME StoreInv,
           NEW s \in Sessions, NEW c \in Chats,
           NEW kind \in ChatKinds, NEW makeActive \in BOOLEAN,
           CreateChat(s, c, kind, makeActive),
           kind = "main" => makeActive /\ session[s].active = None
    PROVE  StoreInv'
  <1> DEFINE active == IF makeActive THEN c ELSE session[s].active
  <1>1. /\ StoreTypeOK'
        /\ session[s] \in SessionRecord
        /\ session'[s] \in SessionRecord
        /\ session'[s].chat_ids = session[s].chat_ids \cup {c}
        /\ session'[s].active = active
        /\ \A t \in Sessions \ {s} : session'[t] = session[t]
        /\ chat[c] = None
        /\ chat'[c] = NewChatRecord(s, kind)
        /\ \A d \in Chats \ {c} : chat'[d] = chat[d]
    <2> StoreTypeOK
      BY DEF StoreInv
    <2>1. session[s] \in SessionRecord
      BY DEF CreateChat, Open, Exists, StoreTypeOK
    <2>2. active \in Chats \cup {None}
      BY <2>1 DEF SessionRecord
    <2>3. session'[s] = [repo_root |-> session[s].repo_root, closed |-> session[s].closed,
                         chat_ids |-> session[s].chat_ids \cup {c}, active |-> active]
      BY <2>1 DEF CreateChat, LinkChat, StoreTypeOK, SessionRecord
    <2>4. session'[s] \in SessionRecord
      BY <2>1, <2>2, <2>3 DEF SessionRecord
    <2>5. NewChatRecord(s, kind) \in ChatRecord
      BY DEF NewChatRecord, ChatRecord
    <2>6. QED
      BY <2>1, <2>3, <2>4, <2>5 DEF CreateChat, LinkChat, StoreTypeOK
  <1>a. active = c \/ active = session[s].active
    OBVIOUS
  <1>b. kind = "main" => active = c /\ session[s].active = None
    OBVIOUS
  <1> HIDE DEF active
  <1>2. \A t \in Sessions : Exists(t) =>
            session[t].chat_ids \subseteq Chats /\ c \notin session[t].chat_ids
    BY <1>1 DEF StoreInv, StoreTypeOK, MembersStored, Exists, Stored, SessionRecord
  <1>3. chat'[c] # None /\ chat'[c].session_id = s /\ chat'[c].kind = kind
    <2>1. NewChatRecord(s, kind) \in ChatRecord
      BY DEF NewChatRecord, ChatRecord
    <2>2. NewChatRecord(s, kind) # None
      BY <2>1, NoneAssumption
    <2>3. QED
      BY <1>1, <2>2 DEF NewChatRecord
  <1>4. Exists(s) /\ Exists(s)'
    BY <1>1, NoneAssumption DEF Exists
  <1>5. MembersStored'
    BY <1>1, <1>2, <1>3, <1>4 DEF StoreInv, MembersStored, Stored, Exists
  <1>6. ActiveIsMember'
    BY <1>1, <1>a, <1>4 DEF StoreInv, ActiveIsMember, Exists
  <1>7. OneMainChat'
    <2> SUFFICES ASSUME NEW t \in Sessions, Exists(t)',
                        NEW d \in session'[t].chat_ids, NEW e \in session'[t].chat_ids,
                        chat'[d].kind = "main", chat'[e].kind = "main"
                 PROVE  d = e
      BY DEF OneMainChat
    <2>1. CASE t = s
      BY <2>1, <1>1, <1>b, <1>2, <1>3, <1>4
      DEF StoreInv, OneMainChat, MainImpliesActive
    <2>2. CASE t # s
      BY <2>2, <1>1, <1>2 DEF StoreInv, OneMainChat, Exists
    <2>3. QED
      BY <2>1, <2>2
  <1>8. MainImpliesActive'
    <2> SUFFICES ASSUME NEW t \in Sessions, Exists(t)', session'[t].active = None,
                        NEW d \in session'[t].chat_ids
                 PROVE  chat'[d].kind # "main"
      BY DEF MainImpliesActive
    <2>1. CASE t = s
      BY <2>1, <1>1, <1>a, <1>b, <1>2, <1>3, <1>4, NoneAssumption
      DEF StoreInv, MainImpliesActive
    <2>2. CASE t # s
      BY <2>2, <1>1, <1>2 DEF StoreInv, MainImpliesActive, Exists
    <2>3. QED
      BY <2>1, <2>2
  <1>9. QED
    BY <1>1, <1>5, <1>6, <1>7, <1>8 DEF StoreInv

\* An orphan chat file: no session lists it, so the invariant does not see it.
LEMMA OrphanKeepsInv ==
    ASSUME StoreInv,
           NEW s \in Sessions, NEW c \in Chats, NEW kind \in ChatKinds,
           WriteChatFile(s, c, kind)
    PROVE  StoreInv'
  <1>1. NewChatRecord(s, kind) \in ChatRecord
    BY DEF NewChatRecord, ChatRecord
  <1>2. StoreTypeOK' /\ UNCHANGED session
    BY <1>1 DEF StoreInv, StoreTypeOK, WriteChatFile
  <1>3. \A t \in Sessions : Exists(t) =>
            \A d \in session[t].chat_ids : d \in Chats /\ d # c
    BY DEF StoreInv, StoreTypeOK, MembersStored, Stored, Exists, SessionRecord, WriteChatFile
  <1>4. \A d \in Chats : d # c => chat'[d] = chat[d]
    BY DEF StoreInv, StoreTypeOK, WriteChatFile
  <1>5. MembersStored' /\ ActiveIsMember' /\ OneMainChat' /\ MainImpliesActive'
    BY <1>2, <1>3, <1>4
    DEF StoreInv, MembersStored, ActiveIsMember, OneMainChat, MainImpliesActive, Stored, Exists
  <1>6. QED
    BY <1>2, <1>5 DEF StoreInv

\* A section that leaves the chat files and every chat list alone, and moves
\* the active chat to None of a new session or to a listed chat.
LEMMA SessionWriteKeepsInv ==
    ASSUME StoreInv,
           NEW s \in Sessions, NEW record \in SessionRecord,
           session' = [session EXCEPT ![s] = record], UNCHANGED chat,
           IF Exists(s) THEN /\ record.chat_ids = session[s].chat_ids
                             /\ \/ record.active = session[s].active
                                \/ record.active \in session[s].chat_ids
                        ELSE record.chat_ids = {} /\ record.active = None
    PROVE  StoreInv'
  <1>1. StoreTypeOK'
    BY DEF StoreInv, StoreTypeOK
  <1>2. session'[s] = record /\ \A t \in Sessions \ {s} : session'[t] = session[t]
    BY DEF StoreInv, StoreTypeOK
  <1>3. MembersStored'
    BY <1>2 DEF StoreInv, MembersStored, Stored, Exists
  <1>4. ActiveIsMember'
    BY <1>2 DEF StoreInv, ActiveIsMember, Exists
  <1>5. OneMainChat'
    BY <1>2 DEF StoreInv, OneMainChat, Exists
  <1>6. MainImpliesActive'
    <2> SUFFICES ASSUME NEW t \in Sessions, Exists(t)', session'[t].active = None,
                        NEW d \in session'[t].chat_ids
                 PROVE  chat[d].kind # "main"
      BY DEF MainImpliesActive
    <2>1. CASE t # s
      BY <2>1, <1>2 DEF StoreInv, MainImpliesActive, Exists
    <2>2. CASE t = s /\ ~Exists(s)
      BY <2>2, <1>2
    <2>3. CASE t = s /\ Exists(s)
      <3>1. session[s].chat_ids \subseteq Chats
        BY <2>3 DEF StoreInv, StoreTypeOK, Exists, SessionRecord
      <3>2. session[s].active = None
        BY <2>3, <3>1, <1>2, NoneAssumption
      <3>3. QED
        BY <2>3, <3>2, <1>2 DEF StoreInv, MainImpliesActive
    <2>4. QED
      BY <2>1, <2>2, <2>3
  <1>7. QED
    BY <1>1, <1>3, <1>4, <1>5, <1>6 DEF StoreInv

\* StoreInv holds initially and every section keeps it.
LEMMA StoreInvInductive ==
    /\ StoreInit => StoreInv
    /\ StoreInv /\ [StoreNext]_storeVars => StoreInv'
  <1>1. StoreInit => StoreInv
    BY DEF StoreInit, StoreInv, StoreTypeOK, MembersStored, ActiveIsMember,
           OneMainChat, MainImpliesActive, Exists
  <1>2. ASSUME StoreInv, [StoreNext]_storeVars PROVE StoreInv'
    <2> USE <1>2
    <2> StoreTypeOK
      BY DEF StoreInv
    <2>1. ASSUME NEW s \in Sessions, NEW root \in Roots, CreateSession(s, root)
          PROVE  StoreInv'
      <3> DEFINE record == [repo_root |-> root, closed |-> FALSE,
                            chat_ids |-> {}, active |-> None]
      <3>1. record \in SessionRecord
        BY DEF SessionRecord
      <3>2. ~Exists(s) /\ session' = [session EXCEPT ![s] = record] /\ UNCHANGED chat
        BY <2>1 DEF CreateSession
      <3>3. record.chat_ids = {} /\ record.active = None
        OBVIOUS
      <3> HIDE DEF record
      <3>4. QED
        BY <3>1, <3>2, <3>3, SessionWriteKeepsInv
    <2>2. ASSUME NEW s \in Sessions, CloseSession(s)
          PROVE  StoreInv'
      <3> DEFINE record == [session[s] EXCEPT !.closed = TRUE]
      <3>1. Exists(s) /\ session[s] \in SessionRecord
        BY <2>2 DEF CloseSession, Exists, StoreTypeOK
      <3>2. /\ record \in SessionRecord
            /\ record.chat_ids = session[s].chat_ids
            /\ record.active = session[s].active
        BY <3>1 DEF SessionRecord
      <3>3. session' = [session EXCEPT ![s] = record] /\ UNCHANGED chat
        BY <2>2 DEF CloseSession
      <3> HIDE DEF record
      <3>4. QED
        BY <3>1, <3>2, <3>3, SessionWriteKeepsInv
    <2>3. ASSUME NEW s \in Sessions, NEW c \in Chats, NEW kind \in ChatKinds,
                 WriteChatFile(s, c, kind)
          PROVE  StoreInv'
      BY <2>3, OrphanKeepsInv
    <2>4. ASSUME NEW s \in Sessions, NEW c \in Chats,
                 NEW kind \in {"standard", "independent"}, NEW makeActive \in BOOLEAN,
                 CreateChat(s, c, kind, makeActive)
          PROVE  StoreInv'
      <3>1. kind \in ChatKinds /\ kind # "main"
        BY DEF ChatKinds
      <3>2. QED
        BY <2>4, <3>1, CreateKeepsInv
    <2>5. ASSUME NEW s \in Sessions, NEW c \in Chats, CreateMainChat(s, c)
          PROVE  StoreInv'
      <3>1. CreateChat(s, c, "main", TRUE) /\ session[s].active = None
        BY <2>5 DEF CreateMainChat
      <3>2. "main" \in ChatKinds
        BY DEF ChatKinds
      <3>3. QED
        BY <3>1, <3>2, CreateKeepsInv
    <2>6. ASSUME NEW s \in Sessions, NEW c \in Chats, SelectChat(s, c)
          PROVE  StoreInv'
      <3> DEFINE record == [session[s] EXCEPT !.active = c]
      <3>1. Exists(s) /\ session[s] \in SessionRecord
        BY <2>6 DEF SelectChat, Open, Exists, StoreTypeOK
      <3>2. /\ record \in SessionRecord
            /\ record.chat_ids = session[s].chat_ids
            /\ record.active = c /\ c \in session[s].chat_ids
        BY <2>6, <3>1 DEF SessionRecord, SelectChat, Selectable
      <3>3. session' = [session EXCEPT ![s] = record] /\ UNCHANGED chat
        BY <2>6 DEF SelectChat
      <3> HIDE DEF record
      <3>4. QED
        BY <3>1, <3>2, <3>3, SessionWriteKeepsInv
    <2>7. ASSUME NEW s \in Sessions, NEW c \in Chats, UpdateChat(s, c, ArchivedRecord(c))
          PROVE  StoreInv'
      <3>1. Stored(s, c)
        BY <2>7 DEF UpdateChat
      <3>2. QED
        BY <2>7, <3>1, RewrittenRecords, RewriteKeepsInv
    <2>8. ASSUME NEW s \in Sessions, NEW c \in Chats, NEW v \in Conversations,
                 UpdateChat(s, c, BoundRecord(c, v))
          PROVE  StoreInv'
      <3>1. Stored(s, c)
        BY <2>8 DEF UpdateChat
      <3>2. QED
        BY <2>8, <3>1, RewrittenRecords, RewriteKeepsInv
    <2>9. ASSUME NEW s \in Sessions, NEW c \in Chats, NEW r \in Requests,
                 AppendRequest(s, c, r)
          PROVE  StoreInv'
      <3> DEFINE record == [chat[c] EXCEPT !.requests = @ \cup {r}]
      <3>1. Stored(s, c) /\ UpdateChat(s, c, record)
        BY <2>9 DEF AppendRequest, UpdateChat
      <3>2. record \in ChatRecord /\ record.kind = chat[c].kind /\ record.session_id = s
        BY <3>1, RewrittenRecords
      <3> HIDE DEF record
      <3>3. QED
        BY <3>1, <3>2, RewriteKeepsInv
    <2>10. CASE UNCHANGED storeVars
      BY <2>10 DEF storeVars, StoreInv, StoreTypeOK, MembersStored, ActiveIsMember,
                   OneMainChat, MainImpliesActive, Exists, Stored
    <2>11. QED
      BY <2>1, <2>2, <2>3, <2>4, <2>5, <2>6, <2>7, <2>8, <2>9, <2>10 DEF StoreNext
  <1>3. QED
    BY <1>1, <1>2

-----------------------------------------------------------------------------
(* What is recorded stays recorded.                                        *)

SessionGrows(s) ==
    Exists(s) =>
        /\ Exists(s)'
        /\ session'[s].repo_root = session[s].repo_root
        /\ session[s].chat_ids \subseteq session'[s].chat_ids
        /\ session[s].closed => session'[s].closed

ChatGrows(c) ==
    chat[c] # None =>
        /\ chat'[c] # None
        /\ chat'[c].session_id = chat[c].session_id
        /\ chat[c].archived => chat'[c].archived
        /\ chat[c].requests \subseteq chat'[c].requests
        /\ chat[c].conversation # None => chat'[c].conversation # None

\* A session rewritten with a record that keeps the first one's root, chats
\* and close.
LEMMA SessionRewriteGrows ==
    ASSUME StoreInv, NEW s \in Sessions, NEW record \in SessionRecord,
           session' = [session EXCEPT ![s] = record],
           Exists(s) => /\ record.repo_root = session[s].repo_root
                        /\ session[s].chat_ids \subseteq record.chat_ids
                        /\ session[s].closed => record.closed
    PROVE  \A t \in Sessions : SessionGrows(t)
  <1>1. session'[s] = record /\ \A t \in Sessions \ {s} : session'[t] = session[t]
    BY DEF StoreInv, StoreTypeOK
  <1>2. QED
    BY <1>1, NoneAssumption DEF SessionGrows, Exists

\* A chat file created, or rewritten with a record that keeps what matters.
LEMMA ChatRewriteGrows ==
    ASSUME StoreInv, NEW c \in Chats, NEW record \in ChatRecord,
           chat' = [chat EXCEPT ![c] = record],
           chat[c] # None => /\ record.session_id = chat[c].session_id
                             /\ chat[c].archived => record.archived
                             /\ chat[c].requests \subseteq record.requests
                             /\ chat[c].conversation # None => record.conversation # None
    PROVE  \A d \in Chats : ChatGrows(d)
  <1>1. chat'[c] = record /\ \A d \in Chats \ {c} : chat'[d] = chat[d]
    BY DEF StoreInv, StoreTypeOK
  <1>2. QED
    BY <1>1, NoneAssumption DEF ChatGrows

\* No section removes a session, a chat, a member, a request or a close.
LEMMA RegistryGrows ==
    ASSUME StoreInv, [StoreNext]_storeVars
    PROVE  (\A s \in Sessions : SessionGrows(s)) /\ (\A c \in Chats : ChatGrows(c))
  <1> DEFINE Grow == (\A s \in Sessions : SessionGrows(s)) /\ (\A c \in Chats : ChatGrows(c))
  <1>0. StoreTypeOK
    BY DEF StoreInv
  <1>a. UNCHANGED session => \A s \in Sessions : SessionGrows(s)
    BY DEF SessionGrows, Exists
  <1>b. UNCHANGED chat => \A c \in Chats : ChatGrows(c)
    BY DEF ChatGrows
  <1>1. ASSUME NEW s \in Sessions, NEW root \in Roots, CreateSession(s, root)
        PROVE  Grow
    <2> DEFINE record == [repo_root |-> root, closed |-> FALSE,
                          chat_ids |-> {}, active |-> None]
    <2>1. record \in SessionRecord
      BY DEF SessionRecord
    <2>2. ~Exists(s) /\ session' = [session EXCEPT ![s] = record] /\ UNCHANGED chat
      BY <1>1 DEF CreateSession
    <2> HIDE DEF record
    <2>3. QED
      BY <1>b, <2>1, <2>2, SessionRewriteGrows
  <1>2. ASSUME NEW s \in Sessions, CloseSession(s)
        PROVE  Grow
    <2> DEFINE record == [session[s] EXCEPT !.closed = TRUE]
    <2>1. session[s] \in SessionRecord
      BY <1>0, <1>2 DEF CloseSession, Exists, StoreTypeOK
    <2>2. /\ record \in SessionRecord /\ record.closed
          /\ record.chat_ids = session[s].chat_ids /\ record.repo_root = session[s].repo_root
      BY <2>1 DEF SessionRecord
    <2>3. session' = [session EXCEPT ![s] = record] /\ UNCHANGED chat
      BY <1>2 DEF CloseSession
    <2> HIDE DEF record
    <2>4. QED
      BY <1>b, <2>2, <2>3, SessionRewriteGrows
  <1>3. ASSUME NEW s \in Sessions, NEW c \in Chats, SelectChat(s, c)
        PROVE  Grow
    <2> DEFINE record == [session[s] EXCEPT !.active = c]
    <2>1. session[s] \in SessionRecord
      BY <1>0, <1>3 DEF SelectChat, Open, Exists, StoreTypeOK
    <2>2. /\ record \in SessionRecord /\ record.closed = session[s].closed
          /\ record.chat_ids = session[s].chat_ids /\ record.repo_root = session[s].repo_root
      BY <2>1 DEF SessionRecord
    <2>3. session' = [session EXCEPT ![s] = record] /\ UNCHANGED chat
      BY <1>3 DEF SelectChat
    <2> HIDE DEF record
    <2>4. QED
      BY <1>b, <2>2, <2>3, SessionRewriteGrows
  <1>4. ASSUME NEW s \in Sessions, NEW c \in Chats, NEW kind \in ChatKinds,
               chat[c] = None, chat' = [chat EXCEPT ![c] = NewChatRecord(s, kind)]
        PROVE  \A d \in Chats : ChatGrows(d)
    <2>1. NewChatRecord(s, kind) \in ChatRecord
      BY DEF NewChatRecord, ChatRecord
    <2>2. QED
      BY <1>4, <2>1, ChatRewriteGrows
  <1>5. ASSUME NEW s \in Sessions, NEW c \in Chats, NEW kind \in ChatKinds,
               WriteChatFile(s, c, kind)
        PROVE  Grow
    BY <1>a, <1>4, <1>5 DEF WriteChatFile
  <1>6. ASSUME NEW s \in Sessions, NEW c \in Chats, NEW kind \in ChatKinds, NEW makeActive \in BOOLEAN,
               CreateChat(s, c, kind, makeActive)
        PROVE  Grow
    <2> DEFINE active == IF makeActive THEN c ELSE session[s].active
               record == [session[s] EXCEPT !.chat_ids = @ \cup {c}, !.active = active]
    <2>1. session[s] \in SessionRecord
      BY <1>0, <1>6 DEF CreateChat, Open, Exists, StoreTypeOK
    <2>2. active \in Chats \cup {None}
      BY <2>1 DEF SessionRecord
    <2>3. session' = [session EXCEPT ![s] = record]
      BY <1>0, <1>6 DEF CreateChat, LinkChat, StoreTypeOK
    <2> HIDE DEF active
    <2>4. /\ record \in SessionRecord /\ record.closed = session[s].closed
          /\ record.chat_ids = session[s].chat_ids \cup {c} /\ record.repo_root = session[s].repo_root
      BY <2>1, <2>2 DEF SessionRecord
    <2> HIDE DEF record
    <2>5. QED
      BY <1>4, <1>6, <2>3, <2>4, SessionRewriteGrows DEF CreateChat
  <1>7. ASSUME NEW s \in Sessions, NEW c \in Chats, NEW record \in ChatRecord, UpdateChat(s, c, record),
               record.session_id = s, chat[c].archived => record.archived,
               chat[c].requests \subseteq record.requests,
               chat[c].conversation # None => record.conversation # None
        PROVE  Grow
    BY <1>a, <1>7, ChatRewriteGrows DEF UpdateChat, Stored
  <1>8. ASSUME NEW s \in Sessions, NEW c \in Chats, Stored(s, c)
        PROVE  /\ ArchivedRecord(c).archived /\ ArchivedRecord(c).requests = chat[c].requests
               /\ ArchivedRecord(c).conversation = chat[c].conversation
               /\ \A v \in Conversations : /\ BoundRecord(c, v).archived = chat[c].archived
                                           /\ BoundRecord(c, v).requests = chat[c].requests
                                           /\ BoundRecord(c, v).conversation # None
               /\ \A r \in Requests :
                    LET record == [chat[c] EXCEPT !.requests = @ \cup {r}] IN
                    /\ record.archived = chat[c].archived /\ record.requests = chat[c].requests \cup {r}
                    /\ record.conversation = chat[c].conversation
    BY <1>0, <1>8, RewrittenRecords, NoneAssumption DEF ArchivedRecord, BoundRecord, ChatRecord
  <1>9. ASSUME NEW s \in Sessions, NEW c \in Chats, UpdateChat(s, c, ArchivedRecord(c))
        PROVE  Grow
    <2>1. Stored(s, c)
      BY <1>9 DEF UpdateChat
    <2>2. ArchivedRecord(c) \in ChatRecord /\ ArchivedRecord(c).session_id = s
      BY <1>0, <2>1, RewrittenRecords
    <2>3. /\ ArchivedRecord(c).archived /\ ArchivedRecord(c).requests = chat[c].requests
          /\ ArchivedRecord(c).conversation = chat[c].conversation
      BY <1>8, <2>1
    <2>4. QED
      BY <1>7, <1>9, <2>2, <2>3
  <1>10. ASSUME NEW s \in Sessions, NEW c \in Chats, NEW v \in Conversations,
                UpdateChat(s, c, BoundRecord(c, v))
         PROVE  Grow
    <2>1. Stored(s, c)
      BY <1>10 DEF UpdateChat
    <2>2. BoundRecord(c, v) \in ChatRecord /\ BoundRecord(c, v).session_id = s
      BY <1>0, <2>1, RewrittenRecords
    <2>3. /\ BoundRecord(c, v).archived = chat[c].archived /\ BoundRecord(c, v).requests = chat[c].requests
          /\ BoundRecord(c, v).conversation # None
      BY <1>8, <2>1
    <2>4. QED
      BY <1>7, <1>10, <2>2, <2>3
  <1>11. ASSUME NEW s \in Sessions, NEW c \in Chats, NEW r \in Requests, AppendRequest(s, c, r)
         PROVE  Grow
    <2> DEFINE record == [chat[c] EXCEPT !.requests = @ \cup {r}]
    <2>1. Stored(s, c) /\ UpdateChat(s, c, record)
      BY <1>11 DEF AppendRequest, UpdateChat
    <2>2. record \in ChatRecord /\ record.session_id = s
      BY <1>0, <2>1, RewrittenRecords
    <2>3. /\ record.archived = chat[c].archived /\ record.requests = chat[c].requests \cup {r}
          /\ record.conversation = chat[c].conversation
      BY <1>8, <2>1
    <2> HIDE DEF record
    <2>4. QED
      BY <1>7, <2>1, <2>2, <2>3
  <1>12. UNCHANGED storeVars => Grow
    BY <1>a, <1>b DEF storeVars
  <1>13. {"standard", "independent", "main"} \subseteq ChatKinds
    BY DEF ChatKinds
  <1> HIDE DEF Grow
  <1>14. Grow
    BY <1>1, <1>2, <1>3, <1>5, <1>6, <1>9, <1>10, <1>11, <1>12, <1>13 DEF StoreNext, CreateMainChat
  <1>15. QED
    BY <1>14 DEF Grow

-----------------------------------------------------------------------------
(* The theorems about the store.                                           *)

\* Type correctness of both files of the registry.
THEOREM StoreTypeCorrect == StoreSpec => []StoreTypeOK
  <1>1. StoreInv => StoreTypeOK
    BY DEF StoreInv
  <1>2. QED
    BY <1>1, StoreInvInductive, PTL DEF StoreSpec

\* No crash and no order of sections makes a session list a chat that cannot
\* be read, activate a chat it does not list, or have a second main chat.
THEOREM RegistryAlwaysConsistent == StoreSpec => []RegistryConsistent
  <1>1. StoreInv => RegistryConsistent
    BY DEF StoreInv, RegistryConsistent
  <1>2. QED
    BY <1>1, StoreInvInductive, PTL DEF StoreSpec

\* No section changes a session once it is closed.
THEOREM ClosedStaysFrozen == StoreSpec => ClosedIsFrozen
  <1> DEFINE Frozen == \A s \in Sessions : Exists(s) /\ session[s].closed => session'[s] = session[s]
  <1>1. ASSUME StoreInv, [StoreNext]_storeVars PROVE [Frozen]_storeVars
    <2> SUFFICES ASSUME StoreNext, NEW t \in Sessions, Exists(t), session[t].closed
                 PROVE  session'[t] = session[t]
      BY <1>1
    <2> session \in [Sessions -> SessionRecord \cup {None}] /\ session[t] \in SessionRecord
      BY <1>1 DEF StoreInv, StoreTypeOK, Exists
    <2>1. PICK s \in Sessions :
             \/ UNCHANGED session
             \/ ~Exists(s) /\ \E record : session' = [session EXCEPT ![s] = record]
             \/ Open(s) /\ \E record : session' = [session EXCEPT ![s] = record]
             \/ CloseSession(s)
      <3>1. ASSUME NEW s \in Sessions, NEW c \in Chats, NEW kind, NEW makeActive,
                   CreateChat(s, c, kind, makeActive)
            PROVE  Open(s) /\ \E record : session' = [session EXCEPT ![s] = record]
        BY <3>1 DEF CreateChat, LinkChat
      <3>2. QED
        BY <3>1 DEF StoreNext, CreateSession, WriteChatFile, CreateMainChat, SelectChat,
                    UpdateChat, AppendRequest
    <2>2. CASE CloseSession(s)
      <3>1. [session[t] EXCEPT !.closed = TRUE] = session[t]
        BY DEF SessionRecord
      <3>2. QED
        BY <2>2, <3>1 DEF CloseSession
    <2>3. QED
      BY <2>1, <2>2 DEF Open
  <1>2. QED
    BY <1>1, StoreInvInductive, PTL DEF StoreSpec, ClosedIsFrozen

-----------------------------------------------------------------------------
(* ConversationManager: what a client that resolves a request may rely on. *)

\* The steps before a request is resolved.
Asking == {"exists", "create", "get", "pick", "bind"}

\* What is known of the local variables whatever the client does.
LocalsTyped ==
    /\ \E Labels : pc \in [Clients -> Labels]
    /\ \E Things : input \in [Clients -> Things]
    /\ target \in [Clients -> Chats \cup {None}]
    /\ bound \in [Clients -> Conversations \cup {None}]
    /\ stale \in [Clients -> BOOLEAN]

\* The request is one a client may make, and the chat it names is one that
\* some session lists.
Asked(p) ==
    pc[p] \in Asking \cup {"resolved"} =>
        /\ input[p] \in Inputs
        /\ input[p].chat_id # None => Nameable(input[p].chat_id)
        /\ pc[p] # "resolved" => input[p].policy # "temporary"

\* The chat found is one of the request's session, in its repo_root.
Delivered(p) ==
    LET in == input[p]  s == SessionOf(in) IN
    /\ target[p] # None
    /\ Exists(s) /\ session[s].repo_root = in.repo_root
    /\ Stored(s, target[p]) /\ target[p] \in session[s].chat_ids

\* How far the resolution is.
Progress(p) ==
    LET in == input[p]  s == SessionOf(in) IN
    /\ pc[p] \in {"idle", "exists", "create", "get", "pick"} => target[p] = None
    /\ pc[p] \in {"get", "pick"} => Exists(s)
    /\ pc[p] = "pick" => session[s].repo_root = in.repo_root
    /\ pc[p] = "bind" => Delivered(p) /\ in.conversation_id # None /\ bound[p] = None
    /\ pc[p] = "resolved" =>
        IF in.policy = "temporary" THEN target[p] = None
        ELSE /\ Delivered(p)
             /\ in.conversation_id # None => chat[target[p]].conversation # None

NamesClosed(in) == Exists(SessionOf(in)) /\ session[SessionOf(in)].closed

NamesArchived(in) ==
    in.chat_id # None /\ chat[in.chat_id] # None /\ chat[in.chat_id].archived

\* Why a request made too late is still not refused: its closed session is
\* about to be read, or its archived chat is.
StaleKnown(p) ==
    stale[p] /\ pc[p] \in Asking \cup {"resolved"} =>
        \/ pc[p] \in {"exists", "get"} /\ NamesClosed(input[p])
        \/ pc[p] \in {"exists", "create", "get", "pick"} /\ NamesArchived(input[p])

ClientOK(p) == Asked(p) /\ Progress(p) /\ StaleKnown(p)

\* The session a request names or defaults to.
LEMMA SessionOfType ==
    ASSUME NEW in \in Inputs
    PROVE  /\ in \in Request
           /\ SessionOf(in) \in Sessions
           /\ in.policy \in Policies
           /\ in.chat_id \in Chats \cup {None}
           /\ in.conversation_id \in Conversations \cup {None}
           /\ in.repo_root \in Roots
  <1>1. in \in Request
    BY InputsAssumption
  <1>2. QED
    BY <1>1, DefaultSessionAssumption DEF Request, SessionOf

\* A chat somebody can name has a file.
LEMMA NameableStored ==
    ASSUME StoreInv, NEW c \in Chats, Nameable(c)
    PROVE  chat[c] # None
  BY DEF StoreInv, MembersStored, Nameable, Stored

\* Steps of others: what a client relies on stays true.
LEMMA ClientPersists ==
    ASSUME StoreInv, [StoreNext]_storeVars, LocalsTyped, NEW p \in Clients, ClientOK(p),
           pc'[p] = pc[p], input'[p] = input[p], target'[p] = target[p],
           bound'[p] = bound[p], stale'[p] = stale[p]
    PROVE  ClientOK(p)'
  <1> DEFINE in == input[p]  s == SessionOf(in)
  <1>1. /\ \A t \in Sessions : SessionGrows(t)
        /\ \A c \in Chats : ChatGrows(c)
    BY RegistryGrows
  <1>2. pc[p] \in Asking \cup {"resolved"} =>
            in \in Inputs /\ s \in Sessions /\ in.chat_id \in Chats \cup {None}
    BY SessionOfType DEF ClientOK, Asked
  <1>3. target[p] \in Chats \cup {None}
    BY DEF LocalsTyped
  <1>4. \A t \in Sessions : Exists(t) => session[t].chat_ids \subseteq Chats
    BY DEF StoreInv, StoreTypeOK, Exists, SessionRecord
  <1>5. SessionOf(input[p])' = s
    BY DEF SessionOf
  <1>6. Asked(p)'
    <2>1. \A c \in Chats : Nameable(c) => Nameable(c)'
      BY <1>1 DEF SessionGrows, Nameable
    <2>2. QED
      BY <1>2, <2>1 DEF ClientOK, Asked
  <1>7. pc[p] \in {"bind", "resolved"} /\ Delivered(p) => Delivered(p)'
    BY <1>1, <1>2, <1>3, <1>5 DEF Delivered, SessionGrows, ChatGrows, Stored, Asking
  <1>8. Progress(p)'
    <2>1. Delivered(p) /\ chat[target[p]].conversation # None => chat'[target[p]].conversation # None
      BY <1>1, <1>3 DEF Delivered, ChatGrows, Stored
    <2>2. QED
      BY <1>1, <1>2, <1>5, <1>7, <2>1 DEF ClientOK, Progress, SessionGrows, Asking
  <1>9. StaleKnown(p)'
    BY <1>1, <1>2, <1>5, NoneAssumption
    DEF ClientOK, StaleKnown, NamesClosed, NamesArchived, SessionGrows, ChatGrows
  <1>10. QED
    BY <1>6, <1>8, <1>9 DEF ClientOK

LEMMA ManageIsStoreStep ==
    ASSUME ManageStep
    PROVE  [StoreNext]_storeVars
  <1>1. PICK s \in Sessions :
            \/ \E root \in Roots : CreateSession(s, root)
            \/ CloseSession(s)
            \/ \E c \in Chats :
                \/ SelectChat(s, c)
                \/ \E independent, makeActive \in BOOLEAN :
                    CreateChat(s, c, IF independent THEN "independent" ELSE "standard",
                               makeActive /\ ~independent)
    BY DEF ManageStep
  <1>2. CASE \E root \in Roots : CreateSession(s, root)
    BY <1>2 DEF StoreNext
  <1>3. CASE CloseSession(s)
    BY <1>3 DEF StoreNext
  <1>4. ASSUME NEW c \in Chats, SelectChat(s, c) PROVE StoreNext
    BY <1>4 DEF StoreNext
  <1>5. ASSUME NEW c \in Chats, NEW independent \in BOOLEAN, NEW makeActive \in BOOLEAN,
               CreateChat(s, c, IF independent THEN "independent" ELSE "standard",
                          makeActive /\ ~independent)
        PROVE  StoreNext
    <2>1. PICK kind \in {"standard", "independent"}, active \in BOOLEAN :
             CreateChat(s, c, kind, active)
      BY <1>5
    <2>2. QED
      BY <2>1 DEF StoreNext
  <1>6. QED
    BY <1>1, <1>2, <1>3, <1>4, <1>5

LEMMA ResolveIsStoreStep ==
    ASSUME LocalsTyped, NEW p \in Clients, ClientOK(p), ResolveStep(p)
    PROVE  [StoreNext]_storeVars
  <1>1. input[p] \in Inputs
    BY DEF ClientOK, Asked, Asking, ResolveStep, EnsureExists, EnsureCreate, EnsureGet, PickNamed,
           PickNew, PickMain, PickClosed, BindExplicit, DieCreating
  <1> DEFINE s == SessionOf(input[p])
  <1>2. s \in Sessions /\ input[p].repo_root \in Roots /\ input[p].policy \in Policies
    BY <1>1, SessionOfType
  <1> HIDE DEF s
  <1>3. CASE EnsureExists(p) \/ EnsureGet(p) \/ PickNamed(p) \/ PickClosed(p)
    BY <1>3 DEF EnsureExists, EnsureGet, PickNamed, PickClosed, storeVars
  <1>4. CASE EnsureCreate(p)
    BY <1>2, <1>4 DEF EnsureCreate, StoreNext, storeVars, s
  <1>5. CASE PickNew(p)
    <2>1. PICK c \in Chats : \/ CreateChat(s, c, "standard", TRUE)
                             \/ CreateChat(s, c, "independent", FALSE)
      BY <1>5 DEF PickNew, s
    <2>2. QED
      BY <2>1, <1>2 DEF StoreNext
  <1>6. CASE PickMain(p)
    BY <1>2, <1>6 DEF PickMain, StoreNext, storeVars, s
  <1>7. CASE BindExplicit(p)
    <2>1. target[p] \in Chats /\ input[p].conversation_id \in Conversations
      BY <1>1, <1>7, SessionOfType DEF BindExplicit, ClientOK, Progress, Delivered, LocalsTyped
    <2>2. QED
      BY <1>2, <1>7, <2>1 DEF BindExplicit, StoreNext, s
  <1>8. CASE DieCreating(p)
    <2>1. PICK c \in Chats, kind \in ChatKinds : WriteChatFile(s, c, kind)
      BY <1>8 DEF DieCreating, ChatKinds, s
    <2>2. QED
      BY <2>1, <1>2 DEF StoreNext
  <1>9. QED
    BY <1>3, <1>4, <1>5, <1>6, <1>7, <1>8 DEF ResolveStep

\* The two ends of looking for a chat.
LEMMA LeaveKeepsOK ==
    ASSUME LocalsTyped, NEW p \in Clients, Leave(p)
    PROVE  ClientOK(p)'
  <1>1. pc'[p] = "idle" /\ target'[p] = None
    BY DEF Leave, Goto, LocalsTyped
  <1>2. QED
    BY <1>1 DEF ClientOK, Asked, Asking, Progress, StaleKnown

LEMMA FoundKeepsOK ==
    ASSUME LocalsTyped, NEW p \in Clients, NEW c \in Chats, NEW v, Found(p, c, v),
           NEW in \in Inputs, in = input[p], NEW s \in Sessions, s = SessionOf(in),
           in.policy # "temporary", ~stale[p],
           in.chat_id # None => Nameable(in.chat_id)',
           Exists(s)', session'[s].repo_root = in.repo_root,
           Stored(s, c)', c \in session'[s].chat_ids,
           v # None => chat'[c].conversation = v
    PROVE  ClientOK(p)'
  <1>1. CASE Leave(p)
    BY <1>1, LeaveKeepsOK
  <1>2. CASE ~Leave(p)
    <2>1. /\ target'[p] = c /\ bound'[p] = v
          /\ pc'[p] = IF in.conversation_id # None /\ v = None THEN "bind" ELSE "resolved"
          /\ input'[p] = in /\ stale'[p] = stale[p]
          /\ in.conversation_id = None \/ v = None \/ v = in.conversation_id
      BY <1>2 DEF Found, Goto, LocalsTyped
    <2>2. SessionOf(input[p])' = s /\ c # None
      BY <2>1, NoneAssumption DEF SessionOf
    <2>3. Delivered(p)'
      BY <2>1, <2>2 DEF Delivered, Stored
    <2>4. Asked(p)' /\ StaleKnown(p)'
      BY <2>1 DEF Asked, StaleKnown
    <2>5. Progress(p)'
      BY <2>1, <2>3 DEF Progress
    <2>6. QED
      BY <2>4, <2>5 DEF ClientOK
  <1>3. QED
    BY <1>1, <1>2

\* A request is made: what it names is remembered.
LEMMA CallKeepsOK ==
    ASSUME StoreInv, LocalsTyped, NEW p \in Clients, ClientOK(p), NEW in \in Inputs, CallResolve(p, in)
    PROVE  ClientOK(p)'
  <1>1. /\ pc[p] = "idle" /\ input'[p] = in /\ target'[p] = target[p]
        /\ pc'[p] = IF in.policy = "temporary" THEN "resolved" ELSE "exists"
        /\ in.chat_id # None => Nameable(in.chat_id)
        /\ UNCHANGED <<session, chat>>
    BY DEF CallResolve, Goto, LocalsTyped
  <1>2. /\ in.policy = "temporary" => ~stale'[p]
        /\ stale'[p] => NamesClosed(in) \/ NamesArchived(in)
    <2>1. stale'[p] = (\/ in.policy # "temporary" /\ Exists(SessionOf(in)) /\ session[SessionOf(in)].closed
                       \/ in.policy # "temporary" /\ in.chat_id # None /\ chat[in.chat_id].archived)
      BY DEF CallResolve, LocalsTyped
    <2>2. in.chat_id # None => chat[in.chat_id] # None
      BY <1>1, NameableStored, SessionOfType
    <2>3. QED
      BY <2>1, <2>2 DEF NamesClosed, NamesArchived
  <1>3. Asked(p)'
    BY <1>1 DEF Asked, Asking, Nameable, Exists
  <1>4. Progress(p)'
    BY <1>1 DEF Progress, ClientOK
  <1>5. StaleKnown(p)'
    BY <1>1, <1>2 DEF StaleKnown, NamesClosed, NamesArchived, SessionOf, Exists
  <1>6. QED
    BY <1>3, <1>4, <1>5 DEF ClientOK

\* The session a chat is looked for in was read open, of the right repo_root.
LEMMA EnsureKeepsOK ==
    ASSUME StoreInv, LocalsTyped, NEW p \in Clients, ClientOK(p),
           EnsureExists(p) \/ EnsureCreate(p) \/ EnsureGet(p)
    PROVE  ClientOK(p)'
  <1> DEFINE in == input[p]  s == SessionOf(in)
  <1>0. /\ in \in Inputs /\ s \in Sessions /\ pc[p] \in {"exists", "create", "get"}
        /\ target[p] = None
    BY SessionOfType DEF ClientOK, Asked, Asking, Progress, EnsureExists, EnsureCreate, EnsureGet
  <1>1. CASE EnsureExists(p)
    <2>1. /\ UNCHANGED <<session, chat, input, target, bound, stale>>
          /\ pc[p] = "exists" /\ pc'[p] = IF Exists(s) THEN "get" ELSE "create"
      BY <1>1 DEF EnsureExists, Goto, LocalsTyped
    <2>2. QED
      BY <1>0, <2>1
      DEF ClientOK, Asked, Asking, Progress, StaleKnown, NamesClosed, NamesArchived, Nameable, Exists, SessionOf
  <1>2. CASE EnsureCreate(p)
    <2>1. /\ UNCHANGED <<chat, input, target, bound, stale>>
          /\ pc[p] = "create"
          /\ \/ CreateSession(s, in.repo_root) /\ pc'[p] = "pick"
             \/ Exists(s) /\ pc'[p] = "get" /\ UNCHANGED session
      BY <1>2 DEF EnsureCreate, CreateSession, Goto, LocalsTyped
    <2>2. CASE Exists(s) /\ pc'[p] = "get" /\ UNCHANGED session
      BY <1>0, <2>1, <2>2
      DEF ClientOK, Asked, Asking, Progress, StaleKnown, NamesClosed, NamesArchived, Nameable, Exists, SessionOf
    <2>3. CASE CreateSession(s, in.repo_root) /\ pc'[p] = "pick"
      <3> DEFINE record == [repo_root |-> in.repo_root, closed |-> FALSE, chat_ids |-> {}, active |-> None]
      <3>1. record \in SessionRecord /\ record.repo_root = in.repo_root
        BY <1>0, SessionOfType DEF SessionRecord
      <3>2. session' = [session EXCEPT ![s] = record] /\ ~Exists(s)
        BY <2>3 DEF CreateSession
      <3> HIDE DEF record
      <3>3. /\ session'[s] = record /\ record # None
            /\ \A t \in Sessions : Exists(t) => session'[t] = session[t]
        BY <1>0, <3>1, <3>2, NoneAssumption DEF StoreInv, StoreTypeOK, Exists
      <3>4. Asked(p)'
        BY <1>0, <2>1, <2>3, <3>3 DEF ClientOK, Asked, Asking, Nameable, Exists
      <3>5. Progress(p)' /\ StaleKnown(p)'
        BY <1>0, <2>1, <2>3, <3>1, <3>3
        DEF ClientOK, Asking, Progress, StaleKnown, NamesArchived, SessionOf, Exists
      <3>6. QED
        BY <3>4, <3>5 DEF ClientOK
    <2>4. QED
      BY <2>1, <2>2, <2>3
  <1>3. CASE EnsureGet(p)
    <2>1. CASE Leave(p)
      BY <2>1, LeaveKeepsOK
    <2>2. CASE ~Leave(p)
      <3>1. /\ UNCHANGED <<session, chat, input, target, bound, stale>>
            /\ pc[p] = "get" /\ pc'[p] = "pick" /\ Usable(in)
        BY <1>3, <2>2 DEF EnsureGet, Goto, LocalsTyped
      <3>2. QED
        BY <1>0, <3>1
        DEF ClientOK, Asked, Asking, Progress, StaleKnown, NamesClosed, NamesArchived, Nameable, Exists,
            SessionOf, Usable
    <2>3. QED
      BY <2>1, <2>2
  <1>4. QED
    BY <1>1, <1>2, <1>3

\* What CreateChat leaves: a chat its session lists.
LEMMA CreateDelivers ==
    ASSUME StoreInv, NEW s \in Sessions, NEW c \in Chats, NEW kind \in ChatKinds,
           NEW makeActive \in BOOLEAN, CreateChat(s, c, kind, makeActive)
    PROVE  Stored(s, c)' /\ c \in session'[s].chat_ids
  <1>1. chat'[c] = NewChatRecord(s, kind) /\ NewChatRecord(s, kind) \in ChatRecord
    BY DEF CreateChat, StoreInv, StoreTypeOK, NewChatRecord, ChatRecord
  <1>2. session[s] \in SessionRecord
    BY DEF CreateChat, Open, Exists, StoreInv, StoreTypeOK
  <1>3. c \in session'[s].chat_ids
    BY <1>2 DEF CreateChat, LinkChat, StoreInv, StoreTypeOK, SessionRecord
  <1>4. chat'[c] # None
    BY <1>1, NoneAssumption
  <1>5. QED
    BY <1>1, <1>3, <1>4 DEF Stored, NewChatRecord

\* The chat taken is one its session lists, or the client leaves.
LEMMA PickKeepsOK ==
    ASSUME StoreInv, LocalsTyped, NEW p \in Clients, ClientOK(p), [StoreNext]_storeVars,
           PickNamed(p) \/ PickNew(p) \/ PickMain(p) \/ PickClosed(p) \/ DieCreating(p)
    PROVE  ClientOK(p)'
  <1>1. pc[p] = "pick"
    BY DEF PickNamed, PickNew, PickMain, PickClosed, DieCreating
  <1>0. input[p] \in Inputs /\ SessionOf(input[p]) \in Sessions
    BY <1>1, SessionOfType DEF ClientOK, Asked, Asking
  <1>a. PICK in \in Inputs, s \in Sessions : in = input[p] /\ s = SessionOf(in)
    BY <1>0
  <1>2. /\ in.policy # "temporary"
        /\ in.chat_id \in Chats \cup {None}
        /\ in.chat_id # None => Nameable(in.chat_id)
        /\ Exists(s) /\ session[s].repo_root = in.repo_root
        /\ stale[p] => NamesArchived(in)
    BY <1>1, <1>a, SessionOfType DEF ClientOK, Asked, Asking, Progress, StaleKnown
  <1>3. /\ Exists(s)' /\ session'[s].repo_root = in.repo_root
        /\ in.chat_id # None => Nameable(in.chat_id)'
    BY <1>2, RegistryGrows DEF SessionGrows, Nameable
  <1>4. CASE Leave(p)
    BY <1>4, LeaveKeepsOK
  <1>5. CASE PickNamed(p) /\ ~Leave(p)
    <2> DEFINE c == in.chat_id
    <2>1. /\ c # None /\ Readable(in) /\ Found(p, c, chat[c].conversation)
          /\ UNCHANGED <<session, chat>>
      BY <1>5, <1>a DEF PickNamed
    <2>2. c \in Chats /\ ~stale[p]
      BY <1>2, <2>1 DEF Readable, NamesArchived
    <2>3. c \in session[s].chat_ids
      <3>1. PICK t \in Sessions : Exists(t) /\ c \in session[t].chat_ids
        BY <1>2, <2>1 DEF Nameable
      <3>2. Stored(t, c)
        BY <3>1 DEF StoreInv, MembersStored
      <3>3. QED
        BY <1>a, <2>1, <3>1, <3>2 DEF Readable, Stored
    <2>4. Stored(s, c)' /\ c \in session'[s].chat_ids /\ chat'[c].conversation = chat[c].conversation
      BY <1>a, <2>1, <2>3 DEF Readable, Stored
    <2> HIDE DEF c
    <2>5. QED
      BY <1>a, <1>2, <1>3, <2>1, <2>2, <2>4, FoundKeepsOK
  <1>6. ASSUME NEW c \in Chats, NEW kind \in ChatKinds, NEW makeActive \in BOOLEAN,
               CreateChat(s, c, kind, makeActive), Found(p, c, None), in.chat_id = None
        PROVE  ClientOK(p)'
    <2>1. Stored(s, c)' /\ c \in session'[s].chat_ids
      BY <1>2, <1>6, CreateDelivers
    <2>2. ~stale[p]
      BY <1>2, <1>6 DEF NamesArchived
    <2>3. QED
      BY <1>a, <1>2, <1>3, <1>6, <2>1, <2>2, FoundKeepsOK
  <1>7. CASE PickNew(p)
    BY <1>6, <1>7, <1>a DEF PickNew, ChatKinds
  <1>8. CASE PickMain(p)
    <2>1. CASE \E c \in Chats : CreateMainChat(s, c) /\ Found(p, c, None)
      BY <1>6, <1>8, <1>a, <2>1 DEF PickMain, CreateMainChat, ChatKinds
    <2>2. CASE /\ Open(s) /\ session[s].active # None
               /\ Found(p, session[s].active, chat[session[s].active].conversation)
               /\ UNCHANGED <<session, chat>>
      <3>1. PICK c \in Chats : c = session[s].active /\ c \in session[s].chat_ids /\ Stored(s, c)
        BY <1>2, <2>2 DEF StoreInv, ActiveIsMember, MembersStored, StoreTypeOK, SessionRecord, Exists
      <3>2. ~stale[p]
        BY <1>2, <1>8, <1>a DEF PickMain, NamesArchived
      <3>3. /\ Stored(s, c)' /\ c \in session'[s].chat_ids /\ Found(p, c, chat[c].conversation)
            /\ chat'[c].conversation = chat[c].conversation
        BY <2>2, <3>1 DEF Stored
      <3>4. QED
        BY <1>a, <1>2, <1>3, <3>1, <3>2, <3>3, FoundKeepsOK
    <2>3. QED
      BY <1>8, <1>a, <2>1, <2>2 DEF PickMain
  <1>9. CASE DieCreating(p)
    <2>1. pc'[p] = "dead"
      BY <1>9 DEF DieCreating, Goto, LocalsTyped
    <2>2. QED
      BY <2>1 DEF ClientOK, Asked, Asking, Progress, StaleKnown
  <1>10. QED
    BY <1>4, <1>5, <1>7, <1>8, <1>9 DEF PickClosed

\* What BindExplicit does to the chats.
LEMMA BindRecords ==
    ASSUME StoreInv, NEW p \in Clients, target[p] \in Chats, BindExplicit(p)
    PROVE  /\ chat'[target[p]].conversation = input[p].conversation_id
           /\ \A c \in Chats \ {target[p]} : chat'[c] = chat[c]
  <1> DEFINE d == target[p]  record == BoundRecord(d, input[p].conversation_id)
  <1>1. chat[d] \in ChatRecord /\ chat' = [chat EXCEPT ![d] = record]
    BY DEF BindExplicit, UpdateChat, Stored, StoreInv, StoreTypeOK
  <1>2. record.conversation = input[p].conversation_id
    BY <1>1 DEF BoundRecord, ChatRecord
  <1> HIDE DEF record
  <1>3. QED
    BY <1>1, <1>2 DEF StoreInv, StoreTypeOK

\* Binding leaves the chat with a conversation.
LEMMA BindKeepsOK ==
    ASSUME StoreInv, LocalsTyped, NEW p \in Clients, ClientOK(p), [StoreNext]_storeVars, BindExplicit(p)
    PROVE  ClientOK(p)'
  <1>1. /\ pc[p] = "bind" /\ pc'[p] = "resolved" /\ bound'[p] = input[p].conversation_id
        /\ input'[p] = input[p] /\ target'[p] = target[p] /\ stale'[p] = stale[p]
    BY DEF BindExplicit, Goto, LocalsTyped
  <1>2. /\ input[p] \in Inputs /\ input[p].policy # "temporary" /\ ~stale[p]
        /\ SessionOf(input[p]) \in Sessions /\ Delivered(p) /\ target[p] \in Chats
        /\ input[p].chat_id \in Chats \cup {None}
        /\ input[p].chat_id # None => Nameable(input[p].chat_id)
    BY <1>1, SessionOfType DEF ClientOK, Asked, Asking, Progress, StaleKnown, LocalsTyped, Delivered
  <1>3. Delivered(p)'
    BY <1>1, <1>2, RegistryGrows DEF Delivered, SessionGrows, ChatGrows, Stored, SessionOf
  <1>4. Asked(p)'
    BY <1>1, <1>2, RegistryGrows DEF Asked, SessionGrows, Nameable
  <1>5. chat'[target[p]].conversation = input[p].conversation_id /\ input[p].conversation_id # None
    BY <1>1, <1>2, BindRecords DEF ClientOK, Progress
  <1>6. QED
    BY <1>1, <1>2, <1>3, <1>4, <1>5 DEF ClientOK, Progress, StaleKnown

\* A step of resolve keeps what its client relies on.
LEMMA ResolveKeepsOK ==
    ASSUME StoreInv, LocalsTyped, NEW p \in Clients, ClientOK(p), ResolveStep(p)
    PROVE  ClientOK(p)'
  <1>1. [StoreNext]_storeVars
    BY ResolveIsStoreStep
  <1>2. QED
    BY <1>1, EnsureKeepsOK, PickKeepsOK, BindKeepsOK DEF ResolveStep

\* A step of resolve changes the local variables of its client only.
LEMMA ResolveIsLocal ==
    ASSUME LocalsTyped, NEW p \in Clients, NEW q \in Clients, q # p,
           ResolveStep(p) \/ \E in \in Inputs : CallResolve(p, in)
    PROVE  pc'[q] = pc[q] /\ input'[q] = input[q] /\ target'[q] = target[q]
           /\ bound'[q] = bound[q] /\ stale'[q] = stale[q]
  <1>1. ASSUME Leave(p)
        PROVE  pc'[q] = pc[q] /\ input'[q] = input[q] /\ target'[q] = target[q]
               /\ bound'[q] = bound[q] /\ stale'[q] = stale[q]
    BY <1>1 DEF Leave, Goto, LocalsTyped
  <1>2. ASSUME NEW c, NEW v, Found(p, c, v), ~Leave(p)
        PROVE  pc'[q] = pc[q] /\ input'[q] = input[q] /\ target'[q] = target[q]
               /\ bound'[q] = bound[q] /\ stale'[q] = stale[q]
    BY <1>2 DEF Found, Goto, LocalsTyped
  <1>3. CASE \E in \in Inputs : CallResolve(p, in)
    BY <1>3 DEF CallResolve, Goto, LocalsTyped
  <1>4. CASE EnsureExists(p) \/ EnsureCreate(p) \/ BindExplicit(p) \/ DieCreating(p)
    BY <1>4 DEF EnsureExists, EnsureCreate, BindExplicit, DieCreating, Goto, LocalsTyped
  <1>5. CASE EnsureGet(p) /\ ~Leave(p)
    BY <1>5 DEF EnsureGet, Goto, LocalsTyped
  <1>6. CASE (PickNamed(p) \/ PickNew(p) \/ PickMain(p) \/ PickClosed(p)) /\ ~Leave(p)
    BY <1>2, <1>6 DEF PickNamed, PickNew, PickMain, PickClosed
  <1>7. QED
    BY <1>1, <1>3, <1>4, <1>5, <1>6 DEF ResolveStep

\* archive_chat: of a chat its session lists.
ArchiveOK(p) ==
    pc[p] \in ArchiveLabels =>
        /\ input[p] \in ArchiveRequest
        /\ Exists(input[p].session_id) /\ input[p].chat_id \in session[input[p].session_id].chat_ids

\* The inductive invariant of the manager.
ConvInv ==
    StoreInv /\ ClientTypeOK /\ \A p \in Clients : ClientOK(p) /\ ArchiveOK(p)

LEMMA ArchiveIsStoreStep ==
    ASSUME ConvInv, NEW p \in Clients, ArchiveStep(p)
    PROVE  [StoreNext]_storeVars
  <1>1. CASE ArchiveWrite(p)
    <2>1. input[p] \in ArchiveRequest
      BY <1>1 DEF ConvInv, ArchiveOK, ArchiveLabels, ArchiveWrite
    <2>2. input[p].session_id \in Sessions /\ input[p].chat_id \in Chats
      BY <2>1 DEF ArchiveRequest
    <2>3. QED
      BY <1>1, <2>2 DEF ArchiveWrite, StoreNext
  <1>2. QED
    BY <1>1 DEF ArchiveStep, ArchiveReadSession, ArchiveReadChat, storeVars

LEMMA ConvIsStoreStep ==
    ASSUME ConvInv, [ConvNext]_convVars
    PROVE  [StoreNext]_storeVars
  <1>1. LocalsTyped /\ \A p \in Clients : ClientOK(p)
    BY DEF ConvInv, ClientTypeOK, LocalsTyped
  <1>2. ASSUME NEW p \in Clients,
               \/ \E in \in Inputs : CallResolve(p, in)
               \/ \E s \in Sessions, c \in Chats : CallArchive(p, s, c)
               \/ Return(p)
        PROVE  UNCHANGED storeVars
    BY <1>2 DEF CallResolve, CallArchive, Return, storeVars
  <1>3. UNCHANGED convVars => UNCHANGED storeVars
    BY DEF convVars, storeVars
  <1>4. QED
    BY <1>1, <1>2, <1>3, ResolveIsStoreStep, ArchiveIsStoreStep, ManageIsStoreStep DEF ConvNext

\* The types of the local variables.
LEMMA ConvTypes ==
    ASSUME ConvInv, [ConvNext]_convVars
    PROVE  ClientTypeOK'
  <1> USE DEF ConvInv
  <1>1. \A label \in {"idle", "exists", "create", "get", "pick", "bind", "resolved", "dead",
                      "archive-session", "archive-chat", "archive-write"} :
            label \in ResolveLabels \cup ArchiveLabels
    BY DEF ResolveLabels, ArchiveLabels
  <1>2. ASSUME NEW p \in Clients, NEW label \in ResolveLabels \cup ArchiveLabels, Goto(p, label),
               UNCHANGED <<input, target, bound, stale>>
        PROVE  ClientTypeOK'
    BY <1>2 DEF ClientTypeOK, Goto
  <1>3. ASSUME NEW p \in Clients, Leave(p) PROVE ClientTypeOK'
    BY <1>1, <1>3 DEF ClientTypeOK, Leave, Goto
  <1>4. ASSUME NEW p \in Clients, NEW c \in Chats, NEW v \in Conversations \cup {None}, Found(p, c, v)
        PROVE  ClientTypeOK'
    BY <1>1, <1>3, <1>4 DEF ClientTypeOK, Found, Goto
  <1>5. \A c \in Chats : chat[c] # None => chat[c].conversation \in Conversations \cup {None}
    BY DEF StoreInv, StoreTypeOK, ChatRecord
  <1>6. ASSUME NEW p \in Clients, NEW in \in Inputs, CallResolve(p, in) PROVE ClientTypeOK'
    BY <1>1, <1>6 DEF ClientTypeOK, CallResolve, Goto
  <1>7. ASSUME NEW p \in Clients, NEW s \in Sessions, NEW c \in Chats, CallArchive(p, s, c)
        PROVE  ClientTypeOK'
    BY <1>1, <1>7 DEF ClientTypeOK, CallArchive, Goto, ArchiveRequest
  <1>8. ASSUME NEW p \in Clients, EnsureExists(p) \/ EnsureCreate(p) \/ EnsureGet(p) \/ DieCreating(p)
        PROVE  ClientTypeOK'
    BY <1>1, <1>2, <1>3, <1>8 DEF EnsureExists, EnsureCreate, EnsureGet, DieCreating
  <1>9. ASSUME NEW p \in Clients, PickNamed(p) PROVE ClientTypeOK'
    <2>1. input[p].chat_id \in Chats
      BY <1>9, SessionOfType DEF PickNamed, ClientOK, Asked, Asking
    <2>2. QED
      BY <1>3, <1>4, <1>5, <1>9, <2>1 DEF PickNamed, Readable, Stored
  <1>10. ASSUME NEW p \in Clients, PickNew(p) \/ PickClosed(p) PROVE ClientTypeOK'
    BY <1>3, <1>4, <1>10 DEF PickNew, PickClosed
  <1>11. ASSUME NEW p \in Clients, PickMain(p) PROVE ClientTypeOK'
    <2> DEFINE s == SessionOf(input[p])
    <2>1. CASE \E c \in Chats : CreateMainChat(s, c) /\ Found(p, c, None)
      BY <1>4, <2>1
    <2>2. CASE /\ Open(s) /\ session[s].active # None
               /\ Found(p, session[s].active, chat[session[s].active].conversation)
      <3>1. s \in Sessions
        BY <1>11, SessionOfType DEF PickMain, ClientOK, Asked, Asking
      <3>2. session[s].active \in Chats /\ chat[session[s].active] # None
        BY <2>2, <3>1 DEF Open, Exists, StoreInv, StoreTypeOK, SessionRecord, ActiveIsMember,
                          MembersStored, Stored
      <3> HIDE DEF s
      <3>3. QED
        BY <1>4, <1>5, <2>2, <3>2
    <2>3. QED
      BY <1>11, <2>1, <2>2 DEF PickMain
  <1>12. ASSUME NEW p \in Clients, BindExplicit(p) PROVE ClientTypeOK'
    <2>1. input[p].conversation_id \in Conversations \cup {None}
      BY <1>12, SessionOfType DEF BindExplicit, ClientOK, Asked, Asking
    <2>2. QED
      BY <1>1, <1>12, <2>1 DEF ClientTypeOK, BindExplicit, Goto
  <1>13. ASSUME NEW p \in Clients, ArchiveStep(p) \/ Return(p) PROVE ClientTypeOK'
    BY <1>1, <1>2, <1>3, <1>13 DEF ArchiveStep, ArchiveReadSession, ArchiveReadChat, ArchiveWrite, Return
  <1>14. CASE UNCHANGED clientVars
    BY <1>14 DEF ClientTypeOK, clientVars
  <1>15. ManageStep \/ UNCHANGED convVars => UNCHANGED clientVars
    BY DEF ManageStep, convVars, clientVars
  <1>16. QED
    BY <1>6, <1>7, <1>8, <1>9, <1>10, <1>11, <1>12, <1>13, <1>14, <1>15 DEF ConvNext, ResolveStep

\* An archive names a chat that stays listed, whatever the others do.
LEMMA ArchivePersists ==
    ASSUME StoreInv, [StoreNext]_storeVars, NEW p \in Clients, ArchiveOK(p),
           pc'[p] = pc[p], input'[p] = input[p]
    PROVE  ArchiveOK(p)'
  <1>1. \A s \in Sessions : SessionGrows(s)
    BY RegistryGrows
  <1>2. QED
    BY <1>1 DEF ArchiveOK, ArchiveRequest, SessionGrows

\* The steps of archive_chat are local, and none of resolve's facts is theirs.
LEMMA ArchiveKeepsOK ==
    ASSUME ConvInv, NEW p \in Clients,
           ArchiveStep(p) \/ Return(p) \/ \E s \in Sessions, c \in Chats : CallArchive(p, s, c)
    PROVE  /\ ClientOK(p)' /\ ArchiveOK(p)'
           /\ \A q \in Clients \ {p} :
                /\ pc'[q] = pc[q] /\ input'[q] = input[q] /\ target'[q] = target[q]
                /\ bound'[q] = bound[q] /\ stale'[q] = stale[q]
  <1> LocalsTyped /\ ClientOK(p) /\ ArchiveOK(p)
    BY DEF ConvInv, ClientTypeOK, LocalsTyped
  <1>1. CASE Leave(p)
    <2>1. pc'[p] = "idle" /\ \A q \in Clients \ {p} :
                /\ pc'[q] = pc[q] /\ input'[q] = input[q] /\ target'[q] = target[q]
                /\ bound'[q] = bound[q] /\ stale'[q] = stale[q]
      BY <1>1 DEF Leave, Goto, LocalsTyped
    <2>2. QED
      BY <1>1, <2>1, LeaveKeepsOK DEF ArchiveOK, ArchiveLabels
  <1>2. CASE \E s \in Sessions, c \in Chats : CallArchive(p, s, c)
    <2>1. PICK s \in Sessions, c \in Chats : CallArchive(p, s, c)
      BY <1>2
    <2>2. /\ pc[p] = "idle" /\ pc'[p] = "archive-session"
          /\ input'[p] = [session_id |-> s, chat_id |-> c]
          /\ UNCHANGED <<session, chat, target>>
          /\ Exists(s) /\ c \in session[s].chat_ids
          /\ \A q \in Clients \ {p} :
                /\ pc'[q] = pc[q] /\ input'[q] = input[q] /\ target'[q] = target[q]
                /\ bound'[q] = bound[q] /\ stale'[q] = stale[q]
      BY <2>1 DEF CallArchive, Goto, LocalsTyped
    <2>3. ArchiveOK(p)'
      BY <2>2 DEF ArchiveOK, ArchiveRequest, Exists
    <2>4. ClientOK(p)'
      BY <2>2 DEF ClientOK, Asked, Asking, Progress, StaleKnown
    <2>5. QED
      BY <2>2, <2>3, <2>4
  <1>3. CASE ~Leave(p) /\ ArchiveStep(p)
    <2>1. /\ pc[p] \in ArchiveLabels /\ pc'[p] \in ArchiveLabels
          /\ UNCHANGED <<session, chat, input, target, bound, stale>>
          /\ \A q \in Clients \ {p} : pc'[q] = pc[q]
      BY <1>3 DEF ArchiveStep, ArchiveReadSession, ArchiveReadChat, ArchiveWrite, Goto, LocalsTyped,
                  ArchiveLabels
    <2>2. ClientOK(p)'
      BY <2>1 DEF ClientOK, Asked, Asking, Progress, StaleKnown, ArchiveLabels
    <2>3. QED
      BY <2>1, <2>2 DEF ArchiveOK, Exists
  <1>4. QED
    BY <1>1, <1>2, <1>3 DEF Return

LEMMA ConvInvInductive == ConvInv /\ [ConvNext]_convVars => ConvInv'
  <1> SUFFICES ASSUME ConvInv, [ConvNext]_convVars PROVE ConvInv'
    OBVIOUS
  <1>1. [StoreNext]_storeVars
    BY ConvIsStoreStep
  <1>2. StoreInv' /\ ClientTypeOK'
    BY <1>1, StoreInvInductive, ConvTypes DEF ConvInv
  <1>3. StoreInv /\ LocalsTyped
    BY DEF ConvInv, ClientTypeOK, LocalsTyped
  <1>4. ASSUME NEW p \in Clients, ClientOK(p)', ArchiveOK(p)',
               \A q \in Clients \ {p} :
                    /\ pc'[q] = pc[q] /\ input'[q] = input[q] /\ target'[q] = target[q]
                    /\ bound'[q] = bound[q] /\ stale'[q] = stale[q]
        PROVE  \A q \in Clients : ClientOK(q)' /\ ArchiveOK(q)'
    BY <1>1, <1>3, <1>4, ClientPersists, ArchivePersists DEF ConvInv
  <1>5. ASSUME UNCHANGED clientVars
        PROVE  \A q \in Clients : ClientOK(q)' /\ ArchiveOK(q)'
    BY <1>1, <1>3, <1>5, ClientPersists, ArchivePersists DEF ConvInv, clientVars
  <1>6. ASSUME NEW p \in Clients, ResolveStep(p) \/ \E in \in Inputs : CallResolve(p, in)
        PROVE  \A q \in Clients : ClientOK(q)' /\ ArchiveOK(q)'
    <2>1. ClientOK(p)'
      BY <1>3, <1>6, ResolveKeepsOK, CallKeepsOK DEF ConvInv
    <2>2. ArchiveOK(p)'
      <3>1. pc'[p] \in ResolveLabels
        BY <1>3, <1>6
        DEF ResolveStep, EnsureExists, EnsureCreate, EnsureGet, PickNamed, PickNew, PickMain, PickClosed,
            BindExplicit, DieCreating, CallResolve, Found, Leave, Goto, LocalsTyped, ResolveLabels
      <3>2. QED
        BY <3>1 DEF ArchiveOK, ResolveLabels, ArchiveLabels
    <2>3. QED
      BY <1>3, <1>4, <1>6, <2>1, <2>2, ResolveIsLocal
  <1>7. ASSUME NEW p \in Clients,
               ArchiveStep(p) \/ Return(p) \/ \E s \in Sessions, c \in Chats : CallArchive(p, s, c)
        PROVE  \A q \in Clients : ClientOK(q)' /\ ArchiveOK(q)'
    BY <1>4, <1>7, ArchiveKeepsOK
  <1>8. ManageStep \/ UNCHANGED convVars => UNCHANGED clientVars
    BY DEF ManageStep, convVars, clientVars
  <1>9. \A q \in Clients : ClientOK(q)' /\ ArchiveOK(q)'
    BY <1>5, <1>6, <1>7, <1>8 DEF ConvNext
  <1>10. QED
    BY <1>2, <1>9 DEF ConvInv

LEMMA ConvInvHolds == ConvSpec => []ConvInv
  <1>1. ConvInit => ConvInv
    <2> SUFFICES ASSUME ConvInit PROVE ConvInv
      OBVIOUS
    <2>1. StoreInv
      BY StoreInvInductive DEF ConvInit
    <2>2. ClientTypeOK
      BY DEF ConvInit, ClientInit, ClientTypeOK, ResolveLabels
    <2>3. \A p \in Clients : pc[p] = "idle" /\ target[p] = None
      BY DEF ConvInit, ClientInit
    <2>4. \A p \in Clients : ClientOK(p) /\ ArchiveOK(p)
      BY <2>3 DEF ClientOK, Asked, Asking, Progress, StaleKnown, ArchiveOK, ArchiveLabels
    <2>5. QED
      BY <2>1, <2>2, <2>4 DEF ConvInv
  <1>2. QED
    BY <1>1, ConvInvInductive, PTL DEF ConvSpec

-----------------------------------------------------------------------------
(* The theorems about the manager.                                         *)

\* The clients use the registry only through the sections of SessionStore,
\* so that what is proved of StoreSpec holds whatever resolve, archive_chat
\* and the management tools are doing.
THEOREM ClientsUseStore == ConvSpec => StoreSpec
  <1>1. ConvInit => StoreInit
    BY DEF ConvInit
  <1>2. ConvInv /\ [ConvNext]_convVars => [StoreNext]_storeVars
    BY ConvIsStoreStep
  <1>3. QED
    BY <1>1, <1>2, ConvInvHolds, PTL DEF ConvSpec, StoreSpec

\* What ClientOK says of a resolved request.
LEMMA ResolvedIsUsable ==
    ASSUME NEW p \in Clients, ClientOK(p), pc[p] = "resolved"
    PROVE  LET in == input[p]  s == SessionOf(in) IN
           /\ (target[p] = None) <=> (in.policy = "temporary")
           /\ target[p] # None =>
               /\ Stored(s, target[p]) /\ target[p] \in session[s].chat_ids
               /\ session[s].repo_root = in.repo_root
               /\ in.conversation_id # None => chat[target[p]].conversation # None
  BY DEF ClientOK, Progress, Delivered

\* The chat handed to the engine is readable, listed by the session of the
\* request and of its repo_root, whoever created the session or changed it
\* between the sections of resolve (conversations.py).
THEOREM ResolutionsUsable == ConvSpec => []ResolutionUsable
  <1>1. ConvInv => ResolutionUsable
    BY ResolvedIsUsable DEF ConvInv, ResolutionUsable
  <1>2. QED
    BY <1>1, ConvInvHolds, PTL

\* A request made after its session was closed, or after the chat it names
\* was archived, never gets that far.
THEOREM LateRequestsRefused == ConvSpec => []StaleNotResolved
  <1>1. ConvInv => StaleNotResolved
    BY DEF ConvInv, ClientOK, StaleKnown, Asking, StaleNotResolved
  <1>2. QED
    BY <1>1, ConvInvHolds, PTL

\* Only the gap of resolve replaces a conversation: archive_chat and the
\* operations of one section leave it alone, and who is about to bind saw none.
THEOREM OnlyUnseenReplaced == ConvSpec => ReplacedOnlyUnseen
  <1> DEFINE Kept(c) ==
                chat[c] # None /\ chat[c].conversation # None
                  /\ chat'[c].conversation # chat[c].conversation =>
                      \E p \in Clients :
                          /\ pc[p] = "bind" /\ target[p] = c /\ bound[p] = None
                          /\ chat'[c].conversation = input[p].conversation_id
             Unseen == \A c \in Chats : Kept(c)
  <1>1. ASSUME ConvInv, [ConvNext]_convVars PROVE Unseen
    <2> SUFFICES ASSUME NEW c \in Chats, chat[c] # None PROVE Kept(c)
      OBVIOUS
    <2>0. StoreInv /\ chat[c] \in ChatRecord /\ chat \in [Chats -> ChatRecord \cup {None}]
      BY <1>1 DEF ConvInv, StoreInv, StoreTypeOK
    <2>1. ASSUME NEW s, NEW d, NEW kind, NEW makeActive, CreateChat(s, d, kind, makeActive)
          PROVE  chat'[c] = chat[c]
      BY <2>0, <2>1 DEF CreateChat
    <2>2. ASSUME NEW p \in Clients, BindExplicit(p)
          PROVE  Kept(c)
      <3>1. target[p] \in Chats /\ pc[p] = "bind" /\ bound[p] = None
        BY <1>1, <2>2 DEF ConvInv, ClientOK, Progress, Delivered, ClientTypeOK, BindExplicit
      <3>2. CASE c = target[p]
        BY <2>0, <2>2, <3>1, <3>2, BindRecords
      <3>3. CASE c # target[p]
        BY <2>0, <2>2, <3>1, <3>3, BindRecords
      <3>4. QED
        BY <3>2, <3>3
    <2>3. ASSUME NEW p \in Clients, ArchiveWrite(p)
          PROVE  chat'[c].conversation = chat[c].conversation
      <3> DEFINE d == input[p].chat_id
      <3>1. Stored(input[p].session_id, d) /\ chat' = [chat EXCEPT ![d] = ArchivedRecord(d)]
        BY <2>3 DEF ArchiveWrite, UpdateChat
      <3>2. CASE c = d
        BY <2>0, <3>1, <3>2 DEF ArchivedRecord, ChatRecord
      <3>3. CASE c # d
        BY <2>0, <3>1, <3>3
      <3>4. QED
        BY <3>2, <3>3
    <2>4. ASSUME NEW p \in Clients, DieCreating(p)
          PROVE  chat'[c] = chat[c]
      BY <2>0, <2>4 DEF DieCreating, WriteChatFile
    <2>5. ASSUME NEW p \in Clients, ResolveStep(p), ~BindExplicit(p), ~DieCreating(p)
          PROVE  chat'[c] = chat[c]
      BY <2>1, <2>5 DEF ResolveStep, EnsureExists, EnsureCreate, EnsureGet, PickNamed, PickNew, PickMain,
                        PickClosed, CreateSession, CreateMainChat
    <2>6. ASSUME NEW p \in Clients, ArchiveStep(p), ~ArchiveWrite(p)
          PROVE  chat'[c] = chat[c]
      BY <2>6 DEF ArchiveStep, ArchiveReadSession, ArchiveReadChat
    <2>7. CASE ManageStep
      BY <2>1, <2>7 DEF ManageStep, CreateSession, CloseSession, SelectChat
    <2>8. ASSUME NEW p \in Clients,
                 \/ \E in \in Inputs : CallResolve(p, in)
                 \/ \E s \in Sessions, d \in Chats : CallArchive(p, s, d)
                 \/ Return(p)
          PROVE  chat'[c] = chat[c]
      BY <2>8 DEF CallResolve, CallArchive, Return
    <2>9. UNCHANGED convVars => chat'[c] = chat[c]
      BY DEF convVars
    <2>10. QED
      BY <1>1, <2>2, <2>3, <2>4, <2>5, <2>6, <2>7, <2>8, <2>9 DEF ConvNext
  <1>2. ConvInv /\ [ConvNext]_convVars => [Unseen]_convVars
    BY <1>1
  <1>3. QED
    BY <1>2, ConvInvHolds, PTL DEF ConvSpec, ReplacedOnlyUnseen

=============================================================================
