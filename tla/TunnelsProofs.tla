---------------------------- MODULE TunnelsProofs ----------------------------
(***************************************************************************)
(* For any number of calls, processes and tunnels: a profile is open in    *)
(* one browser at most (BrowsersAreAlone), a call that has ended has left  *)
(* nothing locked (CallsLeaveNothing), a chosen browser was there while    *)
(* the call was choosing (ChoicesAreFresh), and, when the priorities of    *)
(* the automatic tunnels are less than a preference apart, health comes    *)
(* before policy and policy before priority (HealthComesFirst,             *)
(* PoliciesAreHonoured).                                                   *)
(***************************************************************************)
EXTENDS Tunnels, TLAPS

Locked == {"locked", "starting", "launching", "checking", "planned", "final", "stopping", "closed", "leaving"}
InBrowser == {"launching", "checking", "planned", "final", "stopping", "closed"}

\* What each step works on.
CallInv ==
    \A c \in Calls :
        /\ pc[c] \in Locked \cup {"selected"} => tunnel[c] \in Ids
        /\ pc[c] \notin {"idle", "ended"} => ask[c] \in Requests[c]
        /\ pc[c] = "launching" => OwnsProfile(c)

\* A browser is open under its profile's lock, and each lock is held by a
\* call at a step that returns it.
LockInv ==
    \A c \in Calls :
        /\ c \in contexts => pc[c] \in InBrowser \ {"launching", "closed"} /\ OwnsProfile(c)
        /\ pc[c] \in InBrowser /\ OwnsProfile(c) => profileLock[Profile(c)] = c
        /\ \A f \in Profiles :
              profileLock[f] = c => pc[c] \in InBrowser /\ OwnsProfile(c) /\ f = Profile(c)
        /\ pc[c] = "final" /\ ask[c].chat # None => chatLock[ask[c].chat] = c
        /\ \A x \in Chats : chatLock[x] = c => pc[c] = "final" /\ ask[c].chat = x
        /\ pc[c] \in Locked => tunnelLock[ProcessOf[c]][tunnel[c]] = c
        /\ \A t \in Ids : tunnelLock[ProcessOf[c]][t] = c => pc[c] \in Locked /\ t = tunnel[c]

Inv == TypeOK /\ CallInv /\ LockInv

LEMMA TypeInductive == TypeOK /\ CallInv /\ [Next]_vars => TypeOK'
  <1> SUFFICES ASSUME TypeOK, CallInv, [Next]_vars PROVE TypeOK'
    OBVIOUS
  <1> USE DEF TypeOK
  <1>1. ASSUME NEW c \in Calls, NEW r \in Requests[c], Begin(c, r) PROVE TypeOK'
    <2>1. r \in Asked
      BY <1>1 DEF Asked
    <2>2. r.tunnel # None /\ Admits(r) => r.tunnel \in Ids
      BY DEF Admits, Effective
    <2>3. todo' \in [Calls -> SUBSET Ids]
      BY <1>1, <2>2 DEF Begin, Effective
    <2>4. cache' \in [Calls -> [Endpoints -> (SUBSET Ids) \cup {None}]]
      BY <1>1 DEF Begin, NewCache
    <2>5. /\ pc' \in [Calls -> Labels] /\ ask' \in [Calls -> Asked \cup {None}]
          /\ upSince' \in [Calls -> SUBSET Ids]
      BY <1>1, <2>1 DEF Begin, Goto, Labels
    <2>6. QED
      BY <1>1, <2>3, <2>4, <2>5 DEF Begin, locks
  <1>2. ASSUME NEW c \in Calls, NEW t \in Ids, Probe(c, t) PROVE TypeOK'
    <2>1. todo' \in [Calls -> SUBSET Ids]
      BY <1>2 DEF Probe
    <2>2. seen' \in [Calls -> [Ids -> Healths]] /\ cache' \in [Calls -> [Endpoints -> (SUBSET Ids) \cup {None}]]
      <3>1. CASE ProbeBridge(c, t)
        <4>1. Catalog[t].endpoint \in Endpoints
          BY DEF Endpoints
        <4> DEFINE new == {s \in up : Catalog[s].runtime = "extension" /\ Catalog[s].endpoint = Catalog[t].endpoint}
        <4>2. PICK snapshot \in {cache[c][Catalog[t].endpoint], new} \ {None} :
                 /\ cache' = [cache EXCEPT ![c][Catalog[t].endpoint] = snapshot]
                 /\ seen' = [seen EXCEPT ![c][t] = IF t \in snapshot THEN "healthy" ELSE "unavailable"]
          BY <3>1 DEF ProbeBridge
        <4>3. snapshot \in SUBSET Ids
          BY <4>1, <4>2
        <4> HIDE DEF new
        <4>4. QED
          BY <4>1, <4>2, <4>3 DEF Healths
      <3>2. CASE ProbeOther(c, t)
        BY <3>2 DEF ProbeOther, Healths
      <3>3. CASE ProbeFails(c, t)
        BY <3>3 DEF ProbeFails, Healths
      <3>4. QED
        BY <1>2, <3>1, <3>2, <3>3 DEF Probe
    <2>3. QED
      BY <1>2, <2>1, <2>2 DEF Probe, locks
  <1>3. ASSUME NEW c \in Calls,
               (\E t \in Ids : Select(c, t)) \/ NoTunnel(c) \/ Prepare(c) \/ Connect(c) \/ Work(c)
        PROVE  TypeOK'
    <2>1. /\ tunnel' \in [Calls -> Ids \cup {None}]
          /\ UNCHANGED <<up, changes, ask, todo, seen, cache, locks, contexts, upSince>>
      BY <1>3 DEF Select, NoTunnel, Prepare, Connect, Work, choice
    <2>2. \E l \in Labels : pc' = [pc EXCEPT ![c] = l]
      BY <1>3 DEF Select, NoTunnel, Prepare, Connect, Work, Goto, Labels
    <2>3. QED
      BY <2>1, <2>2 DEF locks
  <1>4. ASSUME NEW c \in Calls, TakeTunnel(c) \/ Leave(c) PROVE TypeOK'
    <2>1. tunnelLock' \in [Processes -> [Ids -> Calls \cup {None}]]
      <3>1. PICK v \in Calls \cup {None} : tunnelLock' = [tunnelLock EXCEPT ![ProcessOf[c]][tunnel[c]] = v]
        BY <1>4 DEF TakeTunnel, Leave
      <3>2. ProcessOf[c] \in Processes
        BY DEF Processes
      <3>3. QED
        BY <3>1, <3>2
    <2>2. pc' \in [Calls -> Labels]
      BY <1>4 DEF TakeTunnel, Leave, Goto, Labels
    <2>3. CASE TakeTunnel(c)
      BY <2>1, <2>2, <2>3 DEF TakeTunnel, Labels, Healths
    <2>4. CASE Leave(c)
      BY <2>1, <2>2, <2>4 DEF Leave, Labels
    <2>5. QED
      BY <1>4, <2>3, <2>4
  <1>5. ASSUME NEW c \in Calls, LockProfile(c) \/ Launch(c) \/ CloseContext(c) \/ UnlockProfile(c) PROVE TypeOK'
    <2>1. /\ contexts' \subseteq Calls
          /\ UNCHANGED <<up, changes, ask, todo, seen, cache, tunnel, tunnelLock, chatLock, upSince>>
      BY <1>5 DEF LockProfile, Launch, CloseContext, UnlockProfile, choice, locks
    <2>2. \E v \in Calls \cup {None} : profileLock' \in {profileLock, [profileLock EXCEPT ![Profile(c)] = v]}
      BY <1>5 DEF LockProfile, Launch, CloseContext, UnlockProfile, locks
    <2>3. \E l \in Labels : pc' = [pc EXCEPT ![c] = l]
      BY <1>5 DEF LockProfile, Launch, CloseContext, UnlockProfile, Goto, Labels
    <2>4. QED
      BY <2>1, <2>2, <2>3
  <1>6. ASSUME NEW c \in Calls, TakeChat(c) \/ FinalTurn(c) PROVE TypeOK'
    <2>1. UNCHANGED <<up, changes, ask, todo, seen, cache, tunnel, tunnelLock, profileLock, contexts, upSince>>
      BY <1>6 DEF TakeChat, FinalTurn, choice
    <2>2. \E v \in Calls \cup {None} : chatLock' \in {chatLock, [chatLock EXCEPT ![ask[c].chat] = v]}
      BY <1>6 DEF TakeChat, FinalTurn
    <2>3. \E l \in Labels : pc' = [pc EXCEPT ![c] = l]
      BY <1>6 DEF TakeChat, FinalTurn, Goto, Labels
    <2>4. QED
      BY <2>1, <2>2, <2>3
  <1>7. ASSUME NEW t \in Ids, Change(t) PROVE TypeOK'
    <2>1. up' \subseteq Ids /\ changes' \in 0 .. MaxChanges
      <3>1. MaxChanges \in Nat
        BY TunnelsAssumption
      <3>2. QED
        BY <1>7, <3>1 DEF Change
    <2>2. upSince' \in [Calls -> SUBSET Ids]
      BY <1>7, <2>1 DEF Change
    <2>3. QED
      BY <1>7, <2>1, <2>2 DEF Change, choice, locks
  <1>8. CASE UNCHANGED vars
    BY <1>8 DEF vars, choice, locks
  <1>9. QED
    BY <1>1, <1>2, <1>3, <1>4, <1>5, <1>6, <1>7, <1>8 DEF Next, CallStep

LEMMA ProfileIsProfile == \A c \in Calls : Profile(c) \in Profiles
  BY DEF Profile, Profiles

\* What a step leaves of the other calls.
LEMMA OthersKeep ==
    ASSUME Inv, NEW c \in Calls, CallStep(c) \/ \E r \in Requests[c] : Begin(c, r),
           NEW d \in Calls, d # c
    PROVE  /\ pc'[d] = pc[d] /\ ask'[d] = ask[d] /\ tunnel'[d] = tunnel[d]
           /\ d \in contexts' <=> d \in contexts
           /\ \A f \in Profiles : profileLock'[f] = d <=> profileLock[f] = d
           /\ \A x \in Chats : chatLock'[x] = d <=> chatLock[x] = d
           /\ \A t \in Ids : tunnelLock'[ProcessOf[d]][t] = d <=> tunnelLock[ProcessOf[d]][t] = d
  <1> None \notin Calls
    BY TunnelsAssumption
  <1> USE DEF Inv, TypeOK
  <1>1. pc'[d] = pc[d] /\ ask'[d] = ask[d] /\ tunnel'[d] = tunnel[d]
    BY DEF CallStep, Begin, Probe, Select, NoTunnel, TakeTunnel, Prepare, Connect, LockProfile, Launch, Work,
           TakeChat, FinalTurn, CloseContext, UnlockProfile, Leave, Goto, choice
  <1>2. /\ d \in contexts' <=> d \in contexts
        /\ \A x \in Chats : chatLock'[x] = d <=> chatLock[x] = d
    <2>1. CASE TakeChat(c) \/ FinalTurn(c)
      <3>1. ask[c].chat # None => ask[c].chat \in Chats
        BY <2>1 DEF TakeChat, FinalTurn, Goto, CallInv, Chats, Asked
      <3>2. UNCHANGED contexts
        BY <2>1 DEF TakeChat, FinalTurn
      <3>3. ask[c].chat # None => chatLock[ask[c].chat] \in {c, None}
        BY <2>1 DEF TakeChat, FinalTurn, LockInv, Goto
      <3>4. PICK v \in {c, None} :
               chatLock' = IF ask[c].chat = None THEN chatLock ELSE [chatLock EXCEPT ![ask[c].chat] = v]
        BY <2>1 DEF TakeChat, FinalTurn
      <3>5. QED
        BY <3>1, <3>2, <3>3, <3>4
    <2>2. CASE ~(TakeChat(c) \/ FinalTurn(c))
      BY <2>2
      DEF CallStep, Begin, Probe, Select, NoTunnel, TakeTunnel, Prepare, Connect, LockProfile, Launch, Work,
          CloseContext, UnlockProfile, Leave, locks
    <2>3. QED
      BY <2>1, <2>2
  <1>3. \A f \in Profiles : profileLock'[f] = d <=> profileLock[f] = d
    <2>1. CASE LockProfile(c) \/ Launch(c) \/ UnlockProfile(c)
      BY <2>1, ProfileIsProfile DEF LockProfile, Launch, UnlockProfile, LockInv, CallInv, InBrowser, Goto
    <2>2. CASE ~(LockProfile(c) \/ Launch(c) \/ UnlockProfile(c))
      BY <2>2
      DEF CallStep, Begin, Probe, Select, NoTunnel, TakeTunnel, Prepare, Connect, Work,
          TakeChat, FinalTurn, CloseContext, Leave, locks
    <2>3. QED
      BY <2>1, <2>2
  <1>4. \A t \in Ids : tunnelLock'[ProcessOf[d]][t] = d <=> tunnelLock[ProcessOf[d]][t] = d
    <2>1. CASE TakeTunnel(c) \/ Leave(c)
      <3>1. PICK v \in {c, None} : tunnelLock' = [tunnelLock EXCEPT ![ProcessOf[c]][tunnel[c]] = v]
        BY <2>1 DEF TakeTunnel, Leave
      <3>2. tunnelLock[ProcessOf[c]][tunnel[c]] \in {c, None}
        BY <2>1 DEF TakeTunnel, Leave, LockInv, Goto, Locked
      <3>3. ProcessOf[c] \in Processes /\ ProcessOf[d] \in Processes
        BY DEF Processes
      <3>4. QED
        BY <3>1, <3>2, <3>3
    <2>2. CASE ~(TakeTunnel(c) \/ Leave(c))
      BY <2>2
      DEF CallStep, Begin, Probe, Select, NoTunnel, Prepare, Connect, LockProfile, Launch, Work,
          TakeChat, FinalTurn, CloseContext, UnlockProfile, locks
    <2>3. QED
      BY <2>1, <2>2
  <1>5. QED
    BY <1>1, <1>2, <1>3, <1>4

LEMMA CallInductive == Inv /\ [Next]_vars => CallInv'
  <1> SUFFICES ASSUME Inv, [Next]_vars PROVE CallInv'
    OBVIOUS
  <1> USE DEF Inv, TypeOK, Locked
  <1>1. ASSUME NEW c \in Calls, CallStep(c) \/ \E r \in Requests[c] : Begin(c, r)
        PROVE  CallInv'
    <2>1. ASSUME NEW d \in Calls, d # c PROVE CallInv!(d)'
      BY <1>1, <2>1, OthersKeep DEF CallInv, OwnsProfile, Mine
    <2>2. CallInv!(c)'
      <3>1. CASE \E r \in Requests[c] : Begin(c, r)
        BY <3>1 DEF CallInv, Begin, Goto
      <3>2. CASE (\E t \in Ids : Probe(c, t) \/ Select(c, t)) \/ NoTunnel(c)
        BY <3>2 DEF CallInv, Probe, Select, NoTunnel, Goto, choice
      <3>3. CASE Leave(c)
        BY <3>3 DEF CallInv, Leave, Goto
      <3>4. CASE TakeTunnel(c) \/ Prepare(c) \/ Connect(c) \/ LockProfile(c) \/ Launch(c) \/ Work(c)
                 \/ TakeChat(c) \/ FinalTurn(c) \/ CloseContext(c) \/ UnlockProfile(c)
        <4>1. /\ pc[c] \in Locked \cup {"selected"} /\ pc'[c] \in Locked
              /\ ask'[c] = ask[c] /\ tunnel'[c] = tunnel[c]
              /\ pc'[c] = "launching" => OwnsProfile(c)
          BY <3>4
          DEF TakeTunnel, Prepare, Connect, LockProfile, Launch, Work, TakeChat, FinalTurn,
              CloseContext, UnlockProfile, Goto, choice
        <4>2. QED
          BY <4>1 DEF CallInv, OwnsProfile, Mine
      <3>5. QED
        BY <1>1, <3>1, <3>2, <3>3, <3>4 DEF CallStep
    <2>3. QED
      BY <2>1, <2>2 DEF CallInv
  <1>2. CASE (\E t \in Ids : Change(t)) \/ UNCHANGED vars
    BY <1>2 DEF Change, vars, choice, CallInv, OwnsProfile, Mine
  <1>3. QED
    BY <1>1, <1>2 DEF Next

LEMMA LockInductive == Inv /\ [Next]_vars => LockInv'
  <1> SUFFICES ASSUME Inv, [Next]_vars PROVE LockInv'
    OBVIOUS
  <1> None \notin Calls
    BY TunnelsAssumption
  <1> USE DEF Inv, TypeOK
  <1>1. ASSUME NEW c \in Calls, CallStep(c) \/ \E r \in Requests[c] : Begin(c, r)
        PROVE  LockInv'
    <2>1. ASSUME NEW d \in Calls, d # c PROVE LockInv!(d)'
      <3>1. OwnsProfile(d)' = OwnsProfile(d) /\ Profile(d)' = Profile(d) /\ Profile(d) \in Profiles
        BY <1>1, <2>1, OthersKeep, ProfileIsProfile DEF OwnsProfile, Profile, Mine
      <3>2. /\ pc[d] \in Locked => tunnel[d] \in Ids
            /\ pc[d] = "final" /\ ask[d].chat # None => ask[d].chat \in Chats
        <4>1. /\ pc[d] \in Locked => tunnel[d] \in Ids
              /\ pc[d] = "final" => ask[d] \in Requests[d]
          BY DEF CallInv
        <4>2. QED
          BY <4>1 DEF Chats, Asked
      <3>3. /\ pc'[d] = pc[d] /\ ask'[d] = ask[d] /\ tunnel'[d] = tunnel[d]
            /\ d \in contexts' <=> d \in contexts
            /\ \A f \in Profiles : profileLock'[f] = d <=> profileLock[f] = d
            /\ \A x \in Chats : chatLock'[x] = d <=> chatLock[x] = d
            /\ \A t \in Ids : tunnelLock'[ProcessOf[d]][t] = d <=> tunnelLock[ProcessOf[d]][t] = d
        BY <1>1, <2>1, OthersKeep
      <3> HIDE DEF Inv, TypeOK
      <3>4. LockInv!(d)
        BY DEF LockInv, Inv
      <3>5. QED
        BY <3>1, <3>2, <3>3, <3>4
    <2>2. LockInv!(c)'
      <3>1. CASE \/ \E r \in Requests[c] : Begin(c, r)
                 \/ (\E t \in Ids : Probe(c, t) \/ Select(c, t)) \/ NoTunnel(c)
        <4>1. /\ pc[c] \in {"idle", "probing"} /\ pc'[c] \in {"probing", "selected", "ended"}
              /\ UNCHANGED <<locks, contexts>>
          BY <3>1 DEF Begin, Probe, Select, NoTunnel, Goto, locks
        <4>2. /\ c \notin contexts /\ \A f \in Profiles : profileLock[f] # c
              /\ \A x \in Chats : chatLock[x] # c
              /\ \A t \in Ids : tunnelLock[ProcessOf[c]][t] # c
          BY <4>1 DEF LockInv, InBrowser, Locked
        <4>3. pc'[c] \notin InBrowser \cup Locked \cup {"final"}
          BY <4>1 DEF InBrowser, Locked
        <4>4. QED
          BY <4>1, <4>2, <4>3 DEF locks
      <3>2. CASE TakeTunnel(c)
        <4>1. ProcessOf[c] \in Processes /\ tunnel[c] \in Ids
          BY <3>2 DEF TakeTunnel, Goto, CallInv, Processes
        <4>2. /\ tunnelLock' = [tunnelLock EXCEPT ![ProcessOf[c]][tunnel[c]] = c]
              /\ pc[c] = "selected" /\ pc'[c] = "locked"
              /\ UNCHANGED <<ask, tunnel, profileLock, chatLock, contexts>>
          BY <3>2 DEF TakeTunnel, Goto
        <4>3. \A t \in Ids : tunnelLock'[ProcessOf[c]][t] = c <=> t = tunnel[c]
          BY <4>1, <4>2 DEF LockInv, Locked
        <4>4. QED
          BY <4>1, <4>2, <4>3 DEF LockInv, InBrowser, Locked
      <3>3. CASE Prepare(c) \/ Connect(c) \/ Work(c)
        <4>1. /\ pc[c] \in {"locked", "starting", "checking"} /\ pc'[c] \in {"starting", "leaving", "checking", "planned", "stopping"}
              /\ pc[c] = "checking" => pc'[c] \in {"planned", "stopping"}
              /\ pc[c] = "locked" => pc'[c] \in {"starting", "leaving"}
              /\ pc[c] = "starting" => pc'[c] \in {"checking", "leaving"} /\ ~OwnsProfile(c)
              /\ UNCHANGED <<locks, contexts, choice>>
          BY <3>3 DEF Prepare, Connect, Work, Goto, locks, choice
        <4>2. OwnsProfile(c)' = OwnsProfile(c) /\ Profile(c)' = Profile(c)
          BY <4>1 DEF OwnsProfile, Profile, Mine, choice
        <4>3. QED
          BY <4>1, <4>2 DEF LockInv, locks, choice, InBrowser, Locked
      <3>4. CASE LockProfile(c) \/ Launch(c) \/ CloseContext(c) \/ UnlockProfile(c)
        <4>1. /\ UNCHANGED <<choice, tunnelLock, chatLock>> /\ pc[c] \in Locked \ {"final"} /\ pc'[c] \in Locked \ {"final"}
          BY <3>4 DEF LockProfile, Launch, CloseContext, UnlockProfile, Goto, locks, Locked
        <4>2. OwnsProfile(c)' = OwnsProfile(c) /\ Profile(c)' = Profile(c) /\ Profile(c) \in Profiles
          BY <4>1, ProfileIsProfile DEF OwnsProfile, Profile, Mine, choice
        <4>3. /\ c \in contexts' => pc'[c] \in InBrowser \ {"launching", "closed"} /\ OwnsProfile(c)
              /\ pc'[c] \in InBrowser /\ OwnsProfile(c) => profileLock'[Profile(c)] = c
              /\ \A f \in Profiles :
                    profileLock'[f] = c => pc'[c] \in InBrowser /\ OwnsProfile(c) /\ f = Profile(c)
          <5>1. CASE LockProfile(c)
            BY <4>2, <5>1 DEF LockProfile, LockInv, Goto, InBrowser
          <5>2. CASE Launch(c)
            BY <4>2, <5>2 DEF Launch, LockInv, CallInv, Goto, InBrowser, locks
          <5>3. CASE CloseContext(c)
            BY <4>2, <5>3 DEF CloseContext, LockInv, Goto, InBrowser, locks
          <5>4. CASE UnlockProfile(c)
            BY <4>2, <5>4 DEF UnlockProfile, LockInv, Goto, InBrowser
          <5>5. QED
            BY <3>4, <5>1, <5>2, <5>3, <5>4
        <4>4. QED
          BY <4>1, <4>2, <4>3 DEF LockInv, choice
      <3>5. CASE TakeChat(c) \/ FinalTurn(c)
        <4>1. ask[c].chat # None => ask[c].chat \in Chats
          BY <3>5 DEF TakeChat, FinalTurn, Goto, CallInv, Chats, Asked
        <4>2. UNCHANGED <<choice, tunnelLock, profileLock, contexts>>
          BY <3>5 DEF TakeChat, FinalTurn
        <4>3. OwnsProfile(c)' = OwnsProfile(c) /\ Profile(c)' = Profile(c)
          BY <4>2 DEF OwnsProfile, Profile, Mine, choice
        <4>4. /\ pc'[c] = "final" /\ ask[c].chat # None => chatLock'[ask[c].chat] = c
              /\ \A x \in Chats : chatLock'[x] = c => pc'[c] = "final" /\ ask[c].chat = x
          <5>1. CASE TakeChat(c)
            <6>1. \A x \in Chats : chatLock[x] # c
              BY <5>1 DEF TakeChat, LockInv, Goto
            <6>2. QED
              BY <4>1, <5>1, <6>1 DEF TakeChat, Goto
          <5>2. CASE FinalTurn(c)
            <6>1. \A x \in Chats : chatLock[x] = c => x = ask[c].chat
              BY DEF LockInv
            <6>2. pc'[c] = "stopping"
              BY <5>2 DEF FinalTurn, Goto
            <6>3. None \notin Chats
              BY DEF Chats
            <6>4. QED
              BY <4>1, <5>2, <6>1, <6>2, <6>3 DEF FinalTurn
          <5>3. QED
            BY <3>5, <5>1, <5>2
        <4>5. pc[c] \in {"planned", "final"} /\ pc'[c] \in {"final", "stopping"}
          BY <3>5 DEF TakeChat, FinalTurn, Goto
        <4>6. ask'[c] = ask[c] /\ tunnel'[c] = tunnel[c] /\ profileLock' = profileLock
              /\ tunnelLock' = tunnelLock /\ contexts' = contexts
          BY <4>2 DEF choice
        <4>7. pc[c] \in InBrowser \ {"launching", "closed"} /\ pc'[c] \in InBrowser \ {"launching", "closed"}
              /\ pc[c] \in Locked /\ pc'[c] \in Locked
          BY <4>5 DEF InBrowser, Locked
        <4>8. QED
          BY <4>3, <4>4, <4>6, <4>7 DEF LockInv
      <3>6. CASE Leave(c)
        <4>1. tunnelLock[ProcessOf[c]][tunnel[c]] = c /\ tunnel[c] \in Ids /\ ProcessOf[c] \in Processes
          BY <3>6 DEF Leave, LockInv, CallInv, Goto, Locked, Processes
        <4>2. \A t \in Ids : tunnelLock'[ProcessOf[c]][t] # c
          BY <3>6, <4>1 DEF Leave, LockInv
        <4>3. /\ pc[c] = "leaving" /\ pc'[c] = "ended"
              /\ UNCHANGED <<profileLock, chatLock, contexts>>
          BY <3>6 DEF Leave, Goto
        <4>4. QED
          BY <4>2, <4>3 DEF LockInv, Locked, InBrowser
      <3>7. QED
        BY <1>1, <3>1, <3>2, <3>3, <3>4, <3>5, <3>6 DEF CallStep
    <2>3. QED
      BY <2>1, <2>2 DEF LockInv
  <1>2. CASE (\E t \in Ids : Change(t)) \/ UNCHANGED vars
    BY <1>2 DEF Change, vars, choice, locks, LockInv, OwnsProfile, Profile, Mine
  <1>3. QED
    BY <1>1, <1>2 DEF Next

LEMMA InvInitial == Init => Inv
  <1> SUFFICES ASSUME Init PROVE Inv
    OBVIOUS
  <1> None \notin Calls
    BY TunnelsAssumption
  <1>1. TypeOK
    <2>1. up \subseteq Ids /\ changes \in 0 .. MaxChanges
      BY TunnelsAssumption DEF Init
    <2>2. QED
      BY <2>1 DEF Init, TypeOK, Labels, Healths
  <1>2. CallInv
    BY DEF Init, CallInv, Locked
  <1>3. LockInv
    BY DEF Init, LockInv, InBrowser, Locked, Processes
  <1>4. QED
    BY <1>1, <1>2, <1>3 DEF Inv

LEMMA InvInductive == Inv /\ [Next]_vars => Inv'
  BY TypeInductive, CallInductive, LockInductive DEF Inv

\* The types of what a call knows and holds.
THEOREM TunnelTypeCorrect == Spec => []TypeOK
  <1>1. Inv => TypeOK
    BY DEF Inv
  <1>2. QED
    BY <1>1, InvInitial, InvInductive, PTL DEF Spec

\* No two browsers have one profile, of whatever tunnels, calls and processes.
THEOREM BrowsersAreAlone == Spec => []OneBrowserPerProfile
  <1>1. Inv => OneBrowserPerProfile
    BY DEF Inv, TypeOK, LockInv, OneBrowserPerProfile
  <1>2. QED
    BY <1>1, InvInitial, InvInductive, PTL DEF Spec

\* Whatever failed, a call that has ended holds no lock and no browser.
THEOREM CallsLeaveNothing == Spec => []NothingLeft
  <1>1. Inv => NothingLeft
    BY DEF Inv, LockInv, NothingLeft, InBrowser, Locked
  <1>2. QED
    BY <1>1, InvInitial, InvInductive, PTL DEF Spec

-----------------------------------------------------------------------------
(* What the choice rests on.                                               *)

Reached(t) == Catalog[t].runtime \in {"extension", "cdp"}

\* While a call chooses, what its probes said is true of some time since it
\* began, and each tunnel they are about is one it may take.
ChoiceInv ==
    \A c \in Calls :
        /\ pc[c] = "idle" => \A t \in Ids : seen[c][t] = "unavailable"
        /\ pc[c] \in {"probing", "selected"} =>
              /\ up \subseteq upSince[c]
              /\ \A t \in Ids : seen[c][t] # "unavailable" =>
                    /\ Reached(t) => t \in upSince[c]
                    /\ ask[c].tunnel = None => Catalog[t].automatic
        /\ pc[c] = "probing" =>
              /\ \A e \in Endpoints : cache[c][e] = None \/ cache[c][e] \subseteq upSince[c]
              /\ ask[c].tunnel = None => \A t \in todo[c] : Catalog[t].automatic
        /\ pc[c] = "selected" =>
              /\ tunnel[c] \in Usable(c)
              /\ \A s \in Usable(c) : Score(c, tunnel[c]) <= Score(c, s)

Choosing == {"idle", "probing", "selected"}

LEMMA PrioritiesAreNumbers == \A t \in Ids : Catalog[t].priority \in Int
  <1> SUFFICES ASSUME NEW t \in Ids PROVE Catalog[t].priority \in Int
    OBVIOUS
  <1>1. Catalog[t] \in TunnelSpec
    BY TunnelsAssumption
  <1>2. QED
    BY <1>1 DEF TunnelSpec

LEMMA ChoiceInitial == Init => ChoiceInv
  BY DEF Init, ChoiceInv

LEMMA OthersChooseAlone ==
    ASSUME Inv, ChoiceInv, NEW c \in Calls, CallStep(c) \/ \E r \in Requests[c] : Begin(c, r),
           NEW d \in Calls, d # c
    PROVE  ChoiceInv!(d)'
  <1> USE DEF Inv, TypeOK
  <1>1. /\ pc'[d] = pc[d] /\ ask'[d] = ask[d] /\ tunnel'[d] = tunnel[d]
    BY OthersKeep
  <1>2. /\ up' = up /\ upSince'[d] = upSince[d] /\ seen'[d] = seen[d] /\ cache'[d] = cache[d] /\ todo'[d] = todo[d]
    BY DEF CallStep, Begin, Probe, ProbeBridge, ProbeOther, ProbeFails, Select, NoTunnel, TakeTunnel,
           Prepare, Connect, LockProfile, Launch, Work, TakeChat, FinalTurn, CloseContext, UnlockProfile,
           Leave, choice
  <1>3. Usable(d)' = Usable(d) /\ \A t \in Ids : Score(d, t)' = Score(d, t)
    BY <1>1, <1>2 DEF Usable, Score, Preferred
  <1>4. Usable(d) \subseteq Ids
    BY DEF Usable
  <1>5. QED
    BY <1>1, <1>2, <1>3, <1>4 DEF ChoiceInv

LEMMA ChoiceInductive == Inv /\ ChoiceInv /\ [Next]_vars => ChoiceInv'
  <1> SUFFICES ASSUME Inv, ChoiceInv, [Next]_vars PROVE ChoiceInv'
    OBVIOUS
  <1> USE DEF Inv, TypeOK
  <1>1. ASSUME NEW c \in Calls, CallStep(c) \/ \E r \in Requests[c] : Begin(c, r)
        PROVE  ChoiceInv'
    <2>1. ChoiceInv!(c)'
      <3>1. CASE \E r \in Requests[c] : Begin(c, r)
        <4>1. PICK r \in Requests[c] : Begin(c, r)
          BY <3>1
        <4>2. /\ pc[c] = "idle" /\ pc'[c] \in {"probing", "ended"}
              /\ ask'[c] = r /\ upSince'[c] = up /\ up' = up /\ seen' = seen
              /\ \A e \in Endpoints : cache'[c][e] = None
              /\ r.tunnel = None => \A t \in todo'[c] : Catalog[t].automatic
          BY <4>1 DEF Begin, Goto, NewCache
        <4>3. QED
          BY <4>2 DEF ChoiceInv
      <3>2. CASE \E t \in Ids : Probe(c, t)
        <4>1. PICK t \in Ids : Probe(c, t)
          BY <3>2
        <4>2. /\ pc[c] = "probing" /\ pc'[c] = "probing" /\ t \in todo[c] /\ todo'[c] \subseteq todo[c]
              /\ UNCHANGED <<up, ask, upSince>>
          BY <4>1 DEF Probe
        <4>3. /\ \A s \in Ids : s # t => seen'[c][s] = seen[c][s]
              /\ seen'[c][t] # "unavailable" /\ Reached(t) => t \in upSince[c]
              /\ \A e \in Endpoints : cache'[c][e] = None \/ cache'[c][e] \subseteq upSince[c]
          <5>1. CASE ProbeBridge(c, t)
            <6> DEFINE e == Catalog[t].endpoint
                       new == {s \in up : Catalog[s].runtime = "extension" /\ Catalog[s].endpoint = e}
            <6>1. PICK snapshot \in {cache[c][e], new} \ {None} :
                     /\ cache' = [cache EXCEPT ![c][e] = snapshot]
                     /\ seen' = [seen EXCEPT ![c][t] = IF t \in snapshot THEN "healthy" ELSE "unavailable"]
              BY <5>1 DEF ProbeBridge
            <6>2. e \in Endpoints
              BY DEF Endpoints
            <6>3. new \subseteq upSince[c]
              BY <4>2 DEF ChoiceInv
            <6>4. snapshot \subseteq upSince[c]
              BY <4>2, <6>1, <6>2, <6>3 DEF ChoiceInv
            <6> HIDE DEF new, e
            <6>5. QED
              BY <4>2, <6>1, <6>2, <6>4 DEF ChoiceInv
          <5>2. CASE ProbeOther(c, t)
            BY <4>2, <5>2 DEF ProbeOther, ChoiceInv, Reached
          <5>3. CASE ProbeFails(c, t)
            BY <4>2, <5>3 DEF ProbeFails, ChoiceInv
          <5>4. QED
            BY <4>1, <5>1, <5>2, <5>3 DEF Probe
        <4>4. QED
          BY <4>2, <4>3 DEF ChoiceInv
      <3>3. CASE \E t \in Ids : Select(c, t)
        <4>1. PICK t \in Ids : Select(c, t)
          BY <3>3
        <4>2. /\ pc[c] = "probing" /\ pc'[c] \in {"selected", "ended"} /\ tunnel'[c] = t
              /\ UNCHANGED <<up, ask, seen, upSince>>
              /\ t \in Usable(c) /\ \A s \in Usable(c) : Score(c, t) < Score(c, s) \/ Score(c, t) = Score(c, s)
          BY <4>1 DEF Select
        <4>3. Usable(c)' = Usable(c) /\ \A s \in Ids : Score(c, s)' = Score(c, s)
          BY <4>2 DEF Usable, Score, Preferred
        <4>4. Usable(c) \subseteq Ids
          BY DEF Usable
        <4>5. \A s \in Usable(c) : Score(c, t) <= Score(c, s)
          <5>1. \A s \in Ids : Score(c, s) \in Int
            <6>1. \A s \in Ids : Penalty(seen[c][s]) \in Int
              BY DEF Penalty
            <6>2. QED
              BY <6>1, PrioritiesAreNumbers DEF Score, Preferred
          <5>2. \A s \in Ids : Score(c, s) < Score(c, t) => ~(Score(c, t) < Score(c, s)) /\ Score(c, s) # Score(c, t)
            BY <4>2, <4>4, <5>1
          <5>3. \A s \in Ids : Score(c, t) <= Score(c, s) \/ Score(c, s) < Score(c, t)
            BY <4>2, <4>4, <5>1
          <5>4. QED
            BY <4>2, <4>4, <5>2, <5>3
        <4>6. /\ tunnel'[c] \in Usable(c)' /\ \A s \in Usable(c)' : Score(c, t)' <= Score(c, s)'
          BY <4>2, <4>3, <4>4, <4>5
        <4>7. QED
          BY <4>2, <4>6 DEF ChoiceInv
      <3>4. CASE NoTunnel(c) \/ TakeTunnel(c) \/ Prepare(c) \/ Connect(c) \/ LockProfile(c) \/ Launch(c) \/ Work(c)
                 \/ TakeChat(c) \/ FinalTurn(c) \/ CloseContext(c) \/ UnlockProfile(c) \/ Leave(c)
        <4>1. pc'[c] \notin Choosing
          BY <3>4
          DEF NoTunnel, TakeTunnel, Prepare, Connect, LockProfile, Launch, Work, TakeChat, FinalTurn,
              CloseContext, UnlockProfile, Leave, Goto, Choosing
        <4>2. QED
          BY <4>1 DEF ChoiceInv, Choosing
      <3>5. QED
        BY <1>1, <3>1, <3>2, <3>3, <3>4 DEF CallStep
    <2>2. QED
      BY <1>1, <2>1, OthersChooseAlone DEF ChoiceInv
  <1>2. ASSUME NEW t \in Ids, Change(t) PROVE ChoiceInv'
    <2>1. /\ UNCHANGED <<pc, ask, todo, seen, cache, tunnel>>
          /\ \A c \in Calls : upSince[c] \subseteq upSince'[c]
          /\ \A c \in Calls : pc[c] \in {"probing", "selected"} => up' \subseteq upSince'[c]
      BY <1>2 DEF Change, choice
    <2>2. \A c \in Calls : Usable(c)' = Usable(c) /\ \A s : Score(c, s)' = Score(c, s)
      BY <2>1 DEF Usable, Score, Preferred
    <2>3. QED
      BY <2>1, <2>2 DEF ChoiceInv
  <1>3. CASE UNCHANGED vars
    BY <1>3 DEF vars, choice, ChoiceInv, Usable, Score, Preferred
  <1>4. QED
    BY <1>1, <1>2, <1>3 DEF Next

\* A call that is sent to a browser worker or a CDP endpoint is sent to one
\* that could be reached since the call began to choose.
THEOREM ChoicesAreFresh == Spec => []FreshChoice
  <1>1. Inv /\ ChoiceInv => FreshChoice
    BY DEF ChoiceInv, FreshChoice, Usable, Reached, Mine
  <1>2. QED
    BY <1>1, InvInitial, InvInductive, ChoiceInitial, ChoiceInductive, PTL DEF Spec

\* What separates health from policy and policy from priority.
CloseTogether ==
    \A s, t \in Ids : Catalog[s].automatic /\ Catalog[t].automatic =>
        Catalog[s].priority - Catalog[t].priority < 100

\* Of a catalog with such priorities no call without a tunnel of its own gets
\* one that was not seen healthy if one was.
THEOREM HealthComesFirst == CloseTogether => (Spec => []HealthFirst)
  <1>1. Inv /\ ChoiceInv /\ CloseTogether => HealthFirst
    <2> SUFFICES ASSUME Inv, ChoiceInv, CloseTogether, NEW c \in Calls, pc[c] = "selected", ask[c].tunnel = None,
                        seen[c][tunnel[c]] # "healthy", NEW t \in Ids, seen[c][t] = "healthy"
                 PROVE  FALSE
      BY DEF HealthFirst
    <2> DEFINE u == tunnel[c]
    <2>1. u \in Ids /\ seen[c][u] # "unavailable" /\ t \in Usable(c) /\ Score(c, u) <= Score(c, t)
      BY DEF ChoiceInv, Usable
    <2>2. Catalog[u].automatic /\ Catalog[t].automatic
      BY <2>1 DEF ChoiceInv
    <2>3. Catalog[u].priority \in Int /\ Catalog[t].priority \in Int
      BY <2>1, PrioritiesAreNumbers
    <2>4. Penalty(seen[c][t]) = 0 /\ Penalty(seen[c][u]) \in {200, 400}
      BY <2>1 DEF Penalty
    <2>5. Catalog[t].priority - Catalog[u].priority < 100
      BY <2>1, <2>2 DEF CloseTogether
    <2>6. QED
      BY <2>1, <2>3, <2>4, <2>5 DEF Score
  <1>2. CloseTogether => CloseTogether'
    BY DEF CloseTogether
  <1>3. QED
    BY <1>1, <1>2, InvInitial, InvInductive, ChoiceInitial, ChoiceInductive, PTL DEF Spec

\* Nor does it get one its policy does not prefer if one it prefers was seen
\* healthy.
THEOREM PoliciesAreHonoured == CloseTogether => (Spec => []PolicyHonoured)
  <1>1. Inv /\ ChoiceInv /\ CloseTogether => PolicyHonoured
    <2> SUFFICES ASSUME Inv, ChoiceInv, CloseTogether, NEW c \in Calls, pc[c] = "selected", ask[c].tunnel = None,
                        NEW t \in Ids, Preferred(t, ask[c].policy), seen[c][t] = "healthy",
                        ~Preferred(tunnel[c], ask[c].policy)
                 PROVE  FALSE
      BY DEF PolicyHonoured
    <2> DEFINE u == tunnel[c]
    <2>1. u \in Ids /\ seen[c][u] # "unavailable" /\ t \in Usable(c) /\ Score(c, u) <= Score(c, t)
      BY DEF ChoiceInv, Usable
    <2>2. Catalog[u].automatic /\ Catalog[t].automatic
      BY <2>1 DEF ChoiceInv
    <2>3. Catalog[u].priority \in Int /\ Catalog[t].priority \in Int
      BY <2>1, PrioritiesAreNumbers
    <2>4. Penalty(seen[c][t]) = 0 /\ Penalty(seen[c][u]) \in {0, 200, 400}
      BY <2>1 DEF Penalty
    <2>5. Catalog[t].priority - Catalog[u].priority < 100
      BY <2>1, <2>2 DEF CloseTogether
    <2>6. QED
      BY <2>1, <2>3, <2>4, <2>5 DEF Score
  <1>2. CloseTogether => CloseTogether'
    BY DEF CloseTogether
  <1>3. QED
    BY <1>1, <1>2, InvInitial, InvInductive, ChoiceInitial, ChoiceInductive, PTL DEF Spec

=============================================================================
