-------------------------- MODULE AutomaticRunProofs --------------------------
(***************************************************************************)
(* For every number of runs, sessions and chats, with crashes and failures *)
(* anywhere.  RunInv: the runs use the session store only through its      *)
(* sections, and final turns of one chat exclude each other.  StageInv:    *)
(* the status is where the run is, so it follows its life cycle and the    *)
(* request stays accounted for.  BindInv: what a run knows of its chat's   *)
(* conversation is so, hence a chat owns the one it has recorded and keeps *)
(* it.                                                                     *)
(***************************************************************************)
EXTENDS AutomaticRun, RegistryProofs

\* What the local variables of a run are at the steps that use them.
Located ==
    \A p \in Clients :
        /\ pc[p] # "idle" => input[p] \in Inputs
        /\ pc[p] = "bind" => target[p] \in Chats /\ input[p].conversation_id \in Conversations
        /\ pc[p] = "bind-write" => target[p] \in Chats /\ answer[p] \in Conversations
        /\ pc[p] \in RunLabels => status[p] # None

\* A chat once resolved can be read again later.
TargetsStored == \A p \in Clients : target[p] # None => chat[target[p]] # None

\* The inductive invariant; ClientOK is what a run relies on until it is resolved.
RunInv ==
    /\ StoreInv /\ RunTypeOK /\ Located /\ TargetsStored /\ LockHeld
    /\ \A p \in Clients : ClientOK(p)

AllLabels == ResolveLabels \cup RunLabels

LEMMA LabelFacts ==
    /\ {"idle", "exists", "create", "get", "pick", "bind", "resolved", "dead"} \subseteq AllLabels
    /\ {"attach", "start", "provider", "planner", "plan", "lock", "failing", "done"} \subseteq AllLabels
    /\ LockedLabels \subseteq AllLabels
  BY DEF AllLabels, ResolveLabels, RunLabels

-----------------------------------------------------------------------------
(* Every step is a section of the store or leaves it alone.                *)

LEMMA RunLocalsTyped ==
    ASSUME RunTypeOK
    PROVE  LocalsTyped
  BY DEF RunTypeOK, LocalsTyped

LEMMA RunIsStoreStep ==
    ASSUME RunInv, [RunNext]_runVars
    PROVE  [StoreNext]_storeVars
  <1> USE RunLocalsTyped DEF RunInv
  <1>1. CASE UNCHANGED runVars
    BY <1>1 DEF runVars, storeVars
  <1>2. ASSUME NEW p \in Clients, NEW in \in Inputs, CallResolve(p, in)
        PROVE  UNCHANGED storeVars
    BY <1>2 DEF CallResolve, storeVars
  <1>3. ASSUME NEW p \in Clients, Attach(p)
        PROVE  [StoreNext]_storeVars
    <2>1. CASE target[p] = None
      BY <1>3, <2>1 DEF Attach
    <2>2. CASE target[p] # None
      <3>1. target[p] \in Chats /\ SessionOf(input[p]) \in Sessions /\ p \in Requests
        BY <1>3, <2>2, SessionOfType, RunsAssumption DEF Attach, Step, Located, RunTypeOK
      <3>2. AppendRequest(SessionOf(input[p]), target[p], p)
        BY <1>3, <2>2 DEF Attach
      <3>3. QED
        BY <3>1, <3>2 DEF StoreNext
    <2>3. QED
      BY <2>1, <2>2
  <1>4. ASSUME NEW p \in Clients, BindWrite(p)
        PROVE  [StoreNext]_storeVars
    <2>1. /\ target[p] \in Chats /\ answer[p] \in Conversations
          /\ SessionOf(input[p]) \in Sessions
      BY <1>4, SessionOfType DEF BindWrite, Step, Located
    <2>2. QED
      BY <1>4, <2>1 DEF BindWrite, StoreNext
  <1>5. ASSUME NEW p \in Clients, RunStep(p), ~ResolveStep(p), ~Attach(p), ~BindWrite(p)
        PROVE  UNCHANGED storeVars
    BY <1>5 DEF RunStep, NewRequest, StartPlanner, StartProvider, PlannerTurn, Plan, AcquireChat,
                Reread, FinalAnswers, FinalFails, BindRead, Update, Report, Complete, Unlock,
                RecordFailure
  <1>6. ASSUME NEW p \in Clients, PollText(p) \/ StoreText(p) \/ Crash(p)
        PROVE  UNCHANGED storeVars
    BY <1>6 DEF PollText, StoreText, Crash, convVars, storeVars
  <1>7. QED
    BY <1>1, <1>2, <1>3, <1>4, <1>5, <1>6, ResolveIsStoreStep, ManageIsStoreStep DEF RunNext

-----------------------------------------------------------------------------
(* RunInv is inductive.                                                    *)

\* A step of p leaves the local variables of the other runs alone.
Others(p) ==
    \A q \in Clients \ {p} :
        /\ pc'[q] = pc[q] /\ input'[q] = input[q]
        /\ target'[q] = target[q] /\ answer'[q] = answer[q] /\ status'[q] = status[q]

\* What p itself has after a step of its own.
Here(p) ==
    /\ pc'[p] # "idle" => input'[p] \in Inputs
    /\ pc'[p] = "bind" => target'[p] \in Chats /\ input'[p].conversation_id \in Conversations
    /\ pc'[p] = "bind-write" => target'[p] \in Chats /\ answer'[p] \in Conversations
    /\ pc'[p] \in RunLabels => status'[p] # None

LEMMA LocatedKept ==
    ASSUME Located, NEW p \in Clients, Others(p), Here(p)
    PROVE  Located'
  BY DEF Located, Others, Here

\* No run enters the locked steps, or changes its chat in them.
LEMMA LockKept ==
    ASSUME LockHeld, NEW p \in Clients, Others(p), UNCHANGED holder,
           pc'[p] \in LockedLabels => pc[p] \in LockedLabels /\ target'[p] = target[p]
    PROVE  LockHeld'
  BY DEF LockHeld, Others

\* A run gives its locks back as it leaves the locked steps.
LEMMA LockReleased ==
    ASSUME LockHeld, RunTypeOK, NEW p \in Clients, Others(p), holder' = Released(p),
           pc'[p] \notin LockedLabels
    PROVE  LockHeld'
  <1>1. ASSUME NEW q \in Clients, pc'[q] \in LockedLabels, target'[q] # None
        PROVE  holder'[target'[q]] = q
    <2>1. q # p /\ pc[q] \in LockedLabels /\ target'[q] = target[q] /\ target[q] \in Chats
      BY <1>1 DEF Others, RunTypeOK
    <2>2. holder[target[q]] = q
      BY <2>1, <1>1 DEF LockHeld
    <2>3. QED
      BY <2>1, <2>2 DEF Released
  <1>2. QED
    BY <1>1 DEF LockHeld

\* The facts a step of p keeps, those about the store apart.
Kept == RunTypeOK' /\ Located' /\ LockHeld'

\* A step that moves p along its run, its lock and its chat kept.
LEMMA MoveKeeps ==
    ASSUME RunInv, StoreInv', NEW p \in Clients, NEW from, NEW to \in RunLabels,
           Step(p, from, to), from # "idle",
           to \in LockedLabels => from \in LockedLabels,
           to = "bind-write" => target[p] \in Chats /\ answer'[p] \in Conversations,
           bound' \in [Clients -> Conversations \cup {None}],
           StatusTypeOK', status'[p] # None,
           result' \in [Clients -> BOOLEAN],
           answer' \in [Clients -> Conversations \cup {None}],
           \A q \in Clients \ {p} : answer'[q] = answer[q] /\ status'[q] = status[q],
           opened' \subseteq Conversations,
           UNCHANGED <<holder, polled>>
    PROVE  Kept
  <1> USE DEF RunInv
  <1>1. RunTypeOK'
    BY DEF RunTypeOK, StoreInv, Step, Goto, StatusTypeOK
  <1>2. Others(p)
    BY DEF Others, Step, Goto, RunTypeOK
  <1>3. pc'[p] = to /\ pc[p] = from /\ input'[p] = input[p] /\ target'[p] = target[p]
    BY DEF Step, Goto, RunTypeOK
  <1>4. Here(p)
    BY <1>3 DEF Here, Located, RunLabels, LockedLabels
  <1>5. Located'
    BY <1>2, <1>4, LocatedKept
  <1>6. LockHeld'
    BY <1>2, <1>3, LockKept
  <1>7. QED
    BY <1>1, <1>5, <1>6 DEF Kept

\* What the status operations return.
LEMMA StatusKept ==
    ASSUME RunTypeOK, NEW p \in Clients, NEW from, NEW to \in States, NEW v \in Conversations \cup {None},
           NEW stage \in Stages,
           \/ CreateStatus(p, target[p]) \/ Transition(p, from, to) \/ UpdateProgress(p, stage)
           \/ status[p] # None /\ UpdateConversation(p, v)
           \/ status[p] # None /\ Fail(p)
    PROVE  /\ StatusTypeOK'
           /\ \A q \in Clients \ {p} : status'[q] = status[q]
           /\ status[p] # None => status'[p] # None
           /\ CreateStatus(p, target[p]) => status'[p] # None
  <1> DEFINE Done ==
        /\ StatusTypeOK'
        /\ \A q \in Clients \ {p} : status'[q] = status[q]
        /\ status[p] # None => status'[p] # None
        /\ CreateStatus(p, target[p]) => status'[p] # None
  <1>0. Clients \subseteq Requests /\ status \in [Requests -> StatusRecord \cup {None}]
    BY RunsAssumption DEF RunTypeOK, StatusTypeOK
  <1>1. ASSUME NEW record \in StatusRecord, status' = [status EXCEPT ![p] = record]
        PROVE  Done
    <2>1. None \notin StatusRecord
      BY NoneIsNoRun
    <2>2. QED
      BY <1>0, <1>1, <2>1 DEF StatusTypeOK
  <1>2. CASE CreateStatus(p, target[p])
    <2>1. [state |-> "new", chat |-> target[p], conversation |-> None, partial |-> None]
             \in StatusRecord
      BY DEF RunTypeOK, StatusRecord, States
    <2>2. QED
      BY <2>1, <1>1, <1>2 DEF CreateStatus
  <1>3. CASE Transition(p, from, to)
    <2>1. /\ status[p] \in StatusRecord
          /\ status' = [status EXCEPT ![p] = [status[p] EXCEPT !.state = to]]
      BY <1>0, <1>3 DEF Transition, InState
    <2>2. [status[p] EXCEPT !.state = to] \in StatusRecord
      BY <2>1 DEF StatusRecord
    <2>3. QED
      BY <2>1, <2>2, <1>1
  <1>4. CASE UpdateProgress(p, stage)
    <2>1. CASE InState(p, "running-planner") \/ InState(p, "running-final")
      <3>1. /\ status[p] \in StatusRecord
            /\ status' = [status EXCEPT ![p] = [status[p] EXCEPT !.partial = stage]]
        BY <1>0, <1>4, <2>1 DEF UpdateProgress, InState
      <3>2. [status[p] EXCEPT !.partial = stage] \in StatusRecord
        BY <3>1 DEF StatusRecord
      <3>3. QED
        BY <3>1, <3>2, <1>1
    <2>2. CASE UNCHANGED status /\ ~CreateStatus(p, target[p])
      BY <1>0, <2>2 DEF StatusTypeOK
    <2>3. QED
      BY <2>1, <2>2, <1>2, <1>4 DEF UpdateProgress
  <1>5. CASE status[p] # None /\ UpdateConversation(p, v)
    <2>1. /\ status[p] \in StatusRecord
          /\ status' = [status EXCEPT ![p] = [status[p] EXCEPT !.conversation = v]]
      BY <1>0, <1>5 DEF UpdateConversation
    <2>2. [status[p] EXCEPT !.conversation = v] \in StatusRecord
      BY <2>1 DEF StatusRecord
    <2>3. QED
      BY <2>1, <2>2, <1>1
  <1>6. CASE status[p] # None /\ Fail(p)
    <2>1. CASE UNCHANGED status
      BY <1>0, <1>2, <1>6, <2>1 DEF StatusTypeOK
    <2>2. CASE ~UNCHANGED status
      <3>1. /\ status[p] \in StatusRecord
            /\ status' = [status EXCEPT ![p] = [status[p] EXCEPT !.state = "failed"]]
        BY <1>0, <1>6, <2>2 DEF Fail
      <3>2. [status[p] EXCEPT !.state = "failed"] \in StatusRecord
        BY <3>1 DEF StatusRecord, States
      <3>3. QED
        BY <3>1, <3>2, <1>1
    <2>3. QED
      BY <2>1, <2>2
  <1>7. QED
    BY <1>2, <1>3, <1>4, <1>5, <1>6

\* The labels a run passes, which MoveKeeps asks about.
LEMMA RunLabelFacts ==
    /\ {"attach", "start", "provider", "planner", "plan", "lock", "failing", "done"} \subseteq RunLabels
    /\ LockedLabels \subseteq RunLabels
    /\ "idle" \notin RunLabels /\ "resolved" \notin RunLabels
    /\ {"attach", "start", "provider", "planner", "plan", "lock", "failing", "done", "dead"}
         \cap LockedLabels = {}
    /\ {"new", "running-planner", "running-final", "complete", "failed"} \subseteq States
  BY DEF RunLabels, LockedLabels, States

\* Steps of a run that change no lock.
LEMMA WorkKeeps ==
    ASSUME RunInv, StoreInv', NEW p \in Clients,
           \/ NewRequest(p) \/ Attach(p) \/ StartPlanner(p) \/ StartProvider(p)
           \/ PlannerTurn(p) \/ Plan(p) \/ Reread(p) \/ FinalAnswers(p) \/ FinalFails(p)
           \/ BindRead(p) \/ BindWrite(p) \/ Update(p) \/ Report(p) \/ Complete(p)
           \/ RecordFailure(p)
    PROVE  Kept
  <1> USE DEF RunInv
  <1> USE RunLabelFacts
  <1>0. /\ bound \in [Clients -> Conversations \cup {None}]
        /\ target \in [Clients -> Chats \cup {None}]
        /\ result \in [Clients -> BOOLEAN]
        /\ answer \in [Clients -> Conversations \cup {None}]
        /\ opened \subseteq Conversations
        /\ chat \in [Chats -> ChatRecord \cup {None}]
        /\ StatusTypeOK
    BY DEF RunTypeOK, StoreTypeOK
  \* What is left to say of a step that does not touch the status.
  <1>a. ASSUME NEW from \in RunLabels, NEW to \in RunLabels, Step(p, from, to), UNCHANGED status
        PROVE  StatusTypeOK' /\ status'[p] # None /\ \A q \in Clients \ {p} : status'[q] = status[q]
    BY <1>0, <1>a DEF Located, Step, StatusTypeOK
  <1>1. CASE NewRequest(p)
    <2>1. /\ Step(p, "resolved", "attach") /\ CreateStatus(p, target[p])
          /\ UNCHANGED <<bound, result, holder, answer, opened, polled>>
      BY <1>1 DEF NewRequest
    <2>2. StatusTypeOK' /\ status'[p] # None /\ \A q \in Clients \ {p} : status'[q] = status[q]
      BY <2>1, StatusKept DEF Stages
    <2>3. QED
      BY <2>1, <2>2, <1>0, MoveKeeps
  <1>2. ASSUME NEW from \in RunLabels, NEW to \in RunLabels, Step(p, from, to),
               to \in LockedLabels => from \in LockedLabels, to # "bind-write",
               UNCHANGED <<bound, engineVars>>
        PROVE  Kept
    BY <1>0, <1>2, <1>a, MoveKeeps DEF engineVars
  <1>3. CASE Attach(p)
    BY <1>2, <1>3 DEF Attach
  <1>4. CASE StartProvider(p)
    BY <1>2, <1>4 DEF StartProvider
  <1>5. CASE PlannerTurn(p)
    BY <1>2, <1>5 DEF PlannerTurn
  <1>6. CASE FinalFails(p)
    BY <1>2, <1>6 DEF FinalFails, LockedLabels
  <1>7. ASSUME NEW from \in RunLabels, NEW to \in RunLabels, NEW before \in States, NEW after \in States,
               Step(p, from, to), to \in LockedLabels => from \in LockedLabels, to # "bind-write",
               Transition(p, before, after) \/ Fail(p),
               UNCHANGED <<bound, result, holder, answer, opened, polled>>
        PROVE  Kept
    <2>1. status[p] # None
      BY <1>7 DEF Step, Located
    <2>2. StatusTypeOK' /\ status'[p] # None /\ \A q \in Clients \ {p} : status'[q] = status[q]
      BY <2>1, <1>7, StatusKept DEF Stages
    <2>3. QED
      BY <2>2, <1>0, <1>7, MoveKeeps
  <1>8. CASE StartPlanner(p)
    BY <1>7, <1>8 DEF StartPlanner
  <1>9. CASE Plan(p)
    <2>1. CASE Step(p, "plan", "lock") /\ Transition(p, "running-planner", "running-final")
      BY <1>7, <1>9, <2>1 DEF Plan
    <2>2. CASE Step(p, "plan", "failing") /\ UNCHANGED status
      BY <1>2, <1>9, <2>2 DEF Plan, engineVars
    <2>3. QED
      BY <1>9, <2>1, <2>2 DEF Plan
  <1>10. CASE Complete(p)
    BY <1>7, <1>10 DEF Complete, LockedLabels
  <1>11. CASE RecordFailure(p)
    BY <1>7, <1>11 DEF RecordFailure
  <1>12. CASE Reread(p)
    <2>0. \A c \in Chats : chat[c] # None => chat[c].conversation \in Conversations \cup {None}
      BY <1>0 DEF ChatRecord
    <2>9. target[p] # None => chat[target[p]] # None
      BY DEF TargetsStored
    <2>1. bound' \in [Clients -> Conversations \cup {None}]
      BY <1>0, <2>0, <2>9, <1>12 DEF Reread
    <2>2. Step(p, "reread", "final") /\ UNCHANGED engineVars
      BY <1>12 DEF Reread
    <2>3. QED
      BY <2>1, <2>2, <1>0, <1>a, MoveKeeps DEF engineVars, LockedLabels
  <1>13. CASE FinalAnswers(p)
    <2>1. PICK v \in Answers(p) :
             /\ answer' = [answer EXCEPT ![p] = v]
             /\ opened' = opened \cup ({v} \ {None})
      BY <1>13 DEF FinalAnswers
    <2>2. v \in Conversations \cup {None}
      BY <1>0 DEF Answers
    <2>3. /\ Step(p, "final", "bind-read")
          /\ UNCHANGED <<bound, status, result, holder, polled>>
      BY <1>13 DEF FinalAnswers
    <2>4. /\ answer' \in [Clients -> Conversations \cup {None}]
          /\ \A q \in Clients \ {p} : answer'[q] = answer[q]
          /\ opened' \subseteq Conversations
      BY <1>0, <2>1, <2>2
    <2>5. QED
      BY <2>3, <2>4, <1>0, <1>a, MoveKeeps DEF LockedLabels
  <1>14. CASE BindRead(p)
    <2>1. UNCHANGED <<bound, engineVars>>
      BY <1>14 DEF BindRead
    <2>2. CASE Step(p, "bind-read", "update") \/ Step(p, "bind-read", "unlock-fail")
      BY <1>2, <2>1, <2>2 DEF LockedLabels
    <2>3. CASE /\ Step(p, "bind-read", "bind-write")
               /\ ~(answer[p] = None \/ target[p] = None)
      BY <1>0, <1>a, <2>1, <2>3, MoveKeeps DEF engineVars, LockedLabels
    <2>4. QED
      BY <1>14, <2>2, <2>3 DEF BindRead
  <1>15. CASE BindWrite(p)
    BY <1>2, <1>15 DEF BindWrite, LockedLabels
  <1>16. CASE Update(p)
    <2>1. /\ Step(p, "update", "report") /\ UpdateConversation(p, answer[p])
          /\ UNCHANGED <<bound, result, holder, answer, opened, polled>>
      BY <1>16 DEF Update
    <2>2. status[p] # None
      BY <2>1 DEF Step, Located, LockedLabels
    <2>3. StatusTypeOK' /\ status'[p] # None /\ \A q \in Clients \ {p} : status'[q] = status[q]
      BY <1>0, <2>1, <2>2, StatusKept DEF Stages
    <2>4. QED
      BY <2>1, <2>3, <1>0, MoveKeeps DEF LockedLabels
  <1>17. CASE Report(p)
    <2>1. \/ Step(p, "report", "complete") \/ Step(p, "report", "unlock-fail")
      BY <1>17 DEF Report
    <2>2. result' \in [Clients -> BOOLEAN]
      BY <1>0, <1>17 DEF Report
    <2>3. UNCHANGED <<bound, status, holder, answer, opened, polled>>
      BY <1>17 DEF Report
    <2>4. QED
      BY <2>1, <2>2, <2>3, <1>0, <1>a, MoveKeeps DEF LockedLabels
  <1>18. QED
    BY <1>1, <1>3, <1>4, <1>5, <1>6, <1>8, <1>9, <1>10, <1>11, <1>12, <1>13, <1>14, <1>15,
       <1>16, <1>17

\* Steps that change who holds a lock.
LEMMA LockingKeeps ==
    ASSUME RunInv, StoreInv', NEW p \in Clients, AcquireChat(p) \/ Unlock(p) \/ Crash(p)
    PROVE  Kept
  <1> USE DEF RunInv
  <1> USE RunLabelFacts, LabelFacts
  <1>1. CASE AcquireChat(p)
    <2>1. /\ pc' = [pc EXCEPT ![p] = "reread"] /\ pc[p] = "lock"
          /\ UNCHANGED <<input, target, stale, bound, status, result, answer, opened, polled>>
      BY <1>1 DEF AcquireChat, Step, Goto
    <2>2. holder' \in [Chats -> Clients \cup {None}]
      BY <1>1 DEF AcquireChat, RunTypeOK
    <2>3. RunTypeOK'
      BY <2>1, <2>2 DEF RunTypeOK, StoreInv, StatusTypeOK, LockedLabels
    <2>4. Others(p) /\ pc'[p] = "reread"
      BY <2>1 DEF Others, RunTypeOK
    <2>5. Here(p)
      BY <2>1, <2>4 DEF Here, Located
    <2>6. Located'
      BY <2>4, <2>5, LocatedKept
    <2>7. ASSUME NEW q \in Clients, pc'[q] \in LockedLabels, target'[q] # None
          PROVE  holder'[target'[q]] = q
      <3>1. target'[q] = target[q] /\ target[q] \in Chats /\ holder \in [Chats -> Clients \cup {None}]
        BY <2>1, <2>7 DEF RunTypeOK
      <3>2. CASE q = p
        BY <1>1, <2>7, <3>1, <3>2 DEF AcquireChat
      <3>3. CASE q # p
        <4>1. holder[target[q]] = q
          BY <2>4, <2>7, <3>1, <3>3 DEF LockHeld, Others
        <4>2. q # None
          BY NoneIsNoRun
        <4>3. QED
          BY <1>1, <3>1, <4>1, <4>2 DEF AcquireChat
      <3>4. QED
        BY <3>2, <3>3
    <2>8. QED
      BY <2>3, <2>6, <2>7 DEF Kept, LockHeld
  <1>2. CASE Unlock(p) \/ Crash(p)
    <2>1. PICK to \in {"done", "failing", "dead"} :
            /\ pc' = [pc EXCEPT ![p] = to]
            /\ UNCHANGED <<input, target, stale, bound, status, result, answer, opened>>
            /\ holder' = Released(p)
            /\ pc[p] \in RunLabels
      BY <1>2 DEF Unlock, Crash, Step, Goto, LockedLabels
    <2>2. polled' \in [Clients -> SUBSET Stages]
      BY <1>2 DEF Unlock, Crash, RunTypeOK
    <2>3. holder' \in [Chats -> Clients \cup {None}]
      BY <2>1 DEF Released, RunTypeOK
    <2>4. RunTypeOK'
      BY <2>1, <2>2, <2>3 DEF RunTypeOK, StoreInv, StatusTypeOK, AllLabels
    <2>5. Others(p) /\ pc'[p] = to
      BY <2>1 DEF Others, RunTypeOK
    <2>6. Here(p)
      BY <2>1, <2>5 DEF Here, Located
    <2>7. Located'
      BY <2>5, <2>6, LocatedKept
    <2>8. LockHeld'
      BY <2>1, <2>5, LockReleased
    <2>0. QED
      BY <2>4, <2>7, <2>8 DEF Kept
  <1>3. QED
    BY <1>1, <1>2

\* The progress threads.
LEMMA ProgressKeeps ==
    ASSUME RunInv, StoreInv', NEW p \in Clients, PollText(p) \/ StoreText(p)
    PROVE  Kept
  <1> USE DEF RunInv
  <1>1. UNCHANGED <<pc, input, target, bound, stale, result, holder, answer, opened>>
    BY DEF PollText, StoreText, convVars
  <1>2. polled' \in [Clients -> SUBSET Stages]
    BY DEF PollText, StoreText, RunTypeOK
  <1>3. PICK stage \in Stages : UNCHANGED status \/ UpdateProgress(p, stage)
    BY DEF PollText, StoreText, RunTypeOK
  <1>4. /\ StatusTypeOK'
        /\ \A q \in Clients \ {p} : status'[q] = status[q]
        /\ status[p] # None => status'[p] # None
    <2>1. CASE UNCHANGED status
      BY <2>1 DEF RunTypeOK, StatusTypeOK
    <2>2. CASE UpdateProgress(p, stage)
      BY <2>2, StatusKept DEF States
    <2>3. QED
      BY <1>3, <2>1, <2>2
  <1>5. RunTypeOK'
    BY <1>1, <1>2, <1>4 DEF RunTypeOK, StoreInv
  <1>6. Located' /\ LockHeld'
    BY <1>1, <1>4 DEF Located, LockHeld
  <1>7. QED
    BY <1>5, <1>6 DEF Kept

\* What a step of resolve does with the local variables of its client.
Resolving(p) ==
    /\ UNCHANGED <<status, result, holder, answer, opened, polled>>
    /\ \E to \in ResolveLabels, in \in Inputs \cup {None}, c \in Chats \cup {None},
          v \in Conversations \cup {None}, b \in BOOLEAN :
        /\ pc[p] \in ResolveLabels
        /\ pc' = [pc EXCEPT ![p] = to]
        /\ input' = [input EXCEPT ![p] = in]
        /\ target' = [target EXCEPT ![p] = c]
        /\ bound' = [bound EXCEPT ![p] = v]
        /\ stale' = [stale EXCEPT ![p] = b]
        /\ to # "idle" => in \in Inputs
        /\ to = "bind" => c \in Chats /\ in.conversation_id \in Conversations
        /\ c \in {None, target[p]} \/ chat'[c] # None

LEMMA ResolvingKeeps ==
    ASSUME RunInv, StoreInv', NEW p \in Clients, Resolving(p)
    PROVE  Kept
  <1> USE DEF RunInv
  <1>1. PICK to \in ResolveLabels, in \in Inputs \cup {None}, c \in Chats \cup {None},
             v \in Conversations \cup {None}, b \in BOOLEAN :
          /\ pc[p] \in ResolveLabels
          /\ pc' = [pc EXCEPT ![p] = to]
          /\ input' = [input EXCEPT ![p] = in]
          /\ target' = [target EXCEPT ![p] = c]
          /\ bound' = [bound EXCEPT ![p] = v]
          /\ stale' = [stale EXCEPT ![p] = b]
          /\ to # "idle" => in \in Inputs
          /\ to = "bind" => c \in Chats /\ in.conversation_id \in Conversations
    BY DEF Resolving
  <1>2. UNCHANGED <<status, result, holder, answer, opened, polled>>
    BY DEF Resolving
  <1>3. to \notin RunLabels /\ to \notin LockedLabels
    BY DEF ResolveLabels, RunLabels, LockedLabels
  <1>4. RunTypeOK'
    BY <1>1, <1>2 DEF RunTypeOK, StoreInv, StatusTypeOK
  <1>5. Others(p)
    BY <1>1, <1>2 DEF Others, RunTypeOK
  <1>6. pc'[p] = to /\ input'[p] = in /\ target'[p] = c
    BY <1>1 DEF RunTypeOK
  <1>7. Here(p)
    BY <1>1, <1>3, <1>6 DEF Here, LockedLabels, RunLabels
  <1>8. Located'
    BY <1>5, <1>7, LocatedKept
  <1>9. LockHeld'
    BY <1>2, <1>3, <1>5, <1>6, LockKept
  <1>10. QED
    BY <1>4, <1>8, <1>9 DEF Kept

\* Leave and Found, the two ends of looking for a chat.
LEMMA LeaveResolves ==
    ASSUME RunInv, NEW p \in Clients, Leave(p), pc[p] \in ResolveLabels,
           UNCHANGED <<status, result, holder, answer, opened, polled>>
    PROVE  Resolving(p)
  BY DEF RunInv, Leave, Goto, Resolving, ResolveLabels

LEMMA FoundResolves ==
    ASSUME RunInv, NEW p \in Clients, NEW c \in Chats, NEW v \in Conversations \cup {None},
           Found(p, c, v), pc[p] = "pick", chat'[c] # None,
           UNCHANGED <<status, result, holder, answer, opened, polled>>
    PROVE  Resolving(p)
  <1>1. input[p] \in Inputs /\ input[p].conversation_id \in Conversations \cup {None}
    BY SessionOfType DEF RunInv, Located
  <1>2. pc[p] \in ResolveLabels /\ {"bind", "resolved"} \subseteq ResolveLabels
    BY DEF ResolveLabels
  <1>3. CASE Leave(p)
    BY <1>2, <1>3, LeaveResolves
  <1>4. CASE ~Leave(p)
    <2> DEFINE to == IF input[p].conversation_id # None /\ v = None THEN "bind" ELSE "resolved"
    <2>1. /\ target' = [target EXCEPT ![p] = c]
          /\ bound' = [bound EXCEPT ![p] = v]
          /\ pc' = [pc EXCEPT ![p] = to]
          /\ UNCHANGED <<input, stale>>
      BY <1>4 DEF Found, Goto
    <2>2. input' = [input EXCEPT ![p] = input[p]] /\ stale' = [stale EXCEPT ![p] = stale[p]]
      BY <2>1 DEF RunInv, RunTypeOK
    <2>3. to \in ResolveLabels /\ (to = "bind" => input[p].conversation_id \in Conversations)
      BY <1>1, <1>2
    <2>4. stale[p] \in BOOLEAN
      BY DEF RunInv, RunTypeOK
    <2> HIDE DEF to
    <2>5. QED
      BY <1>1, <1>2, <2>1, <2>2, <2>3, <2>4 DEF Resolving
  <1>5. QED
    BY <1>3, <1>4

\* Steps of resolve that keep every local variable but pc.
LEMMA GotoResolves ==
    ASSUME RunInv, NEW p \in Clients, NEW to \in ResolveLabels, Goto(p, to),
           pc[p] \in ResolveLabels \ {"idle"}, to # "bind",
           UNCHANGED <<input, target, bound, stale, status, result, holder, answer, opened, polled>>
    PROVE  Resolving(p)
  <1>1. input[p] \in Inputs
    BY DEF RunInv, Located
  <1>2. /\ input' = [input EXCEPT ![p] = input[p]]
        /\ target' = [target EXCEPT ![p] = target[p]]
        /\ bound' = [bound EXCEPT ![p] = bound[p]]
        /\ stale' = [stale EXCEPT ![p] = stale[p]]
        /\ target[p] \in Chats \cup {None} /\ bound[p] \in Conversations \cup {None}
        /\ stale[p] \in BOOLEAN
    BY DEF RunInv, RunTypeOK
  <1>3. pc' = [pc EXCEPT ![p] = to] /\ pc[p] \in ResolveLabels
    BY DEF Goto
  <1>4. UNCHANGED <<status, result, holder, answer, opened, polled>>
    OBVIOUS
  <1>5. QED
    <2>1. input[p] \in Inputs \cup {None} /\ target[p] \in {None, target[p]}
      BY <1>1
    <2>2. QED
      BY ONLY <1>1, <1>2, <1>3, <1>4, <2>1, to \in ResolveLabels, to # "bind" DEF Resolving

LEMMA ResolveResolves ==
    ASSUME RunInv, StoreInv', NEW p \in Clients,
           \/ ResolveStep(p) /\ UNCHANGED engineVars
           \/ \E in \in Inputs : CallResolve(p, in) /\ UNCHANGED engineVars
    PROVE  Resolving(p)
  <1> USE DEF RunInv
  <1>0. UNCHANGED <<status, result, holder, answer, opened, polled>>
    BY DEF engineVars
  <1>1. {"idle", "exists", "create", "get", "pick", "bind", "resolved", "dead"} = ResolveLabels
    BY DEF ResolveLabels
  <1>2. \A c \in Chats : chat[c] # None => chat[c].conversation \in Conversations \cup {None}
    BY DEF StoreInv, StoreTypeOK, ChatRecord
  <1>3. ASSUME NEW in \in Inputs, CallResolve(p, in)
        PROVE  Resolving(p)
    <2>1. PICK to \in {"resolved", "exists"} : pc' = [pc EXCEPT ![p] = to]
      BY <1>3 DEF CallResolve, Goto
    <2>2. PICK b \in BOOLEAN : stale' = [stale EXCEPT ![p] = b]
      BY <1>3 DEF CallResolve
    <2>3. /\ target' = [target EXCEPT ![p] = target[p]]
          /\ bound' = [bound EXCEPT ![p] = bound[p]]
          /\ input' = [input EXCEPT ![p] = in]
          /\ pc[p] = "idle"
      BY <1>3 DEF CallResolve, RunTypeOK
    <2>4. target[p] \in Chats \cup {None} /\ bound[p] \in Conversations \cup {None}
      BY DEF RunTypeOK
    <2>5. QED
      BY <1>0, <1>1, <2>1, <2>2, <2>3, <2>4 DEF Resolving
  <1>4. CASE EnsureExists(p)
    BY <1>0, <1>1, <1>4, GotoResolves DEF EnsureExists
  <1>5. CASE EnsureCreate(p)
    BY <1>0, <1>1, <1>5, GotoResolves DEF EnsureCreate
  <1>6. CASE EnsureGet(p)
    BY <1>0, <1>1, <1>6, GotoResolves, LeaveResolves DEF EnsureGet
  <1>7. CASE PickNamed(p)
    <2>1. CASE Leave(p)
      BY <1>0, <1>1, <1>7, <2>1, LeaveResolves DEF PickNamed
    <2>2. CASE ~Leave(p)
      <3> DEFINE c == input[p].chat_id
      <3>1. c \in Chats /\ UNCHANGED chat /\ pc[p] = "pick"
        BY <1>7, SessionOfType DEF PickNamed, Located
      <3>2. chat[c] # None /\ Found(p, c, chat[c].conversation)
        BY <1>7, <2>2 DEF PickNamed, Readable, Stored
      <3>3. chat'[c] # None /\ chat[c].conversation \in Conversations \cup {None}
        BY <3>1, <3>2, <1>2
      <3> HIDE DEF c
      <3>4. QED
        BY <1>0, <3>1, <3>2, <3>3, FoundResolves
    <2>3. QED
      BY <2>1, <2>2
  <1>8. ASSUME NEW s \in Sessions, NEW c \in Chats, NEW kind \in ChatKinds, NEW active,
               CreateChat(s, c, kind, active)
        PROVE  chat'[c] # None
    <2>1. chat'[c] = NewChatRecord(s, kind)
      BY <1>8 DEF CreateChat, StoreInv, StoreTypeOK
    <2>2. NewChatRecord(s, kind) \in ChatRecord
      BY DEF NewChatRecord, ChatRecord
    <2>3. QED
      BY <2>1, <2>2, NoneAssumption
  <1>9. CASE PickNew(p)
    <2>1. SessionOf(input[p]) \in Sessions
      BY <1>9, SessionOfType DEF PickNew, Located
    <2>2. QED
      BY <1>0, <1>8, <1>9, <2>1, FoundResolves DEF PickNew, ChatKinds
  <1>10. CASE PickMain(p)
    <2> DEFINE s == SessionOf(input[p])
    <2>0. s \in Sessions
      BY <1>10, SessionOfType DEF PickMain, Located
    <2>1. CASE \E c \in Chats : CreateMainChat(s, c) /\ Found(p, c, None)
      BY <1>0, <1>8, <1>10, <2>0, <2>1, FoundResolves DEF PickMain, CreateMainChat, ChatKinds
    <2>2. CASE /\ Open(s) /\ session[s].active # None
               /\ Found(p, session[s].active, chat[session[s].active].conversation)
               /\ UNCHANGED <<session, chat>>
      <3>2. session[s].active \in Chats /\ chat[session[s].active] # None
        BY <2>0, <2>2 DEF Open, Exists, StoreInv, StoreTypeOK, SessionRecord, ActiveIsMember,
                          MembersStored, Stored
      <3> HIDE DEF s
      <3>3. QED
        BY <1>0, <1>2, <1>10, <2>2, <3>2, FoundResolves DEF PickMain
    <2>3. QED
      BY <1>10, <2>1, <2>2 DEF PickMain
  <1>11. CASE PickClosed(p)
    BY <1>0, <1>1, <1>11, LeaveResolves DEF PickClosed
  <1>12. CASE BindExplicit(p)
    <2>1. /\ input[p] \in Inputs /\ input[p].conversation_id \in Conversations
          /\ target[p] \in Chats
      BY <1>12 DEF BindExplicit, Located
    <2>2. /\ input' = [input EXCEPT ![p] = input[p]]
          /\ target' = [target EXCEPT ![p] = target[p]]
          /\ stale' = [stale EXCEPT ![p] = stale[p]]
          /\ stale[p] \in BOOLEAN
          /\ bound' = [bound EXCEPT ![p] = input[p].conversation_id]
          /\ pc' = [pc EXCEPT ![p] = "resolved"] /\ pc[p] = "bind"
      BY <1>12 DEF BindExplicit, Goto, RunTypeOK
    <2>3. QED
      BY <1>0, <1>1, <2>1, <2>2 DEF Resolving
  <1>13. CASE DieCreating(p)
    BY <1>0, <1>1, <1>13, GotoResolves DEF DieCreating
  <1>14. QED
    BY <1>3, <1>4, <1>5, <1>6, <1>7, <1>9, <1>10, <1>11, <1>12, <1>13 DEF ResolveStep

LEMMA TargetsKept ==
    ASSUME RunInv, StoreInv', [RunNext]_runVars, [StoreNext]_storeVars
    PROVE  TargetsStored'
  <1>0. \A c \in Chats : chat[c] # None => chat'[c] # None
    BY RegistryGrows DEF RunInv, ChatGrows
  <1>1. ASSUME NEW p \in Clients,
               \A q \in Clients : target'[q] \in {None, target[q]} \/ chat'[target'[q]] # None
        PROVE  TargetsStored'
    <2>1. ASSUME NEW q \in Clients, target'[q] # None PROVE chat'[target'[q]] # None
      <3>1. CASE target'[q] = target[q]
        BY <1>0, <2>1, <3>1 DEF RunInv, TargetsStored, RunTypeOK
      <3>2. QED
        BY <1>1, <2>1, <3>1
    <2>2. QED
      BY <2>1 DEF TargetsStored
  <1>2. CASE UNCHANGED target
    BY <1>0, <1>2 DEF RunInv, TargetsStored, RunTypeOK
  <1>3. ASSUME NEW p \in Clients, Resolving(p)
        PROVE  TargetsStored'
    <2>1. PICK c \in Chats \cup {None} :
            target' = [target EXCEPT ![p] = c] /\ (c \in {None, target[p]} \/ chat'[c] # None)
      BY <1>3 DEF Resolving
    <2>2. \A q \in Clients : target'[q] \in {None, target[q]} \/ chat'[target'[q]] # None
      BY <2>1 DEF RunInv, RunTypeOK
    <2>3. QED
      BY <1>1, <2>2
  <1>4. ASSUME NEW p \in Clients, RunStep(p), ~ResolveStep(p)
        PROVE  UNCHANGED target
    BY <1>4 DEF RunStep, NewRequest, Attach, StartPlanner, StartProvider, PlannerTurn, Plan,
                AcquireChat, Reread, FinalAnswers, FinalFails, BindRead, BindWrite, Update, Report,
                Complete, Unlock, RecordFailure, Step
  <1>5. ASSUME NEW p \in Clients, PollText(p) \/ StoreText(p) \/ Crash(p)
        PROVE  UNCHANGED target
    BY <1>5 DEF PollText, StoreText, Crash, convVars
  <1>6. ManageStep => UNCHANGED target
    BY DEF ManageStep, clientVars
  <1>7. UNCHANGED runVars => UNCHANGED target
    BY DEF runVars
  <1>8. ASSUME NEW p \in Clients, RunStep(p), ResolveStep(p)
        PROVE  UNCHANGED engineVars \/ UNCHANGED target
    BY <1>8 DEF RunStep, NewRequest, Attach, StartPlanner, StartProvider, PlannerTurn, Plan,
                AcquireChat, Reread, FinalAnswers, FinalFails, BindRead, BindWrite, Update, Report,
                Complete, Unlock, RecordFailure, Step
  <1>9. QED
    BY <1>2, <1>3, <1>4, <1>5, <1>6, <1>7, <1>8, ResolveResolves DEF RunNext

\* A step of p after its request was resolved: it is past what ClientOK is
\* about, and leaves the local variables of the others alone.
LEMMA RunStepIsLocal ==
    ASSUME RunTypeOK, NEW p \in Clients, RunStep(p) \/ Crash(p), ~ResolveStep(p)
    PROVE  /\ pc'[p] \in RunLabels \cup {"dead"}
           /\ \A q \in Clients \ {p} :
                /\ pc'[q] = pc[q] /\ input'[q] = input[q] /\ target'[q] = target[q]
                /\ bound'[q] = bound[q] /\ stale'[q] = stale[q]
  <1>1. CASE Crash(p)
    BY <1>1 DEF Crash, Goto, RunTypeOK
  <1>2. ASSUME RunStep(p)
        PROVE  /\ \E from, to \in RunLabels \cup {"resolved"} : Step(p, from, to) /\ to # "resolved"
               /\ Reread(p) \/ UNCHANGED bound
    BY <1>2 DEF RunStep, NewRequest, Attach, StartPlanner, StartProvider, PlannerTurn, Plan, AcquireChat,
                Reread, FinalAnswers, FinalFails, BindRead, BindWrite, Update, Report, Complete, Unlock,
                RecordFailure, RunLabels, LockedLabels
  <1>3. ASSUME RunStep(p)
        PROVE  \A q \in Clients \ {p} : bound'[q] = bound[q]
    BY <1>2, <1>3 DEF Reread, RunTypeOK
  <1>4. QED
    BY <1>1, <1>2, <1>3 DEF Step, Goto, RunTypeOK

LEMMA ClientsKept ==
    ASSUME RunInv, [StoreNext]_storeVars, [RunNext]_runVars
    PROVE  \A p \in Clients : ClientOK(p)'
  <1>1. StoreInv /\ LocalsTyped /\ RunTypeOK /\ \A p \in Clients : ClientOK(p)
    BY RunLocalsTyped DEF RunInv
  <1>2. ASSUME NEW p \in Clients, ClientOK(p)',
               \A q \in Clients \ {p} :
                    /\ pc'[q] = pc[q] /\ input'[q] = input[q] /\ target'[q] = target[q]
                    /\ bound'[q] = bound[q] /\ stale'[q] = stale[q]
        PROVE  \A q \in Clients : ClientOK(q)'
    BY <1>1, <1>2, ClientPersists
  <1>3. ASSUME NEW p \in Clients, ResolveStep(p) \/ \E in \in Inputs : CallResolve(p, in)
        PROVE  \A q \in Clients : ClientOK(q)'
    BY <1>1, <1>2, <1>3, ResolveKeepsOK, CallKeepsOK, ResolveIsLocal
  <1>4. ASSUME NEW p \in Clients, RunStep(p) \/ Crash(p), ~ResolveStep(p)
        PROVE  \A q \in Clients : ClientOK(q)'
    <2>1. pc'[p] \in RunLabels \cup {"dead"}
      BY <1>1, <1>4, RunStepIsLocal
    <2>2. ClientOK(p)'
      BY <2>1 DEF ClientOK, Asked, Asking, Progress, StaleKnown, RunLabels, LockedLabels
    <2>3. QED
      BY <1>1, <1>2, <1>4, <2>2, RunStepIsLocal
  <1>5. ASSUME UNCHANGED clientVars
        PROVE  \A q \in Clients : ClientOK(q)'
    BY <1>1, <1>5, ClientPersists DEF clientVars
  <1>6. ASSUME \/ \E p \in Clients : PollText(p) \/ StoreText(p)
               \/ ManageStep \/ UNCHANGED runVars
        PROVE  UNCHANGED clientVars
    BY <1>6 DEF PollText, StoreText, convVars, ManageStep, runVars, clientVars
  <1>7. QED
    BY <1>3, <1>4, <1>5, <1>6 DEF RunNext

LEMMA RunInvInductive ==
    ASSUME RunInv, [RunNext]_runVars
    PROVE  RunInv'
  <1>1. [StoreNext]_storeVars
    BY RunIsStoreStep
  <1>2. StoreInv'
    BY <1>1, StoreInvInductive DEF RunInv
  <1>3. TargetsStored' /\ \A p \in Clients : ClientOK(p)'
    BY <1>1, <1>2, TargetsKept, ClientsKept
  <1>4. CASE UNCHANGED runVars
    <2>1. Kept
      BY <1>2, <1>4 DEF RunInv, runVars, Kept, RunTypeOK, StoreInv, StatusTypeOK, Located, LockHeld
    <2>2. QED
      BY <1>2, <1>3, <2>1 DEF RunInv, Kept
  <1>5. ASSUME ManageStep, UNCHANGED engineVars
        PROVE  Kept
    BY <1>2, <1>5 DEF RunInv, ManageStep, clientVars, engineVars, Kept, RunTypeOK, StoreInv,
                      StatusTypeOK, Located, LockHeld
  <1>6. ASSUME NEW p \in Clients, RunStep(p), ~(ResolveStep(p) /\ UNCHANGED engineVars)
        PROVE  Kept
    BY <1>2, <1>6, WorkKeeps, LockingKeeps DEF RunStep
  <1>7. QED
    BY <1>2, <1>3, <1>4, <1>5, <1>6, ResolveResolves, ResolvingKeeps, LockingKeeps, ProgressKeeps
       DEF RunNext, RunInv, Kept

LEMMA RunInitInv == RunInit => RunInv
  <1> SUFFICES ASSUME RunInit PROVE RunInv
    OBVIOUS
  <1>1. StoreInv
    BY StoreInvInductive DEF RunInit, ConvInit
  <1>0. opened \subseteq Conversations
    <2>1. \A in \in Inputs : in.conversation_id \in Conversations \cup {None}
      BY SessionOfType
    <2>2. QED
      BY <2>1 DEF RunInit
  <1>2. RunTypeOK
    BY <1>1, <1>0 DEF RunInit, ConvInit, ClientInit, StoreInv, RunTypeOK, ResolveLabels,
                      StatusInit, StatusTypeOK
  <1>3. Located /\ LockHeld /\ TargetsStored
    BY DEF RunInit, ConvInit, ClientInit, Located, LockHeld, TargetsStored, RunLabels, LockedLabels
  <1>4. ASSUME NEW p \in Clients PROVE ClientOK(p)
    <2>1. pc[p] = "idle" /\ target[p] = None
      BY DEF RunInit, ConvInit, ClientInit
    <2>2. QED
      BY <2>1 DEF ClientOK, Asked, Asking, Progress, StaleKnown
  <1>5. QED
    BY <1>1, <1>2, <1>3, <1>4 DEF RunInv

LEMMA RunInvHolds == RunSpec => []RunInv
  <1>1. RunInv /\ [RunNext]_runVars => RunInv'
    BY RunInvInductive
  <1>2. QED
    BY <1>1, RunInitInv, PTL DEF RunSpec

-----------------------------------------------------------------------------
(* What the files of a request say of its run.                             *)

Listed(p) == target[p] # None => p \in chat[target[p]].requests

\* The state in status.json follows the steps of the run, and what a state
\* promises was written before it.
RunStage(p) ==
    /\ status[p] # None =>
        /\ status[p].chat = target[p]
        /\ status[p].state \in {"new", "running-planner", "running-final", "complete", "failed"}
        /\ pc[p] \in RunLabels \cup {"dead"}
    /\ pc[p] \in {"attach", "start"} => InState(p, "new")
    /\ pc[p] \in {"provider", "planner", "plan"} => InState(p, "running-planner")
    /\ pc[p] \in {"lock"} \cup (LockedLabels \ {"unlock"}) => InState(p, "running-final")
    /\ pc[p] = "failing" => InState(p, "running-planner") \/ InState(p, "running-final")
    /\ pc[p] = "start" \/ (status[p] # None /\ ~InState(p, "new")) => Listed(p)
    /\ pc[p] = "complete" \/ InState(p, "complete") => result[p]

\* The inductive invariant.
StageInv == RunInv /\ \A p \in Clients : RunStage(p)

\* status.json of p is rewritten with another state.
StatusMoves(p, state) ==
    /\ status[p] # None /\ status'[p] # None
    /\ status'[p].state = state
    /\ status'[p].chat = status[p].chat

LEMMA StatusRewrite ==
    ASSUME StatusTypeOK, NEW p \in Clients, NEW record \in StatusRecord, status[p] # None,
           status' = [status EXCEPT ![p] = record]
    PROVE  status'[p] = record /\ status'[p] # None /\ \A r \in Requests \ {p} : status'[r] = status[r]
  BY RunsAssumption, NoneIsNoRun DEF StatusTypeOK

\* What each operation of RequestStore does to a record.
LEMMA TransitionMoves ==
    ASSUME StatusTypeOK, NEW p \in Clients, NEW from, NEW to \in States, Transition(p, from, to)
    PROVE  /\ InState(p, from) /\ StatusMoves(p, to)
           /\ status'[p].conversation = status[p].conversation
           /\ \A r \in Requests \ {p} : status'[r] = status[r]
  <1> DEFINE record == [status[p] EXCEPT !.state = to]
  <1>1. status[p] # None /\ status[p] \in StatusRecord /\ InState(p, from)
    BY RunsAssumption DEF Transition, InState, StatusTypeOK
  <1>2. /\ record \in StatusRecord /\ record.state = to /\ record.chat = status[p].chat
        /\ record.conversation = status[p].conversation
    BY <1>1 DEF StatusRecord
  <1>3. status' = [status EXCEPT ![p] = record]
    BY DEF Transition
  <1> HIDE DEF record
  <1>4. QED
    BY <1>1, <1>2, <1>3, StatusRewrite DEF StatusMoves

LEMMA FailMoves ==
    ASSUME StatusTypeOK, NEW p \in Clients, status[p] # None, Fail(p), ~InState(p, "complete")
    PROVE  /\ StatusMoves(p, "failed")
           /\ status'[p].conversation = status[p].conversation
           /\ \A r \in Requests \ {p} : status'[r] = status[r]
  <1> DEFINE record == [status[p] EXCEPT !.state = "failed"]
  <1>1. status[p] \in StatusRecord
    BY RunsAssumption DEF StatusTypeOK
  <1>2. /\ record \in StatusRecord /\ record.state = "failed" /\ record.chat = status[p].chat
        /\ record.conversation = status[p].conversation
    BY <1>1 DEF StatusRecord, States
  <1>3. status' = [status EXCEPT ![p] = record]
    BY DEF Fail
  <1> HIDE DEF record
  <1>4. QED
    BY <1>2, <1>3, StatusRewrite DEF StatusMoves

LEMMA ConversationMoves ==
    ASSUME StatusTypeOK, NEW p \in Clients, NEW v \in Conversations \cup {None}, status[p] # None,
           UpdateConversation(p, v)
    PROVE  /\ StatusMoves(p, status[p].state)
           /\ status'[p].conversation = v
           /\ \A r \in Requests \ {p} : status'[r] = status[r]
  <1> DEFINE record == [status[p] EXCEPT !.conversation = v]
  <1>1. status[p] \in StatusRecord
    BY RunsAssumption DEF StatusTypeOK
  <1>2. /\ record \in StatusRecord /\ record.state = status[p].state /\ record.chat = status[p].chat
        /\ record.conversation = v
    BY <1>1 DEF StatusRecord
  <1>3. status' = [status EXCEPT ![p] = record]
    BY DEF UpdateConversation
  <1> HIDE DEF record
  <1>4. QED
    BY <1>2, <1>3, StatusRewrite DEF StatusMoves

\* A snapshot moves nothing, and is only kept while a turn runs.
LEMMA ProgressMoves ==
    ASSUME StatusTypeOK, NEW p \in Clients, NEW stage \in Stages, UpdateProgress(p, stage)
    PROVE  \/ UNCHANGED status
           \/ /\ InState(p, "running-planner") \/ InState(p, "running-final")
              /\ StatusMoves(p, status[p].state)
              /\ status'[p].conversation = status[p].conversation
              /\ \A r \in Requests \ {p} : status'[r] = status[r]
  <1> SUFFICES ASSUME InState(p, "running-planner") \/ InState(p, "running-final")
               PROVE  /\ StatusMoves(p, status[p].state)
                      /\ status'[p].conversation = status[p].conversation
                      /\ \A r \in Requests \ {p} : status'[r] = status[r]
    BY DEF UpdateProgress
  <1> DEFINE record == [status[p] EXCEPT !.partial = stage]
  <1>1. status[p] # None /\ status[p] \in StatusRecord
    BY RunsAssumption DEF InState, StatusTypeOK
  <1>2. /\ record \in StatusRecord /\ record.state = status[p].state /\ record.chat = status[p].chat
        /\ record.conversation = status[p].conversation
    BY <1>1 DEF StatusRecord
  <1>3. status' = [status EXCEPT ![p] = record]
    BY DEF UpdateProgress
  <1> HIDE DEF record
  <1>4. QED
    BY <1>1, <1>2, <1>3, StatusRewrite DEF StatusMoves

LEMMA CreateMoves ==
    ASSUME StatusTypeOK, NEW p \in Clients, NEW c \in Chats \cup {None}, CreateStatus(p, c)
    PROVE  /\ status[p] = None /\ InState(p, "new")'
           /\ status'[p].chat = c /\ status'[p].conversation = None
           /\ \A r \in Requests \ {p} : status'[r] = status[r]
  <1> DEFINE record == [state |-> "new", chat |-> c, conversation |-> None, partial |-> None]
  <1>1. record \in StatusRecord
    BY DEF StatusRecord, States
  <1>2. status'[p] = record /\ status'[p] # None /\ \A r \in Requests \ {p} : status'[r] = status[r]
    BY <1>1, RunsAssumption, NoneIsNoRun DEF CreateStatus, StatusTypeOK
  <1>3. QED
    BY <1>2 DEF CreateStatus, InState

\* A chat goes on listing a request.
LEMMA ListedKept ==
    ASSUME RunInv, [StoreNext]_storeVars, NEW p \in Clients, Listed(p), target'[p] = target[p]
    PROVE  Listed(p)'
  BY RegistryGrows DEF RunInv, RunTypeOK, TargetsStored, Listed, ChatGrows

\* Steps of others.
LEMMA StagePersists ==
    ASSUME RunInv, [StoreNext]_storeVars, NEW p \in Clients, RunStage(p),
           pc'[p] = pc[p], target'[p] = target[p], status'[p] = status[p], result'[p] = result[p]
    PROVE  RunStage(p)'
  BY ListedKept DEF RunStage, InState

\* A step of p that leaves its status alone: RunStage must allow the new label.
LEMMA QuietStage ==
    ASSUME RunInv, [StoreNext]_storeVars, NEW p \in Clients, RunStage(p),
           NEW from \in RunLabels, NEW to \in RunLabels, Step(p, from, to),
           status'[p] = status[p], result'[p] = result[p] \/ result'[p],
           to \in {"attach", "start"} => from \in {"attach", "start"},
           to \in {"provider", "planner", "plan"} => from \in {"provider", "planner", "plan"},
           to \in {"lock"} \cup (LockedLabels \ {"unlock"}) =>
                from \in {"lock"} \cup (LockedLabels \ {"unlock"}),
           to = "failing" => from \in {"provider", "planner", "plan", "lock"} \cup (LockedLabels \ {"unlock"}),
           to = "start" => Listed(p)',
           to = "complete" => result'[p]
    PROVE  RunStage(p)'
  <1>1. pc[p] = from /\ pc'[p] = to /\ target'[p] = target[p]
    BY DEF Step, Goto, RunInv, RunTypeOK
  <1>2. status[p] # None /\ ~InState(p, "new") => Listed(p)'
    BY <1>1, ListedKept DEF RunStage
  <1>3. QED
    BY <1>1, <1>2 DEF RunStage, InState

\* A step of p that rewrites its status.
LEMMA MoveStage ==
    ASSUME RunInv, [StoreNext]_storeVars, NEW p \in Clients, RunStage(p),
           NEW from \in RunLabels, NEW to \in RunLabels, Step(p, from, to),
           NEW state \in {"running-planner", "running-final", "complete", "failed"},
           StatusMoves(p, state), result'[p] = result[p],
           from = "start" \/ ~InState(p, "new"),
           state = "complete" => from = "complete" \/ InState(p, "complete"),
           to \notin {"attach", "start", "complete", "failing"},
           to \in {"provider", "planner", "plan"} => state = "running-planner",
           to \in {"lock"} \cup (LockedLabels \ {"unlock"}) => state = "running-final"
    PROVE  RunStage(p)'
  <1>1. pc[p] = from /\ pc'[p] = to /\ target'[p] = target[p]
    BY DEF Step, Goto, RunInv, RunTypeOK
  <1>2. Listed(p)'
    BY <1>1, ListedKept DEF RunStage, StatusMoves
  <1>3. QED
    BY <1>1, <1>2 DEF RunStage, InState, StatusMoves

\* Until its request is resolved a run has no status.
LEMMA ResolvingStage ==
    ASSUME RunInv, NEW p \in Clients, RunStage(p), Resolving(p), pc[p] # "dead"
    PROVE  RunStage(p)'
  <1>1. pc[p] \in ResolveLabels /\ pc'[p] \in ResolveLabels /\ UNCHANGED <<status, result>>
    BY DEF Resolving, RunInv, RunTypeOK
  <1>2. status'[p] = None
    BY <1>1 DEF RunStage, ResolveLabels, RunLabels, LockedLabels
  <1>3. QED
    BY <1>1, <1>2 DEF RunStage, InState, ResolveLabels, LockedLabels

\* The steps of a run that leave its status alone.
LEMMA SilentStage ==
    ASSUME RunInv, [StoreNext]_storeVars, NEW p \in Clients, RunStage(p),
           \/ Attach(p) \/ StartProvider(p) \/ PlannerTurn(p)
           \/ Step(p, "plan", "failing") /\ UNCHANGED <<status, result>>
           \/ AcquireChat(p) \/ Reread(p) \/ FinalAnswers(p) \/ FinalFails(p)
           \/ BindRead(p) \/ BindWrite(p) \/ Report(p) \/ Unlock(p)
    PROVE  RunStage(p)'
  <1>1. UNCHANGED status
    BY DEF Attach, StartProvider, PlannerTurn, AcquireChat, Reread, FinalAnswers, FinalFails, BindRead,
           BindWrite, Report, Unlock, engineVars
  <1>2. CASE Attach(p)
    <2>1. /\ Step(p, "attach", "start") /\ UNCHANGED <<status, result>> /\ target[p] = target'[p]
          /\ IF target[p] = None THEN UNCHANGED storeVars
                                 ELSE AppendRequest(SessionOf(input[p]), target[p], p)
      BY <1>2 DEF Attach, engineVars, Step
    <2>2. CASE target[p] = None
      <3>1. Listed(p)'
        BY <2>1, <2>2 DEF Listed
      <3>2. QED
        BY <2>1, <3>1, QuietStage, RunLabelFacts DEF LockedLabels
    <2>3. CASE target[p] # None
      <3>1. target[p] \in Chats /\ chat[target[p]] \in ChatRecord
        BY <2>3 DEF RunInv, RunTypeOK, StoreTypeOK, TargetsStored
      <3>2. p \in chat'[target[p]].requests
        BY <2>1, <2>3, <3>1 DEF AppendRequest, RunInv, RunTypeOK, StoreTypeOK, ChatRecord
      <3>3. Listed(p)'
        BY <2>1, <3>2 DEF Listed
      <3>4. QED
        BY <2>1, <3>3, QuietStage, RunLabelFacts DEF LockedLabels
    <2>4. QED
      BY <2>2, <2>3
  <1>3. CASE Report(p)
    <2>1. CASE Step(p, "report", "complete") /\ result' = [result EXCEPT ![p] = TRUE]
      <3>1. result'[p]
        BY <2>1 DEF RunInv, RunTypeOK
      <3>2. QED
        BY <1>1, <2>1, <3>1, QuietStage, RunLabelFacts DEF LockedLabels
    <2>2. CASE Step(p, "report", "unlock-fail") /\ UNCHANGED result
      BY <1>1, <2>2, QuietStage, RunLabelFacts DEF LockedLabels
    <2>3. QED
      BY <1>3, <2>1, <2>2 DEF Report
  <1>4. ASSUME ~Attach(p), ~Report(p)
        PROVE  /\ UNCHANGED result
               /\ \/ \E from \in {"provider", "planner"}, to \in {"planner", "plan", "failing"} :
                        Step(p, from, to)
                  \/ Step(p, "plan", "failing")
                  \/ \E from \in {"lock"} \cup (LockedLabels \ {"report", "complete", "unlock", "unlock-fail"}),
                        to \in LockedLabels \ {"complete"} : Step(p, from, to)
                  \/ Step(p, "unlock", "done") \/ Step(p, "unlock-fail", "failing")
    BY <1>4 DEF StartProvider, PlannerTurn, AcquireChat, Reread, FinalAnswers, FinalFails, BindRead,
           BindWrite, Unlock, engineVars, LockedLabels
  <1>5. ASSUME ~Attach(p), ~Report(p),
               \/ \E from \in {"provider", "planner"}, to \in {"planner", "plan", "failing"} :
                        Step(p, from, to)
               \/ Step(p, "plan", "failing")
        PROVE  RunStage(p)'
    BY <1>1, <1>4, <1>5, QuietStage, RunLabelFacts DEF LockedLabels
  <1>6. ASSUME ~Attach(p), ~Report(p),
               \E from \in {"lock"} \cup (LockedLabels \ {"report", "complete", "unlock", "unlock-fail"}),
                  to \in LockedLabels \ {"complete"} : Step(p, from, to)
        PROVE  RunStage(p)'
    BY <1>1, <1>4, <1>6, QuietStage, RunLabelFacts DEF LockedLabels
  <1>7. ASSUME ~Attach(p), ~Report(p),
               Step(p, "unlock", "done") \/ Step(p, "unlock-fail", "failing")
        PROVE  RunStage(p)'
    BY <1>1, <1>4, <1>7, QuietStage, RunLabelFacts DEF LockedLabels
  <1>8. QED
    BY <1>2, <1>3, <1>4, <1>5, <1>6, <1>7

\* The steps that rewrite it.
LEMMA RewritingStage ==
    ASSUME RunInv, [StoreNext]_storeVars, NEW p \in Clients, RunStage(p),
           \/ NewRequest(p) \/ StartPlanner(p)
           \/ Step(p, "plan", "lock") /\ Transition(p, "running-planner", "running-final") /\ UNCHANGED result
           \/ Update(p) \/ Complete(p) \/ RecordFailure(p)
    PROVE  RunStage(p)'
  <1>0. StatusTypeOK /\ status[p] \in StatusRecord \cup {None} /\ answer[p] \in Conversations \cup {None}
    BY RunsAssumption DEF RunInv, RunTypeOK, StatusTypeOK
  <1>1. CASE NewRequest(p)
    <2>1. CreateStatus(p, target[p]) /\ Step(p, "resolved", "attach") /\ UNCHANGED result
      BY <1>1 DEF NewRequest
    <2>2. InState(p, "new")' /\ status'[p].chat = target[p]
      BY <1>0, <2>1, CreateMoves DEF RunInv, RunTypeOK
    <2>3. pc'[p] = "attach" /\ target'[p] = target[p]
      BY <2>1 DEF Step, Goto, RunInv, RunTypeOK
    <2>4. QED
      BY <2>2, <2>3, RunLabelFacts DEF RunStage, InState, LockedLabels
  <1>2. CASE StartPlanner(p)
    <2>1. /\ Step(p, "start", "provider") /\ UNCHANGED result
          /\ Transition(p, "new", "running-planner")
      BY <1>2 DEF StartPlanner
    <2>2. StatusMoves(p, "running-planner")
      BY <1>0, <2>1, TransitionMoves, RunLabelFacts
    <2>3. QED
      BY <2>1, <2>2, MoveStage, RunLabelFacts DEF LockedLabels
  <1>3. CASE /\ Step(p, "plan", "lock") /\ UNCHANGED result
             /\ Transition(p, "running-planner", "running-final")
    <2>1. StatusMoves(p, "running-final") /\ ~InState(p, "new")
      BY <1>0, <1>3, TransitionMoves, RunLabelFacts DEF InState
    <2>2. QED
      BY <1>3, <2>1, MoveStage, RunLabelFacts DEF LockedLabels
  <1>4. CASE Update(p)
    <2>1. Step(p, "update", "report") /\ UNCHANGED result /\ UpdateConversation(p, answer[p])
      BY <1>4 DEF Update
    <2>2. InState(p, "running-final")
      BY <2>1 DEF RunStage, Step, LockedLabels
    <2>3. StatusMoves(p, "running-final") /\ ~InState(p, "new")
      BY <1>0, <2>1, <2>2, ConversationMoves DEF InState
    <2>4. QED
      BY <2>1, <2>3, MoveStage, RunLabelFacts DEF LockedLabels
  <1>5. CASE Complete(p)
    <2>1. /\ Step(p, "complete", "unlock") /\ UNCHANGED result
          /\ Transition(p, "running-final", "complete")
      BY <1>5 DEF Complete
    <2>2. StatusMoves(p, "complete") /\ ~InState(p, "new")
      BY <1>0, <2>1, TransitionMoves, RunLabelFacts DEF InState
    <2>3. QED
      BY <2>1, <2>2, MoveStage, RunLabelFacts DEF LockedLabels
  <1>6. CASE RecordFailure(p)
    <2>1. /\ Step(p, "failing", "done") /\ UNCHANGED result /\ Fail(p)
      BY <1>6 DEF RecordFailure
    <2>2. status[p] # None /\ ~InState(p, "complete") /\ ~InState(p, "new")
      BY <2>1 DEF Step, RunStage, InState
    <2>3. StatusMoves(p, "failed")
      BY <1>0, <2>1, <2>2, FailMoves
    <2>4. QED
      BY <2>1, <2>2, <2>3, MoveStage, RunLabelFacts DEF LockedLabels
  <1>7. QED
    BY <1>1, <1>2, <1>3, <1>4, <1>5, <1>6

\* No step of p touches the files of another run.
LEMMA FilesAreOwn ==
    ASSUME RunInv, NEW p \in Clients, RunStep(p) \/ PollText(p) \/ StoreText(p) \/ Crash(p)
    PROVE  \A q \in Clients \ {p} : status'[q] = status[q] /\ result'[q] = result[q]
  <1>1. PICK c \in Chats \cup {None}, from \in States, to \in States, v \in Conversations \cup {None},
             stage \in Stages :
           \/ CreateStatus(p, c) \/ Transition(p, from, to) \/ UpdateProgress(p, stage)
           \/ UpdateConversation(p, v) \/ Fail(p) \/ UNCHANGED status
    <2> USE RunLabelFacts DEF RunInv, RunTypeOK
    <2>1. CASE StoreText(p)
      BY <2>1 DEF StoreText, States
    <2>2. CASE ~StoreText(p)
      BY <2>2 DEF RunStep, NewRequest, Attach, StartPlanner, StartProvider, PlannerTurn, Plan,
            AcquireChat, Reread, FinalAnswers, FinalFails, BindRead, BindWrite, Update, Report, Complete,
            Unlock, RecordFailure, PollText, Crash, engineVars, Stages
    <2>3. QED
      BY <2>1, <2>2
  <1>2. \A q \in Clients \ {p} : status'[q] = status[q]
    BY <1>1, RunsAssumption DEF RunInv, RunTypeOK, StatusTypeOK, CreateStatus, Transition, UpdateProgress,
            UpdateConversation, Fail
  <1>3. Report(p) \/ UNCHANGED result
    BY DEF RunStep, NewRequest, Attach, StartPlanner, StartProvider, PlannerTurn, Plan,
            AcquireChat, Reread, FinalAnswers, FinalFails, BindRead, BindWrite, Update, Complete,
            Unlock, RecordFailure, PollText, StoreText, Crash, engineVars
  <1>4. \A q \in Clients \ {p} : result'[q] = result[q]
    BY <1>3 DEF Report, RunInv, RunTypeOK
  <1>5. QED
    BY <1>2, <1>4

LEMMA BackgroundStage ==
    ASSUME RunInv, [StoreNext]_storeVars, NEW p \in Clients, RunStage(p),
           PollText(p) \/ StoreText(p) \/ Crash(p)
    PROVE  RunStage(p)'
  <1>1. UNCHANGED <<target, result>>
    BY DEF PollText, StoreText, Crash, convVars
  <1>2. CASE Crash(p)
    <2>1. pc'[p] = "dead" /\ UNCHANGED status
      BY <1>2 DEF Crash, Goto, RunInv, RunTypeOK
    <2>2. status[p] # None /\ ~InState(p, "new") => Listed(p)'
      BY <1>1, ListedKept DEF RunStage
    <2>3. QED
      BY <1>1, <2>1, <2>2, RunLabelFacts DEF RunStage, InState
  <1>3. CASE UNCHANGED <<status, pc>>
    BY <1>1, <1>3, StagePersists
  <1>4. CASE PollText(p)
    BY <1>3, <1>4 DEF PollText, convVars
  <1>5. CASE StoreText(p) /\ ~UNCHANGED status
    <2>1. PICK stage \in Stages : UpdateProgress(p, stage) /\ UNCHANGED pc
      BY <1>5 DEF StoreText, convVars, RunInv, RunTypeOK
    <2>2. /\ InState(p, "running-planner") \/ InState(p, "running-final")
          /\ StatusMoves(p, status[p].state)
      BY <1>5, <2>1, ProgressMoves DEF RunInv, RunTypeOK
    <2>3. Listed(p)'
      BY <1>1, <2>2, ListedKept DEF RunStage, InState
    <2>4. QED
      BY <1>1, <2>1, <2>2, <2>3 DEF RunStage, InState, StatusMoves
  <1>6. CASE StoreText(p) /\ UNCHANGED status
    BY <1>3, <1>6 DEF StoreText, convVars
  <1>7. QED
    BY <1>2, <1>4, <1>5, <1>6

\* The steps of resolve are none of a run.
LEMMA ResolveIsNoRunStep ==
    ASSUME NEW p \in Clients, RunStep(p) \/ Crash(p), ResolveStep(p)
    PROVE  RunStep(p) /\ UNCHANGED engineVars
  <1>1. pc[p] \notin RunLabels \cup {"resolved"}
    BY DEF ResolveStep, EnsureExists, EnsureCreate, EnsureGet, PickNamed, PickNew, PickMain,
           PickClosed, BindExplicit, DieCreating, RunLabels, LockedLabels
  <1>2. QED
    BY <1>1, RunLabelFacts DEF Crash, RunStep, NewRequest, Attach, StartPlanner, StartProvider,
           PlannerTurn, Plan, AcquireChat, Reread, FinalAnswers, FinalFails, BindRead, BindWrite, Update,
           Report, Complete, Unlock, RecordFailure, Step, LockedLabels

LEMMA StageInvInductive ==
    ASSUME StageInv, [RunNext]_runVars
    PROVE  StageInv'
  <1>1. RunInv /\ RunInv' /\ StoreInv' /\ [StoreNext]_storeVars
    BY RunInvInductive, RunIsStoreStep DEF StageInv, RunInv
  <1>2. ASSUME NEW p \in Clients, RunStage(p)',
               \A q \in Clients \ {p} : /\ pc'[q] = pc[q] /\ target'[q] = target[q]
                                        /\ status'[q] = status[q] /\ result'[q] = result[q]
        PROVE  StageInv'
    BY <1>1, <1>2, StagePersists DEF StageInv
  <1>3. ASSUME NEW p \in Clients, Resolving(p), pc[p] # "dead"
        PROVE  StageInv'
    <2>1. RunStage(p)'
      BY <1>1, <1>3, ResolvingStage DEF StageInv
    <2>2. \A q \in Clients \ {p} : /\ pc'[q] = pc[q] /\ target'[q] = target[q]
                                   /\ status'[q] = status[q] /\ result'[q] = result[q]
      BY <1>1, <1>3 DEF Resolving, RunInv, RunTypeOK
    <2>3. QED
      BY <1>2, <2>1, <2>2
  <1>4. ASSUME NEW p \in Clients, NEW in \in Inputs, CallResolve(p, in), UNCHANGED engineVars
        PROVE  StageInv'
    BY <1>1, <1>3, <1>4, ResolveResolves DEF CallResolve
  <1>5. ASSUME NEW p \in Clients, ResolveStep(p), UNCHANGED engineVars
        PROVE  StageInv'
    <2>1. pc[p] # "dead"
      BY <1>5 DEF ResolveStep, EnsureExists, EnsureCreate, EnsureGet, PickNamed, PickNew, PickMain,
                  PickClosed, BindExplicit, DieCreating
    <2>2. QED
      BY <1>1, <1>3, <1>5, <2>1, ResolveResolves
  <1>6. ASSUME NEW p \in Clients, RunStep(p) \/ Crash(p), ~ResolveStep(p)
        PROVE  StageInv'
    <2>1. RunStage(p)'
      BY <1>1, <1>6, SilentStage, RewritingStage, BackgroundStage
         DEF StageInv, RunStep, Plan
    <2>2. QED
      BY <1>1, <1>2, <1>6, <2>1, RunStepIsLocal, FilesAreOwn DEF RunInv
  <1>7. ASSUME NEW p \in Clients, PollText(p) \/ StoreText(p)
        PROVE  StageInv'
    <2>1. RunStage(p)' /\ UNCHANGED <<pc, target>>
      BY <1>1, <1>7, BackgroundStage DEF StageInv, PollText, StoreText, convVars
    <2>2. QED
      BY <1>1, <1>2, <1>7, <2>1, FilesAreOwn
  <1>8. ASSUME (ManageStep /\ UNCHANGED engineVars) \/ UNCHANGED runVars
        PROVE  StageInv'
    <2>1. UNCHANGED <<pc, target, status, result>>
      BY <1>8 DEF ManageStep, clientVars, engineVars, runVars
    <2>2. QED
      BY <1>1, <2>1, StagePersists DEF StageInv
  <1>9. ASSUME NEW p \in Clients, RunStep(p) \/ Crash(p), ResolveStep(p)
        PROVE  RunStep(p) /\ UNCHANGED engineVars
    BY <1>9, ResolveIsNoRunStep
  <1>10. ASSUME NEW p \in Clients, RunStep(p) \/ Crash(p)
         PROVE  StageInv'
    BY <1>5, <1>6, <1>9, <1>10
  <1>11. CASE RunNext
    BY <1>4, <1>7, <1>8, <1>10, <1>11 DEF RunNext
  <1>12. QED
    BY <1>8, <1>11

LEMMA RunInitStage ==
    ASSUME RunInit, NEW p \in Clients
    PROVE  RunStage(p)
  <1>1. pc[p] = "idle" /\ status[p] = None
    BY RunsAssumption DEF RunInit, ConvInit, ClientInit, StatusInit
  <1>2. QED
    BY <1>1 DEF RunStage, InState, LockedLabels

LEMMA StageInvHolds == RunSpec => []StageInv
  <1>1. RunInit => StageInv
    BY RunInitInv, RunInitStage DEF StageInv
  <1>2. StageInv /\ [RunNext]_runVars => StageInv'
    BY StageInvInductive
  <1>3. QED
    BY <1>1, <1>2, PTL DEF RunSpec

\* A run that rewrites its status takes a step of the life cycle.
LEMMA RunFollowsLifecycle ==
    ASSUME StageInv, [RunNext]_runVars
    PROVE  [\A r \in Requests : LifecycleStep(r) \/ status'[r] = status[r]]_status
  <1> DEFINE Follows == \A r \in Requests : LifecycleStep(r) \/ status'[r] = status[r]
  <1>0. StatusTypeOK /\ Clients \subseteq Requests
    BY RunsAssumption DEF StageInv, RunInv, RunTypeOK
  <1>1. ASSUME NEW p \in Clients, LifecycleStep(p), \A r \in Requests \ {p} : status'[r] = status[r]
        PROVE  Follows
    BY <1>1
  <1>2. ASSUME NEW p \in Clients, NEW state \in Successors(status[p].state),
               StatusMoves(p, state), \A r \in Requests \ {p} : status'[r] = status[r]
        PROVE  Follows
    BY <1>1, <1>2 DEF LifecycleStep, StatusMoves
  <1>3. ASSUME NEW p \in Clients, StatusMoves(p, status[p].state), Successors(status[p].state) # {},
               \A r \in Requests \ {p} : status'[r] = status[r]
        PROVE  Follows
    BY <1>1, <1>3 DEF LifecycleStep, StatusMoves
  <1>4. /\ "running-planner" \in Successors("new")
        /\ {"running-final", "failed"} \subseteq Successors("running-planner")
        /\ {"complete", "failed"} \subseteq Successors("running-final")
    BY DEF Successors
  <1>5. ASSUME NEW p \in Clients, NewRequest(p)
        PROVE  Follows
    <2>1. CreateStatus(p, target[p]) /\ target[p] \in Chats \cup {None}
      BY <1>5 DEF NewRequest, StageInv, RunInv, RunTypeOK
    <2>2. LifecycleStep(p) /\ \A r \in Requests \ {p} : status'[r] = status[r]
      BY <1>0, <2>1, CreateMoves DEF LifecycleStep
    <2>3. QED
      BY <1>1, <2>2
  <1>6. ASSUME NEW p \in Clients,
               StartPlanner(p) \/ Transition(p, "running-planner", "running-final") \/ Complete(p)
        PROVE  Follows
    <2>1. PICK from \in {"new", "running-planner", "running-final"},
               to \in {"running-planner", "running-final", "complete"} :
             Transition(p, from, to) /\ to \in Successors(from)
      BY <1>4, <1>6 DEF StartPlanner, Complete
    <2>2. /\ InState(p, from) /\ StatusMoves(p, to) /\ \A r \in Requests \ {p} : status'[r] = status[r]
      BY <1>0, <2>1, TransitionMoves, RunLabelFacts
    <2>3. QED
      BY <1>2, <2>1, <2>2 DEF InState
  <1>7. ASSUME NEW p \in Clients, Update(p)
        PROVE  Follows
    <2>1. UpdateConversation(p, answer[p]) /\ InState(p, "running-final")
      BY <1>7 DEF Update, StageInv, RunStage, Step, LockedLabels
    <2>2. answer[p] \in Conversations \cup {None}
      BY DEF StageInv, RunInv, RunTypeOK
    <2>3. StatusMoves(p, status[p].state) /\ \A r \in Requests \ {p} : status'[r] = status[r]
      BY <1>0, <2>1, <2>2, ConversationMoves DEF InState
    <2>4. QED
      BY <1>3, <1>4, <2>1, <2>3 DEF InState
  <1>8. ASSUME NEW p \in Clients, RecordFailure(p)
        PROVE  Follows
    <2>1. Fail(p) /\ (InState(p, "running-planner") \/ InState(p, "running-final"))
      BY <1>8 DEF RecordFailure, Step, StageInv, RunStage
    <2>2. StatusMoves(p, "failed") /\ \A r \in Requests \ {p} : status'[r] = status[r]
      BY <1>0, <2>1, FailMoves DEF InState
    <2>3. "failed" \in Successors(status[p].state)
      BY <1>4, <2>1 DEF InState
    <2>4. QED
      BY <1>2, <2>2, <2>3
  <1>9. ASSUME NEW p \in Clients, StoreText(p), ~UNCHANGED status
        PROVE  Follows
    <2>1. PICK stage \in Stages : UpdateProgress(p, stage)
      BY <1>9 DEF StoreText, StageInv, RunInv, RunTypeOK
    <2>2. /\ InState(p, "running-planner") \/ InState(p, "running-final")
          /\ StatusMoves(p, status[p].state)
          /\ \A r \in Requests \ {p} : status'[r] = status[r]
      BY <1>0, <1>9, <2>1, ProgressMoves
    <2>3. QED
      BY <1>3, <1>4, <2>2 DEF InState
  <1>10. ASSUME NEW p \in Clients, RunStep(p)
         PROVE  Follows \/ UNCHANGED status
    BY <1>5, <1>6, <1>7, <1>8, <1>10 DEF RunStep, Attach, StartProvider, PlannerTurn, Plan, AcquireChat,
            Reread, FinalAnswers, FinalFails, BindRead, BindWrite, Report, Unlock, engineVars
  <1>11. CASE RunNext
    BY <1>9, <1>10, <1>11 DEF RunNext, PollText, Crash, engineVars
  <1>12. CASE UNCHANGED runVars
    BY <1>12 DEF runVars
  <1>13. QED
    BY <1>11, <1>12

-----------------------------------------------------------------------------
(* Which chat owns which conversation.  A request that names a             *)
(* conversation has it recorded for its chat unseen (BindExplicit), so     *)
(* this is about the conversations that the provider opens.                *)

ProviderConversations == \A in \in Inputs : in.conversation_id = None

\* Every recorded conversation is one the provider has opened.
RecordedIsOpen ==
    \A c \in Chats : chat[c] # None /\ chat[c].conversation # None => chat[c].conversation \in opened

\* The conversation a final turn will name is recorded.
BoundIsRecorded(p) ==
    bound[p] # None => target[p] # None /\ chat[target[p]].conversation = bound[p]

\* What the steps under the operation lock know of the chat's record.
FinalKnows(p) ==
    target[p] # None =>
        /\ pc[p] = "final" => chat[target[p]].conversation \in {None, bound[p]}
        /\ pc[p] = "bind-write" => chat[target[p]].conversation \in {None, answer[p]}
        /\ pc[p] = "update" /\ answer[p] # None => chat[target[p]].conversation = answer[p]

\* Who else has the conversation of an answer works for the same chat.
AnswerIsOwn(p) ==
    answer[p] # None =>
        /\ answer[p] \in opened
        /\ pc[p] \in RunLabels \cup {"dead"}
        /\ \A c \in Chats : chat[c] # None /\ chat[c].conversation = answer[p] => c = target[p]
        /\ \A q \in Clients : answer[q] = answer[p] => q = p \/ target[q] = target[p]

Binding(p) == BoundIsRecorded(p) /\ FinalKnows(p) /\ AnswerIsOwn(p)

\* The inductive invariant.
BindInv ==
    /\ StageInv /\ RecordedIsOpen /\ OneChatPerConversation /\ ConversationKept
    /\ \A p \in Clients : Binding(p)

\* No conversation is recorded or replaced.
Untouched ==
    \A c \in Chats :
        /\ chat[c] # None => chat'[c] # None /\ chat'[c].conversation = chat[c].conversation
        /\ chat'[c] # None /\ chat'[c].conversation # None => chat[c] # None

LEMMA NewRecordUntouched ==
    ASSUME NEW s, NEW kind, NEW c \in Chats, chat \in [Chats -> ChatRecord \cup {None}],
           chat[c] = None, chat' = [chat EXCEPT ![c] = NewChatRecord(s, kind)]
    PROVE  Untouched
  <1>1. chat'[c].conversation = None
    BY DEF NewChatRecord
  <1>2. \A d \in Chats \ {c} : chat'[d] = chat[d]
    OBVIOUS
  <1>3. QED
    BY <1>1, <1>2 DEF Untouched

\* Only bind_conversation records a conversation.
LEMMA OnlyBindWrites ==
    ASSUME RunInv, ProviderConversations, [RunNext]_runVars, \A p \in Clients : ~BindWrite(p)
    PROVE  Untouched
  <1>0. chat \in [Chats -> ChatRecord \cup {None}]
    BY DEF RunInv, RunTypeOK, StoreTypeOK
  <1>1. CASE UNCHANGED chat
    BY <1>1 DEF Untouched
  <1>2. ASSUME NEW s, NEW c \in Chats, NEW kind, NEW active,
               CreateChat(s, c, kind, active) \/ WriteChatFile(s, c, kind)
        PROVE  Untouched
    BY <1>0, <1>2, NewRecordUntouched DEF CreateChat, WriteChatFile
  <1>3. ASSUME NEW p \in Clients, BindExplicit(p)
        PROVE  FALSE
    BY <1>3 DEF BindExplicit, RunInv, ClientOK, Asked, Progress, Asking, ProviderConversations
  <1>4. ASSUME NEW p \in Clients, ResolveStep(p)
        PROVE  Untouched
    BY <1>1, <1>2, <1>3, <1>4 DEF ResolveStep, EnsureExists, EnsureCreate, CreateSession, EnsureGet,
           PickNamed, PickNew, PickMain, CreateMainChat, PickClosed, DieCreating
  <1>5. ASSUME NEW p \in Clients, Attach(p)
        PROVE  Untouched
    <2>1. CASE target[p] = None
      BY <1>1, <1>5, <2>1 DEF Attach, storeVars
    <2>2. CASE target[p] # None
      <3>1. target[p] \in Chats /\ chat[target[p]] \in ChatRecord
        BY <2>2 DEF RunInv, RunTypeOK, StoreTypeOK, TargetsStored
      <3>2. PICK c \in Chats : c = target[p] /\ chat[c] \in ChatRecord
        BY <3>1
      <3> DEFINE record == [chat[c] EXCEPT !.requests = @ \cup {p}]
      <3>3. record \in ChatRecord /\ record.conversation = chat[c].conversation
        BY <3>2, RunsAssumption DEF ChatRecord
      <3>4. chat' = [chat EXCEPT ![c] = record]
        BY <1>5, <2>2, <3>2 DEF Attach, AppendRequest
      <3> HIDE DEF record
      <3>5. QED
        BY <1>0, <3>2, <3>3, <3>4, NoneAssumption DEF Untouched
    <2>3. QED
      BY <2>1, <2>2
  <1>6. ASSUME NEW p \in Clients, RunStep(p), ~ResolveStep(p), ~Attach(p)
        PROVE  UNCHANGED chat
    BY <1>6 DEF RunStep, NewRequest, StartPlanner, StartProvider, PlannerTurn, Plan, AcquireChat,
                Reread, FinalAnswers, FinalFails, BindRead, Update, Report, Complete, Unlock,
                RecordFailure, storeVars
  <1>7. ManageStep => Untouched
    BY <1>1, <1>2 DEF ManageStep, CreateSession, CloseSession, SelectChat
  <1>8. CASE RunNext
    BY <1>1, <1>4, <1>5, <1>6, <1>7, <1>8
       DEF RunNext, CallResolve, PollText, StoreText, Crash, convVars, storeVars
  <1>9. QED
    BY <1>1, <1>8 DEF runVars

LEMMA BoundPersists ==
    ASSUME RunInv, NEW p \in Clients, Untouched, BoundIsRecorded(p),
           bound'[p] = bound[p], target'[p] = target[p]
    PROVE  BoundIsRecorded(p)'
  BY DEF RunInv, RunTypeOK, TargetsStored, Untouched, BoundIsRecorded

\* A resolution takes the conversation from the record of the chat it takes.
LEMMA ResolvingBinds ==
    ASSUME RunInv, ProviderConversations, NEW p \in Clients, Untouched, BoundIsRecorded(p),
           ResolveStep(p) \/ \E in \in Inputs : CallResolve(p, in)
    PROVE  BoundIsRecorded(p)'
  <1>0. /\ bound \in [Clients -> Conversations \cup {None}]
        /\ target \in [Clients -> Chats \cup {None}]
    BY DEF RunInv, RunTypeOK
  <1>1. ASSUME Leave(p)
        PROVE  BoundIsRecorded(p)'
    BY <1>0, <1>1 DEF Leave, BoundIsRecorded
  <1>2. ASSUME NEW c \in Chats, NEW v, Found(p, c, v), v # None => chat[c] # None /\ v = chat[c].conversation
        PROVE  BoundIsRecorded(p)'
    <2>1. CASE Leave(p)
      BY <1>1, <2>1
    <2>2. CASE target' = [target EXCEPT ![p] = c] /\ bound' = [bound EXCEPT ![p] = v]
      <3>1. target'[p] = c /\ bound'[p] = v /\ c # None
        BY <1>0, <2>2, NoneAssumption
      <3>2. v # None => chat'[c].conversation = v
        BY <1>2 DEF Untouched
      <3>3. QED
        BY <3>1, <3>2 DEF BoundIsRecorded
    <2>3. QED
      BY <1>2, <2>1, <2>2 DEF Found
  <1>3. CASE UNCHANGED <<bound, target>>
    BY <1>3, BoundPersists
  <1>4. CASE PickNamed(p)
    <2>1. input[p] \in Inputs /\ input[p].chat_id \in Chats \cup {None}
      BY <1>4, SessionOfType DEF PickNamed, RunInv, Located
    <2>2. QED
      BY <1>1, <1>2, <1>4, <2>1 DEF PickNamed, Readable, Stored
  <1>5. CASE PickNew(p)
    BY <1>2, <1>5 DEF PickNew
  <1>6. CASE PickMain(p)
    <2>1. PICK s \in Sessions : s = SessionOf(input[p])
      BY <1>6, SessionOfType DEF PickMain, RunInv, Located
    <2>2. CASE /\ Open(s) /\ session[s].active # None
               /\ Found(p, session[s].active, chat[session[s].active].conversation)
      <3>1. session[s].active \in Chats /\ chat[session[s].active] # None
        BY <2>1, <2>2 DEF Open, Exists, RunInv, StoreInv, StoreTypeOK, SessionRecord, ActiveIsMember,
                          MembersStored, Stored
      <3>2. QED
        BY <1>2, <2>2, <3>1
    <2>3. CASE \E c \in Chats : Found(p, c, None)
      BY <1>2, <2>3
    <2>4. QED
      BY <1>6, <2>1, <2>2, <2>3 DEF PickMain
  <1>7. ASSUME NEW q \in Clients, BindExplicit(q)
        PROVE  FALSE
    BY <1>7 DEF BindExplicit, RunInv, ClientOK, Asked, Progress, Asking, ProviderConversations
  <1>8. QED
    BY <1>1, <1>3, <1>4, <1>5, <1>6, <1>7 DEF ResolveStep, CallResolve, EnsureExists, EnsureCreate,
           EnsureGet, PickClosed, DieCreating

\* An answer keeps its owner while no conversation is recorded and no run
\* answers.
LEMMA AnswerPersists ==
    ASSUME RunTypeOK, NEW p \in Clients, Untouched, AnswerIsOwn(p), UNCHANGED <<answer, opened>>,
           answer[p] # None => pc'[p] \in RunLabels \cup {"dead"},
           \A q \in Clients : answer[q] # None => target'[q] = target[q]
    PROVE  AnswerIsOwn(p)'
  <1> SUFFICES ASSUME answer[p] # None PROVE AnswerIsOwn(p)'
    BY DEF AnswerIsOwn
  <1>1. answer'[p] = answer[p] /\ target'[p] = target[p]
    OBVIOUS
  <1>2. answer[p] \in opened' /\ pc'[p] \in RunLabels \cup {"dead"}
    BY DEF AnswerIsOwn
  <1>3. ASSUME NEW c \in Chats, chat'[c] # None, chat'[c].conversation = answer[p]
        PROVE  c = target'[p]
    BY <1>1, <1>3 DEF Untouched, AnswerIsOwn
  <1>4. ASSUME NEW q \in Clients, answer'[q] = answer[p]
        PROVE  q = p \/ target'[q] = target'[p]
    BY <1>1, <1>4 DEF AnswerIsOwn
  <1>5. QED
    BY <1>1, <1>2, <1>3, <1>4 DEF AnswerIsOwn

\* Steps of others that record no conversation and are no answer.
LEMMA BindingPersists ==
    ASSUME RunInv, NEW p \in Clients, Untouched, Binding(p), UNCHANGED <<answer, opened>>,
           pc'[p] = pc[p], target'[p] = target[p], bound'[p] = bound[p],
           \A q \in Clients : answer[q] # None => target'[q] = target[q]
    PROVE  Binding(p)'
  <1>1. BoundIsRecorded(p)'
    BY BoundPersists DEF Binding
  <1>2. AnswerIsOwn(p)'
    BY AnswerPersists DEF RunInv, Binding, AnswerIsOwn
  <1>3. FinalKnows(p)'
    BY DEF Binding, FinalKnows, RunInv, RunTypeOK, TargetsStored, Untouched
  <1>4. QED
    BY <1>1, <1>2, <1>3 DEF Binding

\* A step of p's run, or its death, other than the answer and its recording.
LEMMA OwnBinding ==
    ASSUME StageInv, NEW p \in Clients, Untouched, Binding(p), UNCHANGED <<answer, opened, target>>,
           RunStep(p) \/ Crash(p), ~ResolveStep(p), ~FinalAnswers(p), ~BindWrite(p)
    PROVE  Binding(p)'
  <1>0. RunInv /\ RunTypeOK /\ TargetsStored
    BY DEF StageInv, RunInv
  <1>1. pc'[p] \in RunLabels \cup {"dead"}
    BY <1>0, RunStepIsLocal
  <1>2. AnswerIsOwn(p)'
    BY <1>0, <1>1, AnswerPersists DEF Binding
  <1>3. CASE Reread(p)
    <2>1. /\ pc'[p] = "final" /\ UNCHANGED chat
          /\ bound'[p] = IF target[p] # None /\ chat[target[p]].conversation # None
                         THEN chat[target[p]].conversation ELSE bound[p]
      BY <1>0, <1>3 DEF Reread, Step, Goto, RunTypeOK, storeVars
    <2>2. BoundIsRecorded(p)'
      BY <2>1 DEF Binding, BoundIsRecorded
    <2>3. FinalKnows(p)'
      BY <2>1 DEF Binding, BoundIsRecorded, FinalKnows
    <2>4. QED
      BY <1>2, <2>2, <2>3 DEF Binding
  <1>4. CASE BindRead(p)
    <2>1. UNCHANGED <<chat, bound>>
      BY <1>4 DEF BindRead, storeVars
    <2>2. \/ pc'[p] = "update" /\ (answer[p] = None \/ target[p] = None)
          \/ pc'[p] = "unlock-fail"
          \/ pc'[p] = "bind-write" /\ chat[target[p]].conversation \in {None, answer[p]}
      BY <1>0, <1>4 DEF BindRead, Step, Goto, RunTypeOK, Conflict
    <2>3. FinalKnows(p)' /\ BoundIsRecorded(p)'
      BY <2>1, <2>2 DEF Binding, BoundIsRecorded, FinalKnows
    <2>4. QED
      BY <1>2, <2>3 DEF Binding
  <1>5. CASE ~Reread(p) /\ ~BindRead(p)
    <2>1. UNCHANGED bound /\ \E to \in RunLabels \cup {"dead"} :
            Goto(p, to) /\ to \notin {"final", "bind-write", "update"}
      BY <1>5 DEF RunStep, Crash, NewRequest, Attach, StartPlanner, StartProvider, PlannerTurn, Plan,
            AcquireChat, FinalFails, Update, Report, Complete, Unlock, RecordFailure, Step,
            RunLabels, LockedLabels
    <2>2. FinalKnows(p)'
      BY <1>0, <2>1 DEF FinalKnows, Goto, RunTypeOK
    <2>3. BoundIsRecorded(p)'
      BY <1>0, <2>1, BoundPersists DEF Binding
    <2>4. QED
      BY <1>2, <2>2, <2>3 DEF Binding
  <1>6. QED
    BY <1>3, <1>4, <1>5

\* An answer in the conversation that was named, in a fresh one or in none.
LEMMA AnswerBinds ==
    ASSUME BindInv, NEW p \in Clients, FinalAnswers(p)
    PROVE  \A q \in Clients : Binding(q)'
  <1>1. PICK v \in Answers(p) :
          /\ answer' = [answer EXCEPT ![p] = v]
          /\ opened' = opened \cup ({v} \ {None})
    BY DEF FinalAnswers
  <1>2. /\ UNCHANGED <<chat, bound, target>> /\ pc[p] = "final"
        /\ pc' = [pc EXCEPT ![p] = "bind-read"]
    BY DEF FinalAnswers, Step, Goto, storeVars
  <1>3. /\ answer \in [Clients -> Conversations \cup {None}] /\ DOMAIN pc = Clients
        /\ target \in [Clients -> Chats \cup {None}]
        /\ \A q \in Clients : Binding(q)
        /\ \A q \in Clients : target[q] # None => chat[target[q]] # None
    BY DEF BindInv, StageInv, RunInv, RunTypeOK, TargetsStored
  <1>4. \A q \in Clients : BoundIsRecorded(q)'
    BY <1>2, <1>3 DEF Binding, BoundIsRecorded
  <1>5. \A q \in Clients : FinalKnows(q)'
    BY <1>1, <1>2, <1>3 DEF Binding, FinalKnows
  <1>6. ASSUME v # None, NEW c \in Chats, chat[c] # None, chat[c].conversation = v
        PROVE  c = target[p]
    <2>1. CASE v = bound[p]
      BY <1>3, <1>6, <2>1 DEF BindInv, OneChatPerConversation, Binding, BoundIsRecorded
    <2>2. CASE v \notin opened
      BY <1>6, <2>2 DEF BindInv, RecordedIsOpen
    <2>3. QED
      BY <1>6, <2>1, <2>2 DEF Answers
  <1>7. ASSUME v # None, NEW q \in Clients, q # p, answer[q] = v
        PROVE  target[q] = target[p]
    <2>1. CASE v = bound[p]
      BY <1>3, <1>7, <2>1 DEF Binding, BoundIsRecorded, AnswerIsOwn
    <2>2. CASE v \notin opened
      BY <1>3, <1>7, <2>2 DEF Binding, AnswerIsOwn
    <2>3. QED
      BY <1>7, <2>1, <2>2 DEF Answers
  <1>8. ASSUME NEW q \in Clients
        PROVE  AnswerIsOwn(q)'
    <2>1. CASE q = p
      <3>1. answer'[p] = v /\ pc'[p] = "bind-read" /\ \A r \in Clients \ {p} : answer'[r] = answer[r]
        BY <1>1, <1>2, <1>3
      <3>2. QED
        BY <1>1, <1>2, <1>6, <1>7, <2>1, <3>1, RunLabelFacts DEF AnswerIsOwn, LockedLabels
    <2>2. CASE q # p
      <3>1. answer'[q] = answer[q] /\ answer'[p] = v /\ pc'[q] = pc[q]
            /\ \A r \in Clients \ {p} : answer'[r] = answer[r]
        BY <1>1, <1>2, <1>3, <2>2
      <3>2. ASSUME answer[q] # None, NEW r \in Clients, answer'[r] = answer[q]
            PROVE  r = q \/ target[r] = target[q]
        BY <1>3, <1>7, <2>2, <3>1, <3>2 DEF Binding, AnswerIsOwn
      <3>3. QED
        BY <1>1, <1>2, <1>3, <3>1, <3>2 DEF Binding, AnswerIsOwn
    <2>3. QED
      BY <2>1, <2>2
  <1>9. QED
    BY <1>4, <1>5, <1>8 DEF Binding

\* What bind_conversation leaves behind.
LEMMA BindWriteRecords ==
    ASSUME BindInv, NEW p \in Clients, BindWrite(p)
    PROVE  /\ target[p] \in Chats /\ answer[p] \in Conversations
           /\ chat[target[p]].conversation \in {None, answer[p]}
           /\ chat[target[p]] # None /\ chat'[target[p]] # None
           /\ chat'[target[p]].conversation = answer[p]
           /\ \A c \in Chats \ {target[p]} : chat'[c] = chat[c]
           /\ pc[p] = "bind-write" /\ pc' = [pc EXCEPT ![p] = "update"]
           /\ UNCHANGED <<target, bound, engineVars>>
  <1>1. /\ target[p] \in Chats /\ answer[p] \in Conversations /\ chat[target[p]] \in ChatRecord
        /\ chat \in [Chats -> ChatRecord \cup {None}]
    <2>1. Located /\ TargetsStored /\ chat \in [Chats -> ChatRecord \cup {None}]
      BY DEF BindInv, StageInv, RunInv, RunTypeOK, StoreTypeOK
    <2>2. target[p] \in Chats /\ answer[p] \in Conversations
      BY <2>1 DEF Located, BindWrite, Step
    <2>3. QED
      BY <2>1, <2>2, NoneAssumption DEF TargetsStored
  <1>2. PICK c \in Chats, v \in Conversations :
          c = target[p] /\ v = answer[p] /\ chat[c] \in ChatRecord
    BY <1>1
  <1> DEFINE record == [chat[c] EXCEPT !.conversation = v]
  <1>3. record \in ChatRecord /\ record.conversation = v
    BY <1>2 DEF ChatRecord
  <1>4. chat' = [chat EXCEPT ![c] = record]
    BY <1>2 DEF BindWrite, UpdateChat, BoundRecord
  <1> HIDE DEF record
  <1>5. chat'[c] # None /\ chat'[c].conversation = v /\ \A d \in Chats \ {c} : chat'[d] = chat[d]
    BY <1>1, <1>3, <1>4, NoneAssumption
  <1>6. /\ pc[p] = "bind-write" /\ pc' = [pc EXCEPT ![p] = "update"]
        /\ UNCHANGED <<target, bound, engineVars>>
    BY DEF BindWrite, Step, Goto
  <1>7. chat[c].conversation \in {None, v}
    <2>1. FinalKnows(p)
      BY DEF BindInv, Binding
    <2>2. QED
      BY <1>2, <1>6, <2>1, NoneAssumption DEF FinalKnows
  <1>8. QED
    BY <1>1, <1>2, <1>5, <1>6, <1>7, NoneAssumption

\* Recording the answer of the run that has the chat's lock.
LEMMA WriteBinds ==
    ASSUME BindInv, NEW p \in Clients, BindWrite(p)
    PROVE  /\ \A q \in Clients : Binding(q)'
           /\ RecordedIsOpen' /\ OneChatPerConversation' /\ ConversationKept'
  <1> DEFINE c == target[p]
             v == answer[p]
  <1>1. /\ c \in Chats /\ v # None /\ chat[c].conversation \in {None, v}
        /\ chat[c] # None /\ chat'[c] # None /\ chat'[c].conversation = v
        /\ \A d \in Chats \ {c} : chat'[d] = chat[d]
        /\ pc[p] = "bind-write" /\ pc'[p] = "update"
        /\ \A q \in Clients \ {p} : pc'[q] = pc[q]
        /\ target' = target /\ bound' = bound /\ answer' = answer /\ status' = status /\ opened' = opened
    BY BindWriteRecords, NoneAssumption DEF BindInv, StageInv, RunInv, RunTypeOK, engineVars
  <1>2. \A q \in Clients : Binding(q) /\ RunStage(q) /\ target[q] \in Chats \cup {None}
    BY DEF BindInv, StageInv, RunInv, RunTypeOK
  <1>3. \A d \in Chats : chat[d] # None /\ chat[d].conversation = v => d = c
    BY <1>1, <1>2 DEF Binding, AnswerIsOwn
  <1> HIDE DEF c, v
  <1>4. RecordedIsOpen'
    BY <1>1, <1>2 DEF BindInv, RecordedIsOpen, Binding, AnswerIsOwn, v
  <1>5. OneChatPerConversation'
    BY <1>1, <1>3 DEF BindInv, OneChatPerConversation
  <1>6. ConversationKept'
    <2> SUFFICES ASSUME NEW q \in Clients, status[q] # None, status[q].chat # None,
                        status[q].conversation # None
                 PROVE  chat'[status[q].chat].conversation = status[q].conversation
      BY <1>1 DEF ConversationKept
    <2>1. /\ status[q].chat \in Chats
          /\ chat[status[q].chat].conversation = status[q].conversation
      BY <1>2 DEF BindInv, ConversationKept, RunStage
    <2>2. QED
      BY <1>1, <2>1
  <1>7. \A q \in Clients : BoundIsRecorded(q)'
    BY <1>1, <1>2 DEF Binding, BoundIsRecorded
  <1>8. ASSUME NEW q \in Clients
        PROVE  FinalKnows(q)'
    <2>1. CASE q = p
      BY <1>1, <2>1 DEF FinalKnows, c, v
    <2>2. CASE q # p /\ pc[q] \in LockedLabels /\ target[q] # None
      <3>1. target[q] # c
        BY <1>1, <2>2 DEF BindInv, StageInv, RunInv, LockHeld, LockedLabels, c
      <3>2. QED
        BY <1>1, <1>2, <2>2, <3>1 DEF Binding, FinalKnows
    <2>3. CASE q # p /\ (pc[q] \notin LockedLabels \/ target[q] = None)
      BY <1>1, <2>3 DEF FinalKnows, LockedLabels
    <2>4. QED
      BY <2>1, <2>2, <2>3
  <1>9. ASSUME NEW q \in Clients
        PROVE  AnswerIsOwn(q)'
    <2>1. ASSUME answer[q] # None, NEW d \in Chats, chat'[d] # None, chat'[d].conversation = answer[q]
          PROVE  d = target[q]
      BY <1>1, <1>2, <2>1 DEF Binding, AnswerIsOwn, c, v
    <2>2. answer[q] # None => pc'[q] \in RunLabels \cup {"dead"}
      BY <1>1, <1>2, RunLabelFacts DEF Binding, AnswerIsOwn, LockedLabels
    <2>3. QED
      BY <1>1, <1>2, <2>1, <2>2 DEF Binding, AnswerIsOwn
  <1>10. QED
    BY <1>4, <1>5, <1>6, <1>7, <1>8, <1>9 DEF Binding

\* Only update_status(conversation_id) names another conversation.
LEMMA StatusKeepsConversation ==
    ASSUME StageInv, [RunNext]_runVars, NEW q \in Clients, ~Update(q),
           status'[q] # None, status'[q].conversation # None
    PROVE  /\ status[q] # None /\ status'[q].chat = status[q].chat
           /\ status'[q].conversation = status[q].conversation
  <1> DEFINE Same == /\ status[q] # None /\ status'[q].chat = status[q].chat
                     /\ status'[q].conversation = status[q].conversation
  <1>0. StatusTypeOK /\ RunInv
    BY DEF StageInv, RunInv, RunTypeOK
  <1>1. CASE status'[q] = status[q]
    BY <1>1
  <1>2. ASSUME NEW from, NEW to \in States, Transition(q, from, to)
        PROVE  Same
    BY <1>0, <1>2, TransitionMoves DEF StatusMoves
  <1>3. CASE NewRequest(q)
    <2>1. CreateStatus(q, target[q]) /\ target[q] \in Chats \cup {None}
      BY <1>0, <1>3 DEF NewRequest, RunInv, RunTypeOK
    <2>2. QED
      BY <1>0, <2>1, CreateMoves
  <1>4. CASE RecordFailure(q)
    <2>1. Fail(q) /\ (InState(q, "running-planner") \/ InState(q, "running-final"))
      BY <1>4 DEF RecordFailure, Step, StageInv, RunStage
    <2>2. QED
      BY <1>0, <2>1, FailMoves DEF StatusMoves, InState
  <1>5. CASE StoreText(q) /\ ~UNCHANGED status
    <2>1. PICK stage \in Stages : UpdateProgress(q, stage)
      BY <1>0, <1>5 DEF StoreText, RunInv, RunTypeOK
    <2>2. QED
      BY <1>0, <1>5, <2>1, ProgressMoves DEF StatusMoves
  <1>6. CASE RunStep(q)
    BY <1>1, <1>2, <1>3, <1>4, <1>6, RunLabelFacts
       DEF RunStep, Attach, StartPlanner, StartProvider, PlannerTurn, Plan, AcquireChat,
           Reread, FinalAnswers, FinalFails, BindRead, BindWrite, Report, Complete, Unlock, engineVars
  <1>7. ASSUME NEW p \in Clients \ {q}, RunStep(p) \/ PollText(p) \/ StoreText(p) \/ Crash(p)
        PROVE  Same
    BY <1>0, <1>1, <1>7, FilesAreOwn
  <1>8. CASE RunNext
    <2>1. CASE RunStep(q) \/ StoreText(q)
      BY <1>1, <1>5, <1>6, <2>1
    <2>2. CASE PollText(q) \/ Crash(q)
      BY <1>1, <2>2 DEF PollText, Crash
    <2>3. CASE UNCHANGED engineVars
      BY <1>1, <2>3 DEF engineVars
    <2>4. QED
      BY <1>7, <1>8, <2>1, <2>2, <2>3 DEF RunNext
  <1>9. CASE UNCHANGED runVars
    BY <1>1, <1>9 DEF runVars
  <1>10. QED
    BY <1>8, <1>9

LEMMA BindInvInductive ==
    ASSUME BindInv, ProviderConversations, [RunNext]_runVars
    PROVE  BindInv'
  <1>1. StageInv' /\ StageInv /\ RunInv /\ RunTypeOK /\ \A q \in Clients : Binding(q) /\ RunStage(q)
    BY StageInvInductive DEF BindInv, StageInv, RunInv
  <1>2. CASE \E p \in Clients : BindWrite(p)
    BY <1>1, <1>2, WriteBinds DEF BindInv
  <1>3. CASE \E p \in Clients : FinalAnswers(p)
    <2>1. PICK p \in Clients : FinalAnswers(p)
      BY <1>3
    <2>2. UNCHANGED <<chat, status>> /\ opened \subseteq opened'
      BY <2>1 DEF FinalAnswers, storeVars
    <2>3. RecordedIsOpen' /\ OneChatPerConversation' /\ ConversationKept'
      BY <2>2 DEF BindInv, RecordedIsOpen, OneChatPerConversation, ConversationKept
    <2>4. QED
      BY <1>1, <2>1, <2>3, AnswerBinds DEF BindInv
  <1>4. CASE \A p \in Clients : ~BindWrite(p) /\ ~FinalAnswers(p)
    <2>1. Untouched
      BY <1>1, <1>4, OnlyBindWrites
    <2>2. UNCHANGED <<answer, opened>>
      BY <1>4 DEF RunNext, RunStep, NewRequest, Attach, StartPlanner, StartProvider, PlannerTurn, Plan,
           AcquireChat, Reread, FinalFails, BindRead, Update, Report, Complete, Unlock, RecordFailure,
           PollText, StoreText, Crash, engineVars, runVars
    <2>3. RecordedIsOpen'
      BY <2>1, <2>2 DEF BindInv, RecordedIsOpen, Untouched
    <2>4. OneChatPerConversation'
      BY <2>1 DEF BindInv, OneChatPerConversation, Untouched
    <2>5. ASSUME NEW q \in Clients, status'[q] # None, status'[q].chat # None,
                 status'[q].conversation # None
          PROVE  chat'[status'[q].chat].conversation = status'[q].conversation
      <3>1. CASE Update(q)
        <4>1. UpdateConversation(q, answer[q]) /\ pc[q] = "update" /\ UNCHANGED chat
          BY <3>1 DEF Update, Step, storeVars
        <4>2. status[q] # None /\ status[q].chat = target[q]
          BY <1>1, <4>1 DEF RunStage, InState, LockedLabels
        <4>3. /\ status'[q].chat = target[q] /\ status'[q].conversation = answer[q]
          BY <1>1, <4>1, <4>2, ConversationMoves DEF StatusMoves, RunTypeOK
        <4>4. QED
          BY <1>1, <2>5, <4>1, <4>3 DEF Binding, FinalKnows
      <3>2. CASE ~Update(q)
        <4>1. /\ status[q] # None /\ status'[q].chat = status[q].chat
              /\ status'[q].conversation = status[q].conversation
          BY <1>1, <2>5, <3>2, StatusKeepsConversation
        <4>2. chat[status[q].chat].conversation = status[q].conversation
          BY <2>5, <4>1 DEF BindInv, ConversationKept
        <4>3. status[q].chat \in Chats /\ chat[status[q].chat] # None
          BY <1>1, <2>5, <4>1 DEF RunStage, RunTypeOK, RunInv, TargetsStored
        <4>4. QED
          BY <2>1, <4>1, <4>2, <4>3 DEF Untouched
      <3>3. QED
        BY <3>1, <3>2
    <2>6. ASSUME NEW p \in Clients, Binding(p)', answer[p] # None => target'[p] = target[p],
                 \A q \in Clients \ {p} : /\ pc'[q] = pc[q] /\ target'[q] = target[q]
                                          /\ bound'[q] = bound[q]
          PROVE  \A q \in Clients : Binding(q)'
      BY <1>1, <2>1, <2>2, <2>6, BindingPersists
    <2>7. ASSUME NEW p \in Clients, UNCHANGED engineVars,
                 ResolveStep(p) \/ \E in \in Inputs : CallResolve(p, in)
          PROVE  \A q \in Clients : Binding(q)'
      <3>1. Resolving(p)
        BY <1>1, <2>7, ResolveResolves DEF RunInv, StageInv
      <3>2. pc[p] \in ResolveLabels \ {"dead"} /\ pc'[p] \in ResolveLabels
        BY <1>1, <2>7, <3>1 DEF Resolving, RunTypeOK, CallResolve, ResolveStep, EnsureExists,
             EnsureCreate, EnsureGet, PickNamed, PickNew, PickMain, PickClosed, BindExplicit, DieCreating
      <3>3. answer[p] = None /\ answer'[p] = None
        BY <1>1, <2>2, <3>2 DEF Binding, AnswerIsOwn, ResolveLabels, RunLabels, LockedLabels
      <3>4. BoundIsRecorded(p)'
        BY <1>1, <2>1, <2>7, ResolvingBinds DEF Binding
      <3>5. Binding(p)'
        BY <3>2, <3>3, <3>4 DEF Binding, FinalKnows, AnswerIsOwn, ResolveLabels
      <3>6. \A q \in Clients \ {p} : /\ pc'[q] = pc[q] /\ target'[q] = target[q]
                                     /\ bound'[q] = bound[q]
        BY <1>1, <3>1 DEF Resolving, RunTypeOK
      <3>7. QED
        BY <2>6, <3>3, <3>5, <3>6
    <2>8. ASSUME NEW p \in Clients, RunStep(p) \/ Crash(p), ~ResolveStep(p)
          PROVE  \A q \in Clients : Binding(q)'
      <3>1. UNCHANGED target
        BY <1>4, <2>8 DEF RunStep, NewRequest, Attach, StartPlanner, StartProvider, PlannerTurn, Plan,
             AcquireChat, Reread, FinalFails, BindRead, Update, Report, Complete, Unlock, RecordFailure,
             Crash, Step
      <3>2. Binding(p)'
        BY <1>1, <1>4, <2>1, <2>2, <2>8, <3>1, OwnBinding
      <3>3. QED
        BY <1>1, <2>6, <2>8, <3>1, <3>2, RunStepIsLocal
    <2>9. ASSUME UNCHANGED <<pc, target, bound>>
          PROVE  \A q \in Clients : Binding(q)'
      BY <1>1, <2>1, <2>2, <2>9, BindingPersists
    <2>10. \A q \in Clients : Binding(q)'
      <3>1. CASE RunNext
        <4>1. ASSUME NEW p \in Clients, RunStep(p) \/ Crash(p), ResolveStep(p)
              PROVE  RunStep(p) /\ UNCHANGED engineVars
          BY <4>1, ResolveIsNoRunStep
        <4>2. ASSUME \/ \E p \in Clients : PollText(p) \/ StoreText(p)
                     \/ ManageStep
              PROVE  UNCHANGED <<pc, target, bound>>
          BY <4>2 DEF PollText, StoreText, convVars, ManageStep, clientVars
        <4>3. ASSUME NEW p \in Clients, RunStep(p) \/ Crash(p)
              PROVE  \A q \in Clients : Binding(q)'
          BY <2>7, <2>8, <4>1, <4>3
        <4>4. QED
          BY <2>7, <2>9, <3>1, <4>2, <4>3 DEF RunNext
      <3>2. QED
        BY <2>9, <3>1 DEF runVars
    <2>11. QED
      BY <1>1, <2>3, <2>4, <2>5, <2>10 DEF BindInv, ConversationKept
  <1>5. QED
    BY <1>2, <1>3, <1>4

LEMMA BindInvHolds ==
    ASSUME ProviderConversations
    PROVE  RunSpec => []BindInv
  <1>1. RunInit => StageInv
    BY RunInitInv, RunInitStage DEF StageInv
  <1>2. RunInit => BindInv
    <2> SUFFICES ASSUME RunInit PROVE BindInv
      OBVIOUS
    <2>1. \A p \in Clients : pc[p] = "idle" /\ bound[p] = None /\ answer[p] = None /\ status[p] = None
      BY RunsAssumption DEF RunInit, ConvInit, ClientInit, StatusInit
    <2>2. \A p \in Clients : Binding(p)
      BY <2>1 DEF Binding, BoundIsRecorded, FinalKnows, AnswerIsOwn
    <2>3. RecordedIsOpen /\ OneChatPerConversation
      BY DEF RunInit, ConvInit, StoreInit, RecordedIsOpen, OneChatPerConversation
    <2>4. ConversationKept
      BY <2>1 DEF ConversationKept
    <2>5. QED
      BY <1>1, <2>2, <2>3, <2>4 DEF BindInv
  <1>3. BindInv /\ [RunNext]_runVars => BindInv'
    BY BindInvInductive
  <1>4. QED
    BY <1>2, <1>3, PTL DEF RunSpec

-----------------------------------------------------------------------------
(* The theorems.                                                           *)

\* The states of the registry, of the runs and of the locks keep their types,
\* for any number of runs and whatever their requests name.
THEOREM RunTypeCorrect == RunSpec => []RunTypeOK
  <1>1. RunInv => RunTypeOK
    BY DEF RunInv
  <1>2. QED
    BY <1>1, RunInvHolds, PTL

\* A run whose final turn is under way holds its chat's operation lock,
\* wherever runs fail or die.
THEOREM FinalTurnHoldsLock == RunSpec => []LockHeld
  <1>1. RunInv => LockHeld
    BY DEF RunInv
  <1>2. QED
    BY <1>1, RunInvHolds, PTL

\* Two runs of one chat are never both between reading its conversation and
\* completing (run_automatic, docs/SESSION_ARCHITECTURE.md:64).
THEOREM FinalTurnsSerialized == RunSpec => []ChatSerialized
  <1>1. RunInv => ChatSerialized
    BY DEF RunInv, LockHeld, ChatSerialized
  <1>2. QED
    BY <1>1, RunInvHolds, PTL

\* The runs use the registry only through the sections of SessionStore, so
\* that what is proved of StoreSpec holds in every run.
THEOREM RunsUseStore == RunSpec => StoreSpec
  <1>1. RunInit => StoreInit
    BY DEF RunInit, ConvInit
  <1>2. RunInv /\ [RunNext]_runVars => [StoreNext]_storeVars
    BY RunIsStoreStep
  <1>3. QED
    BY <1>1, <1>2, RunInvHolds, PTL DEF RunSpec, StoreSpec

\* Whatever crashes, fails or interleaves: a request past "new" is listed by
\* the chat its status names, and a complete one has its final result, three
\* files that no lock covers together (new_request and run_automatic).
THEOREM RequestsStayAccounted == RunSpec => []RequestsAccounted
  <1>1. StageInv => RequestsAccounted
    <2> SUFFICES ASSUME StageInv PROVE RequestsAccounted
      OBVIOUS
    <2>1. \A p \in Clients : RunStage(p)
      BY DEF StageInv
    <2>2. StartedIsListed
      BY <2>1 DEF RunStage, StartedIsListed, Listed
    <2>3. CompleteHasResult
      BY <2>1 DEF RunStage, CompleteHasResult
    <2>4. QED
      BY <2>2, <2>3 DEF RequestsAccounted
  <1>2. QED
    BY <1>1, StageInvHolds, PTL

\* An automatic run, with its progress threads, implements the life cycle that
\* RequestStore promises to whoever polls: no late snapshot and no failure
\* ever moves a status back or out of complete.
THEOREM RunsFollowLifecycle == RunSpec => Lifecycle
  <1>1. RunInit => StatusInit
    BY DEF RunInit
  <1>2. StageInv /\ [RunNext]_runVars
          => [\A r \in Requests : LifecycleStep(r) \/ status'[r] = status[r]]_status
    BY RunFollowsLifecycle
  <1>3. QED
    BY <1>1, <1>2, StageInvHolds, PTL DEF RunSpec, Lifecycle

\* What resolve promised in ConvSpec it still promises when the clients it
\* resolves go on as runs.
THEOREM RunsGetUsable == RunSpec => [](ResolutionUsable /\ StaleNotResolved)
  <1>1. RunInv => ResolutionUsable /\ StaleNotResolved
    <2> SUFFICES ASSUME RunInv PROVE ResolutionUsable /\ StaleNotResolved
      OBVIOUS
    <2>1. StaleNotResolved
      BY DEF RunInv, ClientOK, StaleKnown, Asking, StaleNotResolved
    <2>2. QED
      BY <2>1, ResolvedIsUsable DEF RunInv, ResolutionUsable
  <1>2. QED
    BY <1>1, RunInvHolds, PTL

\* As long as conversations come from the provider, a chat and its
\* conversation belong together: a final turn continues what its chat has
\* recorded, two chats never share one, and what a status names its chat has
\* recorded, whatever fails, dies or waits for the lock on the way.
THEOREM ChatsOwnConversations ==
    ASSUME ProviderConversations
    PROVE  RunSpec => []ChatOwnsConversation
  <1>1. BindInv => ChatOwnsConversation
    BY DEF BindInv, Binding, FinalKnows, ChatOwnsConversation, FinalContinuesChat
  <1>2. QED
    BY <1>1, BindInvHolds, PTL

\* And once recorded it is never replaced: bind_conversation compares in one
\* section and writes in another, and the operation lock keeps them together.
THEOREM BindingsAreStable ==
    ASSUME ProviderConversations
    PROVE  RunSpec => BindingIsStable
  <1> DEFINE Stable == \A c \in Chats : chat[c] # None /\ chat[c].conversation # None =>
                          chat'[c].conversation = chat[c].conversation
  <1>1. BindInv /\ [RunNext]_runVars => [Stable]_convVars
    <2> SUFFICES ASSUME BindInv, [RunNext]_runVars PROVE Stable
      OBVIOUS
    <2>1. CASE \A p \in Clients : ~BindWrite(p)
      BY <2>1, OnlyBindWrites DEF BindInv, StageInv, Untouched
    <2>2. ASSUME NEW p \in Clients, BindWrite(p)
          PROVE  Stable
      <3>1. /\ chat[target[p]].conversation \in {None, answer[p]}
            /\ chat'[target[p]].conversation = answer[p]
            /\ \A c \in Chats \ {target[p]} : chat'[c] = chat[c]
        BY <2>2, BindWriteRecords
      <3>2. QED
        BY <3>1
    <2>3. QED
      BY <2>1, <2>2
  <1>2. QED
    BY <1>1, BindInvHolds, PTL DEF RunSpec, BindingIsStable

=============================================================================
