------------------------- MODULE InteractiveRunProofs -------------------------
(***************************************************************************)
(* For any number of callers, requests and manifests: a request is         *)
(* answered for the one manifest it was asked for (PlansAreOne), and a     *)
(* report that was accepted is stored for good (ReportsAreKept), and its   *)
(* status follows the life cycle (SubmissionsFollowLifecycle), though      *)
(* callers die at any step and others submit again.                        *)
(***************************************************************************)
EXTENDS InteractiveRun, TLAPS

PlannerLabels == {"planner-check", "write-manifest", "write-context", "write-prompt", "ask-final"}
FinalLabels == {"final-check", "write-result", "complete"}

Submits(p, payloads) == job[p] \in [request : Requests, payload : payloads]

\* What each step works on.
JobInv ==
    \A p \in Callers :
        /\ pc[p] = "prepare" => job[p] \in Jobs
        /\ pc[p] \in PlannerLabels \cup {"planner-lock"} => Submits(p, Manifests)
        /\ pc[p] \in FinalLabels \cup {"final-lock"} => Submits(p, Reports)

\* A submission works under the request's lock.
HolderInv ==
    \A p \in Callers :
        pc[p] \in PlannerLabels \cup FinalLabels => holder[job[p].request] = p

\* How far a submission is: the files it has written are its own.
PlannerInv ==
    \A p \in Callers :
        LET r == job[p].request IN
        /\ pc[p] \in PlannerLabels \ {"planner-check"} => InState(r, "waiting-planner")
        /\ pc[p] \in {"write-context", "write-prompt", "ask-final"} => manifest[r] = job[p].payload
        /\ pc[p] \in {"write-prompt", "ask-final"} => context[r] = job[p].payload
        /\ pc[p] = "ask-final" => prompt[r] = job[p].payload

FinalInv ==
    \A p \in Callers :
        LET r == job[p].request IN
        /\ pc[p] \in {"write-result", "complete"} =>
                InState(r, "waiting-final") /\ manifest[r] = job[p].payload.plan
        /\ pc[p] = "complete" => result[r] = job[p].payload

\* Nothing is stored or accepted ahead of its state.
StageInv ==
    \A r \in Requests :
        /\ result[r] # None => InState(r, "waiting-final") \/ InState(r, "complete")
        /\ accepted[r] # {} => InState(r, "complete")

\* The inductive invariant.
Inv == InteractiveTypeOK /\ JobInv /\ HolderInv /\ PlannerInv /\ FinalInv /\ StageInv
       /\ PlanOnce /\ ReportKept

LEMMA InvInitial == Init => Inv
  BY InteractiveAssumption
  DEF Init, StatusInit, Inv, InteractiveTypeOK, StatusTypeOK, Labels, Jobs, JobInv, HolderInv, PlannerInv,
      FinalInv, StageInv, PlanOnce, OnePlan, ResultAnswersPlan, ReportKept, AcceptedIsStored,
      CompleteHasReport, InState, PlannerLabels, FinalLabels

\* Two submissions that have the lock work on two requests.
LEMMA Alone ==
    ASSUME Inv, NEW p \in Callers, NEW q \in Callers, p # q,
           pc[p] \in PlannerLabels \cup FinalLabels, pc[q] \in PlannerLabels \cup FinalLabels
    PROVE  job[p].request # job[q].request
  BY DEF Inv, HolderInv

\* Who has a label works on a request.
LEMMA JobTypes ==
    ASSUME Inv, NEW p \in Callers
    PROVE  /\ pc[p] \in PlannerLabels => job[p].request \in Requests /\ job[p].payload \in Manifests
           /\ pc[p] \in FinalLabels => job[p].request \in Requests /\ job[p].payload \in Reports
           /\ pc[p] \in {"planner-lock", "final-lock", "prepare"} => job[p].request \in Requests
  BY DEF Inv, JobInv, Submits, Jobs

\* Leaving, with the files as they are, breaks nothing.
LEMMA LeaveKeeps ==
    ASSUME Inv, NEW p \in Callers, Leave(p), UNCHANGED <<status, files, accepted>>
    PROVE  Inv'
  <1> USE DEF Inv, files
  <1>1. InteractiveTypeOK'
    BY DEF InteractiveTypeOK, StatusTypeOK, Leave, Labels
  <1>2. \A q \in Callers : q # p => pc'[q] = pc[q] /\ job'[q] = job[q]
    BY DEF Leave, InteractiveTypeOK
  <1>3. pc'[p] = "idle"
    BY DEF Leave, InteractiveTypeOK
  <1>4. JobInv'
    BY <1>2, <1>3 DEF JobInv, Submits, PlannerLabels, FinalLabels
  <1>5. HolderInv'
    <2> SUFFICES ASSUME NEW q \in Callers, pc'[q] \in PlannerLabels \cup FinalLabels
                 PROVE  holder'[job'[q].request] = q
      BY DEF HolderInv
    <2>1. q # p /\ pc[q] = pc'[q] /\ job'[q] = job[q]
      BY <1>2, <1>3 DEF PlannerLabels, FinalLabels
    <2>2. holder[job[q].request] = q /\ job[q].request \in Requests
      BY <2>1, JobTypes DEF HolderInv
    <2>3. QED
      BY <2>1, <2>2 DEF Leave
  <1>6. PlannerInv' /\ FinalInv'
    BY <1>2, <1>3 DEF PlannerInv, FinalInv, InState, PlannerLabels
  <1>7. StageInv' /\ PlanOnce' /\ ReportKept'
    BY DEF StageInv, PlanOnce, OnePlan, ResultAnswersPlan, ReportKept, AcceptedIsStored,
           CompleteHasReport, InState
  <1>8. QED
    BY <1>1, <1>4, <1>5, <1>6, <1>7

\* Calls and locks: no file is written.
LEMMA CallsKeep ==
    ASSUME Inv, NEW p \in Callers,
           \/ \E r \in Requests, m \in Manifests :
                \/ CallSubmitPlanner(p, r, m)
                \/ CallSubmitFinal(p, r, [by |-> p, plan |-> m])
           \/ AcquireOperation(p, "planner-lock", "planner-check")
           \/ AcquireOperation(p, "final-lock", "final-check")
    PROVE  Inv'
  <1> USE DEF Inv, files
  <1>1. /\ UNCHANGED <<status, manifest, context, prompt, result, accepted>>
        /\ \A q \in Callers : q # p => pc'[q] = pc[q] /\ job'[q] = job[q]
    BY DEF CallSubmitPlanner, CallSubmitFinal, Call, AcquireOperation, Goto, InteractiveTypeOK
  <1>2. StageInv' /\ PlanOnce' /\ ReportKept'
    BY <1>1
    DEF StageInv, PlanOnce, OnePlan, ResultAnswersPlan, ReportKept, AcceptedIsStored,
        CompleteHasReport, InState
  <1>3. CASE \E r \in Requests, m \in Manifests :
                \/ CallSubmitPlanner(p, r, m)
                \/ CallSubmitFinal(p, r, [by |-> p, plan |-> m])
    <2>1. PICK r \in Requests, m \in Manifests :
             \/ CallSubmitPlanner(p, r, m)
             \/ CallSubmitFinal(p, r, [by |-> p, plan |-> m])
      BY <1>3
    <2>2. /\ \/ pc'[p] = "planner-lock" /\ job'[p] = [request |-> r, payload |-> m]
             \/ pc'[p] = "final-lock" /\ job'[p] = [request |-> r, payload |-> [by |-> p, plan |-> m]]
          /\ holder' = holder
          /\ pc' \in [Callers -> Labels] /\ job' \in [Callers -> Jobs \cup {None}]
      BY <2>1 DEF CallSubmitPlanner, CallSubmitFinal, Call, Goto, InteractiveTypeOK, Labels, Jobs, Reports
    <2>3. InteractiveTypeOK'
      BY <1>1, <2>2 DEF InteractiveTypeOK, StatusTypeOK
    <2>4. JobInv'
      <3>1. [by |-> p, plan |-> m] \in Reports
        BY DEF Reports
      <3>2. QED
        BY <1>1, <2>2, <3>1 DEF JobInv, Submits, PlannerLabels, FinalLabels
    <2>5. HolderInv' /\ PlannerInv' /\ FinalInv'
      BY <1>1, <2>2 DEF HolderInv, PlannerInv, FinalInv, InState, PlannerLabels, FinalLabels
    <2>6. QED
      BY <1>2, <2>3, <2>4, <2>5
  <1>4. CASE \/ AcquireOperation(p, "planner-lock", "planner-check")
             \/ AcquireOperation(p, "final-lock", "final-check")
    <2>1. /\ \/ pc[p] = "planner-lock" /\ pc'[p] = "planner-check"
             \/ pc[p] = "final-lock" /\ pc'[p] = "final-check"
          /\ job' = job
          /\ holder[job[p].request] = None
          /\ holder' = [holder EXCEPT ![job[p].request] = p]
          /\ pc' \in [Callers -> Labels]
      BY <1>4 DEF AcquireOperation, Goto, InteractiveTypeOK, Labels
    <2>2. job[p].request \in Requests
      BY <2>1, JobTypes
    <2>3. InteractiveTypeOK'
      BY <1>1, <2>1 DEF InteractiveTypeOK, StatusTypeOK
    <2>4. JobInv'
      BY <1>1, <2>1 DEF JobInv, Submits, PlannerLabels, FinalLabels
    <2>5. HolderInv'
      <3> SUFFICES ASSUME NEW q \in Callers, pc'[q] \in PlannerLabels \cup FinalLabels
                   PROVE  holder'[job[q].request] = q
        BY <2>1 DEF HolderInv
      <3>1. CASE q = p
        BY <2>1, <2>2, <3>1 DEF InteractiveTypeOK
      <3>2. CASE q # p
        <4>1. holder[job[q].request] = q /\ job[q].request \in Requests
          BY <1>1, <3>2, JobTypes DEF HolderInv
        <4>2. QED
          BY <2>1, <2>2, <4>1, InteractiveAssumption DEF InteractiveTypeOK
      <3>3. QED
        BY <3>1, <3>2
    <2>6. PlannerInv' /\ FinalInv'
      BY <1>1, <2>1 DEF PlannerInv, FinalInv, InState, PlannerLabels, FinalLabels
    <2>7. QED
      BY <1>2, <2>3, <2>4, <2>5, <2>6
  <1>5. QED
    BY <1>3, <1>4

\* A request of which no submission has begun.
LEMMA PrepareKeeps ==
    ASSUME Inv, NEW p \in Callers, FinishPrepare(p) \/ \E r \in Requests : CallPrepare(p, r)
    PROVE  Inv'
  <1> USE DEF Inv, files
  <1>1. CASE \E r \in Requests : CallPrepare(p, r)
    <2>1. PICK r \in Requests : CallPrepare(p, r)
      BY <1>1
    <2>2. /\ UNCHANGED <<manifest, context, prompt, result, holder, accepted>>
          /\ pc[p] = "idle" /\ pc' = [pc EXCEPT ![p] = "prepare"]
          /\ job' = [job EXCEPT ![p] = [request |-> r, payload |-> None]]
          /\ status[r] = None
          /\ status' = [status EXCEPT ![r] = [state |-> "new", chat |-> None,
                                               conversation |-> None, partial |-> None]]
      BY <2>1 DEF CallPrepare, Call, Goto, CreateStatus
    <2>3. \A q \in Callers : q # p => pc'[q] = pc[q] /\ job'[q] = job[q]
      BY <2>2 DEF InteractiveTypeOK
    <2>4. pc'[p] = "prepare" /\ job'[p] = [request |-> r, payload |-> None]
      BY <2>2 DEF InteractiveTypeOK
    <2>5. \A q \in Requests : /\ q # r => status'[q] = status[q]
                              /\ q = r => status'[q] # None /\ status'[q].state = "new"
      BY <2>2, InteractiveAssumption DEF InteractiveTypeOK, StatusTypeOK, StatusRecord, States
    <2>6. InteractiveTypeOK'
      <3>1. status' \in [Requests -> StatusRecord \cup {None}]
        BY <2>2 DEF InteractiveTypeOK, StatusTypeOK, StatusRecord, States
      <3>2. pc' \in [Callers -> Labels] /\ job' \in [Callers -> Jobs \cup {None}]
        BY <2>2 DEF InteractiveTypeOK, Labels, Jobs
      <3>3. QED
        BY <2>2, <3>1, <3>2 DEF InteractiveTypeOK, StatusTypeOK
    <2>7. JobInv' /\ HolderInv'
      BY <2>2, <2>3, <2>4 DEF JobInv, HolderInv, Submits, Jobs, PlannerLabels, FinalLabels
    <2>8. ASSUME NEW q \in Requests, NEW state \in {"waiting-planner", "waiting-final", "complete"}
          PROVE  InState(q, state)' <=> InState(q, state)
      BY <2>2, <2>5 DEF InState
    <2>9. PlannerInv' /\ FinalInv'
      <3> SUFFICES ASSUME NEW q \in Callers, pc'[q] \in PlannerLabels \cup FinalLabels
                   PROVE  /\ q # p /\ job[q].request \in Requests
        BY <2>2, <2>3, <2>8 DEF PlannerInv, FinalInv, PlannerLabels, FinalLabels
      <3>1. QED
        BY <2>3, <2>4, JobTypes DEF PlannerLabels, FinalLabels
    <2>10. StageInv' /\ PlanOnce' /\ ReportKept'
      BY <2>2, <2>8
      DEF StageInv, PlanOnce, OnePlan, ResultAnswersPlan, ReportKept, AcceptedIsStored, CompleteHasReport
    <2>11. QED
      BY <2>6, <2>7, <2>9, <2>10
  <1>2. CASE FinishPrepare(p)
    <2> DEFINE r == job[p].request
    <2>1. /\ UNCHANGED <<manifest, context, prompt, result, accepted>>
          /\ pc[p] = "prepare" /\ InState(r, "new") /\ Leave(p)
          /\ status' = [status EXCEPT ![r].state = "waiting-planner"]
      BY <1>2 DEF FinishPrepare, Transition
    <2>2. r \in Requests
      BY <2>1, JobTypes
    <2>3. \A q \in Callers : q # p => pc'[q] = pc[q] /\ job'[q] = job[q]
      BY <2>1 DEF Leave, InteractiveTypeOK
    <2>4. pc'[p] = "idle"
      BY <2>1 DEF Leave, InteractiveTypeOK
    <2>5. /\ status[r] \in StatusRecord
          /\ status' \in [Requests -> StatusRecord \cup {None}]
          /\ \A q \in Requests : /\ q # r => status'[q] = status[q]
                                 /\ q = r => status'[q] # None /\ status'[q].state = "waiting-planner"
      <3>1. status[r] \in StatusRecord
        BY <2>1, <2>2 DEF InState, InteractiveTypeOK, StatusTypeOK
      <3>2. [status[r] EXCEPT !.state = "waiting-planner"] \in StatusRecord
        BY <3>1 DEF StatusRecord, States
      <3>3. QED
        BY <2>1, <2>2, <3>1, <3>2, InteractiveAssumption
        DEF InteractiveTypeOK, StatusTypeOK, StatusRecord, States
    <2>6. \A q \in Requests :
            /\ InState(q, "waiting-planner") => InState(q, "waiting-planner")'
            /\ InState(q, "waiting-final")' <=> InState(q, "waiting-final")
            /\ InState(q, "complete")' <=> InState(q, "complete")
      BY <2>1, <2>5 DEF InState
    <2>7. InteractiveTypeOK'
      BY <2>1, <2>5 DEF InteractiveTypeOK, StatusTypeOK, Leave, Labels
    <2>8. JobInv'
      BY <2>3, <2>4 DEF JobInv, Submits, PlannerLabels, FinalLabels
    <2>9. ASSUME NEW q \in Callers, pc'[q] \in PlannerLabels \cup FinalLabels
          PROVE  q # p /\ pc'[q] = pc[q] /\ job'[q] = job[q] /\ job[q].request \in Requests
      <3>1. q # p /\ pc'[q] = pc[q] /\ job'[q] = job[q]
        BY <2>3, <2>4, <2>9 DEF PlannerLabels, FinalLabels
      <3>2. QED
        BY <2>9, <3>1, JobTypes
    <2>10. HolderInv'
      BY <2>1, <2>9 DEF HolderInv, Leave
    <2>11. PlannerInv' /\ FinalInv'
      BY <2>1, <2>6, <2>9 DEF PlannerInv, FinalInv, PlannerLabels, FinalLabels
    <2>12. StageInv' /\ PlanOnce' /\ ReportKept'
      BY <2>1, <2>6
      DEF StageInv, PlanOnce, OnePlan, ResultAnswersPlan, ReportKept, AcceptedIsStored, CompleteHasReport
    <2>13. QED
      BY <2>7, <2>8, <2>10, <2>11, <2>12
  <1>3. QED
    BY <1>1, <1>2

\* The steps of a submission that keep the lock: they write one file of the
\* request at most, which no other submission is about.
LEMMA WorkKeeps ==
    ASSUME Inv, NEW p \in Callers,
           \/ CheckPlanner(p) \/ WriteManifest(p) \/ WriteContext(p) \/ WritePrompt(p)
           \/ CheckFinal(p) /\ InState(job[p].request, "waiting-final") /\ ValidReport(job[p].request, job[p].payload)
           \/ WriteResult(p)
    PROVE  Inv'
  <1> DEFINE r == job[p].request  payload == job[p].payload
  <1> USE DEF Inv, files
  <1>1. /\ UNCHANGED <<status, holder, job, accepted>>
        /\ pc[p] \in PlannerLabels \cup FinalLabels
        /\ pc' \in [Callers -> Labels]
        /\ \A q \in Callers : q # p => pc'[q] = pc[q]
        /\ \/ pc[p] \in PlannerLabels /\ pc'[p] \in PlannerLabels
           \/ pc[p] \in FinalLabels /\ pc'[p] \in FinalLabels
    BY DEF CheckPlanner, WriteManifest, WriteContext, WritePrompt, CheckFinal, WriteResult, Goto,
           InteractiveTypeOK, Labels, PlannerLabels, FinalLabels
  <1>2. r \in Requests /\ (pc[p] \in PlannerLabels => payload \in Manifests)
        /\ (pc[p] \in FinalLabels => payload \in Reports)
    BY <1>1, JobTypes
  <1>3. /\ \A q \in Requests \ {r} :
              /\ manifest'[q] = manifest[q] /\ context'[q] = context[q]
              /\ prompt'[q] = prompt[q] /\ result'[q] = result[q]
        /\ manifest' \in [Requests -> Manifests \cup {None}] /\ context' \in [Requests -> Manifests \cup {None}]
        /\ prompt' \in [Requests -> Manifests \cup {None}] /\ result' \in [Requests -> Reports \cup {None}]
    BY <1>1, <1>2
    DEF CheckPlanner, WriteManifest, WriteContext, WritePrompt, CheckFinal, WriteResult, Goto,
        InteractiveTypeOK, PlannerLabels, FinalLabels
  <1>4. \/ /\ pc[p] = "planner-check" /\ pc'[p] = "write-manifest" /\ InState(r, "waiting-planner")
           /\ UNCHANGED <<manifest, context, prompt, result>>
        \/ /\ pc[p] = "write-manifest" /\ pc'[p] = "write-context"
           /\ manifest'[r] = payload /\ UNCHANGED <<context, prompt, result>>
        \/ /\ pc[p] = "write-context" /\ pc'[p] = "write-prompt"
           /\ context'[r] = payload /\ UNCHANGED <<manifest, prompt, result>>
        \/ /\ pc[p] = "write-prompt" /\ pc'[p] = "ask-final"
           /\ prompt'[r] = payload /\ UNCHANGED <<manifest, context, result>>
        \/ /\ pc[p] = "final-check" /\ pc'[p] = "write-result"
           /\ InState(r, "waiting-final") /\ manifest[r] = payload.plan
           /\ UNCHANGED <<manifest, context, prompt, result>>
        \/ /\ pc[p] = "write-result" /\ pc'[p] = "complete"
           /\ result'[r] = payload /\ UNCHANGED <<manifest, context, prompt>>
    BY <1>2
    DEF CheckPlanner, WriteManifest, WriteContext, WritePrompt, CheckFinal, ValidReport, WriteResult, Goto,
        InteractiveTypeOK
  <1>5. InteractiveTypeOK'
    BY <1>1, <1>3 DEF InteractiveTypeOK, StatusTypeOK
  <1>6. JobInv' /\ HolderInv'
    BY <1>1 DEF JobInv, HolderInv, Submits, PlannerLabels, FinalLabels
  <1>7. ASSUME NEW q \in Callers, q # p, pc'[q] \in PlannerLabels \cup FinalLabels
        PROVE  pc'[q] = pc[q] /\ job[q].request \in Requests \ {r}
    BY <1>1, <1>2, <1>7, Alone, JobTypes
  <1>8. /\ pc[p] \in PlannerLabels \ {"planner-check"} => InState(r, "waiting-planner")
        /\ pc[p] = "write-result" => InState(r, "waiting-final") /\ manifest[r] = payload.plan
    BY DEF PlannerInv, FinalInv
  <1>9. PlannerInv' /\ FinalInv'
    <2>1. ASSUME NEW q \in Callers, q # p PROVE PlannerInv!(q)' /\ FinalInv!(q)'
      BY <1>1, <1>3, <1>7, <2>1 DEF PlannerInv, FinalInv, InState, PlannerLabels, FinalLabels
    <2>2. PlannerInv!(p)' /\ FinalInv!(p)'
      BY <1>1, <1>4, <1>8 DEF PlannerInv, FinalInv, InState, PlannerLabels, FinalLabels
    <2>3. QED
      BY <2>1, <2>2 DEF PlannerInv, FinalInv
  <1>10. StageInv' /\ PlanOnce' /\ ReportKept'
    <2>1. pc[p] = "write-manifest" => InState(r, "waiting-planner")
      BY <1>8 DEF PlannerLabels
    <2>2. accepted[r] # {} => pc[p] # "write-result"
      BY <1>2, <1>8 DEF StageInv, InState
    <2>3. ASSUME NEW q \in Requests \ {r}
          PROVE  /\ StageInv!(q)' /\ OnePlan!(q)' /\ ResultAnswersPlan!(q)' /\ AcceptedIsStored!(q)'
                 /\ CompleteHasReport!(q)'
      BY <1>1, <1>3
      DEF StageInv, PlanOnce, OnePlan, ResultAnswersPlan, ReportKept, AcceptedIsStored, CompleteHasReport, InState
    <2>4. ASSUME NEW q \in Requests, q = r
          PROVE  /\ StageInv!(q)' /\ OnePlan!(q)' /\ ResultAnswersPlan!(q)' /\ AcceptedIsStored!(q)'
                 /\ CompleteHasReport!(q)'
      <3>1. UNCHANGED <<status, accepted>>
        BY <1>1
      <3>2. CASE pc[p] \in {"planner-check", "final-check"}
        BY <1>4, <3>1, <3>2
        DEF StageInv, PlanOnce, OnePlan, ResultAnswersPlan, ReportKept, AcceptedIsStored, CompleteHasReport, InState
      <3>3. CASE pc[p] \in {"write-manifest", "write-context", "write-prompt"}
        <4>1. /\ status[q] # None /\ status[q].state = "waiting-planner"
              /\ result[q] = None /\ accepted[q] = {} /\ UNCHANGED result
          BY <1>4, <1>8, <2>4, <3>3 DEF StageInv, InState, PlannerLabels
        <4>2. QED
          BY <3>1, <4>1
          DEF StageInv, PlanOnce, OnePlan, ResultAnswersPlan, ReportKept, AcceptedIsStored, CompleteHasReport, InState
      <3>4. CASE pc[p] = "write-result"
        <4>1. /\ status[q] # None /\ status[q].state = "waiting-final" /\ accepted[q] = {}
              /\ UNCHANGED <<manifest, context, prompt>> /\ result'[q] = payload /\ manifest[q] = payload.plan
          BY <1>2, <1>4, <1>8, <2>2, <2>4, <3>4 DEF StageInv, InState
        <4>2. payload # None
          BY <1>1, <1>2, <3>4, InteractiveAssumption DEF FinalLabels
        <4>3. QED
          BY <3>1, <4>1, <4>2
          DEF StageInv, PlanOnce, OnePlan, ResultAnswersPlan, ReportKept, AcceptedIsStored, CompleteHasReport, InState
      <3>5. QED
        BY <1>4, <3>2, <3>3, <3>4
    <2>5. QED
      BY <2>3, <2>4
      DEF StageInv, PlanOnce, OnePlan, ResultAnswersPlan, ReportKept, AcceptedIsStored, CompleteHasReport
  <1>11. QED
    BY <1>5, <1>6, <1>9, <1>10

\* A submission that ends well: the state moves on and the lock is left.
LEMMA EndKeeps ==
    ASSUME Inv, NEW p \in Callers, AskFinal(p) \/ Complete(p)
    PROVE  Inv'
  <1> DEFINE r == job[p].request
             next == IF pc[p] = "ask-final" THEN "waiting-final" ELSE "complete"
  <1> USE DEF Inv, files
  <1>1. /\ UNCHANGED <<manifest, context, prompt, result>>
        /\ Leave(p)
        /\ status' = [status EXCEPT ![r].state = next] /\ status[r] # None
        /\ \/ pc[p] = "ask-final" /\ InState(r, "waiting-planner") /\ UNCHANGED accepted
           \/ /\ pc[p] = "complete" /\ InState(r, "waiting-final")
              /\ accepted' = [accepted EXCEPT ![r] = @ \cup {job[p].payload}]
    BY DEF AskFinal, Complete, Transition, InState
  <1>2. r \in Requests /\ pc[p] \in PlannerLabels \cup FinalLabels
        /\ (pc[p] = "complete" => job[p].payload \in Reports)
    BY <1>1, JobTypes DEF PlannerLabels, FinalLabels
  <1>3. \A q \in Callers : q # p => pc'[q] = pc[q] /\ job'[q] = job[q]
    BY <1>1 DEF Leave, InteractiveTypeOK
  <1>4. pc'[p] = "idle"
    BY <1>1 DEF Leave, InteractiveTypeOK
  <1>5. /\ status' \in [Requests -> StatusRecord \cup {None}]
        /\ \A q \in Requests : /\ q # r => status'[q] = status[q]
                               /\ q = r => status'[q] # None /\ status'[q].state = next
    <2>1. status[r] \in StatusRecord
      BY <1>1, <1>2 DEF InState, InteractiveTypeOK, StatusTypeOK
    <2>2. [status[r] EXCEPT !.state = next] \in StatusRecord
      BY <2>1 DEF StatusRecord, States
    <2>3. status' = [status EXCEPT ![r] = [status[r] EXCEPT !.state = next]]
      BY <1>1
    <2>4. [status[r] EXCEPT !.state = next].state = next
      BY <2>1 DEF StatusRecord
    <2>5. QED
      BY <1>2, <2>2, <2>3, <2>4, InteractiveAssumption DEF InteractiveTypeOK, StatusTypeOK
  <1>6. InteractiveTypeOK'
    <2>1. accepted' \in [Requests -> SUBSET Reports]
      BY <1>1, <1>2 DEF InteractiveTypeOK
    <2>2. QED
      BY <1>1, <1>5, <2>1 DEF InteractiveTypeOK, StatusTypeOK, Leave, Labels
  <1>7. JobInv'
    BY <1>3, <1>4 DEF JobInv, Submits, PlannerLabels, FinalLabels
  <1>8. ASSUME NEW q \in Callers, pc'[q] \in PlannerLabels \cup FinalLabels
        PROVE  q # p /\ pc'[q] = pc[q] /\ job'[q] = job[q] /\ job[q].request \in Requests \ {r}
    <2>1. q # p /\ pc'[q] = pc[q] /\ job'[q] = job[q]
      BY <1>3, <1>4, <1>8 DEF PlannerLabels, FinalLabels
    <2>2. QED
      BY <1>2, <1>8, <2>1, Alone, JobTypes
  <1>9. HolderInv'
    BY <1>1, <1>8 DEF HolderInv, Leave
  <1>10. PlannerInv' /\ FinalInv'
    BY <1>1, <1>5, <1>8 DEF PlannerInv, FinalInv, InState, PlannerLabels, FinalLabels
  <1>11. StageInv' /\ PlanOnce' /\ ReportKept'
    <2>1. ASSUME NEW q \in Requests \ {r}
          PROVE  /\ StageInv!(q)' /\ OnePlan!(q)' /\ ResultAnswersPlan!(q)' /\ AcceptedIsStored!(q)'
                 /\ CompleteHasReport!(q)'
      <3>1. accepted'[q] = accepted[q] /\ status'[q] = status[q]
        BY <1>1, <1>5 DEF InteractiveTypeOK
      <3>2. QED
        BY <1>1, <3>1
        DEF StageInv, PlanOnce, OnePlan, ResultAnswersPlan, ReportKept, AcceptedIsStored, CompleteHasReport, InState
    <2>2. ASSUME NEW q \in Requests, q = r
          PROVE  /\ StageInv!(q)' /\ OnePlan!(q)' /\ ResultAnswersPlan!(q)' /\ AcceptedIsStored!(q)'
                 /\ CompleteHasReport!(q)'
      <3>0. status'[q] # None /\ status'[q].state = next
        BY <1>5, <2>2
      <3>1. CASE pc[p] = "ask-final"
        <4>1. next = "waiting-final"
          BY <3>1
        <4>2. /\ manifest[q] = job[p].payload /\ context[q] = job[p].payload /\ prompt[q] = job[p].payload
              /\ job[p].payload # None
          BY <2>2, <3>1, JobTypes, InteractiveAssumption DEF PlannerInv, PlannerLabels
        <4>3. accepted'[q] = {} /\ result[q] = None
          BY <1>1, <2>2, <3>1 DEF StageInv, InState
        <4>4. QED
          BY <1>1, <3>0, <4>1, <4>2, <4>3
          DEF StageInv, OnePlan, ResultAnswersPlan, AcceptedIsStored, CompleteHasReport, InState
      <3>2. CASE pc[p] = "complete"
        <4>1. next = "complete" /\ InState(q, "waiting-final")
          BY <1>1, <2>2, <3>2
        <4>2. result[q] = job[p].payload /\ job[p].payload # None
          BY <1>2, <2>2, <3>2, InteractiveAssumption DEF FinalInv
        <4>3. accepted[q] = {} /\ accepted'[q] = {job[p].payload}
          <5>1. accepted[q] = {}
            BY <4>1 DEF StageInv, InState
          <5>2. accepted' = [accepted EXCEPT ![r] = @ \cup {job[p].payload}]
            BY <1>1, <3>2
          <5>3. QED
            BY <2>2, <5>1, <5>2 DEF InteractiveTypeOK
        <4>4. QED
          BY <1>1, <3>0, <4>1, <4>2, <4>3
          DEF StageInv, PlanOnce, OnePlan, ResultAnswersPlan, AcceptedIsStored, CompleteHasReport, InState
      <3>3. QED
        BY <1>1, <3>1, <3>2
    <2>3. QED
      BY <2>1, <2>2
      DEF StageInv, PlanOnce, OnePlan, ResultAnswersPlan, ReportKept, AcceptedIsStored, CompleteHasReport
  <1>12. QED
    BY <1>6, <1>7, <1>9, <1>10, <1>11

LEMMA InvInductive == Inv /\ [Next]_vars => Inv'
  <1> SUFFICES ASSUME Inv, [Next]_vars PROVE Inv'
    OBVIOUS
  <1>1. CASE Next
    <2>1. PICK p \in Callers :
            \/ (FinishPrepare(p) \/ \E r \in Requests : CallPrepare(p, r))
            \/ (\/ \E r \in Requests, m \in Manifests :
                     \/ CallSubmitPlanner(p, r, m)
                     \/ CallSubmitFinal(p, r, [by |-> p, plan |-> m])
                \/ AcquireOperation(p, "planner-lock", "planner-check")
                \/ AcquireOperation(p, "final-lock", "final-check"))
            \/ CheckPlanner(p) \/ WriteManifest(p) \/ WriteContext(p) \/ WritePrompt(p) \/ WriteResult(p)
            \/ CheckFinal(p)
            \/ (AskFinal(p) \/ Complete(p))
            \/ (RejectPlanner(p) \/ Crash(p))
      BY <1>1 DEF Next
    <2>2. CASE CheckFinal(p)
      <3>1. CASE InState(job[p].request, "waiting-final") /\ ValidReport(job[p].request, job[p].payload)
        BY <2>2, <3>1, WorkKeeps
      <3>2. CASE Raise(p)
        BY <3>2, LeaveKeeps DEF Raise
      <3>3. QED
        BY <2>2, <3>1, <3>2 DEF CheckFinal
    <2>3. CASE RejectPlanner(p) \/ Crash(p)
      BY <2>3, LeaveKeeps DEF RejectPlanner, Crash, Raise
    <2>4. QED
      BY <2>1, <2>2, <2>3, PrepareKeeps, CallsKeep, WorkKeeps, EndKeeps
  <1>2. CASE UNCHANGED vars
    BY <1>2
    DEF vars, Inv, InteractiveTypeOK, StatusTypeOK, JobInv, Submits, HolderInv, PlannerInv, FinalInv,
        StageInv, PlanOnce, OnePlan, ResultAnswersPlan, ReportKept, AcceptedIsStored, CompleteHasReport,
        InState
  <1>3. QED
    BY <1>1, <1>2

\* A submission that moves a status takes a step of the life cycle.
LEMMA SubmissionsFollow ==
    ASSUME Inv, [Next]_vars
    PROVE  [\A r \in Requests : LifecycleStep(r) \/ status'[r] = status[r]]_status
  <1> DEFINE Follows == \A r \in Requests : LifecycleStep(r) \/ status'[r] = status[r]
  <1>0. status \in [Requests -> StatusRecord \cup {None}]
    BY DEF Inv, InteractiveTypeOK, StatusTypeOK
  <1>1. ASSUME NEW r \in Requests, CreateStatus(r, None)
        PROVE  Follows
    <2> DEFINE record == [state |-> "new", chat |-> None, conversation |-> None, partial |-> None]
    <2>1. record \in StatusRecord /\ record.state = "new"
      BY DEF StatusRecord, States
    <2>2. status[r] = None /\ status' = [status EXCEPT ![r] = record]
      BY <1>1 DEF CreateStatus
    <2> HIDE DEF record
    <2>3. /\ status'[r] # None /\ status'[r].state = "new"
          /\ \A q \in Requests \ {r} : status'[q] = status[q]
      BY <1>0, <2>1, <2>2, InteractiveAssumption
    <2>4. QED
      BY <2>2, <2>3 DEF LifecycleStep, InState
  <1>2. ASSUME NEW r \in Requests, NEW from \in States, NEW to \in Successors(from) \cap States,
               Transition(r, from, to)
        PROVE  Follows
    <2> DEFINE record == [status[r] EXCEPT !.state = to]
    <2>1. status[r] # None /\ status[r].state = from /\ status[r] \in StatusRecord
      BY <1>0, <1>2 DEF Transition, InState
    <2>2. record \in StatusRecord /\ record.state = to /\ record.chat = status[r].chat
      BY <2>1 DEF StatusRecord
    <2>3. status' = [status EXCEPT ![r] = record]
      BY <1>2 DEF Transition
    <2> HIDE DEF record
    <2>4. /\ status'[r] # None /\ status'[r].state = to /\ status'[r].chat = status[r].chat
          /\ \A q \in Requests \ {r} : status'[q] = status[q]
      BY <1>0, <2>2, <2>3, InteractiveAssumption
    <2>5. LifecycleStep(r)
      BY <2>1, <2>4 DEF LifecycleStep
    <2>6. QED
      BY <2>4, <2>5
  <1>3. /\ "waiting-planner" \in Successors("new") /\ "waiting-final" \in Successors("waiting-planner")
        /\ "complete" \in Successors("waiting-final")
        /\ {"new", "waiting-planner", "waiting-final", "complete"} \subseteq States
    BY DEF Successors, States
  <1>4. ASSUME NEW p \in Callers, FinishPrepare(p) \/ AskFinal(p) \/ Complete(p)
        PROVE  Follows
    <2>1. job[p].request \in Requests
      BY <1>4, JobTypes DEF FinishPrepare, AskFinal, Complete, PlannerLabels, FinalLabels
    <2>2. QED
      BY <1>2, <1>3, <1>4, <2>1 DEF FinishPrepare, AskFinal, Complete
  <1>5. ASSUME NEW p \in Callers, NEW r \in Requests, CallPrepare(p, r)
        PROVE  Follows
    BY <1>1, <1>5 DEF CallPrepare
  <1>6. CASE Next
    BY <1>4, <1>5, <1>6
    DEF Next, CallSubmitPlanner, CallSubmitFinal, AcquireOperation, CheckPlanner, WriteManifest,
        WriteContext, WritePrompt, RejectPlanner, CheckFinal, WriteResult, Crash, Raise
  <1>7. CASE UNCHANGED vars
    BY <1>7 DEF vars
  <1>8. QED
    BY <1>6, <1>7

\* The types of the files and of the callers' state.
THEOREM InteractiveTypeCorrect == Spec => []InteractiveTypeOK
  <1>1. Inv => InteractiveTypeOK
    BY DEF Inv
  <1>2. QED
    BY <1>1, InvInitial, InvInductive, PTL DEF Spec

\* The manifest, the context, the prompt and the report of a request belong
\* to one submission of its planner.
THEOREM PlansAreOne == Spec => []PlanOnce
  <1>1. Inv => PlanOnce
    BY DEF Inv
  <1>2. QED
    BY <1>1, InvInitial, InvInductive, PTL DEF Spec

\* At most one report of a request is accepted, and it stays stored.
THEOREM ReportsAreKept == Spec => []ReportKept
  <1>1. Inv => ReportKept
    BY DEF Inv
  <1>2. QED
    BY <1>1, InvInitial, InvInductive, PTL DEF Spec

\* The interactive workflow implements the life cycle of RequestStore: callers
\* that submit twice, race or die never move a status back, skip a state or
\* leave complete.
THEOREM SubmissionsFollowLifecycle == Spec => Lifecycle
  <1>1. Init => StatusInit
    BY DEF Init
  <1>2. Inv /\ [Next]_vars => [\A r \in Requests : LifecycleStep(r) \/ status'[r] = status[r]]_status
    BY SubmissionsFollow
  <1>3. QED
    BY <1>1, <1>2, InvInitial, InvInductive, PTL DEF Spec, Lifecycle

===============================================================================
