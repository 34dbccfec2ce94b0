--------------------------- MODULE InteractiveRun ---------------------------
(***************************************************************************)
(* The human-interactive workflow of ReviewEngine (engine.py): prepare     *)
(* returns a planner prompt, submit_planner takes the manifest the human   *)
(* brings back and returns a final prompt, submit_final takes the report.  *)
(* Any number of processes (MCP servers, CLI) may submit for one request   *)
(* at once; the request's operation lock orders them.  A process may die   *)
(* at any step: the lock is freed, the files written so far stay, and a    *)
(* new process may submit again.                                           *)
(*                                                                         *)
(* A manifest is a model value; a report is told apart by who brought it   *)
(* and by the manifest whose tasks and requirements it accounts for.       *)
(* Resolution and attachment, as in AutomaticRun, are left out of prepare. *)
(***************************************************************************)
CONSTANTS
    Requests, Chats, Conversations, None,   \* as in RequestStore
    Callers,     \* processes that call the engine
    Manifests    \* valid research manifests

VARIABLES
    status,    \* status.json (RequestStore)
    manifest,  \* research-manifest.json: a manifest or None
    context,   \* manifest context-pack.json was built for, or None
    prompt,    \* manifest final-prompt.md was compiled from, or None
    result,    \* final-result.json: a report or None
    holder,    \* holder[r]: caller that has the operation lock of r
    pc,        \* next step of each caller
    job,       \* [request, payload] each caller works on, or None
    accepted   \* history: accepted[r]: reports submit_final returned for r

INSTANCE RequestStore

files == <<manifest, context, prompt, result>>
vars == <<status, manifest, context, prompt, result, holder, pc, job, accepted>>

Reports == [by : Callers, plan : Manifests]

Labels == {"idle", "prepare", "planner-lock", "planner-check", "write-manifest",
           "write-context", "write-prompt", "ask-final",
           "final-lock", "final-check", "write-result", "complete"}

ASSUME InteractiveAssumption ==
    /\ None \notin Callers /\ None \notin Manifests /\ None \notin Reports
    /\ None \notin StatusRecord /\ None \notin [request : Requests, payload : Manifests \cup Reports]

Jobs == [request : Requests, payload : Manifests \cup Reports \cup {None}]

InteractiveTypeOK ==
    /\ StatusTypeOK
    /\ manifest \in [Requests -> Manifests \cup {None}]
    /\ context \in [Requests -> Manifests \cup {None}]
    /\ prompt \in [Requests -> Manifests \cup {None}]
    /\ result \in [Requests -> Reports \cup {None}]
    /\ holder \in [Requests -> Callers \cup {None}]
    /\ pc \in [Callers -> Labels]
    /\ job \in [Callers -> Jobs \cup {None}]
    /\ accepted \in [Requests -> SUBSET Reports]

Init ==
    /\ StatusInit
    /\ manifest = [r \in Requests |-> None]
    /\ context = [r \in Requests |-> None]
    /\ prompt = [r \in Requests |-> None]
    /\ result = [r \in Requests |-> None]
    /\ holder = [r \in Requests |-> None]
    /\ pc = [p \in Callers |-> "idle"]
    /\ job = [p \in Callers |-> None]
    /\ accepted = [r \in Requests |-> {}]

Goto(p, from, to) == pc[p] = from /\ pc' = [pc EXCEPT ![p] = to]

\* Leave the operation, with the lock if it has it.
Leave(p) ==
    /\ pc' = [pc EXCEPT ![p] = "idle"]
    /\ job' = [job EXCEPT ![p] = None]
    /\ holder' = [r \in Requests |-> IF holder[r] = p THEN None ELSE holder[r]]

\* An exception: nothing was written in this step.
Raise(p) == Leave(p) /\ UNCHANGED <<status, files, accepted>>

Call(p, r, payload, label) ==
    /\ Goto(p, "idle", label)
    /\ job' = [job EXCEPT ![p] = [request |-> r, payload |-> payload]]

-----------------------------------------------------------------------------
(* prepare                                                                 *)

\* _new_request: a request id is drawn and its status created.
CallPrepare(p, r) ==
    /\ Call(p, r, None, "prepare")
    /\ CreateStatus(r, None)
    /\ UNCHANGED <<files, holder, accepted>>

FinishPrepare(p) ==
    /\ pc[p] = "prepare"
    /\ Transition(job[p].request, "new", "waiting-planner")
    /\ Leave(p)
    /\ UNCHANGED <<files, accepted>>

-----------------------------------------------------------------------------
(* submit_planner                                                          *)

CallSubmitPlanner(p, r, m) ==
    /\ status[r] # None
    /\ Call(p, r, m, "planner-lock")
    /\ UNCHANGED <<status, files, holder, accepted>>

AcquireOperation(p, from, to) ==
    /\ Goto(p, from, to)
    /\ holder[job[p].request] = None
    /\ holder' = [holder EXCEPT ![job[p].request] = p]
    /\ UNCHANGED <<status, files, job, accepted>>

\* The state, the allowed root and the manifest are checked.
CheckPlanner(p) ==
    /\ Goto(p, "planner-check", "write-manifest")
    /\ InState(job[p].request, "waiting-planner")
    /\ UNCHANGED <<status, files, holder, job, accepted>>

\* Mutant: the manifest of an earlier attempt is kept.
Mutant_WriteManifest(p) ==
    /\ Goto(p, "write-manifest", "write-context")
    /\ manifest' = [manifest EXCEPT ![job[p].request] = IF @ = None THEN job[p].payload ELSE @]
    /\ UNCHANGED <<status, context, prompt, result, holder, job, accepted>>

WriteManifest(p) ==
    /\ Goto(p, "write-manifest", "write-context")
    /\ manifest' = [manifest EXCEPT ![job[p].request] = job[p].payload]
    /\ UNCHANGED <<status, context, prompt, result, holder, job, accepted>>

WriteContext(p) ==
    /\ Goto(p, "write-context", "write-prompt")
    /\ context' = [context EXCEPT ![job[p].request] = job[p].payload]
    /\ UNCHANGED <<status, manifest, prompt, result, holder, job, accepted>>

\* The final prompt, compiled from what this call has in memory.
WritePrompt(p) ==
    /\ Goto(p, "write-prompt", "ask-final")
    /\ prompt' = [prompt EXCEPT ![job[p].request] = job[p].payload]
    /\ UNCHANGED <<status, manifest, context, result, holder, job, accepted>>

AskFinal(p) ==
    /\ pc[p] = "ask-final"
    /\ Transition(job[p].request, "waiting-planner", "waiting-final")
    /\ Leave(p)
    /\ UNCHANGED <<files, accepted>>

\* What raises: the state test, the manifest or root test, a context whose
\* mandatory part does not fit.
RejectPlanner(p) == pc[p] \in {"planner-check", "write-context"} /\ Raise(p)

-----------------------------------------------------------------------------
(* submit_final                                                            *)

CallSubmitFinal(p, r, report) ==
    /\ status[r] # None
    /\ Call(p, r, report, "final-lock")
    /\ UNCHANGED <<status, files, holder, accepted>>

\* _validate_report: every planned task and requirement is accounted for.
ValidReport(r, report) == manifest[r] = report.plan

\* Mutant: a refused report sends the request back to its planner.
Mutant_CheckFinal(p) ==
    LET r == job[p].request IN
    /\ pc[p] = "final-check"
    /\ IF InState(r, "waiting-final") /\ ValidReport(r, job[p].payload)
       THEN /\ Goto(p, "final-check", "write-result")
            /\ UNCHANGED <<status, files, holder, job, accepted>>
       ELSE /\ Leave(p)
            /\ status' = [status EXCEPT ![r].state = "waiting-planner"]
            /\ UNCHANGED <<files, accepted>>

CheckFinal(p) ==
    LET r == job[p].request IN
    /\ pc[p] = "final-check"
    /\ IF InState(r, "waiting-final") /\ ValidReport(r, job[p].payload)
       THEN /\ Goto(p, "final-check", "write-result")
            /\ UNCHANGED <<status, files, holder, job, accepted>>
       ELSE Raise(p)

\* Mutant: the result file is left to whoever completed first.
Mutant_WriteResult(p) ==
    /\ Goto(p, "write-result", "complete")
    /\ result' = [result EXCEPT ![job[p].request] = IF @ = None THEN job[p].payload ELSE @]
    /\ UNCHANGED <<status, manifest, context, prompt, holder, job, accepted>>

WriteResult(p) ==
    /\ Goto(p, "write-result", "complete")
    /\ result' = [result EXCEPT ![job[p].request] = job[p].payload]
    /\ UNCHANGED <<status, manifest, context, prompt, holder, job, accepted>>

\* The last step: the request completes and the report is returned.
Complete(p) ==
    /\ pc[p] = "complete"
    /\ Transition(job[p].request, "waiting-final", "complete")
    /\ accepted' = [accepted EXCEPT ![job[p].request] = @ \cup {job[p].payload}]
    /\ Leave(p)
    /\ UNCHANGED files

-----------------------------------------------------------------------------
\* The process dies; a new one takes its place among the callers.
Crash(p) == pc[p] # "idle" /\ Raise(p)

Next ==
    \E p \in Callers :
        \/ \E r \in Requests : CallPrepare(p, r)
        \/ FinishPrepare(p)
        \/ \E r \in Requests, m \in Manifests :
            \/ CallSubmitPlanner(p, r, m)
            \/ CallSubmitFinal(p, r, [by |-> p, plan |-> m])
        \/ AcquireOperation(p, "planner-lock", "planner-check")
        \/ CheckPlanner(p) \/ WriteManifest(p) \/ WriteContext(p) \/ WritePrompt(p)
        \/ AskFinal(p) \/ RejectPlanner(p)
        \/ AcquireOperation(p, "final-lock", "final-check")
        \/ CheckFinal(p) \/ WriteResult(p) \/ Complete(p)
        \/ Crash(p)

Spec == Init /\ [][Next]_vars

-----------------------------------------------------------------------------
(* Properties.                                                             *)

\* When the report is asked for, the three files the final turn and its
\* validation rest on stem from one manifest, though an earlier submission
\* may have died after writing some of them and another raced it.
OnePlan ==
    \A r \in Requests : InState(r, "waiting-final") \/ InState(r, "complete")
        => manifest[r] # None /\ context[r] = manifest[r] /\ prompt[r] = manifest[r]

\* A stored report answers the stored manifest: the manifest it was validated
\* against is not replaced afterwards.
ResultAnswersPlan ==
    \A r \in Requests : result[r] # None => result[r].plan = manifest[r]

\* One manifest all the way: asked for, stored and answered.
PlanOnce == OnePlan /\ ResultAnswersPlan

\* A caller whose report was accepted finds that report stored, for good; so
\* no two submissions are both accepted.
AcceptedIsStored ==
    \A r \in Requests : \A report \in accepted[r] : result[r] = report

\* The report of a complete request is there.
CompleteHasReport ==
    \A r \in Requests : InState(r, "complete") => result[r] # None

\* Reports that were accepted are kept, and nothing completes without one.
ReportKept == AcceptedIsStored /\ CompleteHasReport

=============================================================================
