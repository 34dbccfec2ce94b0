---------------------------- MODULE RequestStore ----------------------------
(***************************************************************************)
(* The status file of a request (class RequestStore in store.py).  Every   *)
(* operation is one section under the request's .state.lock: it reads      *)
(* status.json, and writes it back or gives up.  The two workflows of      *)
(* ReviewEngine (AutomaticRun, InteractiveRun) instantiate this module.    *)
(*                                                                         *)
(* Of the record only what later steps or readers depend on is kept: the   *)
(* state, the chat fixed at creation, the conversation observed and the    *)
(* turn partial_text was taken from.                                       *)
(***************************************************************************)

CONSTANTS Requests, Chats, Conversations, None

VARIABLE status  \* status[r]: content of status.json of r, or None

States == {"new", "running-planner", "waiting-planner", "running-final",
           "waiting-final", "complete", "failed"}

Stages == {"planner", "final"}

StatusRecord ==
    [state        : States,
     chat         : Chats \cup {None},
     conversation : Conversations \cup {None},
     partial      : Stages \cup {None}]

StatusTypeOK == status \in [Requests -> StatusRecord \cup {None}]

StatusInit == status = [r \in Requests |-> None]

InState(r, state) == status[r] # None /\ status[r].state = state

CreateStatus(r, c) ==
    /\ status[r] = None
    /\ status' = [status EXCEPT ![r] =
            [state |-> "new", chat |-> c, conversation |-> None, partial |-> None]]

\* transition: compare and swap of the state.
Transition(r, expected, new) ==
    /\ InState(r, expected)
    /\ status' = [status EXCEPT ![r].state = new]

\* Mutant: a late snapshot puts the state of its turn back.
Mutant_UpdateProgress(r, stage) ==
    status' = [status EXCEPT ![r].partial = stage,
                             ![r].state = IF stage = "planner" THEN "running-planner"
                                                               ELSE "running-final"]

\* update_progress: a snapshot is kept only while a turn runs.
UpdateProgress(r, stage) ==
    IF InState(r, "running-planner") \/ InState(r, "running-final")
    THEN status' = [status EXCEPT ![r].partial = stage]
    ELSE UNCHANGED status

\* update_status(conversation_id = v).
UpdateConversation(r, v) == status' = [status EXCEPT ![r].conversation = v]

\* fail: a complete request stays complete.
Fail(r) ==
    IF InState(r, "complete")
    THEN UNCHANGED status
    ELSE status' = [status EXCEPT ![r].state = "failed"]

-----------------------------------------------------------------------------
(* The promise to whoever polls get_request_status: one request goes       *)
(* through one of the two workflows in order, may fail from anywhere but   *)
(* complete, and once it is complete or failed nothing changes its status. *)

Successors(state) ==
    CASE state = "new" -> {"running-planner", "waiting-planner", "failed"}
      [] state = "running-planner" -> {"running-final", "failed"}
      [] state = "waiting-planner" -> {"waiting-final"}
      [] state = "running-final" -> {"complete", "failed"}
      [] state = "waiting-final" -> {"complete"}
      [] OTHER -> {}

LifecycleStep(r) ==
    \/ status[r] = None /\ InState(r, "new")'
    \/ /\ status[r] # None /\ status'[r] # None
       /\ status'[r].chat = status[r].chat
       /\ \/ status'[r].state \in Successors(status[r].state)
          \/ status'[r].state = status[r].state /\ Successors(status[r].state) # {}

Lifecycle ==
    StatusInit /\ [][\A r \in Requests : LifecycleStep(r) \/ status'[r] = status[r]]_status

=============================================================================
