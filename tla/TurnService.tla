---------------------------- MODULE TurnService ----------------------------
(***************************************************************************)
(* What a browser driver promises the provider (browser/base.py): a turn   *)
(* is submitted once, runs in a browser at most once, and is answered once *)
(* or fails; an answer is the text of its own run.  A failed turn may      *)
(* still run, or be running, unseen.                                       *)
(***************************************************************************)
CONSTANT Turns

VARIABLES
    run,    \* run[t]: where the prompt of t is in a browser
    status  \* status[t]: what the caller knows of t

RunStates == {"never", "running", "result", "error", "lost"}
Statuses == {"unused", "submitted", "result", "error"}

Init ==
    /\ run = [t \in Turns |-> "never"]
    /\ status = [t \in Turns |-> "unused"]

Submit(t) ==
    /\ status[t] = "unused"
    /\ status' = [status EXCEPT ![t] = "submitted"]
    /\ UNCHANGED run

Run(t) ==
    /\ status[t] # "unused" /\ run[t] = "never"
    /\ run' = [run EXCEPT ![t] = "running"]
    /\ UNCHANGED status

\* Runs of several turns may end at once: with the browser.
EndRuns ==
    \E ending \in SUBSET {t \in Turns : run[t] = "running"} :
        \E end \in [ending -> {"result", "error", "lost"}] :
            run' = [t \in Turns |-> IF t \in ending THEN end[t] ELSE run[t]]
    /\ UNCHANGED status

Answer(t) ==
    /\ status[t] = "submitted"
    /\ \/ run[t] = "result" /\ status' = [status EXCEPT ![t] = "result"]
       \/ status' = [status EXCEPT ![t] = "error"]
    /\ UNCHANGED run

Next == EndRuns \/ \E t \in Turns : Submit(t) \/ Run(t) \/ Answer(t)

Spec == Init /\ [][Next]_<<run, status>>

=============================================================================
