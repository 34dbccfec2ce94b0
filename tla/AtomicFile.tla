----------------------------- MODULE AtomicFile -----------------------------
(***************************************************************************)
(* What the stores promise of one record file: a reader sees either the    *)
(* content before an update or the one after it, and each update is made   *)
(* to the content the updates before it left.  The content is the set of   *)
(* the updates in it.                                                      *)
(***************************************************************************)
CONSTANT Threads
VARIABLE file

Init == file = {}

Update(t) == file' = file \cup {t}

Next == \E t \in Threads : Update(t)

Spec == Init /\ [][Next]_file
=============================================================================
