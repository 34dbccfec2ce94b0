---------------------------- MODULE MCLockedFile ----------------------------
(***************************************************************************)
(* LockedFile for TLC: two threads of one process and two more processes.  *)
(***************************************************************************)
EXTENDS LockedFile, TLC

CONSTANTS t1, t2, t3, t4, i1, i2, i3

PidOf == t1 :> i1 @@ t2 :> i1 @@ t3 :> i2 @@ t4 :> i3

=============================================================================
