---------------------------- MODULE MCPageTurn -----------------------------
(***************************************************************************)
(* PageTurn for TLC: answers of three chunks, whose brackets are balanced  *)
(* after the second as well.                                               *)
(***************************************************************************)
EXTENDS PageTurn

CONSTANTS r1, r2, h1, h2

MCReplies == <<r1, r2>>

=============================================================================
