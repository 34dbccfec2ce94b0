------------------------------ MODULE MCBridge ------------------------------
(***************************************************************************)
(* Bridge for TLC: the wiring of browsers, connections and tunnels.        *)
(***************************************************************************)
EXTENDS Bridge, TLC

CONSTANTS c1, c2, w1, w2, j1, j2, j3, b1, t1, t2

\* One browser that may connect twice, the second time for tunnel t1 only.
HomeOne == [w \in Workers |-> b1]
ServesBoth == [w \in Workers |-> IF w = w1 THEN {t1, t2} ELSE {t1}]
TunnelBoth == [c \in Controllers |-> IF c = c1 THEN t1 ELSE t2]

Symmetry == Permutations(Jobs)

=============================================================================
