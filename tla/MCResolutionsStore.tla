------------------------- MODULE MCResolutionsStore -------------------------
(* Small instances of ResolutionsStore for TLC.                            *)
EXTENDS ResolutionsStore

CONSTANTS c1, c2, c3, h1, h2, q1, q2, q3, d1, d2

(* Two processes with one caller each.                                     *)
TwoProcesses == [c \in Client |-> IF c = c1 THEN h1 ELSE h2]

(* One process whose callers share the connection.                         *)
OneProcess == [c \in Client |-> h1]

(* q1 and q2 decide the same demand, q3 another one.                       *)
Demands == [q \in Request |-> IF q = q3 THEN d2 ELSE d1]
=============================================================================
