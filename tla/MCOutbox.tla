---- MODULE MCOutbox ----
(* The instances of Outbox that TLC checks. *)
EXTENDS Outbox, TLC
CONSTANTS d1, d2, r1, r2, x1, x2, x3
MCRowOf == [x \in Deliveries |-> IF x = x3 THEN r2 ELSE r1]
\* Used for safety only.
Symmetry == Permutations(Drains) \union Permutations(Deliveries)
====
