---- MODULE MCFees ----
(* The instance of Fees that TLC checks: a student with two terms, one with one. *)
EXTENDS Fees, TLC
CONSTANTS c1, c2, p1, p2, s1, s2, t1, t2, b11, b12, b21
MCStudentOf == [b \in Bills |-> IF b = b21 THEN s2 ELSE s1]
MCTermOf == [b \in Bills |-> IF b = b12 THEN t2 ELSE t1]
MCNet == [b \in Bills |-> <<1, 2>>]
MCRule == [mode |-> "PER_DAY", amount |-> 1, grace |-> 1, cap |-> 2]
MCClaims == {[student |-> s1, bill |-> b11, amount |-> 2, day |-> d] : d \in {2, 4}}
            \union {[student |-> s2, bill |-> b, amount |-> 4, day |-> 0] : b \in {NoBill, b21}}
Symmetry == Permutations(Clerks) \union Permutations(Payments)
====
