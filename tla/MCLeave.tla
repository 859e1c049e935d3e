---- MODULE MCLeave ----
(***************************************************************************)
(* A school of three teachers: anna and ben teach in the same period of    *)
(* the first day, anna alone on the second; tara can stand in on both      *)
(* days, ben on the second.                                                *)
(***************************************************************************)
EXTENDS Leave, TLC
CONSTANTS anna, ben, tara, anna1, ben1, anna2, annas, bens, taras, morning, afternoon, r1, r2

Slots(t, d, p) == [teacher |-> t, day |-> d, period |-> p, half |-> "AM"]
DeskSlot == anna1 :> Slots(anna, 1, 1) @@ ben1 :> Slots(ben, 1, 1) @@ anna2 :> Slots(anna, 2, 1)
Forms(t, days) == [teacher |-> t, days |-> days, half |-> "DAY"]
DeskForm == annas :> Forms(anna, {1, 2}) @@ bens :> Forms(ben, {1}) @@ taras :> Forms(tara, {1, 2})
\* The first day alone.
HalvesSlot == anna1 :> Slots(anna, 1, 1) @@ ben1 :> Slots(ben, 1, 1)
\* One day of anna in two halves, each a leave of its own.
Half(half) == [teacher |-> anna, days |-> {1}, half |-> half]
HalvesForm == morning :> Half("AM") @@ afternoon :> Half("PM")
DeskRostered == {<<tara, 1>>}
Symmetry == Permutations(Requests)
====
