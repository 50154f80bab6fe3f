------------------------------- MODULE MCRealtime ------------------------------
(***************************************************************************)
(* Values of Realtime's constants for TLC: one store with a station of its *)
(* own and, for the rooms, one of another owner.                           *)
(***************************************************************************)
EXTENDS Realtime, TLC

CONSTANTS r1, r2, tea, store, station, elsewhere

RequestSymmetry == Permutations({r1, r2})

TeaCart == {<<[product |-> tea, qty |-> 1]>>}
TeaOrNone == TeaCart \cup {<<>>}
QrBody == {[cash |-> FALSE, claimed |-> Unsaid, received |-> Unsaid]}

PayloadsMC == {{store}, {station}, {store, station}, {elsewhere}}
=============================================================================
