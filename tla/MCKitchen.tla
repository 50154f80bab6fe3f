------------------------------- MODULE MCKitchen ------------------------------
(***************************************************************************)
(* Values of Kitchen's constants for TLC.                                  *)
(***************************************************************************)
EXTENDS Service, TLC

CONSTANTS r1, r2, tea, rice

OneRequest == {r1}
TwoRequests == {r1, r2}
RequestSymmetry == Permutations(TwoRequests)

OneProduct == {tea}
TwoProducts == {tea, rice}

One(p) == [product |-> p, qty |-> 1]

NoCart == {<<>>}
TeaCart == {<<One(tea)>>}
TeaOrTeaRice == TeaCart \cup {<<One(tea), One(rice)>>}
TeaOrNone == TeaCart \cup NoCart

\* A QR payment, a cash payment of two cents, and a QR payment for which the
\* client claims a total of one cent.
PayBodiesMC == {[cash |-> FALSE, claimed |-> Unsaid, received |-> Unsaid],
                [cash |-> TRUE, claimed |-> Unsaid, received |-> <<2>>],
                [cash |-> FALSE, claimed |-> <<1>>, received |-> Unsaid]}
QrBody == {[cash |-> FALSE, claimed |-> Unsaid, received |-> Unsaid]}
=============================================================================
