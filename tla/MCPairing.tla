------------------------------- MODULE MCPairing -------------------------------
(***************************************************************************)
(* Values of Pairing's constants for TLC.                                  *)
(***************************************************************************)
EXTENDS Pairing, TLC

CONSTANTS r1, r2, A, B, grill, bar

RequestSymmetry == Permutations({r1, r2})

StationOfMC == [s \in {grill, bar} |-> IF s = grill THEN A ELSE B]

\* A code for one station, and one for the whole store.
StationCode == [store |-> A, station |-> grill, ttl |-> 1]
StoreCode == [store |-> A, station |-> None, ttl |-> 1]

Reopen == [store |-> Same, status |-> "PENDING", expires |-> Same]
NoChange == [store |-> Same, status |-> Same, expires |-> Same]

AtGrill == [store |-> A, station |-> grill]
Unpaired == [store |-> None, station |-> None]

ToBar == [store |-> B, station |-> bar]
ToB == [store |-> B, station |-> Same]
ToGrill == [store |-> Same, station |-> grill]

\* Codes that expire; and one code, for displays that move about.
Coding == [ops |-> {"create", "join", "patch", "remove", "time", "restart"},
           bodies |-> {StationCode, StoreCode}, ids |-> [code |-> 0, device |-> 0]]
Moving == [ops |-> {"create", "join", "register", "move", "removeDevice", "place"},
           bodies |-> {StationCode}, ids |-> [code |-> 1, device |-> 0]]
CodingAndMoving == {Coding, Moving}

CodePatchesMC == {Reopen, NoChange}
DeviceBodiesMC == {AtGrill, Unpaired}
DevicePatchesMC == {ToBar, ToB, ToGrill, NoPatch}
=============================================================================
