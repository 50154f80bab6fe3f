----------------------------- MODULE PairingTables -----------------------------
(***************************************************************************)
(* The tables behind the pairing of kitchen displays with a station, and   *)
(* the requests that work on them.                                         *)
(*                                                                         *)
(* A pairing code is named by its row; the text a screen types is a unique *)
(* key.  No foreign key ties a code to its station or store: the entity's  *)
(* relation to the store has a column of its own that nothing fills.       *)
(***************************************************************************)
EXTENDS Integers, Tables

CONSTANTS
  Requests,      \* the HTTP requests the server can be serving at once
  Stores,        \* the stores at the start; none is added
  Stations,      \* the stations at the start; none is added
  StationOf,     \* the store each of them belongs to at the start
  None,          \* SQL's NULL
  Scenes,        \* the scenes of this instance: [ops, bodies, ids]
  CodePatches,   \* bodies of PATCH /pairing-codes/:id
  DeviceBodies,  \* bodies of POST /devices
  DevicePatches, \* bodies of PATCH /devices/:id
  MaxCodes, MaxDevices,  \* bounds on the ids handed out
  MaxTime        \* bound on the clock

VARIABLES
  stores,    \* the stores that exist
  stations,  \* station -> the store it belongs to
  codes,     \* code id -> [store, station, status, expires]
  devices,   \* device id -> [store, station, code it joined with]
  clock,     \* the time
  ids,       \* the number of ids handed out per table
  req,       \* request -> where its handler is, and its local variables
  scene,     \* the operations this behaviour is about, the bodies of
             \* POST /pairing-codes, and the ids handed out before
  history    \* what has happened that the code does not provide for; no
             \* action reads it

db == <<stores, stations, codes, devices>>
vars == <<stores, stations, codes, devices, clock, ids, req, scene, history>>

CodeStatus == {"PENDING", "EXPIRED", "CLOSED"}
Operations == {"create", "join", "patch", "remove", "register", "move",
               "removeDevice", "place", "time", "restart"}

Same == "same"       \* the PATCH body leaves the column out
Never == -1          \* expiresAt IS NULL
NoCode == 0          \* the device was registered without a code

CodeIds == 1..MaxCodes
DeviceIds == 1..MaxDevices
IdCounts == [code : 0..MaxCodes, device : 0..MaxDevices]

Expiry == Nat \cup {Never}
CodeRow == [store : Stores, station : Stations \cup {None},
            status : CodeStatus, expires : Expiry]
DeviceRow == [store : Stores \cup {None}, station : Stations \cup {None},
              via : CodeIds \cup {NoCode}]

CodeBody == [store : Stores, station : Stations \cup {None}, ttl : Nat]
CodePatch == [store : Stores \cup {Same}, status : CodeStatus \cup {Same},
              expires : Expiry \cup {Same}]
DeviceBody == [store : Stores \cup {None}, station : Stations \cup {None}]
DevicePatch == [store : Stores \cup {Same}, station : Stations \cup {Same}]

ASSUME PairingTablesAssumption ==
  /\ None \notin Stores \cup Stations /\ Same \notin Stores \cup Stations
  /\ StationOf \in [Stations -> Stores]
  /\ \A s \in Scenes : s.ops \subseteq Operations /\ s.bodies \subseteq CodeBody /\ s.ids \in IdCounts
  /\ CodePatches \subseteq CodePatch
  /\ DeviceBodies \subseteq DeviceBody /\ DevicePatches \subseteq DevicePatch
  /\ MaxCodes \in Nat /\ MaxDevices \in Nat /\ MaxTime \in Nat

-----------------------------------------------------------------------------
(* What a handler holds in memory between two awaits. *)

JoinStages == {"check", "expire", "pair", "close"}
Stages == {"idle", "insert", "save", "delete", "lookup", "saveDevice", "deleteDevice"}
            \cup JoinStages

BlankCode == [store |-> None, station |-> None, status |-> "CLOSED", expires |-> Never]
BlankDevice == [store |-> None, station |-> None, via |-> NoCode]
NoPatch == [store |-> Same, station |-> Same]

Idle == [pc |-> "idle",
         id |-> 0,                \* the code the handler is about
         code |-> BlankCode,      \* its copy of it
         dev |-> 0,               \* the device it is about
         device |-> BlankDevice,  \* its copy of it
         patch |-> NoPatch]       \* the columns the client sent

At(r, stage) == req[r].pc = stage
Go(r, q) == req' = [req EXCEPT ![r] = q]
Finish(r) == Go(r, Idle)
Accept(r, op, q) == At(r, "idle") /\ op \in scene.ops /\ Go(r, q)

\* The column as the client sent it, or as it was.
Sent(value, old) == IF value = Same THEN old ELSE value

Record(happened, event) ==
  history' = IF happened THEN history \cup {event} ELSE history

-----------------------------------------------------------------------------
(* Repository calls. *)

SaveCode(c, row) == codes' = Put(Row(c, row), codes)

\* The foreign keys of a device row.
Placed(row) ==
  /\ row.store \in stores \cup {None}
  /\ row.station \in DOMAIN stations \cup {None}

SaveDeviceRow(d, row) == devices' = Put(Row(d, row), devices)

\* Mutation: the foreign key of device.station_id does nothing.
KeepStation(row, gone) == row

\* ON DELETE SET NULL of device.station_id.
LoseStation(row, gone) == IF row.station \in gone THEN [row EXCEPT !.station = None] ELSE row

\* The stations in gone are deleted, and so are the devices in lost.
DropStations(gone, lost) ==
  /\ stations' = Without(stations, gone)
  /\ devices' = [d \in DOMAIN devices \ lost |-> LoseStation(devices[d], gone)]
=============================================================================
