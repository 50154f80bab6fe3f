-------------------------------- MODULE Pairing --------------------------------
(***************************************************************************)
(* Pairing codes, devices, stations and stores on one database: handlers   *)
(* interleave at every await, time passes, codes expire, and the process   *)
(* may be restarted.                                                       *)
(*                                                                         *)
(* The services promise less than one would wish for, and history records  *)
(* why: two creates or two joins of one code at once, a PATCH of a code, a *)
(* restart, a device stored with a station of another store, a station or  *)
(* a device moved away from the other's store.  Each property names the    *)
(* events it does not survive.                                             *)
(***************************************************************************)
EXTENDS Devices

Init ==
  /\ stores = Stores
  /\ stations = StationOf
  /\ codes = NoRows /\ devices = NoRows
  /\ clock = 0
  /\ \E s \in Scenes : scene = s /\ ids = s.ids
  /\ req = [r \in Requests |-> Idle]
  /\ history = {}

Tick ==
  /\ "time" \in scene.ops /\ clock < MaxTime
  /\ clock' = clock + 1
  /\ UNCHANGED <<db, ids, req, history>>

\* The process stops: every handler is gone, what it has saved stays.
Restart ==
  /\ "restart" \in scene.ops
  /\ req' = [r \in Requests |-> Idle]
  /\ Record(\E r \in Requests : ~At(r, "idle"), "restart")
  /\ UNCHANGED <<db, clock, ids>>

Step(r) == CodesStep(r) \/ JoinStep(r) \/ DevicesStep(r)
Request(r) == CodesRequest(r) \/ DevicesRequest(r)

Next ==
  /\ UNCHANGED scene
  /\ \/ \E r \in Requests : Step(r) \/ Request(r)
     \/ RegisterDevice
     \/ PlacesStep
     \/ Tick
     \/ Restart

Spec == Init /\ [][Next]_vars

-----------------------------------------------------------------------------

TablesOK ==
  /\ stores \subseteq Stores
  /\ Table(stations, Stations, Stores)
  /\ Table(codes, CodeIds, CodeRow)
  /\ Table(devices, DeviceIds, DeviceRow)
  /\ ids \in IdCounts /\ clock \in Nat

\* The locals, and what a handler relies on at each stage.
LocalsOK(q) ==
  /\ DOMAIN q = DOMAIN Idle
  /\ q.pc \in Stages
  /\ q.patch \in DevicePatch
  /\ q.device \in DeviceRow
  /\ q.pc \in JoinStages \cup {"insert", "save", "delete"} => q.id \in CodeIds
  /\ q.pc \in JoinStages \cup {"insert", "save"} => q.code \in CodeRow
  /\ q.pc \in {"pair", "check", "lookup", "saveDevice", "deleteDevice"} => q.dev \in DeviceIds

\* The foreign keys of the tables.
RefsHold ==
  /\ \A s \in DOMAIN stations : stations[s] \in stores
  /\ \A d \in DOMAIN devices : Placed(devices[d])

\* Rows and locals are well-formed, and no device or station refers to a store
\* or station that is gone, although handlers save devices they loaded before
\* it went.
TypeOK ==
  /\ TablesOK /\ RefsHold
  /\ DOMAIN req = Requests
  /\ \A r \in Requests : LocalsOK(req[r])

\* A code pairs one device ("PENDING -> EXPIRED | CLOSED"), unless two joins
\* overlap, the process stops during one, or someone reopens the code.
OneDevicePerCode ==
  history \cap {"twoJoins", "restart", "patch"} = {} =>
    \A d, e \in DOMAIN devices :
      devices[d].via = devices[e].via /\ devices[d].via # NoCode => d = e

\* A code that has paired a device is closed, or a join is about to close it,
\* also when joins overlap, the code expires or is removed meanwhile.
UsedCloses ==
  history \cap {"restart", "patch"} = {} =>
    \A d \in DOMAIN devices :
      LET c == devices[d].via IN
        c \in DOMAIN codes /\ codes[c].status = "PENDING" =>
          \E r \in Requests : At(r, "close") /\ req[r].id = c

\* No display can join with the code, now or when a running handler is done.
Spent(c) ==
  /\ c \in 1..ids.code
  /\ c \in DOMAIN codes => codes[c].status # "PENDING"
  /\ \A r \in Requests : req[r].id = c => req[r].pc \notin {"insert", "save", "check", "pair"}

\* Once a code cannot be joined with any more it never can again: no stale
\* copy of it brings PENDING back, unless PATCH is used.
SpentForGood ==
  [][\A c \in CodeIds : Spent(c) /\ "patch" \notin history' => Spent(c)']_vars

\* A store has one open code per station, so the one the owner's screen shows
\* is the one that works ("reused: true"), unless two creates overlap or a
\* code is patched.
OneOpenCode ==
  history \cap {"twoCreates", "patch"} = {} =>
    \A c, d \in DOMAIN codes :
      /\ Open(codes[c]) /\ Open(codes[d])
      /\ codes[c].store = codes[d].store /\ codes[c].station = codes[d].station
      => c = d

\* A display stands at a station of its own store ("Station does not belong
\* to the device store"), whichever updates of it overlap, unless it was
\* stored with another, the station moved, or it moved without a station.
DevicesAtHome ==
  history \cap {"stray", "stationMoved", "stranded"} = {} =>
    \A d \in DOMAIN devices : AtHome(devices[d])
=============================================================================
