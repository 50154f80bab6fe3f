----------------------------- MODULE Pairing_proofs ----------------------------
(***************************************************************************)
(* Proofs about Pairing, for any number of requests, stores, stations,     *)
(* codes and devices, and whatever the clients send.                       *)
(***************************************************************************)
EXTENDS Functions, Pairing, TLAPS

TypeInv == TypeOK /\ scene \in Scenes

-----------------------------------------------------------------------------
(* Tables. *)

LEMMA BoundsAreNat == MaxCodes \in Nat /\ MaxDevices \in Nat /\ MaxTime \in Nat
BY PairingTablesAssumption

LEMMA PutOneType ==
  ASSUME NEW K, NEW V, NEW t, NEW k \in K, NEW v \in V, Table(t, K, V)
  PROVE  Table(Put(Row(k, v), t), K, V)
BY DEF Table, Put, Row

LEMMA WithoutType ==
  ASSUME NEW K, NEW V, NEW t, NEW gone, Table(t, K, V)
  PROVE  Table(Without(t, gone), K, V)
BY DEF Table, Without, Restrict

\* What a step knows of the tables.
LEMMA TablesKnown ==
  ASSUME TypeOK
  PROVE  /\ stores \subseteq Stores
         /\ DOMAIN stations \subseteq Stations
         /\ \A s \in DOMAIN stations : stations[s] \in stores
         /\ DOMAIN codes \subseteq CodeIds /\ \A c \in DOMAIN codes : codes[c] \in CodeRow
         /\ DOMAIN devices \subseteq DeviceIds
         /\ \A d \in DOMAIN devices : devices[d] \in DeviceRow /\ Placed(devices[d])
         /\ ids.code \in 0..MaxCodes /\ ids.device \in 0..MaxDevices /\ clock \in Nat
BY DEF TypeOK, RefsHold, TablesOK, Table, IdCounts

LEMMA SaveCodeType ==
  ASSUME TypeOK, NEW c \in CodeIds, NEW row \in CodeRow, SaveCode(c, row)
  PROVE  Table(codes', CodeIds, CodeRow)
BY PutOneType DEF SaveCode, TypeOK, TablesOK

LEMMA SaveDeviceType ==
  ASSUME TypeOK, NEW d \in DeviceIds, NEW row \in DeviceRow, Placed(row),
         SaveDeviceRow(d, row), UNCHANGED <<stores, stations>>
  PROVE  Table(devices', DeviceIds, DeviceRow) /\ RefsHold'
<1>1. Table(devices', DeviceIds, DeviceRow)
  BY PutOneType DEF SaveDeviceRow, TypeOK, TablesOK
<1>2. \A e \in DOMAIN devices' : Placed(devices'[e])
  <2>1. /\ DOMAIN devices' = {d} \cup DOMAIN devices /\ devices'[d] = row
        /\ \A e \in DOMAIN devices : e # d => devices'[e] = devices[e]
    BY DEF SaveDeviceRow, Put, Row
  <2> QED BY <2>1, TablesKnown
<1> QED BY <1>1, <1>2, TablesKnown DEF RefsHold, Placed

\* Stations that go leave no device behind that refers to them.
LEMMA DropStationsType ==
  ASSUME TypeOK, NEW gone, NEW lost, DropStations(gone, lost), stores' \subseteq stores,
         \A s \in DOMAIN stations \ gone : stations[s] \in stores',
         \A d \in DOMAIN devices \ lost : devices[d].store \in stores' \cup {None}
  PROVE  /\ Table(stations', Stations, Stores)
         /\ Table(devices', DeviceIds, DeviceRow)
         /\ RefsHold'
<1>1. Table(stations', Stations, Stores)
  BY WithoutType DEF DropStations, TypeOK, TablesOK
<1>2. /\ DOMAIN stations' = DOMAIN stations \ gone
      /\ \A s \in DOMAIN stations' : stations'[s] = stations[s]
  BY DEF DropStations, Without, Restrict
<1>3. /\ DOMAIN devices' = DOMAIN devices \ lost
      /\ \A d \in DOMAIN devices' : devices'[d] = LoseStation(devices[d], gone)
  BY DEF DropStations
<1>4. ASSUME NEW d \in DOMAIN devices'
      PROVE  /\ devices'[d] \in DeviceRow
             /\ devices'[d].store \in stores' \cup {None}
             /\ devices'[d].station \in DOMAIN stations' \cup {None}
  <2>1. /\ devices[d] \in DeviceRow /\ devices[d].store \in stores' \cup {None}
        /\ devices[d].station \in DOMAIN stations \cup {None}
        /\ devices'[d] = LoseStation(devices[d], gone)
    BY <1>3, <1>4, TablesKnown DEF Placed
  <2>2. CASE devices[d].station \in gone
    <3>1. devices'[d] = [devices[d] EXCEPT !.station = None]
      BY <2>1, <2>2 DEF LoseStation
    <3> QED BY <2>1, <3>1 DEF DeviceRow
  <2>3. CASE devices[d].station \notin gone
    <3>1. devices'[d] = devices[d]
      BY <2>1, <2>3 DEF LoseStation
    <3> QED BY <1>2, <2>1, <2>3, <3>1
  <2> QED BY <2>2, <2>3
<1>5. Table(devices', DeviceIds, DeviceRow)
  BY <1>3, <1>4, TablesKnown DEF Table, DropStations
<1>6. \A s \in DOMAIN stations' : stations'[s] \in stores'
  BY <1>2
<1> QED BY <1>1, <1>4, <1>5, <1>6 DEF RefsHold, Placed

-----------------------------------------------------------------------------
(* Handlers. *)

LEMMA IdleOK == LocalsOK(Idle)
BY DEF LocalsOK, Idle, Stages, NoPatch, DevicePatch, BlankDevice, DeviceRow, NoCode, JoinStages

LEMMA StepOK ==
  ASSUME TypeOK, NEW r \in Requests, NEW q, Go(r, q), LocalsOK(q)
  PROVE  DOMAIN req' = Requests /\ \A s \in Requests : LocalsOK(req'[s])
BY DEF Go, TypeOK

\* The handler of a step that ends it.
LEMMA FinishOK ==
  ASSUME TypeOK, NEW r \in Requests, Finish(r)
  PROVE  DOMAIN req' = Requests /\ \A s \in Requests : LocalsOK(req'[s])
BY StepOK, IdleOK DEF Finish

\* A step that leaves the tables alone.
LEMMA LocalStepOK ==
  ASSUME TypeOK, UNCHANGED <<db, clock, ids>>,
         DOMAIN req' = Requests /\ \A s \in Requests : LocalsOK(req'[s])
  PROVE  TypeOK'
BY DEF TypeOK, TablesOK, RefsHold, Placed, Table, db

\* A step that saves or removes codes.
LEMMA CodesStepOK ==
  ASSUME TypeOK, UNCHANGED <<stores, stations, devices, clock, ids>>,
         Table(codes', CodeIds, CodeRow),
         DOMAIN req' = Requests /\ \A s \in Requests : LocalsOK(req'[s])
  PROVE  TypeOK'
BY DEF TypeOK, TablesOK, RefsHold, Placed, Table

\* A step that saves or removes devices.
LEMMA DevicesStepOK ==
  ASSUME TypeOK, UNCHANGED <<stores, stations, codes, clock>>, ids' \in IdCounts,
         Table(devices', DeviceIds, DeviceRow), RefsHold',
         DOMAIN req' = Requests /\ \A s \in Requests : LocalsOK(req'[s])
  PROVE  TypeOK'
BY DEF TypeOK, TablesOK, Table

-----------------------------------------------------------------------------
(* The codes service. *)

LEMMA FindPendingType ==
  ASSUME TypeInv, NEW r \in Requests, FindPending(r)
  PROVE  TypeOK'
<1>1. PICK body \in scene.bodies :
        /\ ids.code < MaxCodes
        /\ Go(r, [Idle EXCEPT !.pc = "insert", !.id = ids.code + 1,
                              !.code = [store |-> body.store, station |-> body.station,
                                        status |-> "PENDING", expires |-> clock + body.ttl]])
        /\ ids' = [ids EXCEPT !.code = @ + 1]
        /\ UNCHANGED <<db, clock>>
  BY DEF FindPending, Accept
<1>2. body \in CodeBody /\ TypeOK
  BY PairingTablesAssumption DEF TypeInv
<1>3. /\ ids.code + 1 \in CodeIds
      /\ [store |-> body.store, station |-> body.station,
          status |-> "PENDING", expires |-> clock + body.ttl] \in CodeRow
  BY <1>1, <1>2, TablesKnown, BoundsAreNat DEF CodeIds, CodeBody, CodeRow, Expiry, CodeStatus
<1>4. LocalsOK([Idle EXCEPT !.pc = "insert", !.id = ids.code + 1,
                            !.code = [store |-> body.store, station |-> body.station,
                                      status |-> "PENDING", expires |-> clock + body.ttl]])
  BY <1>3, IdleOK DEF LocalsOK, Idle, Stages, JoinStages
<1>5. ids' \in IdCounts
  BY <1>1, <1>2, TablesKnown, BoundsAreNat DEF TypeOK, TablesOK, IdCounts
<1>6. DOMAIN req' = Requests /\ \A s \in Requests : LocalsOK(req'[s])
  BY <1>1, <1>2, <1>4, StepOK
<1> QED BY <1>1, <1>2, <1>5, <1>6 DEF TypeOK, TablesOK, RefsHold, Placed, Table, db

LEMMA FindCodeType ==
  ASSUME TypeInv, NEW r \in Requests, FindCode(r)
  PROVE  TypeOK'
<1>1. PICK c \in DOMAIN codes :
        /\ ids.device < MaxDevices
        /\ Go(r, [Idle EXCEPT !.pc = "check", !.id = c, !.code = codes[c],
                              !.dev = ids.device + 1])
        /\ ids' = [ids EXCEPT !.device = @ + 1]
        /\ UNCHANGED <<db, clock>>
  BY DEF FindCode, Accept
<1>2. TypeOK /\ c \in CodeIds /\ codes[c] \in CodeRow /\ ids.device + 1 \in DeviceIds
  BY <1>1, TablesKnown, BoundsAreNat DEF TypeInv, DeviceIds
<1>3. LocalsOK([Idle EXCEPT !.pc = "check", !.id = c, !.code = codes[c],
                            !.dev = ids.device + 1])
  BY <1>2, IdleOK DEF LocalsOK, Idle, Stages, JoinStages
<1>4. ids' \in IdCounts
  BY <1>1, <1>2, TablesKnown, BoundsAreNat DEF TypeOK, TablesOK, IdCounts
<1>5. DOMAIN req' = Requests /\ \A s \in Requests : LocalsOK(req'[s])
  BY <1>1, <1>2, <1>3, StepOK
<1> QED BY <1>1, <1>2, <1>4, <1>5 DEF TypeOK, TablesOK, RefsHold, Placed, Table, db

LEMMA LoadForPatchType ==
  ASSUME TypeInv, NEW r \in Requests, LoadForPatch(r)
  PROVE  TypeOK'
<1>1. PICK c \in DOMAIN codes, patch \in CodePatches :
        /\ Go(r, [Idle EXCEPT !.pc = "save", !.id = c, !.code = Patched(codes[c], patch)])
        /\ UNCHANGED <<db, clock, ids>>
  BY DEF LoadForPatch, Accept
<1>2. TypeOK /\ c \in CodeIds /\ codes[c] \in CodeRow /\ patch \in CodePatch
  BY <1>1, TablesKnown, PairingTablesAssumption DEF TypeInv
<1>3. /\ Sent(patch.store, codes[c].store) \in Stores
      /\ Sent(patch.status, codes[c].status) \in CodeStatus
      /\ Sent(patch.expires, codes[c].expires) \in Expiry
  BY <1>2 DEF CodePatch, CodeRow, Sent
<1>4. Patched(codes[c], patch) \in CodeRow
  BY <1>2, <1>3 DEF Patched, CodeRow
<1>5. LocalsOK([Idle EXCEPT !.pc = "save", !.id = c, !.code = Patched(codes[c], patch)])
  BY <1>2, <1>4, IdleOK DEF LocalsOK, Idle, Stages, JoinStages
<1> QED BY <1>1, <1>2, <1>5, StepOK, LocalStepOK

LEMMA LoadForRemoveType ==
  ASSUME TypeInv, NEW r \in Requests, LoadForRemove(r)
  PROVE  TypeOK'
<1>1. PICK c \in DOMAIN codes :
        /\ Go(r, [Idle EXCEPT !.pc = "delete", !.id = c])
        /\ UNCHANGED <<db, clock, ids>>
  BY DEF LoadForRemove, Accept
<1>2. TypeOK /\ c \in CodeIds
  BY <1>1, TablesKnown DEF TypeInv
<1>3. LocalsOK([Idle EXCEPT !.pc = "delete", !.id = c])
  BY <1>2, IdleOK DEF LocalsOK, Idle, Stages, JoinStages
<1> QED BY <1>1, <1>2, <1>3, StepOK, LocalStepOK

\* A handler that saves its copy of a code, and is done.
LEMMA SavesItsCode ==
  ASSUME TypeOK, NEW r \in Requests, req[r].id \in CodeIds, req[r].code \in CodeRow,
         SaveCode(req[r].id, req[r].code), Finish(r),
         UNCHANGED <<stores, stations, devices, clock, ids>>
  PROVE  TypeOK'
BY SaveCodeType, FinishOK, CodesStepOK

LEMMA CodesServiceType ==
  ASSUME TypeInv, NEW r \in Requests, CodesStep(r) \/ CodesRequest(r)
  PROVE  TypeOK'
<1>1. TypeOK /\ LocalsOK(req[r])
  BY DEF TypeInv, TypeOK
<1>2. CASE InsertCode(r)
  BY <1>1, <1>2, SavesItsCode DEF InsertCode, At, LocalsOK
<1>3. CASE SavePatched(r)
  BY <1>1, <1>3, SavesItsCode DEF SavePatched, At, LocalsOK
<1>4. CASE RemoveCode(r)
  <2>1. Table(codes', CodeIds, CodeRow)
    BY <1>1, <1>4, WithoutType DEF RemoveCode, TypeOK, TablesOK
  <2> QED BY <1>1, <1>4, <2>1, FinishOK, CodesStepOK DEF RemoveCode
<1> QED
  BY <1>2, <1>3, <1>4, FindPendingType, FindCodeType, LoadForPatchType, LoadForRemoveType
  DEF CodesStep, CodesRequest

LEMMA JoinType ==
  ASSUME TypeInv, NEW r \in Requests, JoinStep(r)
  PROVE  TypeOK'
<1>1. TypeOK /\ LocalsOK(req[r])
  BY DEF TypeInv, TypeOK
<1>2. CASE RejectJoin(r)
  BY <1>1, <1>2, FinishOK, LocalStepOK DEF RejectJoin
<1>3. CASE FindExpired(r)
  <2>1. req[r].id \in CodeIds /\ req[r].code \in CodeRow
    BY <1>1, <1>3 DEF FindExpired, At, LocalsOK, JoinStages
  <2>2. [req[r].code EXCEPT !.status = "EXPIRED"] \in CodeRow
    BY <2>1 DEF CodeRow, CodeStatus
  <2>3. LocalsOK([req[r] EXCEPT !.pc = "expire", !.code.status = "EXPIRED"])
    BY <1>1, <2>1, <2>2 DEF LocalsOK, Stages, JoinStages, Idle
  <2> QED BY <1>1, <1>3, <2>3, StepOK, LocalStepOK DEF FindExpired
<1>4. CASE SaveExpired(r)
  BY <1>1, <1>4, SavesItsCode DEF SaveExpired, At, LocalsOK, JoinStages
<1>5. CASE Admit(r)
  <2> DEFINE device == [store |-> req[r].code.store, station |-> req[r].code.station,
                        via |-> req[r].id]
  <2>1. req[r].id \in CodeIds /\ req[r].code \in CodeRow /\ req[r].dev \in DeviceIds
    BY <1>1, <1>5 DEF Admit, At, LocalsOK, JoinStages
  <2>2. device \in DeviceRow
    BY <2>1 DEF CodeRow, DeviceRow
  <2>3. LocalsOK([req[r] EXCEPT !.pc = "pair", !.device = device])
    BY <1>1, <2>1, <2>2 DEF LocalsOK, Stages, JoinStages, Idle
  <2> QED BY <1>1, <1>5, <2>3, StepOK, LocalStepOK DEF Admit
<1>6. CASE PairDevice(r)
  <2>1. /\ req[r].id \in CodeIds /\ req[r].code \in CodeRow /\ req[r].dev \in DeviceIds
        /\ req[r].device \in DeviceRow
    BY <1>1, <1>6 DEF PairDevice, At, LocalsOK, JoinStages
  <2>2. Closed(req[r].code) \in CodeRow
    BY <2>1 DEF CodeRow, CodeStatus, Closed
  <2>3. LocalsOK([req[r] EXCEPT !.pc = "close", !.code = Closed(@)])
    BY <1>1, <2>1, <2>2 DEF LocalsOK, Stages, JoinStages, Idle
  <2>4. Table(devices', DeviceIds, DeviceRow) /\ RefsHold'
    BY <1>1, <1>6, <2>1, SaveDeviceType DEF PairDevice
  <2>5. ids' \in IdCounts
    BY <1>1, <1>6 DEF PairDevice, TypeOK, TablesOK
  <2> QED BY <1>1, <1>6, <2>3, <2>4, <2>5, StepOK, DevicesStepOK DEF PairDevice
<1>7. CASE PairFails(r)
  BY <1>1, <1>7, FinishOK, LocalStepOK DEF PairFails
<1>8. CASE CloseCode(r)
  BY <1>1, <1>8, SavesItsCode DEF CloseCode, At, LocalsOK, JoinStages
<1> QED BY <1>2, <1>3, <1>4, <1>5, <1>6, <1>7, <1>8 DEF JoinStep

-----------------------------------------------------------------------------
(* The devices service; stations and stores. *)

LEMMA RegisterDeviceType ==
  ASSUME TypeInv, RegisterDevice
  PROVE  TypeOK'
<1>1. PICK body \in DeviceBodies :
        LET device == [store |-> body.store, station |-> body.station, via |-> NoCode] IN
          /\ ids.device < MaxDevices
          /\ Placed(device)
          /\ SaveDeviceRow(ids.device + 1, device)
          /\ ids' = [ids EXCEPT !.device = @ + 1]
          /\ UNCHANGED <<stores, stations, codes, clock, req>>
  BY DEF RegisterDevice
<1> DEFINE device == [store |-> body.store, station |-> body.station, via |-> NoCode]
<1>2. TypeOK /\ device \in DeviceRow /\ ids.device + 1 \in DeviceIds
  BY <1>1, TablesKnown, BoundsAreNat, PairingTablesAssumption
  DEF TypeInv, DeviceIds, DeviceBody, DeviceRow
<1>3. ids' \in IdCounts
  BY <1>1, <1>2, TablesKnown, BoundsAreNat DEF TypeOK, TablesOK, IdCounts
<1>4. Table(devices', DeviceIds, DeviceRow) /\ RefsHold'
  BY <1>1, <1>2, SaveDeviceType
<1>5. DOMAIN req' = Requests /\ \A s \in Requests : LocalsOK(req'[s])
  BY <1>1, <1>2 DEF TypeOK
<1> QED BY <1>1, <1>2, <1>3, <1>4, <1>5, DevicesStepOK

LEMMA LoadDeviceType ==
  ASSUME TypeInv, NEW r \in Requests, LoadDevice(r)
  PROVE  TypeOK'
<1>1. PICK d \in DOMAIN devices, patch \in DevicePatches :
        /\ Go(r, [Idle EXCEPT !.pc = IF patch = NoPatch THEN "saveDevice" ELSE "lookup",
                              !.dev = d, !.device = MovedBy(devices[d], patch),
                              !.patch = patch])
        /\ UNCHANGED <<db, clock, ids>>
  BY DEF LoadDevice, Accept
<1>2. TypeOK /\ d \in DeviceIds /\ devices[d] \in DeviceRow /\ patch \in DevicePatch
  BY <1>1, TablesKnown, PairingTablesAssumption DEF TypeInv
<1>3. MovedBy(devices[d], patch) \in DeviceRow
  <2>1. /\ Sent(patch.store, devices[d].store) \in Stores \cup {None}
        /\ Sent(patch.station, devices[d].station) \in Stations \cup {None}
    BY <1>2 DEF DevicePatch, DeviceRow, Sent
  <2> QED BY <1>2, <2>1 DEF MovedBy, DeviceRow
<1>4. LocalsOK([Idle EXCEPT !.pc = IF patch = NoPatch THEN "saveDevice" ELSE "lookup",
                            !.dev = d, !.device = MovedBy(devices[d], patch),
                            !.patch = patch])
  BY <1>2, <1>3, IdleOK DEF LocalsOK, Idle, Stages, JoinStages
<1> QED BY <1>1, <1>2, <1>4, StepOK, LocalStepOK

LEMMA DevicesServiceType ==
  ASSUME TypeInv, NEW r \in Requests, DevicesStep(r) \/ DevicesRequest(r)
  PROVE  TypeOK'
<1>1. TypeOK /\ LocalsOK(req[r])
  BY DEF TypeInv, TypeOK
<1>2. CASE AcceptTarget(r)
  <2>1. LocalsOK([req[r] EXCEPT !.pc = "saveDevice"])
    BY <1>1, <1>2 DEF AcceptTarget, At, LocalsOK, Stages, JoinStages, Idle
  <2> QED BY <1>1, <1>2, <2>1, StepOK, LocalStepOK DEF AcceptTarget
<1>3. CASE RejectTarget(r)
  BY <1>1, <1>3, FinishOK, LocalStepOK DEF RejectTarget
<1>4. CASE SaveDevice(r)
  <2>1. req[r].dev \in DeviceIds /\ req[r].device \in DeviceRow
    BY <1>1, <1>4 DEF SaveDevice, At, LocalsOK
  <2>2. Table(devices', DeviceIds, DeviceRow) /\ RefsHold'
    BY <1>1, <1>4, <2>1, SaveDeviceType DEF SaveDevice
  <2>3. ids' \in IdCounts
    BY <1>1, <1>4 DEF SaveDevice, TypeOK, TablesOK
  <2> QED BY <1>1, <1>4, <2>2, <2>3, FinishOK, DevicesStepOK DEF SaveDevice
<1>5. CASE SaveDeviceFails(r)
  BY <1>1, <1>5, FinishOK, LocalStepOK DEF SaveDeviceFails
<1>6. CASE DeleteDevice(r)
  <2>1. Table(devices', DeviceIds, DeviceRow)
    BY <1>1, <1>6, WithoutType DEF DeleteDevice, TypeOK, TablesOK
  <2>2. \A d \in DOMAIN devices' : d \in DOMAIN devices /\ devices'[d] = devices[d]
    BY <1>6 DEF DeleteDevice, Without, Restrict
  <2>3. RefsHold'
    BY <1>1, <1>6, <2>2, TablesKnown DEF DeleteDevice, RefsHold, Placed
  <2>4. ids' \in IdCounts
    BY <1>1, <1>6 DEF DeleteDevice, TypeOK, TablesOK
  <2> QED BY <1>1, <1>6, <2>1, <2>3, <2>4, FinishOK, DevicesStepOK DEF DeleteDevice
<1>7. CASE LoadForRemoveDevice(r)
  <2>1. PICK d \in DOMAIN devices :
          /\ Go(r, [Idle EXCEPT !.pc = "deleteDevice", !.dev = d])
          /\ UNCHANGED <<db, clock, ids>>
    BY <1>7 DEF LoadForRemoveDevice, Accept
  <2>2. LocalsOK([Idle EXCEPT !.pc = "deleteDevice", !.dev = d])
    BY <1>1, <2>1, TablesKnown, IdleOK DEF LocalsOK, Idle, Stages, JoinStages
  <2> QED BY <1>1, <2>1, <2>2, StepOK, LocalStepOK
<1> QED BY <1>2, <1>3, <1>4, <1>5, <1>6, <1>7, LoadDeviceType DEF DevicesStep, DevicesRequest

\* A step that takes stations away.
LEMMA PlacesStepOK ==
  ASSUME TypeOK, stores' \subseteq stores, UNCHANGED <<codes, clock, ids, req>>,
         Table(stations', Stations, Stores), Table(devices', DeviceIds, DeviceRow), RefsHold'
  PROVE  TypeOK'
BY DEF TypeOK, TablesOK, Table

LEMMA PlacesType ==
  ASSUME TypeInv, PlacesStep
  PROVE  TypeOK'
<1>1. TypeOK
  BY DEF TypeInv
<1>2. ASSUME NEW s \in Stations, MoveStation(s) PROVE TypeOK'
  <2>1. PICK store \in stores :
          /\ s \in DOMAIN stations /\ stations' = [stations EXCEPT ![s] = store]
          /\ UNCHANGED <<stores, codes, devices, clock, ids, req>>
    BY <1>2 DEF MoveStation
  <2>2. /\ DOMAIN stations' = DOMAIN stations
        /\ \A t \in DOMAIN stations' : stations'[t] = IF t = s THEN store ELSE stations[t]
    BY <1>1, <2>1
  <2>3. Table(stations', Stations, Stores) /\ Table(devices', DeviceIds, DeviceRow)
    BY <1>1, <2>1, TablesKnown DEF Table, TypeOK, TablesOK
  <2>4. RefsHold'
    BY <1>1, <2>1, <2>2, TablesKnown DEF RefsHold, Placed
  <2> QED BY <1>1, <2>1, <2>3, <2>4, PlacesStepOK
<1>3. ASSUME NEW s \in Stations, RemoveStation(s) PROVE TypeOK'
  <2>1. /\ stores' = stores /\ DropStations({s}, {})
        /\ UNCHANGED <<codes, clock, ids, req>>
    BY <1>3 DEF RemoveStation
  <2>2. /\ \A t \in DOMAIN stations : stations[t] \in stores'
        /\ \A d \in DOMAIN devices : devices[d].store \in stores' \cup {None}
    BY <1>1, <2>1, TablesKnown DEF Placed
  <2>3. /\ Table(stations', Stations, Stores) /\ Table(devices', DeviceIds, DeviceRow)
        /\ RefsHold'
    BY <1>1, <2>1, <2>2, DropStationsType
  <2> QED BY <1>1, <2>1, <2>3, PlacesStepOK
<1>4. ASSUME NEW store \in Stores, RemoveStore(store) PROVE TypeOK'
  <2> DEFINE gone == {s \in DOMAIN stations : stations[s] = store}
             lost == {d \in DOMAIN devices : devices[d].store = store}
  <2>1. stores' = stores \ {store} /\ DropStations(gone, lost) /\ UNCHANGED <<codes, clock, ids, req>>
    BY <1>4 DEF RemoveStore
  <2>2. /\ \A t \in DOMAIN stations \ gone : stations[t] \in stores'
        /\ \A d \in DOMAIN devices \ lost : devices[d].store \in stores' \cup {None}
    BY <1>1, <2>1, TablesKnown DEF Placed
  <2>3. /\ Table(stations', Stations, Stores) /\ Table(devices', DeviceIds, DeviceRow)
        /\ RefsHold'
    <3> HIDE DEF gone, lost
    <3> QED BY <1>1, <2>1, <2>2, DropStationsType
  <2> QED BY <1>1, <2>1, <2>3, PlacesStepOK
<1> QED BY <1>2, <1>3, <1>4 DEF PlacesStep

-----------------------------------------------------------------------------
(* Type correctness. *)

LEMMA InitType == Init => TypeInv
<1> SUFFICES ASSUME Init PROVE TypeInv
  OBVIOUS
<1>1. Table(stations, Stations, Stores) /\ \A s \in DOMAIN stations : stations[s] \in stores
  BY PairingTablesAssumption DEF Init, Table
<1>2. Table(codes, CodeIds, CodeRow) /\ Table(devices, DeviceIds, DeviceRow)
      /\ \A d \in DOMAIN devices : Placed(devices[d])
  BY DEF Init, Table, NoRows
<1>3. ids \in IdCounts /\ scene \in Scenes
  BY PairingTablesAssumption DEF Init
<1> QED BY <1>1, <1>2, <1>3, IdleOK DEF Init, TypeInv, TypeOK, TablesOK, RefsHold

LEMMA NextType == TypeInv /\ [Next]_vars => TypeInv'
<1> SUFFICES ASSUME TypeInv, [Next]_vars PROVE TypeInv'
  OBVIOUS
<1>1. CASE UNCHANGED vars
  <2>1. TypeOK'
    BY <1>1, LocalStepOK DEF vars, db, TypeInv, TypeOK
  <2> QED BY <1>1, <2>1 DEF vars, TypeInv
<1>2. ASSUME Next PROVE scene' \in Scenes
  BY <1>2 DEF Next, TypeInv
<1>3. ASSUME NEW r \in Requests, Step(r) \/ Request(r) PROVE TypeOK'
  BY <1>3, CodesServiceType, JoinType, DevicesServiceType DEF Step, Request
<1>4. ASSUME Tick PROVE TypeOK'
  <2>1. clock' \in Nat /\ UNCHANGED <<stores, stations, codes, devices, ids, req>>
    BY <1>4, TablesKnown DEF Tick, db, TypeInv
  <2>2. TablesOK'
    BY <2>1 DEF TypeInv, TypeOK, TablesOK, Table
  <2> QED BY <2>1, <2>2 DEF TypeInv, TypeOK, RefsHold, Placed
<1>5. ASSUME Restart PROVE TypeOK'
  BY <1>5, IdleOK, LocalStepOK DEF Restart, TypeInv
<1> QED
  BY <1>1, <1>2, <1>3, <1>4, <1>5, RegisterDeviceType, PlacesType DEF Next, TypeInv

\* Whatever the handlers interleave, and whichever stores, stations and
\* devices go meanwhile, what is saved is well-formed and refers to rows that
\* are there.
THEOREM PairingTypeCorrect == Spec => []TypeOK
<1>1. TypeInv => TypeOK
  BY DEF TypeInv
<1> QED BY <1>1, InitType, NextType, PTL DEF Spec

-----------------------------------------------------------------------------
(* Codes.  An insert never meets an id that is in use: ids are bounded by   *)
(* the number handed out, and what is about to be inserted is new to every  *)
(* table and to every other handler.                                        *)

Vias == {devices[d].via : d \in DOMAIN devices} \cup {NoCode}

FreshFor(r) ==
  /\ req[r].id \notin DOMAIN codes \cup Vias
  /\ \A s \in Requests \ {r} : req[s].id # req[r].id
  /\ \A s \in Requests : req[s].device.via # req[r].id

IdsInv ==
  /\ DOMAIN codes \cup Vias \subseteq 0..ids.code
  /\ \A r \in Requests : req[r].id \in 0..ids.code /\ req[r].device.via \in 0..ids.code
  /\ \A r \in Requests : At(r, "insert") => FreshFor(r)

\* A step of r that uses its own ids, or ids of rows it finds.
Harmless(r) ==
  /\ ids'.code = ids.code
  /\ DOMAIN codes' \subseteq DOMAIN codes \cup {req[r].id}
  /\ Vias' \subseteq Vias \cup {req[r].device.via}
  /\ req'[r].pc # "insert"
  /\ req'[r].id \in DOMAIN codes \cup {0, req[r].id}
  /\ req'[r].device.via \in Vias \cup {req[r].device.via, req[r].id}
  /\ DOMAIN req' = Requests /\ \A s \in Requests \ {r} : req'[s] = req[s]

LEMMA GoValues ==
  ASSUME TypeInv, NEW r \in Requests, NEW q, Go(r, q)
  PROVE  /\ req'[r] = q /\ DOMAIN req' = Requests
         /\ \A s \in Requests \ {r} : req'[s] = req[s]
BY DEF Go, TypeInv, TypeOK

LEMMA SavedVias ==
  ASSUME NEW d, NEW row, SaveDeviceRow(d, row)
  PROVE  Vias' \subseteq Vias \cup {row.via}
<1>1. /\ DOMAIN devices' = {d} \cup DOMAIN devices /\ devices'[d] = row
      /\ \A e \in DOMAIN devices : e # d => devices'[e] = devices[e]
  BY DEF SaveDeviceRow, Put, Row
<1> QED BY <1>1 DEF Vias

LEMMA SavedCodes ==
  ASSUME NEW c, NEW row, SaveCode(c, row)
  PROVE  /\ DOMAIN codes' = {c} \cup DOMAIN codes /\ codes'[c] = row
         /\ \A e \in DOMAIN codes : e # c => codes'[e] = codes[e]
BY DEF SaveCode, Put, Row

LEMMA IdleValues ==
  /\ Idle.pc = "idle" /\ Idle.id = 0 /\ Idle.device = BlankDevice /\ Idle.device.via = 0
  /\ Idle.code = BlankCode
BY DEF Idle, BlankDevice, NoCode

LEMMA FinishValues ==
  ASSUME TypeInv, NEW r \in Requests, Finish(r)
  PROVE  /\ req'[r] = Idle /\ req'[r].pc = "idle" /\ req'[r].id = 0 /\ req'[r].device.via = 0
         /\ DOMAIN req' = Requests /\ \A s \in Requests \ {r} : req'[s] = req[s]
BY GoValues, IdleValues DEF Finish

LEMMA SameVias == ASSUME devices' = devices PROVE Vias' = Vias
BY DEF Vias

LEMMA ZeroIsVia == 0 \in Vias
BY DEF Vias, NoCode

LEMMA CodesHarmless ==
  ASSUME TypeInv, NEW r \in Requests,
         CodesStep(r) \/ FindCode(r) \/ LoadForPatch(r) \/ LoadForRemove(r)
  PROVE  Harmless(r)
<1>1. CASE InsertCode(r)
  BY <1>1, FinishValues, SavedCodes, SameVias, ZeroIsVia DEF InsertCode, Harmless
<1>2. CASE SavePatched(r)
  BY <1>2, FinishValues, SavedCodes, SameVias, ZeroIsVia DEF SavePatched, Harmless
<1>3. CASE RemoveCode(r)
  <2>1. DOMAIN codes' \subseteq DOMAIN codes
    BY <1>3 DEF RemoveCode, Without, Restrict
  <2> QED BY <1>3, <2>1, FinishValues, SameVias, ZeroIsVia DEF RemoveCode, Harmless
<1>4. CASE FindCode(r)
  <2>1. PICK c, q :
          /\ c \in DOMAIN codes
          /\ Go(r, q) /\ ids'.code = ids.code /\ UNCHANGED <<codes, devices>>
          /\ q = [Idle EXCEPT !.pc = "check", !.id = c, !.code = codes[c],
                              !.dev = ids.device + 1]
    BY <1>4 DEF FindCode, Accept, db, TypeInv, TypeOK, TablesOK, IdCounts
  <2>2. q.pc = "check" /\ q.id = c /\ q.device.via = 0
    BY <2>1 DEF Idle, BlankDevice, NoCode
  <2> QED BY <2>1, <2>2, GoValues, SameVias, ZeroIsVia DEF Harmless
<1>5. CASE LoadForPatch(r)
  <2>1. PICK c, patch, q :
          /\ c \in DOMAIN codes /\ patch \in CodePatches
          /\ Go(r, q) /\ ids' = ids /\ UNCHANGED <<codes, devices>>
          /\ q = [Idle EXCEPT !.pc = "save", !.id = c, !.code = Patched(codes[c], patch)]
    BY <1>5 DEF LoadForPatch, Accept, db
  <2>2. q.pc = "save" /\ q.id = c /\ q.device.via = 0
    BY <2>1 DEF Idle, BlankDevice, NoCode
  <2> QED BY <2>1, <2>2, GoValues, SameVias, ZeroIsVia DEF Harmless
<1>6. CASE LoadForRemove(r)
  <2>1. PICK c, q :
          /\ c \in DOMAIN codes
          /\ Go(r, q) /\ ids' = ids /\ UNCHANGED <<codes, devices>>
          /\ q = [Idle EXCEPT !.pc = "delete", !.id = c]
    BY <1>6 DEF LoadForRemove, Accept, db
  <2>2. q.pc = "delete" /\ q.id = c /\ q.device.via = 0
    BY <2>1 DEF Idle, BlankDevice, NoCode
  <2> QED BY <2>1, <2>2, GoValues, SameVias, ZeroIsVia DEF Harmless
<1> QED BY <1>1, <1>2, <1>3, <1>4, <1>5, <1>6 DEF CodesStep

LEMMA JoinHarmless ==
  ASSUME TypeInv, NEW r \in Requests, JoinStep(r)
  PROVE  Harmless(r)
<1>0. LocalsOK(req[r])
  BY DEF TypeInv, TypeOK
<1>1. CASE RejectJoin(r)
  BY <1>1, FinishValues, SameVias, ZeroIsVia DEF RejectJoin, Harmless, db
<1>2. CASE FindExpired(r)
  <2>1. PICK q : Go(r, q) /\ q = [req[r] EXCEPT !.pc = "expire", !.code.status = "EXPIRED"]
    BY <1>2 DEF FindExpired
  <2>2. q.pc = "expire" /\ q.id = req[r].id /\ q.device = req[r].device
    BY <1>0, <2>1 DEF LocalsOK, Idle
  <2> QED BY <1>2, <2>1, <2>2, GoValues, SameVias DEF FindExpired, Harmless, db
<1>3. CASE SaveExpired(r)
  BY <1>3, FinishValues, SavedCodes, SameVias, ZeroIsVia DEF SaveExpired, Harmless
<1>4. CASE Admit(r)
  <2>1. PICK q :
          /\ Go(r, q)
          /\ q = [req[r] EXCEPT !.pc = "pair",
                                !.device = [store |-> req[r].code.store,
                                            station |-> req[r].code.station,
                                            via |-> req[r].id]]
    BY <1>4 DEF Admit
  <2>2. q.pc = "pair" /\ q.id = req[r].id /\ q.device.via = req[r].id
    BY <1>0, <2>1 DEF LocalsOK, Idle
  <2> QED BY <1>4, <2>1, <2>2, GoValues, SameVias DEF Admit, Harmless, db
<1>5. CASE PairDevice(r)
  <2>1. PICK q : Go(r, q) /\ q = [req[r] EXCEPT !.pc = "close", !.code = Closed(@)]
    BY <1>5 DEF PairDevice
  <2>2. q.pc = "close" /\ q.id = req[r].id /\ q.device = req[r].device
    BY <1>0, <2>1 DEF LocalsOK, Idle
  <2>3. Vias' \subseteq Vias \cup {req[r].device.via}
    BY <1>5, SavedVias DEF PairDevice
  <2> QED BY <1>5, <2>1, <2>2, <2>3, GoValues DEF PairDevice, Harmless
<1>6. CASE PairFails(r)
  BY <1>6, FinishValues, SameVias, ZeroIsVia DEF PairFails, Harmless, db
<1>7. CASE CloseCode(r)
  BY <1>7, FinishValues, SavedCodes, SameVias, ZeroIsVia DEF CloseCode, Harmless
<1> QED BY <1>1, <1>2, <1>3, <1>4, <1>5, <1>6, <1>7 DEF JoinStep

LEMMA DevicesHarmless ==
  ASSUME TypeInv, NEW r \in Requests, DevicesStep(r) \/ DevicesRequest(r)
  PROVE  Harmless(r)
<1>0. LocalsOK(req[r])
  BY DEF TypeInv, TypeOK
<1>1. CASE AcceptTarget(r)
  <2>1. PICK q : Go(r, q) /\ q = [req[r] EXCEPT !.pc = "saveDevice"]
    BY <1>1 DEF AcceptTarget
  <2>2. q.pc = "saveDevice" /\ q.id = req[r].id /\ q.device = req[r].device
    BY <1>0, <2>1 DEF LocalsOK, Idle
  <2> QED BY <1>1, <2>1, <2>2, GoValues, SameVias DEF AcceptTarget, Harmless, db
<1>2. CASE RejectTarget(r)
  BY <1>2, FinishValues, SameVias, ZeroIsVia DEF RejectTarget, Harmless, db
<1>3. CASE SaveDevice(r)
  <2>1. Vias' \subseteq Vias \cup {req[r].device.via}
    BY <1>3, SavedVias DEF SaveDevice
  <2> QED BY <1>3, <2>1, FinishValues, ZeroIsVia DEF SaveDevice, Harmless
<1>4. CASE SaveDeviceFails(r)
  BY <1>4, FinishValues, SameVias, ZeroIsVia DEF SaveDeviceFails, Harmless, db
<1>5. CASE DeleteDevice(r)
  <2>1. Vias' \subseteq Vias
    BY <1>5 DEF DeleteDevice, Without, Restrict, Vias
  <2> QED BY <1>5, <2>1, FinishValues, ZeroIsVia DEF DeleteDevice, Harmless
<1>6. CASE LoadDevice(r)
  <2>1. PICK d, patch, q :
          /\ d \in DOMAIN devices /\ patch \in DevicePatches
          /\ Go(r, q) /\ ids' = ids /\ UNCHANGED <<codes, devices>>
          /\ q = [Idle EXCEPT !.pc = IF patch = NoPatch THEN "saveDevice" ELSE "lookup",
                              !.dev = d, !.device = MovedBy(devices[d], patch),
                              !.patch = patch]
    BY <1>6 DEF LoadDevice, Accept, db
  <2>2. MovedBy(devices[d], patch).via = devices[d].via
    BY <2>1, TablesKnown DEF MovedBy, DeviceRow, TypeInv
  <2>3. q.pc \in {"saveDevice", "lookup"} /\ q.id = 0 /\ q.device.via \in Vias
    BY <2>1, <2>2 DEF Idle, Vias
  <2> QED BY <2>1, <2>3, GoValues, SameVias DEF Harmless
<1>7. CASE LoadForRemoveDevice(r)
  <2>1. PICK d, q :
          /\ d \in DOMAIN devices
          /\ Go(r, q) /\ ids' = ids /\ UNCHANGED <<codes, devices>>
          /\ q = [Idle EXCEPT !.pc = "deleteDevice", !.dev = d]
    BY <1>7 DEF LoadForRemoveDevice, Accept, db
  <2>2. q.pc = "deleteDevice" /\ q.id = 0 /\ q.device.via = 0
    BY <2>1 DEF Idle, BlankDevice, NoCode
  <2> QED BY <2>1, <2>2, GoValues, SameVias, ZeroIsVia DEF Harmless
<1> QED
  BY <1>1, <1>2, <1>3, <1>4, <1>5, <1>6, <1>7 DEF DevicesStep, DevicesRequest
-----------------------------------------------------------------------------
(* The ids. *)

LEMMA HarmlessIds ==
  ASSUME TypeInv, TypeInv', IdsInv, NEW r \in Requests, Harmless(r)
  PROVE  IdsInv'
<1>1. ids.code \in Nat /\ ids'.code = ids.code
  BY DEF Harmless, TypeInv, TypeOK, TablesOK, IdCounts
<1>2. DOMAIN codes' \cup Vias' \subseteq 0..ids.code
  BY DEF IdsInv, Harmless
<1>3. \A s \in Requests : req'[s].id \in 0..ids.code /\ req'[s].device.via \in 0..ids.code
  BY <1>1 DEF IdsInv, Harmless
<1>4. ASSUME NEW s \in Requests, At(s, "insert")' PROVE FreshFor(s)'
  <2>1. s # r /\ req'[s] = req[s] /\ FreshFor(s)
    BY <1>4 DEF At, Harmless, IdsInv
  <2>2. /\ req[s].id \notin DOMAIN codes \cup Vias /\ req[s].id # 0
        /\ req[s].id # req[r].id /\ req[s].id # req[r].device.via
    BY <2>1, ZeroIsVia DEF FreshFor
  <2>3. req'[s].id \notin DOMAIN codes' \cup Vias'
    BY <2>1, <2>2 DEF Harmless
  <2>4. ASSUME NEW t \in Requests \ {s} PROVE req'[t].id # req'[s].id
    BY <2>1, <2>2 DEF Harmless, FreshFor
  <2>5. ASSUME NEW t \in Requests PROVE req'[t].device.via # req'[s].id
    BY <2>1, <2>2 DEF Harmless, FreshFor
  <2> QED BY <2>3, <2>4, <2>5 DEF FreshFor
<1> QED BY <1>1, <1>2, <1>3, <1>4 DEF IdsInv

\* A step of no handler: no code is new, nor the code of any device.
LEMMA WorldIds ==
  ASSUME TypeInv, IdsInv, ids'.code = ids.code, codes' = codes, Vias' \subseteq Vias, req' = req
  PROVE  IdsInv'
<1>1. ASSUME NEW s \in Requests, At(s, "insert")' PROVE FreshFor(s)'
  <2>1. FreshFor(s)
    BY <1>1 DEF At, IdsInv
  <2> QED BY <2>1 DEF FreshFor
<1> QED BY <1>1 DEF IdsInv

LEMMA FindPendingIds ==
  ASSUME TypeInv, TypeInv', IdsInv, NEW r \in Requests, FindPending(r)
  PROVE  IdsInv'
<1>1. PICK body, q :
        /\ Go(r, q) /\ UNCHANGED <<codes, devices>>
        /\ q = [Idle EXCEPT !.pc = "insert", !.id = ids.code + 1,
                            !.code = [store |-> body.store, station |-> body.station,
                                      status |-> "PENDING", expires |-> clock + body.ttl]]
        /\ ids' = [ids EXCEPT !.code = @ + 1]
  BY DEF FindPending, Accept, db
<1>2. ids.code \in Nat /\ ids'.code = ids.code + 1
  BY <1>1 DEF TypeInv, TypeOK, TablesOK, IdCounts
<1>3. q.pc = "insert" /\ q.id = ids.code + 1 /\ q.device.via = 0
  BY <1>1 DEF Idle, BlankDevice, NoCode
<1>4. /\ req'[r] = q /\ Vias' = Vias /\ codes' = codes
      /\ \A s \in Requests \ {r} : req'[s] = req[s]
  BY <1>1, GoValues, SameVias
<1>5. /\ DOMAIN codes' \cup Vias' \subseteq 0..ids.code
      /\ \A s \in Requests \ {r} :
           req'[s].id \in 0..ids.code /\ req'[s].device.via \in 0..ids.code
  BY <1>4 DEF IdsInv
<1>6. /\ DOMAIN codes' \cup Vias' \subseteq 0..ids'.code
      /\ \A s \in Requests : req'[s].id \in 0..ids'.code /\ req'[s].device.via \in 0..ids'.code
  BY <1>2, <1>3, <1>4, <1>5
<1>7. FreshFor(r)'
  BY <1>2, <1>3, <1>4, <1>5 DEF FreshFor
<1>8. ASSUME NEW s \in Requests \ {r}, At(s, "insert")' PROVE FreshFor(s)'
  <2>1. FreshFor(s) /\ req'[s] = req[s] /\ req[s].id \in 0..ids.code
    BY <1>4, <1>8 DEF At, IdsInv
  <2>2. req[s].id # 0 /\ req[s].id # ids.code + 1
    BY <1>2, <2>1, ZeroIsVia DEF FreshFor
  <2> QED BY <1>3, <1>4, <2>1, <2>2 DEF FreshFor
<1> QED BY <1>6, <1>7, <1>8 DEF IdsInv

LEMMA RestartIds ==
  ASSUME TypeInv, IdsInv, Restart
  PROVE  IdsInv'
<1>1. /\ ids' = ids /\ codes' = codes /\ Vias' = Vias
      /\ \A s \in Requests : req'[s] = Idle
  BY SameVias DEF Restart, db
<1>2. ids.code \in Nat
  BY DEF TypeInv, TypeOK, TablesOK, IdCounts
<1> QED BY <1>1, <1>2, IdleValues DEF IdsInv, At

\* Stations and stores that go, and devices that go with them.
LEMMA PlacesVias ==
  ASSUME TypeInv, PlacesStep
  PROVE  Vias' \subseteq Vias /\ ids' = ids /\ codes' = codes /\ req' = req
<1>1. ASSUME NEW gone, NEW lost, DropStations(gone, lost) PROVE Vias' \subseteq Vias
  <2>1. ASSUME NEW d \in DOMAIN devices'
        PROVE  d \in DOMAIN devices /\ devices'[d].via = devices[d].via
    <3>1. d \in DOMAIN devices /\ devices'[d] = LoseStation(devices[d], gone)
      BY <1>1, <2>1 DEF DropStations
    <3> QED BY <3>1, TablesKnown DEF LoseStation, DeviceRow, TypeInv
  <2> QED BY <2>1 DEF Vias
<1>2. ASSUME NEW s \in Stations, MoveStation(s)
      PROVE  Vias' \subseteq Vias /\ ids' = ids /\ codes' = codes /\ req' = req
  BY <1>2, SameVias DEF MoveStation
<1>3. ASSUME NEW s \in Stations, RemoveStation(s)
      PROVE  Vias' \subseteq Vias /\ ids' = ids /\ codes' = codes /\ req' = req
  BY <1>1, <1>3 DEF RemoveStation
<1>4. ASSUME NEW store \in Stores, RemoveStore(store)
      PROVE  Vias' \subseteq Vias /\ ids' = ids /\ codes' = codes /\ req' = req
  BY <1>1, <1>4 DEF RemoveStore
<1> QED BY <1>2, <1>3, <1>4 DEF PlacesStep

LEMMA RegisterVias ==
  ASSUME TypeInv, RegisterDevice
  PROVE  Vias' \subseteq Vias /\ ids'.code = ids.code /\ codes' = codes /\ req' = req
<1>1. PICK d, row : /\ SaveDeviceRow(d, row) /\ row.via = NoCode
                    /\ ids' = [ids EXCEPT !.device = @ + 1] /\ codes' = codes /\ req' = req
  BY DEF RegisterDevice
<1>2. Vias' \subseteq Vias \cup {NoCode}
  BY <1>1, SavedVias
<1>3. ids'.code = ids.code
  BY <1>1 DEF TypeInv, TypeOK, TablesOK, IdCounts
<1> QED BY <1>1, <1>2, <1>3 DEF Vias

LEMMA NextIds == TypeInv /\ TypeInv' /\ IdsInv /\ [Next]_vars => IdsInv'
<1> SUFFICES ASSUME TypeInv, TypeInv', IdsInv, [Next]_vars PROVE IdsInv'
  OBVIOUS
<1>1. CASE UNCHANGED vars
  BY <1>1, WorldIds, SameVias DEF vars
<1>2. ASSUME NEW r \in Requests, Step(r) \/ Request(r) PROVE IdsInv'
  <2>1. CASE FindPending(r)
    BY <2>1, FindPendingIds
  <2>2. CASE ~FindPending(r)
    BY <1>2, <2>2, CodesHarmless, JoinHarmless, DevicesHarmless, HarmlessIds
    DEF Step, Request, CodesRequest
  <2> QED BY <2>1, <2>2
<1>3. ASSUME Tick PROVE IdsInv'
  BY <1>3, WorldIds, SameVias DEF Tick, db
<1> QED
  BY <1>1, <1>2, <1>3, RestartIds, PlacesVias, RegisterVias, WorldIds DEF Next

-----------------------------------------------------------------------------
(* How a handler gets to a stage, and what its copies say there. *)

Reached(r) ==
  /\ req'[r].pc = "insert" => req'[r].id = ids.code + 1
  /\ req'[r].pc = "check" =>
       req'[r].id \in DOMAIN codes /\ codes[req'[r].id].status = "PENDING"
  /\ req'[r].pc = "save" => "patch" \in history'
  /\ req'[r].pc = "pair" =>
       /\ At(r, "check") /\ req'[r].id = req[r].id
       /\ req'[r].device.via = req'[r].id
  /\ req'[r].pc = "close" =>
       PairDevice(r) /\ req'[r].id = req[r].id /\ req'[r].code.status = "CLOSED"
  /\ req'[r].pc = "expire" => req'[r].code.status = "EXPIRED"
  /\ req'[r].pc \in {"lookup", "saveDevice"} => AcceptTarget(r) \/ LoadDevice(r)

LEMMA FinishReaches ==
  ASSUME TypeInv, NEW r \in Requests, Finish(r)
  PROVE  Reached(r)
BY FinishValues DEF Reached

LEMMA RequestReaches ==
  ASSUME TypeInv, NEW r \in Requests, Request(r)
  PROVE  Reached(r)
<1>1. CASE FindPending(r)
  <2>1. PICK body, q :
          /\ Go(r, q)
          /\ q = [Idle EXCEPT !.pc = "insert", !.id = ids.code + 1,
                              !.code = [store |-> body.store, station |-> body.station,
                                        status |-> "PENDING",
                                        expires |-> clock + body.ttl]]
    BY <1>1 DEF FindPending, Accept
  <2>2. q.pc = "insert" /\ q.id = ids.code + 1
    BY <2>1 DEF Idle
  <2> QED BY <1>1, <2>1, <2>2, GoValues DEF Reached
<1>2. CASE FindCode(r)
  <2>1. PICK c, q :
          /\ Go(r, q)
          /\ q = [Idle EXCEPT !.pc = "check", !.id = c, !.code = codes[c],
                              !.dev = ids.device + 1]
          /\ c \in DOMAIN codes /\ codes[c].status = "PENDING"
    BY <1>2 DEF FindCode, Accept, Joinable
  <2>2. q.pc = "check" /\ q.id = c
    BY <2>1 DEF Idle
  <2> QED BY <1>2, <2>1, <2>2, GoValues DEF Reached
<1>3. CASE LoadForPatch(r)
  <2>1. PICK c, patch, q :
          /\ Go(r, q)
          /\ q = [Idle EXCEPT !.pc = "save", !.id = c, !.code = Patched(codes[c], patch)]
          /\ "patch" \in history'
    BY <1>3 DEF LoadForPatch, Accept, Record
  <2>2. q.pc = "save"
    BY <2>1 DEF Idle
  <2> QED BY <1>3, <2>1, <2>2, GoValues DEF Reached
<1>4. CASE LoadForRemove(r)
  <2>1. PICK c, q :
          /\ Go(r, q)
          /\ q = [Idle EXCEPT !.pc = "delete", !.id = c]
    BY <1>4 DEF LoadForRemove, Accept
  <2>2. q.pc = "delete"
    BY <2>1 DEF Idle
  <2> QED BY <1>4, <2>1, <2>2, GoValues DEF Reached
<1>5. CASE LoadDevice(r)
  <2>1. PICK d, patch, q :
          /\ Go(r, q)
          /\ q = [Idle EXCEPT !.pc = IF patch = NoPatch THEN "saveDevice" ELSE "lookup",
                              !.dev = d, !.device = MovedBy(devices[d], patch),
                              !.patch = patch]
    BY <1>5 DEF LoadDevice, Accept
  <2>2. q.pc \in {"saveDevice", "lookup"}
    BY <2>1 DEF Idle
  <2> QED BY <1>5, <2>1, <2>2, GoValues DEF Reached
<1>6. CASE LoadForRemoveDevice(r)
  <2>1. PICK d, q :
          /\ Go(r, q)
          /\ q = [Idle EXCEPT !.pc = "deleteDevice", !.dev = d]
    BY <1>6 DEF LoadForRemoveDevice, Accept
  <2>2. q.pc = "deleteDevice"
    BY <2>1 DEF Idle
  <2> QED BY <1>6, <2>1, <2>2, GoValues DEF Reached
<1> QED
  BY <1>1, <1>2, <1>3, <1>4, <1>5, <1>6 DEF Request, CodesRequest, DevicesRequest

LEMMA StepReaches ==
  ASSUME TypeInv, NEW r \in Requests, Step(r)
  PROVE  Reached(r)
<1>0. LocalsOK(req[r])
  BY DEF TypeInv, TypeOK
<1>1. CASE FindExpired(r)
  <2>1. PICK q :
          /\ Go(r, q)
          /\ q = [req[r] EXCEPT !.pc = "expire", !.code.status = "EXPIRED"]
    BY <1>1 DEF FindExpired
  <2>2. q.pc = "expire" /\ q.code = [req[r].code EXCEPT !.status = "EXPIRED"]
    BY <1>0, <2>1 DEF LocalsOK, Idle
  <2>3. q.code.status = "EXPIRED"
    BY <1>0, <1>1, <2>2 DEF FindExpired, At, LocalsOK, JoinStages, CodeRow
  <2> QED BY <2>1, <2>2, <2>3, GoValues DEF Reached
<1>2. CASE Admit(r)
  <2>1. PICK q :
          /\ Go(r, q)
          /\ q = [req[r] EXCEPT !.pc = "pair",
                                !.device = [store |-> req[r].code.store,
                                            station |-> req[r].code.station,
                                            via |-> req[r].id]]
          /\ At(r, "check")
    BY <1>2 DEF Admit
  <2>2. q.pc = "pair" /\ q.id = req[r].id /\ q.device.via = req[r].id
    BY <1>0, <2>1 DEF LocalsOK, Idle
  <2> QED BY <1>2, <2>1, <2>2, GoValues DEF Reached
<1>3. CASE PairDevice(r)
  <2>1. PICK q :
          /\ Go(r, q)
          /\ q = [req[r] EXCEPT !.pc = "close", !.code = Closed(@)]
    BY <1>3 DEF PairDevice
  <2>2. q.pc = "close" /\ q.id = req[r].id /\ q.code = Closed(req[r].code)
    BY <1>0, <2>1 DEF LocalsOK, Idle
  <2>3. q.code.status = "CLOSED"
    BY <1>0, <1>3, <2>2 DEF PairDevice, At, LocalsOK, JoinStages, CodeRow, Closed
  <2> QED BY <1>3, <2>1, <2>2, <2>3, GoValues DEF Reached
<1>4. CASE AcceptTarget(r)
  <2>1. PICK q :
          /\ Go(r, q)
          /\ q = [req[r] EXCEPT !.pc = "saveDevice"]
    BY <1>4 DEF AcceptTarget
  <2>2. q.pc = "saveDevice"
    BY <1>0, <2>1 DEF LocalsOK, Idle
  <2> QED BY <1>4, <2>1, <2>2, GoValues DEF Reached
<1>5. CASE Finish(r)
  BY <1>5, FinishReaches
<1> QED
  BY <1>1, <1>2, <1>3, <1>4, <1>5
  DEF Step, CodesStep, JoinStep, DevicesStep, InsertCode, SavePatched, RemoveCode, RejectJoin,
      SaveExpired, PairFails, CloseCode, RejectTarget, SaveDevice, SaveDeviceFails, DeleteDevice

\* The others wait, and what happened stays on record.
LEMMA OthersWait ==
  ASSUME TypeInv, NEW r \in Requests, Step(r) \/ Request(r)
  PROVE  /\ history \subseteq history'
         /\ DOMAIN req' = Requests /\ \A s \in Requests \ {r} : req'[s] = req[s]
<1>1. history \subseteq history'
  BY DEF Step, Request, CodesStep, CodesRequest, JoinStep, DevicesStep, DevicesRequest,
         InsertCode, SavePatched, RemoveCode, FindPending, FindCode, LoadForPatch, LoadForRemove,
         RejectJoin, FindExpired, SaveExpired, Admit, PairDevice, PairFails, CloseCode,
         AcceptTarget, RejectTarget, SaveDevice, SaveDeviceFails, DeleteDevice, LoadDevice,
         LoadForRemoveDevice, Record
<1>2. \E q : Go(r, q)
  BY DEF Step, Request, CodesStep, CodesRequest, JoinStep, DevicesStep, DevicesRequest,
         InsertCode, SavePatched, RemoveCode, FindPending, FindCode, LoadForPatch, LoadForRemove,
         RejectJoin, FindExpired, SaveExpired, Admit, PairDevice, PairFails, CloseCode,
         AcceptTarget, RejectTarget, SaveDevice, SaveDeviceFails, DeleteDevice, LoadDevice,
         LoadForRemoveDevice, Accept, Finish
<1> QED BY <1>1, <1>2, GoValues

\* What nobody's handler does.
LEMMA OthersQuiet ==
  ASSUME TypeInv, PlacesStep \/ RegisterDevice \/ Tick \/ UNCHANGED vars
  PROVE  /\ history \subseteq history' /\ req' = req /\ codes' = codes
         /\ Vias' \subseteq Vias /\ ids'.code = ids.code
<1>1. CASE PlacesStep
  BY <1>1, PlacesVias DEF PlacesStep, MoveStation, RemoveStation, RemoveStore, Record
<1>2. CASE RegisterDevice
  BY <1>2, RegisterVias DEF RegisterDevice, Record
<1>3. CASE Tick \/ UNCHANGED vars
  BY <1>3, SameVias DEF Tick, vars, db
<1> QED BY <1>1, <1>2, <1>3

StagesInv ==
  \A r \in Requests :
    /\ At(r, "save") => "patch" \in history
    /\ At(r, "pair") => req[r].device.via = req[r].id
    /\ At(r, "close") => req[r].code.status = "CLOSED"
    /\ At(r, "expire") => req[r].code.status = "EXPIRED"

LEMMA NextStages == TypeInv /\ StagesInv /\ [Next]_vars => StagesInv'
<1> SUFFICES ASSUME TypeInv, StagesInv, [Next]_vars PROVE StagesInv'
  OBVIOUS
<1>1. ASSUME NEW r \in Requests, Step(r) \/ Request(r) PROVE StagesInv'
  <2>1. Reached(r)
    BY <1>1, StepReaches, RequestReaches
  <2> QED BY <1>1, <2>1, OthersWait DEF StagesInv, At, Reached
<1>2. CASE Restart
  BY <1>2, IdleValues DEF Restart, StagesInv, At
<1>3. CASE PlacesStep \/ RegisterDevice \/ Tick \/ UNCHANGED vars
  BY <1>3, OthersQuiet DEF StagesInv, At
<1> QED BY <1>1, <1>2, <1>3 DEF Next
-----------------------------------------------------------------------------
(* A code that is spent. *)

\* What happens to a code that is not about to be inserted or patched.
LEMMA CodesChange ==
  ASSUME TypeInv, StagesInv, "patch" \notin history, NEW r \in Requests, Step(r) \/ Request(r),
         NEW c, c \in DOMAIN codes', codes'[c].status = "PENDING",
         ~(At(r, "insert") /\ req[r].id = c)
  PROVE  c \in DOMAIN codes /\ codes[c].status = "PENDING" /\ ~(CloseCode(r) /\ req[r].id = c)
<1>1. CASE InsertCode(r)
  BY <1>1, SavedCodes DEF InsertCode, CloseCode, At
<1>2. CASE SavePatched(r)
  BY <1>2 DEF SavePatched, StagesInv
<1>3. CASE RemoveCode(r)
  BY <1>3 DEF RemoveCode, CloseCode, At, Without, Restrict
<1>4. CASE SaveExpired(r)
  <2>1. codes'[req[r].id].status # "PENDING"
    BY <1>4, SavedCodes DEF SaveExpired, StagesInv
  <2> QED BY <1>4, <2>1, SavedCodes DEF SaveExpired, CloseCode, At
<1>5. CASE CloseCode(r)
  <2>1. codes'[req[r].id].status # "PENDING"
    BY <1>5, SavedCodes DEF CloseCode, StagesInv
  <2> QED BY <1>5, <2>1, SavedCodes DEF CloseCode
<1>6. CASE ~CloseCode(r) /\ codes' = codes
  BY <1>6
<1> QED
  BY <1>1, <1>2, <1>3, <1>4, <1>5, <1>6
  DEF Step, Request, CodesStep, CodesRequest, JoinStep, DevicesStep, DevicesRequest,
      FindPending, FindCode, LoadForPatch, LoadForRemove, RejectJoin, FindExpired, Admit,
      PairDevice, PairFails, AcceptTarget, RejectTarget, SaveDevice, SaveDeviceFails,
      DeleteDevice, LoadDevice, LoadForRemoveDevice, db

LEMMA IdsGrow ==
  ASSUME TypeInv, NEW r \in Requests, Step(r) \/ Request(r)
  PROVE  ids.code \in Nat /\ ids'.code \in Nat /\ ids'.code >= ids.code
<1>1. CASE FindPending(r)
  BY <1>1 DEF FindPending, TypeInv, TypeOK, TablesOK, IdCounts
<1>2. CASE ~FindPending(r)
  <2>1. ids'.code = ids.code
    BY <1>2, CodesHarmless, JoinHarmless, DevicesHarmless
    DEF Harmless, Step, Request, CodesRequest
  <2> QED BY <2>1 DEF TypeInv, TypeOK, TablesOK, IdCounts
<1> QED BY <1>1, <1>2

LEMMA SpentStays ==
  ASSUME TypeInv, StagesInv, [Next]_vars, NEW c \in CodeIds, Spent(c), "patch" \notin history'
  PROVE  Spent(c)'
<1>1. ASSUME NEW r \in Requests, Step(r) \/ Request(r) PROVE Spent(c)'
  <2>1. Reached(r) /\ "patch" \notin history
    BY <1>1, StepReaches, RequestReaches, OthersWait
  <2>2. c \in DOMAIN codes' => codes'[c].status # "PENDING"
    BY <1>1, <2>1, CodesChange DEF Spent, At
  <2>3. c \in 1..ids.code /\ c \in 1..ids'.code
    BY <1>1, IdsGrow DEF Spent, CodeIds
  <2>4. ASSUME NEW s \in Requests, req'[s].id = c
        PROVE  req'[s].pc \notin {"insert", "save", "check", "pair"}
    <3>1. CASE s # r
      BY <1>1, <2>4, <3>1, OthersWait DEF Spent
    <3>2. CASE s = r
      <4>1. req'[r].pc # "insert"
        BY <1>1, <2>1, <2>3, <2>4, <3>2, IdsGrow DEF Reached
      <4>2. req'[r].pc \notin {"save", "check"}
        BY <2>1, <2>4, <3>2 DEF Reached, Spent
      <4>3. req'[r].pc # "pair"
        BY <2>1, <2>4, <3>2 DEF Reached, Spent, At
      <4> QED BY <3>2, <4>1, <4>2, <4>3
    <3> QED BY <3>1, <3>2
  <2> QED BY <2>2, <2>3, <2>4 DEF Spent
<1>2. CASE Restart
  BY <1>2, IdleValues DEF Restart, Spent, db
<1>3. CASE PlacesStep \/ RegisterDevice \/ Tick \/ UNCHANGED vars
  BY <1>3, OthersQuiet DEF Spent
<1> QED BY <1>1, <1>2, <1>3 DEF Next

-----------------------------------------------------------------------------
(* A code that has paired a device: its device is stored, or held by an    *)
(* update that is going to store it.                                       *)

Used(c) ==
  \/ c \in Vias
  \/ \E r \in Requests : req[r].pc \in {"lookup", "saveDevice"} /\ req[r].device.via = c

Closing(c) == \E r \in Requests : At(r, "close") /\ req[r].id = c

UsedInv ==
  history \cap {"restart", "patch"} = {} =>
    \A c \in DOMAIN codes : Used(c) /\ codes[c].status = "PENDING" => Closing(c)

\* Only a join makes a code one that has paired a device.
LEMMA UsedBefore ==
  ASSUME TypeInv, StagesInv, NEW r \in Requests, Step(r) \/ Request(r), NEW c, Used(c)'
  PROVE  Used(c) \/ (PairDevice(r) /\ c = req[r].id)
<1>1. Reached(r) /\ DOMAIN req' = Requests /\ \A s \in Requests \ {r} : req'[s] = req[s]
  BY StepReaches, RequestReaches, OthersWait
<1>2. CASE c \in Vias'
  <2>1. CASE PairDevice(r)
    BY <1>2, <2>1, SavedVias DEF PairDevice, StagesInv, Used
  <2>2. CASE SaveDevice(r)
    BY <1>2, <2>2, SavedVias DEF SaveDevice, Used, At
  <2>3. CASE DeleteDevice(r)
    BY <1>2, <2>3 DEF DeleteDevice, Without, Restrict, Vias, Used
  <2>4. CASE devices' = devices
    BY <1>2, <2>4, SameVias DEF Used
  <2> QED
    BY <2>1, <2>2, <2>3, <2>4
    DEF Step, Request, CodesStep, CodesRequest, JoinStep, DevicesStep, DevicesRequest,
        InsertCode, SavePatched, RemoveCode, FindPending, FindCode, LoadForPatch, LoadForRemove,
        RejectJoin, FindExpired, SaveExpired, Admit, PairFails, CloseCode, AcceptTarget,
        RejectTarget, SaveDeviceFails, LoadDevice, LoadForRemoveDevice, db
<1>3. ASSUME NEW s \in Requests, req'[s].pc \in {"lookup", "saveDevice"}, req'[s].device.via = c
      PROVE  Used(c)
  <2>1. CASE s # r
    BY <1>1, <1>3, <2>1 DEF Used
  <2>2. CASE s = r /\ AcceptTarget(r)
    <3>1. PICK q : Go(r, q) /\ q = [req[r] EXCEPT !.pc = "saveDevice"] /\ At(r, "lookup")
      BY <2>2 DEF AcceptTarget
    <3>2. q.device = req[r].device
      BY <3>1 DEF TypeInv, TypeOK, LocalsOK, Idle
    <3>3. req'[s] = q /\ req[r].pc = "lookup"
      BY <2>2, <3>1, GoValues DEF At
    <3>4. req[r].device.via = c
      BY <1>3, <3>2, <3>3
    <3> QED BY <3>3, <3>4 DEF Used
  <2>3. CASE s = r /\ LoadDevice(r)
    <3>1. PICK d, patch, q :
            /\ d \in DOMAIN devices
            /\ Go(r, q)
            /\ q = [Idle EXCEPT !.pc = IF patch = NoPatch THEN "saveDevice" ELSE "lookup",
                                !.dev = d, !.device = MovedBy(devices[d], patch),
                                !.patch = patch]
      BY <2>3 DEF LoadDevice, Accept
    <3>2. MovedBy(devices[d], patch).via = devices[d].via
      BY <3>1, TablesKnown DEF MovedBy, DeviceRow, TypeInv
    <3>3. q.device.via = devices[d].via
      BY <3>1, <3>2 DEF Idle
    <3>4. req'[s] = q
      BY <2>3, <3>1, GoValues
    <3>5. devices[d].via = c
      BY <1>3, <3>3, <3>4
    <3> QED BY <3>1, <3>5 DEF Used, Vias
  <2> QED BY <1>1, <1>3, <2>1, <2>2, <2>3 DEF Reached
<1> QED BY <1>2, <1>3 DEF Used

\* A handler that is closing a code closes it.
LEMMA ClosingGoesOn ==
  ASSUME TypeInv, NEW r \in Requests, Step(r) \/ Request(r), At(r, "close")
  PROVE  CloseCode(r)
BY DEF Step, Request, CodesStep, CodesRequest, JoinStep, DevicesStep, DevicesRequest,
       InsertCode, SavePatched, RemoveCode, FindPending, FindCode, LoadForPatch, LoadForRemove,
       RejectJoin, FindExpired, SaveExpired, Admit, PairDevice, PairFails, AcceptTarget,
       RejectTarget, SaveDevice, SaveDeviceFails, DeleteDevice, LoadDevice,
       LoadForRemoveDevice, Accept, At

LEMMA PairedCloses ==
  ASSUME TypeInv, NEW r \in Requests, PairDevice(r)
  PROVE  At(r, "close")' /\ req'[r].id = req[r].id
<1>1. PICK q : Go(r, q) /\ q = [req[r] EXCEPT !.pc = "close", !.code = Closed(@)]
  BY DEF PairDevice
<1>2. q.pc = "close" /\ q.id = req[r].id
  BY <1>1 DEF TypeInv, TypeOK, LocalsOK, Idle
<1> QED BY <1>1, <1>2, GoValues DEF At

LEMMA NextUsed ==
  TypeInv /\ IdsInv /\ StagesInv /\ UsedInv /\ [Next]_vars => UsedInv'
<1> SUFFICES ASSUME TypeInv, IdsInv, StagesInv, UsedInv, [Next]_vars,
                    history' \cap {"restart", "patch"} = {},
                    NEW c \in DOMAIN codes', Used(c)', codes'[c].status = "PENDING"
             PROVE  Closing(c)'
  BY DEF UsedInv
<1>1. ASSUME NEW r \in Requests, Step(r) \/ Request(r) PROVE Closing(c)'
  <2>1. /\ history \cap {"restart", "patch"} = {}
        /\ DOMAIN req' = Requests /\ \A s \in Requests \ {r} : req'[s] = req[s]
    BY <1>1, OthersWait
  <2>2. CASE PairDevice(r) /\ c = req[r].id
    BY <2>2, PairedCloses DEF Closing
  <2>3. CASE Used(c)
    <3>1. ~(At(r, "insert") /\ req[r].id = c)
      BY <2>3 DEF IdsInv, FreshFor, Used
    <3>2. c \in DOMAIN codes /\ codes[c].status = "PENDING" /\ ~(CloseCode(r) /\ req[r].id = c)
      BY <1>1, <2>1, <3>1, CodesChange
    <3>3. PICK s \in Requests : At(s, "close") /\ req[s].id = c
      BY <2>1, <2>3, <3>2 DEF UsedInv, Closing
    <3>4. s # r
      BY <1>1, <3>2, <3>3, ClosingGoesOn
    <3> QED BY <2>1, <3>3, <3>4 DEF Closing, At
  <2> QED BY <1>1, <2>2, <2>3, UsedBefore
<1>2. ASSUME Restart PROVE Closing(c)'
  <2>1. \A s \in Requests : At(s, "idle")
    BY <1>2 DEF Restart, Record
  <2>2. Used(c) /\ codes' = codes /\ history' = history
    BY <1>2, <2>1, SameVias, IdleValues DEF Restart, Record, Used, db
  <2>3. Closing(c)
    BY <2>2 DEF UsedInv
  <2> QED BY <2>1, <2>3 DEF Closing, At
<1>3. CASE PlacesStep \/ RegisterDevice \/ Tick \/ UNCHANGED vars
  <2>1. /\ history \subseteq history' /\ req' = req /\ codes' = codes
        /\ Vias' \subseteq Vias
    BY <1>3, OthersQuiet
  <2>2. Used(c)
    BY <2>1 DEF Used
  <2>3. Closing(c)
    BY <2>1, <2>2 DEF UsedInv
  <2> QED BY <2>1, <2>3 DEF Closing, At
<1> QED BY <1>1, <1>2, <1>3 DEF Next

-----------------------------------------------------------------------------
(* The theorems about codes. *)

CodesInv == TypeInv /\ IdsInv /\ StagesInv /\ UsedInv

LEMMA InitCodes == Init => CodesInv
<1> SUFFICES ASSUME Init PROVE CodesInv
  OBVIOUS
<1>1. TypeInv
  BY InitType
<1>2. DOMAIN codes = {} /\ Vias = {0}
  BY DEF Init, NoRows, Vias, NoCode
<1>3. \A r \in Requests : req[r].pc = "idle" /\ req[r].id = 0 /\ req[r].device.via = 0
  BY IdleValues DEF Init
<1>4. IdsInv
  <2>1. 0 \in 0..ids.code
    BY <1>1, TablesKnown, BoundsAreNat DEF TypeInv
  <2> QED BY <1>2, <1>3, <2>1 DEF IdsInv, At
<1>5. StagesInv
  BY <1>3 DEF StagesInv, At
<1>6. UsedInv
  BY <1>2 DEF UsedInv
<1> QED BY <1>1, <1>4, <1>5, <1>6 DEF CodesInv

LEMMA NextCodes == CodesInv /\ [Next]_vars => CodesInv'
BY NextType, NextIds, NextStages, NextUsed DEF CodesInv

LEMMA CodesInvariant == Spec => []CodesInv
BY InitCodes, NextCodes, PTL DEF Spec

\* A display that has joined leaves its code closed, or about to be, although
\* other joins of the code, its expiry and its removal run at the same time.
THEOREM UsedCodesClose == Spec => []UsedCloses
<1>1. CodesInv => UsedCloses
  <2> SUFFICES ASSUME CodesInv, history \cap {"restart", "patch"} = {}, NEW d \in DOMAIN devices,
                      devices[d].via \in DOMAIN codes, codes[devices[d].via].status = "PENDING"
               PROVE  Closing(devices[d].via)
    BY DEF UsedCloses, Closing
  <2>1. Used(devices[d].via)
    BY DEF Used, Vias
  <2> QED BY <2>1 DEF CodesInv, UsedInv
<1> QED BY <1>1, CodesInvariant, PTL

\* A code that no display can join with stays so: no handler that loaded the
\* code while it was pending saves it back, unless PATCH is used.
THEOREM SpentStaysSpent == Spec => SpentForGood
<1>1. CodesInv /\ [Next]_vars =>
        [\A c \in CodeIds : Spent(c) /\ "patch" \notin history' => Spent(c)']_vars
  BY SpentStays DEF CodesInv
<1> QED BY <1>1, CodesInvariant, PTL DEF Spec, SpentForGood

-----------------------------------------------------------------------------
(* Displays at home: so are the copies that updates are going to save.     *)

Home(row, places) ==
  row.store # None /\ row.station \in DOMAIN places => places[row.station] = row.store

Quiet == history \cap {"stray", "stationMoved", "stranded"} = {}

HomeBound(r) ==
  At(r, "saveDevice") \/ (At(r, "lookup") /\ req[r].patch.station = Same) =>
    Home(req[r].device, stations)

HomeInv ==
  Quiet => /\ \A d \in DOMAIN devices : Home(devices[d], stations)
           /\ \A r \in Requests : HomeBound(r)

\* Stations stay where they are, if they stay.
StationsKept ==
  \A s \in DOMAIN stations' : s \in DOMAIN stations /\ stations'[s] = stations[s]

LEMMA KeptHome ==
  ASSUME StationsKept, NEW row, Home(row, stations)
  PROVE  Home(row, stations')
BY DEF StationsKept, Home

LEMMA PlacedAtHome ==
  ASSUME TypeInv, NEW row \in DeviceRow, Placed(row)
  PROVE  AtHome(row) <=> Home(row, stations)
BY PairingTablesAssumption DEF Placed, AtHome, Home, TypeInv, TypeOK, TablesOK, Table

LEMMA SavedHome ==
  ASSUME NEW d, NEW row, SaveDeviceRow(d, row), Home(row, stations),
         \A e \in DOMAIN devices : Home(devices[e], stations)
  PROVE  \A e \in DOMAIN devices' : Home(devices'[e], stations)
<1>1. /\ DOMAIN devices' = {d} \cup DOMAIN devices /\ devices'[d] = row
      /\ \A e \in DOMAIN devices : e # d => devices'[e] = devices[e]
  BY DEF SaveDeviceRow, Put, Row
<1> QED BY <1>1

\* An update without a new station leaves the device where it is, unless that
\* strands it.
LEMMA MovedHome ==
  ASSUME NEW device \in DeviceRow, NEW patch \in DevicePatch, patch.station = Same,
         patch.store \in {Same, device.store}, Home(device, stations)
  PROVE  Home(MovedBy(device, patch), stations)
<1>1. MovedBy(device, patch) = device
  BY DEF MovedBy, Sent, DeviceRow
<1> QED BY <1>1

LEMMA LoadedHome ==
  ASSUME TypeInv, HomeInv, NEW r \in Requests, LoadDevice(r), Quiet'
  PROVE  HomeBound(r)'
<1>1. PICK d \in DOMAIN devices, patch \in DevicePatches :
        /\ Go(r, [Idle EXCEPT !.pc = IF patch = NoPatch THEN "saveDevice" ELSE "lookup",
                              !.dev = d, !.device = MovedBy(devices[d], patch),
                              !.patch = patch])
        /\ Record(patch.store \notin {Same, devices[d].store} /\ patch.station = Same, "stranded")
        /\ stations' = stations
  BY DEF LoadDevice, Accept, db
<1>2. Quiet /\ (patch.station = Same => patch.store \in {Same, devices[d].store})
  BY <1>1 DEF Record, Quiet
<1>3. patch \in DevicePatch /\ devices[d] \in DeviceRow /\ Home(devices[d], stations)
  BY <1>2, TablesKnown, PairingTablesAssumption DEF TypeInv, HomeInv
<1>4. patch.station = Same => Home(MovedBy(devices[d], patch), stations)
  BY <1>2, <1>3, MovedHome
<1> DEFINE q == [Idle EXCEPT !.pc = IF patch = NoPatch THEN "saveDevice" ELSE "lookup",
                             !.dev = d, !.device = MovedBy(devices[d], patch),
                             !.patch = patch]
<1>5. /\ q.pc = (IF patch = NoPatch THEN "saveDevice" ELSE "lookup")
      /\ q.device = MovedBy(devices[d], patch) /\ q.patch = patch
  BY DEF Idle
<1>6. req'[r] = q
  BY <1>1, GoValues
<1>7. req'[r].pc = "saveDevice" => patch.station = Same
  BY <1>5, <1>6 DEF NoPatch
<1> HIDE DEF q
<1> QED BY <1>1, <1>4, <1>5, <1>6, <1>7 DEF HomeBound, At

LEMMA AcceptedHome ==
  ASSUME TypeInv, HomeInv, NEW r \in Requests, AcceptTarget(r), Quiet
  PROVE  HomeBound(r)'
<1>1. PICK q : Go(r, q) /\ q = [req[r] EXCEPT !.pc = "saveDevice"]
  BY DEF AcceptTarget
<1>2. q.device = req[r].device
  BY <1>1 DEF TypeInv, TypeOK, LocalsOK, Idle
<1>3. req'[r] = q /\ stations' = stations
  BY <1>1, GoValues DEF AcceptTarget, db
<1>4. Home(req[r].device, stations)
  <2>1. CASE req[r].patch.station = Same
    BY <2>1 DEF AcceptTarget, HomeInv, HomeBound
  <2>2. CASE req[r].patch.station # Same
    BY <2>2 DEF AcceptTarget, Suitable, Home
  <2> QED BY <2>1, <2>2
<1> QED BY <1>2, <1>3, <1>4 DEF HomeBound

\* A device that is saved by a handler is at home.
LEMMA HandlerSavesHome ==
  ASSUME TypeInv, HomeInv, Quiet', NEW r \in Requests, Step(r) \/ Request(r)
  PROVE  /\ stations' = stations
         /\ \A d \in DOMAIN devices' : Home(devices'[d], stations)
<1>1. Quiet /\ \A d \in DOMAIN devices : Home(devices[d], stations)
  BY OthersWait DEF Quiet, HomeInv
<1>2. LocalsOK(req[r])
  BY DEF TypeInv, TypeOK
<1>3. CASE PairDevice(r)
  <2>1. req[r].device \in DeviceRow /\ Placed(req[r].device) /\ AtHome(req[r].device)
    BY <1>2, <1>3 DEF PairDevice, LocalsOK, Record, Quiet
  <2> QED BY <1>1, <1>3, <2>1, PlacedAtHome, SavedHome DEF PairDevice
<1>4. CASE SaveDevice(r)
  <2>1. Home(req[r].device, stations)
    BY <1>1, <1>4 DEF SaveDevice, HomeInv, HomeBound
  <2> QED BY <1>1, <1>4, <2>1, SavedHome DEF SaveDevice
<1>5. CASE DeleteDevice(r)
  BY <1>1, <1>5 DEF DeleteDevice, Without, Restrict
<1>6. CASE stations' = stations /\ devices' = devices
  BY <1>1, <1>6
<1> QED
  BY <1>3, <1>4, <1>5, <1>6
  DEF Step, Request, CodesStep, CodesRequest, JoinStep, DevicesStep, DevicesRequest,
      InsertCode, SavePatched, RemoveCode, FindPending, FindCode, LoadForPatch, LoadForRemove,
      RejectJoin, FindExpired, SaveExpired, Admit, PairFails, CloseCode, AcceptTarget,
      RejectTarget, SaveDeviceFails, LoadDevice, LoadForRemoveDevice, db

LEMMA HandlerHome ==
  ASSUME TypeInv, HomeInv, NEW r \in Requests, Step(r) \/ Request(r)
  PROVE  HomeInv'
<1> SUFFICES ASSUME Quiet'
             PROVE  /\ \A d \in DOMAIN devices' : Home(devices'[d], stations')
                    /\ \A s \in Requests : HomeBound(s)'
  BY DEF HomeInv
<1>1. /\ Reached(r) /\ Quiet
      /\ DOMAIN req' = Requests /\ \A s \in Requests \ {r} : req'[s] = req[s]
  BY StepReaches, RequestReaches, OthersWait DEF Quiet
<1>2. stations' = stations /\ \A d \in DOMAIN devices' : Home(devices'[d], stations)
  BY HandlerSavesHome
<1>3. HomeBound(r)'
  BY <1>1, AcceptedHome, LoadedHome DEF Reached, HomeBound, At
<1>4. ASSUME NEW s \in Requests \ {r} PROVE HomeBound(s)'
  BY <1>1, <1>2, <1>4 DEF HomeInv, HomeBound, At
<1> QED BY <1>2, <1>3, <1>4

\* Handlers see stations go, and no station move.
LEMMA StationsKeepHome ==
  ASSUME HomeInv, Quiet, StationsKept, req' = req,
         \A d \in DOMAIN devices' : Home(devices'[d], stations')
  PROVE  HomeInv'
<1>1. ASSUME NEW r \in Requests PROVE HomeBound(r)'
  <2>1. HomeBound(r)
    BY DEF HomeInv
  <2> QED BY <2>1 DEF HomeBound, Home, StationsKept, At
<1> QED BY <1>1 DEF HomeInv

LEMMA DropsHome ==
  ASSUME TypeInv, HomeInv, Quiet, NEW gone, NEW lost, DropStations(gone, lost), req' = req
  PROVE  HomeInv'
<1>1. StationsKept
  BY DEF DropStations, Without, Restrict, StationsKept
<1>2. ASSUME NEW d \in DOMAIN devices' PROVE Home(devices'[d], stations')
  <2>1. /\ d \in DOMAIN devices /\ devices[d] \in DeviceRow
        /\ devices'[d] = LoseStation(devices[d], gone) /\ Home(devices[d], stations)
    BY <1>2, TablesKnown DEF DropStations, HomeInv, TypeInv
  <2>2. CASE devices[d].station \in gone
    <3>1. devices'[d].station = None
      BY <2>1, <2>2 DEF LoseStation, DeviceRow
    <3>2. None \notin DOMAIN stations
      BY TablesKnown, PairingTablesAssumption DEF TypeInv
    <3> QED BY <1>1, <3>1, <3>2 DEF Home, StationsKept
  <2>3. CASE devices[d].station \notin gone
    BY <1>1, <2>1, <2>3, KeptHome DEF LoseStation, Home, StationsKept
  <2> QED BY <2>2, <2>3
<1> QED BY <1>1, <1>2, StationsKeepHome

LEMMA PlacesHome ==
  ASSUME TypeInv, HomeInv, PlacesStep, Quiet'
  PROVE  HomeInv'
<1>1. Quiet
  BY OthersQuiet DEF Quiet
<1>2. ASSUME NEW s \in Stations, MoveStation(s) PROVE HomeInv'
  <2>1. PICK store : /\ stations' = [stations EXCEPT ![s] = store]
                     /\ Record(store # stations[s], "stationMoved")
                     /\ UNCHANGED <<devices, req>>
    BY <1>2 DEF MoveStation
  <2>2. stations' = stations
    <3>1. store = stations[s] /\ stations = [t \in DOMAIN stations |-> stations[t]]
      BY <2>1 DEF Record, Quiet, TypeInv, TypeOK, TablesOK, Table
    <3> QED BY <2>1, <3>1
  <2> QED BY <1>1, <2>1, <2>2, StationsKeepHome DEF StationsKept, HomeInv
<1>3. ASSUME NEW s \in Stations, RemoveStation(s) PROVE HomeInv'
  BY <1>1, <1>3, DropsHome DEF RemoveStation
<1>4. ASSUME NEW store \in Stores, RemoveStore(store) PROVE HomeInv'
  BY <1>1, <1>4, DropsHome DEF RemoveStore
<1> QED BY <1>2, <1>3, <1>4 DEF PlacesStep

LEMMA RegisterHome ==
  ASSUME TypeInv, HomeInv, RegisterDevice, Quiet'
  PROVE  HomeInv'
<1>1. PICK row \in DeviceRow :
        /\ Placed(row) /\ SaveDeviceRow(ids.device + 1, row)
        /\ Record(~AtHome(row), "stray")
        /\ UNCHANGED <<stations, req>>
  BY PairingTablesAssumption DEF RegisterDevice, DeviceBody, DeviceRow
<1>2. Quiet /\ AtHome(row)
  BY <1>1 DEF Record, Quiet
<1>3. Home(row, stations)
  BY <1>1, <1>2, PlacedAtHome
<1>4. \A d \in DOMAIN devices' : Home(devices'[d], stations)
  BY <1>1, <1>2, <1>3, SavedHome DEF HomeInv
<1> QED BY <1>1, <1>2, <1>4, StationsKeepHome DEF StationsKept

LEMMA InitHome == Init => HomeInv
BY IdleValues DEF Init, NoRows, HomeInv, HomeBound, At

LEMMA NextHome == TypeInv /\ HomeInv /\ [Next]_vars => HomeInv'
<1> SUFFICES ASSUME TypeInv, HomeInv, [Next]_vars, Quiet' PROVE HomeInv'
  BY DEF HomeInv
<1>1. ASSUME NEW r \in Requests, Step(r) \/ Request(r) PROVE HomeInv'
  BY <1>1, HandlerHome
<1>2. ASSUME Restart PROVE HomeInv'
  <2>1. Quiet /\ stations' = stations /\ devices' = devices
    BY <1>2 DEF Restart, Record, Quiet, db
  <2> QED BY <1>2, <2>1, IdleValues DEF Restart, HomeInv, HomeBound, At
<1>3. CASE Tick \/ UNCHANGED vars
  BY <1>3, StationsKeepHome DEF Tick, vars, db, StationsKept, HomeInv, Quiet
<1> QED BY <1>1, <1>2, <1>3, PlacesHome, RegisterHome DEF Next

\* Overlapping updates of a display, each of them checked against the store
\* it loaded, never leave it at another store's station by themselves.
THEOREM StayAtHome == Spec => []DevicesAtHome
<1>1. TypeInv /\ HomeInv => DevicesAtHome
  <2> SUFFICES ASSUME TypeInv, HomeInv, Quiet, NEW d \in DOMAIN devices
               PROVE  AtHome(devices[d])
    BY DEF DevicesAtHome, Quiet
  <2> QED BY TablesKnown, PlacedAtHome DEF TypeInv, HomeInv
<1> QED BY <1>1, InitType, NextType, InitHome, NextHome, PTL DEF Spec
-----------------------------------------------------------------------------
(* One open code per station: nothing opens a code but its insert, and the *)
(* query before it has found none, which stays so when nobody else inserts. *)

SamePlace(code, other) == code.store = other.store /\ code.station = other.station

OpenInv ==
  history \cap {"twoCreates", "patch"} = {} =>
    /\ \A c, d \in DOMAIN codes :
         Open(codes[c]) /\ Open(codes[d]) /\ SamePlace(codes[c], codes[d]) => c = d
    /\ \A r \in Requests : At(r, "insert") =>
         /\ \A c \in DOMAIN codes : Open(codes[c]) => ~SamePlace(codes[c], req[r].code)
         /\ \A s \in Requests : At(s, "insert") => s = r

\* What a step that inserts no code leaves of the pending ones.
LEMMA PendingKept ==
  ASSUME TypeInv, StagesInv, "patch" \notin history, NEW r \in Requests, Step(r) \/ Request(r),
         ~InsertCode(r), NEW c, c \in DOMAIN codes', codes'[c].status = "PENDING"
  PROVE  c \in DOMAIN codes /\ codes'[c] = codes[c]
<1>1. CASE SavePatched(r)
  BY <1>1 DEF SavePatched, StagesInv
<1>2. CASE RemoveCode(r)
  BY <1>2 DEF RemoveCode, Without, Restrict
<1>3. CASE SaveExpired(r) \/ CloseCode(r)
  <2>1. req[r].code.status # "PENDING" /\ SaveCode(req[r].id, req[r].code)
    BY <1>3 DEF SaveExpired, CloseCode, StagesInv
  <2> QED BY <2>1, SavedCodes
<1>4. CASE codes' = codes
  BY <1>4
<1> QED
  BY <1>1, <1>2, <1>3, <1>4
  DEF Step, Request, CodesStep, CodesRequest, JoinStep, DevicesStep, DevicesRequest,
      FindPending, FindCode, LoadForPatch, LoadForRemove, RejectJoin, FindExpired, Admit,
      PairDevice, PairFails, AcceptTarget, RejectTarget, SaveDevice, SaveDeviceFails,
      DeleteDevice, LoadDevice, LoadForRemoveDevice, db

LEMMA ClockStands ==
  ASSUME NEW r \in Requests, Step(r) \/ Request(r)
  PROVE  clock' = clock
BY DEF Step, Request, CodesStep, CodesRequest, JoinStep, DevicesStep, DevicesRequest,
       InsertCode, SavePatched, RemoveCode, FindPending, FindCode, LoadForPatch, LoadForRemove,
       RejectJoin, FindExpired, SaveExpired, Admit, PairDevice, PairFails, CloseCode,
       AcceptTarget, RejectTarget, SaveDevice, SaveDeviceFails, DeleteDevice, LoadDevice,
       LoadForRemoveDevice

\* Only the query starts an insert.
LEMMA InsertStarts ==
  ASSUME TypeInv, NEW r \in Requests, Step(r) \/ Request(r), At(r, "insert")'
  PROVE  FindPending(r)
<1>1. \A q : Go(r, q) => req'[r] = q
  BY GoValues
<1>2. LocalsOK(req[r])
  BY DEF TypeInv, TypeOK
<1>3. CASE Finish(r)
  BY <1>3, FinishValues DEF At
<1>4. CASE FindCode(r) \/ LoadForPatch(r) \/ LoadForRemove(r) \/ LoadDevice(r) \/ LoadForRemoveDevice(r)
  BY <1>1, <1>4 DEF FindCode, LoadForPatch, LoadForRemove, LoadDevice, LoadForRemoveDevice,
                    Accept, Idle, At
<1>5. CASE FindExpired(r) \/ Admit(r) \/ PairDevice(r) \/ AcceptTarget(r)
  BY <1>1, <1>2, <1>5 DEF FindExpired, Admit, PairDevice, AcceptTarget, LocalsOK, Idle, At
<1> QED
  BY <1>3, <1>4, <1>5
  DEF Step, Request, CodesStep, CodesRequest, JoinStep, DevicesStep, DevicesRequest,
      InsertCode, SavePatched, RemoveCode, RejectJoin, SaveExpired, PairFails, CloseCode,
      RejectTarget, SaveDevice, SaveDeviceFails, DeleteDevice

\* The query has found no open code at the place of the one to be inserted.
LEMMA FindPendingOpen ==
  ASSUME TypeInv, NEW r \in Requests, FindPending(r), "twoCreates" \notin history'
  PROVE  /\ \A c \in DOMAIN codes : Open(codes[c]) => ~SamePlace(codes[c], req'[r].code)
         /\ \A s \in Requests : ~At(s, "insert")
         /\ codes' = codes /\ clock' = clock
<1>1. PICK body, q :
        /\ Reusable(body) = {}
        /\ Go(r, q)
        /\ q = [Idle EXCEPT !.pc = "insert", !.id = ids.code + 1,
                            !.code = [store |-> body.store, station |-> body.station,
                                      status |-> "PENDING", expires |-> clock + body.ttl]]
  BY DEF FindPending, Accept
<1>2. q.code.store = body.store /\ q.code.station = body.station
  BY <1>1 DEF Idle
<1>3. req'[r] = q
  BY <1>1, GoValues
<1>4. ASSUME NEW c \in DOMAIN codes, Open(codes[c]) PROVE ~SamePlace(codes[c], req'[r].code)
  BY <1>1, <1>2, <1>3, <1>4 DEF Reusable, SamePlace
<1>5. \A s \in Requests : ~At(s, "insert")
  BY DEF FindPending, Record
<1> QED BY <1>4, <1>5 DEF FindPending, db

LEMMA NextOpen == TypeInv /\ StagesInv /\ OpenInv /\ [Next]_vars => OpenInv'
<1> SUFFICES ASSUME TypeInv, StagesInv, OpenInv, [Next]_vars,
                    history' \cap {"twoCreates", "patch"} = {}
             PROVE  /\ \A c, d \in DOMAIN codes' :
                         /\ Open(codes[c])' /\ Open(codes[d])'
                         /\ SamePlace(codes'[c], codes'[d])
                         => c = d
                    /\ \A s \in Requests : At(s, "insert")' =>
                         /\ \A c \in DOMAIN codes' :
                              Open(codes[c])' => ~SamePlace(codes'[c], req'[s].code)
                         /\ \A t \in Requests : At(t, "insert")' => t = s
  BY DEF OpenInv, SamePlace
<1>1. ASSUME history \subseteq history' PROVE
        /\ "patch" \notin history
        /\ \A c, d \in DOMAIN codes :
             Open(codes[c]) /\ Open(codes[d]) /\ SamePlace(codes[c], codes[d]) => c = d
        /\ \A s \in Requests : At(s, "insert") =>
             /\ \A c \in DOMAIN codes : Open(codes[c]) => ~SamePlace(codes[c], req[s].code)
             /\ \A t \in Requests : At(t, "insert") => t = s
  BY <1>1 DEF OpenInv
<1>2. CASE \E r \in Requests : Step(r) \/ Request(r)
  <2>1. PICK r \in Requests : Step(r) \/ Request(r)
    BY <1>2
  <2>2. /\ history \subseteq history' /\ \A s \in Requests \ {r} : req'[s] = req[s]
        /\ clock' = clock
    BY <2>1, OthersWait, ClockStands
  <2>3. CASE InsertCode(r)
    <3>1. /\ At(r, "insert") /\ SaveCode(req[r].id, req[r].code) /\ req'[r].pc = "idle"
      BY <2>3, FinishValues DEF InsertCode
    <3>2. /\ DOMAIN codes' = {req[r].id} \cup DOMAIN codes /\ codes'[req[r].id] = req[r].code
          /\ \A e \in DOMAIN codes : e # req[r].id => codes'[e] = codes[e]
      BY <3>1, SavedCodes
    <3>3. \A s \in Requests : ~At(s, "insert")'
      BY <1>1, <2>2, <3>1 DEF At
    <3> QED BY <1>1, <2>2, <3>1, <3>2, <3>3 DEF Open, SamePlace
  <2>4. CASE ~InsertCode(r)
    <3>1. \A c \in DOMAIN codes' : Open(codes[c])' =>
            c \in DOMAIN codes /\ codes'[c] = codes[c] /\ Open(codes[c])
      BY <1>1, <2>1, <2>2, <2>4, PendingKept DEF Open
    <3>2. CASE FindPending(r)
      <4>1. /\ \A c \in DOMAIN codes : Open(codes[c]) => ~SamePlace(codes[c], req'[r].code)
            /\ \A s \in Requests : ~At(s, "insert")
        BY <3>2, FindPendingOpen
      <4>2. \A s \in Requests : At(s, "insert")' => s = r
        BY <2>2, <4>1 DEF At
      <4> QED BY <1>1, <2>2, <3>1, <4>1, <4>2
    <3>3. CASE ~FindPending(r)
      <4>1. \A s \in Requests : At(s, "insert")' => s # r /\ At(s, "insert") /\ req'[s] = req[s]
        BY <2>1, <2>2, <3>3, InsertStarts DEF At
      <4> QED BY <1>1, <2>2, <3>1, <4>1
    <3> QED BY <3>2, <3>3
  <2> QED BY <2>3, <2>4
<1>3. CASE Restart
  <2>1. /\ history \subseteq history' /\ codes' = codes /\ clock' = clock
        /\ \A s \in Requests : req'[s].pc = "idle"
    BY <1>3, IdleValues DEF Restart, Record, db
  <2> QED BY <1>1, <2>1 DEF Open, At
<1>4. CASE PlacesStep \/ RegisterDevice \/ Tick \/ UNCHANGED vars
  <2>1. history \subseteq history' /\ req' = req /\ codes' = codes
    BY <1>4, OthersQuiet
  <2>2. clock' >= clock /\ clock \in Nat /\ clock' \in Nat
    <3>1. clock' \in {clock, clock + 1}
      BY <1>4
      DEF PlacesStep, MoveStation, RemoveStation, RemoveStore, RegisterDevice, Tick, vars
    <3>2. clock \in Nat
      BY DEF TypeInv, TypeOK, TablesOK
    <3> QED BY <3>1, <3>2
  <2>3. \A c \in DOMAIN codes : codes[c].expires \in Int
    BY TablesKnown DEF CodeRow, Expiry, Never, TypeInv
  <2>4. \A c \in DOMAIN codes' : Open(codes[c])' => Open(codes[c])
    BY <2>1, <2>2, <2>3 DEF Open
  <2> QED BY <1>1, <2>1, <2>4 DEF At
<1> QED BY <1>2, <1>3, <1>4 DEF Next

\* A store never has two open codes for one station, unless two creates
\* overlap or a code is patched: the code the owner is shown is the one that
\* a display can join with.
THEOREM OneCodeIsOpen == Spec => []OneOpenCode
<1>1. Init => OpenInv
  <2> SUFFICES ASSUME Init PROVE OpenInv
    OBVIOUS
  <2> QED BY IdleValues DEF Init, OpenInv, NoRows, At
<1>2. OpenInv => OneOpenCode
  BY DEF OpenInv, OneOpenCode, SamePlace
<1>3. CodesInv => TypeInv /\ StagesInv
  BY DEF CodesInv
<1> QED BY <1>1, <1>2, <1>3, NextOpen, CodesInvariant, PTL DEF Spec

-----------------------------------------------------------------------------
(* One device per code: a join that may still pair a device has the code   *)
(* to itself, and no device with the code is stored, or held by an update. *)

\* Device d has joined with c: its row says so, or an update's copy of it.
JoinedWith(d, c) ==
  \/ d \in DOMAIN devices /\ devices[d].via = c
  \/ \E r \in Requests : /\ req[r].pc \in {"lookup", "saveDevice"}
                         /\ req[r].dev = d /\ req[r].device.via = c

SingleInv ==
  history \cap {"twoJoins", "restart", "patch"} = {} =>
    /\ \A c \in CodeIds : \A d, e \in DeviceIds : JoinedWith(d, c) /\ JoinedWith(e, c) => d = e
    /\ \A r \in Requests : req[r].pc \in {"check", "pair"} => ~Used(req[r].id)
    /\ \A r, s \in Requests : Joins(r, req[s].id) /\ req[s].pc \in JoinStages => r = s

LEMMA UsedByDevice ==
  ASSUME TypeInv, NEW c, c # NoCode
  PROVE  Used(c) <=> \E d \in DeviceIds : JoinedWith(d, c)
<1>1. \A d \in DOMAIN devices : d \in DeviceIds
  BY TablesKnown DEF TypeInv
<1>2. \A r \in Requests : req[r].pc \in {"lookup", "saveDevice"} => req[r].dev \in DeviceIds
  BY DEF TypeInv, TypeOK, LocalsOK
<1> QED BY <1>1, <1>2 DEF Used, JoinedWith, Vias

\* Only a join gives a device a code.
LEMMA JoinedBefore ==
  ASSUME TypeInv, StagesInv, NEW r \in Requests, Step(r) \/ Request(r), NEW c, NEW d,
         JoinedWith(d, c)'
  PROVE  JoinedWith(d, c) \/ (PairDevice(r) /\ c = req[r].id /\ d = req[r].dev)
<1>1. Reached(r) /\ DOMAIN req' = Requests /\ \A s \in Requests \ {r} : req'[s] = req[s]
  BY StepReaches, RequestReaches, OthersWait
<1>2. CASE d \in DOMAIN devices' /\ devices'[d].via = c
  <2>1. CASE PairDevice(r)
    <3>1. SaveDeviceRow(req[r].dev, req[r].device) /\ req[r].device.via = req[r].id
      BY <2>1 DEF PairDevice, StagesInv
    <3> QED BY <1>2, <2>1, <3>1 DEF SaveDeviceRow, Put, Row, JoinedWith
  <2>2. CASE SaveDevice(r)
    <3>1. SaveDeviceRow(req[r].dev, req[r].device) /\ req[r].pc = "saveDevice"
      BY <2>2 DEF SaveDevice, At
    <3> QED BY <1>2, <3>1 DEF SaveDeviceRow, Put, Row, JoinedWith
  <2>3. CASE DeleteDevice(r)
    BY <1>2, <2>3 DEF DeleteDevice, Without, Restrict, JoinedWith
  <2>4. CASE devices' = devices
    BY <1>2, <2>4 DEF JoinedWith
  <2> QED
    BY <2>1, <2>2, <2>3, <2>4
    DEF Step, Request, CodesStep, CodesRequest, JoinStep, DevicesStep, DevicesRequest,
        InsertCode, SavePatched, RemoveCode, FindPending, FindCode, LoadForPatch, LoadForRemove,
        RejectJoin, FindExpired, SaveExpired, Admit, PairFails, CloseCode, AcceptTarget,
        RejectTarget, SaveDeviceFails, LoadDevice, LoadForRemoveDevice, db
<1>3. ASSUME NEW s \in Requests, req'[s].pc \in {"lookup", "saveDevice"}, req'[s].dev = d,
             req'[s].device.via = c
      PROVE  JoinedWith(d, c)
  <2>1. CASE s # r
    BY <1>1, <1>3, <2>1 DEF JoinedWith
  <2>2. CASE s = r /\ AcceptTarget(r)
    <3>1. PICK q : Go(r, q) /\ q = [req[r] EXCEPT !.pc = "saveDevice"] /\ At(r, "lookup")
      BY <2>2 DEF AcceptTarget
    <3>2. q.device = req[r].device /\ q.dev = req[r].dev
      BY <3>1 DEF TypeInv, TypeOK, LocalsOK, Idle
    <3>3. req'[s] = q /\ req[r].pc = "lookup"
      BY <2>2, <3>1, GoValues DEF At
    <3>4. req[r].device.via = c /\ req[r].dev = d
      BY <1>3, <3>2, <3>3
    <3> QED BY <3>3, <3>4 DEF JoinedWith
  <2>3. CASE s = r /\ LoadDevice(r)
    <3>1. PICK e, patch, q :
            /\ e \in DOMAIN devices
            /\ Go(r, q)
            /\ q = [Idle EXCEPT !.pc = IF patch = NoPatch THEN "saveDevice" ELSE "lookup",
                                !.dev = e, !.device = MovedBy(devices[e], patch),
                                !.patch = patch]
      BY <2>3 DEF LoadDevice, Accept
    <3>2. MovedBy(devices[e], patch).via = devices[e].via
      BY <3>1, TablesKnown DEF MovedBy, DeviceRow, TypeInv
    <3>3. q.device.via = devices[e].via /\ q.dev = e
      BY <3>1, <3>2 DEF Idle
    <3>4. req'[s] = q
      BY <2>3, <3>1, GoValues
    <3>5. devices[e].via = c /\ e = d
      BY <1>3, <3>3, <3>4
    <3> QED BY <3>1, <3>5 DEF JoinedWith
  <2> QED BY <1>1, <1>3, <2>1, <2>2, <2>3 DEF Reached
<1> QED BY <1>2, <1>3 DEF JoinedWith

\* A join begins with the load of its code, and then keeps it.
LEMMA JoinGoesOn ==
  ASSUME TypeInv, NEW r \in Requests, Step(r) \/ Request(r), req'[r].pc \in JoinStages
  PROVE  /\ ~FindCode(r) => req[r].pc \in JoinStages /\ req'[r].id = req[r].id
         /\ ~FindCode(r) /\ req'[r].pc \in {"check", "pair"} => req[r].pc = "check"
         /\ FindCode(r) => req'[r].pc = "check"
<1>1. \A q : Go(r, q) => req'[r] = q
  BY GoValues
<1>2. LocalsOK(req[r])
  BY DEF TypeInv, TypeOK
<1>3. CASE Finish(r)
  BY <1>3, FinishValues DEF JoinStages
<1>4. CASE FindPending(r) \/ LoadForPatch(r) \/ LoadForRemove(r) \/ LoadDevice(r) \/ LoadForRemoveDevice(r)
  BY <1>1, <1>4 DEF FindPending, LoadForPatch, LoadForRemove, LoadDevice, LoadForRemoveDevice,
                    Accept, Idle, JoinStages
<1>5. CASE FindExpired(r) \/ Admit(r) \/ PairDevice(r)
  BY <1>1, <1>2, <1>5 DEF FindExpired, Admit, PairDevice, LocalsOK, Idle, At, JoinStages, FindCode,
                          Accept
<1>6. CASE AcceptTarget(r)
  BY <1>1, <1>2, <1>6 DEF AcceptTarget, LocalsOK, Idle, At, JoinStages
<1>7. CASE FindCode(r)
  BY <1>1, <1>7 DEF FindCode, Accept, Idle
<1> QED
  BY <1>3, <1>4, <1>5, <1>6, <1>7
  DEF Step, Request, CodesStep, CodesRequest, JoinStep, DevicesStep, DevicesRequest,
      InsertCode, SavePatched, RemoveCode, RejectJoin, SaveExpired, PairFails, CloseCode,
      RejectTarget, SaveDevice, SaveDeviceFails, DeleteDevice

\* Who begins a join finds a code that has paired no device, and is alone.
LEMMA FindCodeAlone ==
  ASSUME TypeInv, UsedInv, NEW r \in Requests, FindCode(r),
         history' \cap {"twoJoins", "restart", "patch"} = {}
  PROVE  /\ ~Used(req'[r].id)
         /\ \A s \in Requests : ~Joins(s, req'[r].id)
<1>1. PICK c, q :
        /\ c \in DOMAIN codes /\ codes[c].status = "PENDING"
        /\ Go(r, q)
        /\ q = [Idle EXCEPT !.pc = "check", !.id = c, !.code = codes[c], !.dev = ids.device + 1]
        /\ Record(\E s \in Requests : Joins(s, c), "twoJoins")
  BY DEF FindCode, Accept, Joinable
<1>2. req'[r].id = c
  <2>1. q.id = c
    BY <1>1 DEF Idle
  <2> QED BY <1>1, <2>1, GoValues
<1>3. \A s \in Requests : ~Joins(s, c)
  BY <1>1 DEF Record
<1>4. ~Closing(c)
  BY <1>3 DEF Closing, Joins, At, JoinStages
<1>5. history \cap {"restart", "patch"} = {}
  BY <1>1 DEF Record
<1>6. ~Used(c)
  BY <1>1, <1>4, <1>5 DEF UsedInv
<1> QED BY <1>2, <1>3, <1>6

LEMMA StepSingle ==
  ASSUME TypeInv, IdsInv, StagesInv, UsedInv, SingleInv, NEW r \in Requests, Step(r) \/ Request(r),
         TypeInv'
  PROVE  SingleInv'
<1> SUFFICES ASSUME history' \cap {"twoJoins", "restart", "patch"} = {}
             PROVE  /\ \A c \in CodeIds : \A d, e \in DeviceIds :
                         JoinedWith(d, c)' /\ JoinedWith(e, c)' => d = e
                    /\ \A s \in Requests : req'[s].pc \in {"check", "pair"} => ~Used(req[s].id)'
                    /\ \A s, t \in Requests :
                         /\ req'[s].pc \in JoinStages /\ req'[s].id = req'[t].id
                         /\ req'[t].pc \in JoinStages
                         => s = t
  BY DEF SingleInv, Joins
<1>1. /\ history \subseteq history'
      /\ DOMAIN req' = Requests /\ \A s \in Requests \ {r} : req'[s] = req[s]
  BY OthersWait
<1>2. /\ \A c \in CodeIds : \A d, e \in DeviceIds : JoinedWith(d, c) /\ JoinedWith(e, c) => d = e
      /\ \A s \in Requests : req[s].pc \in {"check", "pair"} => ~Used(req[s].id)
      /\ \A s, t \in Requests : Joins(s, req[t].id) /\ req[t].pc \in JoinStages => s = t
  BY <1>1 DEF SingleInv
<1>3. ASSUME NEW c \in CodeIds, NEW d \in DeviceIds, NEW e \in DeviceIds,
             JoinedWith(d, c)', JoinedWith(e, c)'
      PROVE  d = e
  <2>1. c # NoCode
    BY DEF CodeIds, NoCode
  <2>2. CASE PairDevice(r) /\ c = req[r].id
    <3>1. \A x \in DeviceIds : ~JoinedWith(x, c)
      BY <1>2, <2>1, <2>2, UsedByDevice DEF PairDevice, At
    <3> QED BY <1>3, <3>1, JoinedBefore
  <2>3. CASE ~(PairDevice(r) /\ c = req[r].id)
    BY <1>2, <1>3, <2>3, JoinedBefore
  <2> QED BY <2>2, <2>3
<1>4. \A s, t \in Requests :
        req'[s].pc \in JoinStages /\ req'[s].id = req'[t].id /\ req'[t].pc \in JoinStages => s = t
  <2>1. \A s \in Requests \ {r} :
          req'[r].pc \in JoinStages /\ req'[s].pc \in JoinStages => req'[s].id # req'[r].id
    <3>1. CASE FindCode(r)
      BY <1>1, <3>1, FindCodeAlone DEF Joins
    <3>2. CASE ~FindCode(r)
      BY <1>1, <1>2, <3>2, JoinGoesOn DEF Joins
    <3> QED BY <3>1, <3>2
  <2> QED BY <1>1, <1>2, <2>1 DEF Joins
<1>5. ASSUME NEW s \in Requests, req'[s].pc \in {"check", "pair"}, NEW c, c = req'[s].id, Used(c)'
      PROVE  FALSE
  <2>1. Used(c) \/ (PairDevice(r) /\ c = req[r].id)
    BY <1>5, UsedBefore
  <2>2. CASE s # r
    <3>1. req[s].pc \in {"check", "pair"} /\ req[s].id = c /\ ~Used(c)
      BY <1>1, <1>2, <1>5, <2>2
    <3>2. PairDevice(r) /\ c = req[r].id
      BY <2>1, <3>1
    <3> QED BY <1>2, <2>2, <3>1, <3>2 DEF Joins, JoinStages, PairDevice, At
  <2>3. CASE s = r
    <3>1. ~PairDevice(r)
      BY <1>5, <2>3, PairedCloses DEF At
    <3>2. CASE FindCode(r)
      BY <1>5, <2>1, <2>3, <3>1, <3>2, FindCodeAlone
    <3>3. CASE ~FindCode(r)
      <4>1. req[r].pc = "check" /\ req[r].id = c
        BY <1>5, <2>3, <3>3, JoinGoesOn DEF JoinStages
      <4> QED BY <1>2, <2>1, <3>1, <4>1
    <3> QED BY <3>2, <3>3
  <2> QED BY <2>2, <2>3
<1>6. ASSUME NEW s \in Requests, req'[s].pc \in {"check", "pair"} PROVE ~Used(req[s].id)'
  BY <1>5, <1>6
<1> QED BY <1>3, <1>4, <1>6

\* Devices that lose their station, or go with their store, keep their code.
LEMMA PlacesVia ==
  ASSUME TypeInv, PlacesStep, NEW d \in DOMAIN devices'
  PROVE  d \in DOMAIN devices /\ devices'[d].via = devices[d].via
<1>1. ASSUME NEW gone, NEW lost, DropStations(gone, lost)
      PROVE  d \in DOMAIN devices /\ devices'[d].via = devices[d].via
  <2>1. d \in DOMAIN devices /\ devices'[d] = LoseStation(devices[d], gone)
    BY <1>1 DEF DropStations
  <2>2. devices[d] \in DeviceRow
    BY <2>1, TablesKnown DEF TypeInv
  <2> QED BY <2>1, <2>2 DEF LoseStation, DeviceRow
<1>2. ASSUME NEW s \in Stations, MoveStation(s) \/ RemoveStation(s)
      PROVE  d \in DOMAIN devices /\ devices'[d].via = devices[d].via
  BY <1>1, <1>2 DEF MoveStation, RemoveStation
<1>3. ASSUME NEW store \in Stores, RemoveStore(store)
      PROVE  d \in DOMAIN devices /\ devices'[d].via = devices[d].via
  BY <1>1, <1>3 DEF RemoveStore
<1> QED BY <1>2, <1>3 DEF PlacesStep

LEMMA NextSingle ==
  TypeInv /\ TypeInv' /\ IdsInv /\ StagesInv /\ UsedInv /\ SingleInv /\ [Next]_vars => SingleInv'
<1> SUFFICES ASSUME TypeInv, TypeInv', IdsInv, StagesInv, UsedInv, SingleInv, [Next]_vars
             PROVE  SingleInv'
  OBVIOUS
<1>1. ASSUME NEW r \in Requests, Step(r) \/ Request(r) PROVE SingleInv'
  BY <1>1, StepSingle
<1>2. CASE Restart
  <2>1. history \subseteq history' /\ devices' = devices /\ \A r \in Requests : req'[r].pc = "idle"
    BY <1>2, IdleValues DEF Restart, Record, db
  <2>2. \A c \in CodeIds, d \in DeviceIds : JoinedWith(d, c)' => JoinedWith(d, c)
    BY <2>1 DEF JoinedWith
  <2> QED BY <2>1, <2>2 DEF SingleInv, Joins, JoinStages
<1>3. CASE PlacesStep \/ RegisterDevice \/ Tick \/ UNCHANGED vars
  <2>1. history \subseteq history' /\ req' = req /\ Vias' \subseteq Vias
    BY <1>3, OthersQuiet
  <2>2. \A c \in CodeIds, d \in DeviceIds : JoinedWith(d, c)' => JoinedWith(d, c)
    <3>1. SUFFICES ASSUME NEW c \in CodeIds, NEW d \in DOMAIN devices', devices'[d].via = c
                   PROVE  d \in DOMAIN devices /\ devices[d].via = c
      BY <2>1 DEF JoinedWith
    <3>2. c # NoCode
      BY DEF CodeIds, NoCode
    <3>3. CASE PlacesStep
      BY <3>1, <3>3, PlacesVia
    <3>4. CASE RegisterDevice
      BY <3>1, <3>2, <3>4 DEF RegisterDevice, SaveDeviceRow, Put, Row
    <3>5. CASE Tick \/ UNCHANGED vars
      BY <3>1, <3>5 DEF Tick, vars, db
    <3> QED BY <1>3, <3>3, <3>4, <3>5
  <2>3. \A r \in Requests : Used(req[r].id)' => Used(req[r].id)
    BY <2>1 DEF Used
  <2> QED BY <2>1, <2>2, <2>3 DEF SingleInv, Joins
<1> QED BY <1>1, <1>2, <1>3 DEF Next

\* A pairing code pairs one device, unless two joins with it overlap, the
\* process stops during one, or the code is patched: also when the device is
\* being moved, or is removed and stored again by an update.
THEOREM OneDeviceJoins == Spec => []OneDevicePerCode
<1>1. Init => SingleInv
  <2> SUFFICES ASSUME Init PROVE SingleInv
    OBVIOUS
  <2>1. DOMAIN devices = {} /\ \A r \in Requests : req[r].pc = "idle"
    BY IdleValues DEF Init, NoRows
  <2> QED BY <2>1 DEF SingleInv, JoinedWith, Joins, JoinStages
<1>2. TypeInv /\ SingleInv => OneDevicePerCode
  <2> SUFFICES ASSUME TypeInv, SingleInv, history \cap {"twoJoins", "restart", "patch"} = {},
                      NEW d \in DOMAIN devices, NEW e \in DOMAIN devices,
                      devices[d].via = devices[e].via, devices[d].via # NoCode
               PROVE  d = e
    BY DEF OneDevicePerCode
  <2>1. devices[d].via \in CodeIds /\ d \in DeviceIds /\ e \in DeviceIds
    BY TablesKnown DEF TypeInv, DeviceRow
  <2>2. JoinedWith(d, devices[d].via) /\ JoinedWith(e, devices[d].via)
    BY DEF JoinedWith
  <2> QED BY <2>1, <2>2 DEF SingleInv
<1>3. CodesInv => TypeInv /\ IdsInv /\ StagesInv /\ UsedInv
  BY DEF CodesInv
<1> QED BY <1>1, <1>2, <1>3, NextSingle, CodesInvariant, PTL DEF Spec
=============================================================================
