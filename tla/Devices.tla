-------------------------------- MODULE Devices --------------------------------
(***************************************************************************)
(* DevicesService: displays are registered, moved and removed by hand; and *)
(* what happens to them when stations and stores move or go.               *)
(***************************************************************************)
EXTENDS PairingCodes

\* create.  The lookup of the hardware id before the insert only repeats
\* what its unique key refuses.
RegisterDevice ==
  \E body \in DeviceBodies :
    LET device == [store |-> body.store, station |-> body.station, via |-> NoCode] IN
      /\ "register" \in scene.ops
      /\ ids.device < MaxDevices
      /\ body.store # None => body.station # None
      /\ Placed(device)
      /\ SaveDeviceRow(ids.device + 1, device)
      /\ ids' = [ids EXCEPT !.device = @ + 1]
      /\ Record(~AtHome(device), "stray")
      /\ UNCHANGED <<stores, stations, codes, clock, req>>

MovedBy(device, patch) ==
  [device EXCEPT !.store = Sent(patch.store, @), !.station = Sent(patch.station, @)]

\* update, up to the load of the device.  Only the owner of its store may go
\* on, so it has one.  The columns the body names are assigned to the copy at
\* the end; nothing reads it before.
LoadDevice(r) ==
  \E d \in DOMAIN devices, patch \in DevicePatches :
    /\ devices[d].store # None
    /\ Accept(r, "move", [Idle EXCEPT !.pc = IF patch = NoPatch THEN "saveDevice" ELSE "lookup",
                                      !.dev = d, !.device = MovedBy(devices[d], patch),
                                      !.patch = patch])
    /\ Record(patch.store \notin {Same, devices[d].store} /\ patch.station = Same, "stranded")
    /\ UNCHANGED <<db, clock, ids>>

\* The store and the station the body names exist, and that station belongs
\* to the store the device will have.
Suitable(device, patch) ==
  /\ patch.store # Same => device.store \in stores
  /\ patch.station # Same =>
       device.station \in DOMAIN stations /\ stations[device.station] = device.store

AcceptTarget(r) ==
  /\ At(r, "lookup")
  /\ Suitable(req[r].device, req[r].patch)
  /\ Go(r, [req[r] EXCEPT !.pc = "saveDevice"])
  /\ UNCHANGED <<db, clock, ids, history>>

RejectTarget(r) ==
  /\ At(r, "lookup")
  /\ ~Suitable(req[r].device, req[r].patch)
  /\ Finish(r)
  /\ UNCHANGED <<db, clock, ids, history>>

\* Mutation: only the columns of the body are written.
SaveSentColumns(r) ==
  LET q == req[r] IN
    /\ At(r, "saveDevice")
    /\ q.dev \in DOMAIN devices
    /\ LET row == MovedBy(devices[q.dev], q.patch) IN Placed(row) /\ SaveDeviceRow(q.dev, row)
    /\ Finish(r)
    /\ UNCHANGED <<stores, stations, codes, clock, ids, history>>

\* The whole copy is saved; a device that was removed meanwhile is back.
SaveDevice(r) ==
  /\ At(r, "saveDevice")
  /\ Placed(req[r].device)
  /\ SaveDeviceRow(req[r].dev, req[r].device)
  /\ Finish(r)
  /\ UNCHANGED <<stores, stations, codes, clock, ids, history>>

SaveDeviceFails(r) ==
  /\ At(r, "saveDevice")
  /\ ~Placed(req[r].device)
  /\ Finish(r)
  /\ UNCHANGED <<db, clock, ids, history>>

LoadForRemoveDevice(r) ==
  \E d \in DOMAIN devices :
    /\ devices[d].store # None
    /\ Accept(r, "removeDevice", [Idle EXCEPT !.pc = "deleteDevice", !.dev = d])
    /\ UNCHANGED <<db, clock, ids, history>>

DeleteDevice(r) ==
  /\ At(r, "deleteDevice")
  /\ devices' = Without(devices, {req[r].dev})
  /\ Finish(r)
  /\ UNCHANGED <<stores, stations, codes, clock, ids, history>>

DevicesStep(r) ==
  \/ AcceptTarget(r)
  \/ RejectTarget(r)
  \/ SaveDevice(r)
  \/ SaveDeviceFails(r)
  \/ DeleteDevice(r)

DevicesRequest(r) == LoadDevice(r) \/ LoadForRemoveDevice(r)

-----------------------------------------------------------------------------
(* Stations and stores, as far as displays depend on them: one statement   *)
(* each.                                                                   *)

MoveStation(s) ==
  \E store \in stores :
    /\ "place" \in scene.ops
    /\ s \in DOMAIN stations
    /\ stations' = [stations EXCEPT ![s] = store]
    /\ Record(store # stations[s], "stationMoved")
    /\ UNCHANGED <<stores, codes, devices, clock, ids, req>>

RemoveStation(s) ==
  /\ "place" \in scene.ops
  /\ s \in DOMAIN stations
  /\ DropStations({s}, {})
  /\ UNCHANGED <<stores, codes, clock, ids, req, history>>

\* The stations and the devices of the store go with it; its codes stay.
RemoveStore(store) ==
  /\ "place" \in scene.ops
  /\ store \in stores
  /\ stores' = stores \ {store}
  /\ DropStations({s \in DOMAIN stations : stations[s] = store},
                  {d \in DOMAIN devices : devices[d].store = store})
  /\ UNCHANGED <<codes, clock, ids, req, history>>

PlacesStep ==
  \/ \E s \in Stations : MoveStation(s) \/ RemoveStation(s)
  \/ \E store \in Stores : RemoveStore(store)
=============================================================================
