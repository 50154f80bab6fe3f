----------------------------- MODULE PairingCodes -----------------------------
(***************************************************************************)
(* PairingCodesService: the owner makes a code for a station, a display    *)
(* joins with it, and the code is closed.                                  *)
(***************************************************************************)
EXTENDS PairingTables

\* A code that can still be joined with.
Open(code) == code.status = "PENDING" /\ (code.expires = Never \/ code.expires > clock)

\* Mutation: no code is ever used again.
ReuseNone(body) == {}

\* The codes create would answer with: those of the store and, when the body
\* names one, of the station.
Reusable(body) ==
  {c \in DOMAIN codes :
     codes[c].store = body.store /\ Open(codes[c]) /\ body.station \in {None, codes[c].station}}

\* create, up to the query for a code to use again.  With one, it is the
\* answer and nothing changes.  The text of the new code is not in use.
FindPending(r) ==
  \E body \in scene.bodies :
    /\ ids.code < MaxCodes
    /\ body.store \in stores
    /\ Reusable(body) = {}
    /\ Accept(r, "create",
              [Idle EXCEPT !.pc = "insert", !.id = ids.code + 1,
                           !.code = [store |-> body.store, station |-> body.station,
                                     status |-> "PENDING", expires |-> clock + body.ttl]])
    /\ ids' = [ids EXCEPT !.code = @ + 1]
    /\ Record(\E s \in Requests : At(s, "insert"), "twoCreates")
    /\ UNCHANGED <<db, clock>>

InsertCode(r) ==
  /\ At(r, "insert")
  /\ SaveCode(req[r].id, req[r].code)
  /\ Finish(r)
  /\ UNCHANGED <<stores, stations, devices, clock, ids, history>>

-----------------------------------------------------------------------------
(* joinByCode *)

\* Mutation: the code is found whatever its status.
AnyStatus(code) == TRUE

Joinable(code) == code.status = "PENDING"

Joins(r, c) == req[r].pc \in JoinStages /\ req[r].id = c

\* findPendingPairingCode, up to the load of the code.
FindCode(r) ==
  \E c \in DOMAIN codes :
    /\ ids.device < MaxDevices
    /\ Joinable(codes[c])
    /\ Accept(r, "join", [Idle EXCEPT !.pc = "check", !.id = c, !.code = codes[c],
                                      !.dev = ids.device + 1])
    /\ ids' = [ids EXCEPT !.device = @ + 1]
    /\ Record(\E s \in Requests : Joins(s, c), "twoJoins")
    /\ UNCHANGED <<db, clock>>

\* The lookups of the station and of the store.  A code without a station is
\* looked up under no id at all, which any station answers.
Known(code) ==
  /\ code.store \in stores
  /\ IF code.station = None THEN DOMAIN stations # {} ELSE code.station \in DOMAIN stations

Expired(code) == code.expires # Never /\ code.expires <= clock

RejectJoin(r) ==
  /\ At(r, "check")
  /\ ~Known(req[r].code)
  /\ Finish(r)
  /\ UNCHANGED <<db, clock, ids, history>>

\* ensurePairingCodeNotExpired looks at the copy.
FindExpired(r) ==
  /\ At(r, "check")
  /\ Known(req[r].code) /\ Expired(req[r].code)
  /\ Go(r, [req[r] EXCEPT !.pc = "expire", !.code.status = "EXPIRED"])
  /\ UNCHANGED <<db, clock, ids, history>>

SaveExpired(r) ==
  /\ At(r, "expire")
  /\ SaveCode(req[r].id, req[r].code)
  /\ Finish(r)
  /\ UNCHANGED <<stores, stations, devices, clock, ids, history>>

Admit(r) ==
  LET q == req[r] IN
    /\ At(r, "check")
    /\ Known(q.code) /\ ~Expired(q.code)
    /\ Go(r, [q EXCEPT !.pc = "pair",
                       !.device = [store |-> q.code.store, station |-> q.code.station,
                                   via |-> q.id]])
    /\ UNCHANGED <<db, clock, ids, history>>

AtHome(device) ==
  device.station # None /\ device.store # None => stations[device.station] = device.store

\* Mutation: the status of the copy is not set before it is saved.
StillPending(code) == code

Closed(code) == [code EXCEPT !.status = "CLOSED"]

\* createPendingDevice; whether the station is one of the store is not asked.
PairDevice(r) ==
  LET q == req[r] IN
    /\ At(r, "pair")
    /\ Placed(q.device)
    /\ SaveDeviceRow(q.dev, q.device)
    /\ Go(r, [q EXCEPT !.pc = "close", !.code = Closed(@)])
    /\ Record(~AtHome(q.device), "stray")
    /\ UNCHANGED <<stores, stations, codes, clock, ids>>

PairFails(r) ==
  /\ At(r, "pair")
  /\ ~Placed(req[r].device)
  /\ Finish(r)
  /\ UNCHANGED <<db, clock, ids, history>>

\* Mutation: the code is not closed.
LeaveOpen(r) ==
  /\ At(r, "close")
  /\ Finish(r)
  /\ UNCHANGED <<db, clock, ids, history>>

CloseCode(r) ==
  /\ At(r, "close")
  /\ SaveCode(req[r].id, req[r].code)
  /\ Finish(r)
  /\ UNCHANGED <<stores, stations, devices, clock, ids, history>>

-----------------------------------------------------------------------------
(* update and remove *)

Patched(code, patch) ==
  [code EXCEPT !.store = Sent(patch.store, @), !.status = Sent(patch.status, @),
               !.expires = Sent(patch.expires, @)]

LoadForPatch(r) ==
  \E c \in DOMAIN codes, patch \in CodePatches :
    /\ Accept(r, "patch", [Idle EXCEPT !.pc = "save", !.id = c,
                                       !.code = Patched(codes[c], patch)])
    /\ Record(TRUE, "patch")
    /\ UNCHANGED <<db, clock, ids>>

SavePatched(r) ==
  /\ At(r, "save")
  /\ SaveCode(req[r].id, req[r].code)
  /\ Finish(r)
  /\ UNCHANGED <<stores, stations, devices, clock, ids, history>>

LoadForRemove(r) ==
  \E c \in DOMAIN codes :
    /\ Accept(r, "remove", [Idle EXCEPT !.pc = "delete", !.id = c])
    /\ UNCHANGED <<db, clock, ids, history>>

RemoveCode(r) ==
  /\ At(r, "delete")
  /\ codes' = Without(codes, {req[r].id})
  /\ Finish(r)
  /\ UNCHANGED <<stores, stations, devices, clock, ids, history>>

JoinStep(r) ==
  \/ RejectJoin(r)
  \/ FindExpired(r)
  \/ SaveExpired(r)
  \/ Admit(r)
  \/ PairDevice(r)
  \/ PairFails(r)
  \/ CloseCode(r)

CodesStep(r) == InsertCode(r) \/ SavePatched(r) \/ RemoveCode(r)

CodesRequest(r) == FindPending(r) \/ FindCode(r) \/ LoadForPatch(r) \/ LoadForRemove(r)
=============================================================================
