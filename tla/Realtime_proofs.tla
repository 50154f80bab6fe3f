----------------------------- MODULE Realtime_proofs ---------------------------
(***************************************************************************)
(* For any sockets, rooms, payloads and requests, whatever the services do *)
(* meanwhile: the rooms a socket is in are those it wants (RoomsAsWanted), *)
(* and the till, the kitchen display and the receipt page show what the    *)
(* database holds once nothing is left to tell them (TillFollows,          *)
(* DisplayFollows, ReceiptFollows).  The handlers' invariants come from    *)
(* Service_proofs: a step of Realtime is one of Kitchen for the database.  *)
(***************************************************************************)
EXTENDS Realtime, Service_proofs

SocketRow ==
  [phase : Phases, token : Tokens, auth : BOOLEAN, rooms : SUBSET AnyRoom,
   joining : SUBSET SUBSET AnyRoom, wants : SUBSET AnyRoom, crossed : BOOLEAN]

\* The joins under way that will succeed, if the receipts they name last.
Good(s) == {J \in s.joining : J \subseteq RoomsOf(s.token) \cup Receipts}

\* Only owners and receipt pages wait for a lookup.
JoinsOK(s) ==
  \A J \in s.joining : (J \in Payloads /\ s.auth) \/ \E t \in Receipts : J = {t}

\* A socket that was neither early nor hasty is in what it wants, or on its
\* way there, and in nothing else.
OnCourse(s) ==
  ~s.crossed =>
    /\ s.rooms \subseteq s.wants
    /\ s.wants \subseteq s.rooms \cup UNION Good(s)
    /\ UNION Good(s) \subseteq s.wants

Fine(s) ==
  /\ s \in SocketRow
  /\ s.rooms \cap Rooms \subseteq RoomsOf(s.token)
  /\ s.phase = "open" /\ s.token # "none" => s.auth
  /\ s.auth => s.token \in {"owner", "device"}
  /\ s.token = "none" => s.phase # "verifying"
  /\ JoinsOK(s) /\ OnCourse(s)

SocketInv == DOMAIN socket = Clients /\ \A c \in Clients : Fine(socket[c])

LEMMA RoomsOfType == ASSUME NEW token PROVE RoomsOf(token) \subseteq Rooms
  BY SocketsAssumption DEF RoomsOf

LEMMA FineOff == ASSUME NEW phase \in Phases, NEW token \in Tokens,
                        phase = "open" => token = "none",
                        phase = "verifying" => token # "none"
                 PROVE Fine([Off EXCEPT !.phase = phase, !.token = token])
<1> DEFINE s == [Off EXCEPT !.phase = phase, !.token = token]
<1>0. Off \in SocketRow
  BY DEF Off, SocketRow, Phases, Tokens
<1>1. /\ s.phase = phase /\ s.token = token /\ s.auth = FALSE /\ s.rooms = {}
      /\ s.joining = {} /\ s.wants = {} /\ s.crossed = FALSE
  BY <1>0 DEF Off, SocketRow
<1>2. s \in SocketRow
  BY <1>0 DEF SocketRow
<1>3. JoinsOK(s) /\ OnCourse(s)
  BY <1>1 DEF JoinsOK, OnCourse, Good
<1> QED
  BY <1>1, <1>2, <1>3 DEF Fine

LEMMA FinePublic == Fine(Off) /\ Fine([Off EXCEPT !.phase = "open"])
<1>1. Off \in SocketRow /\ [Off EXCEPT !.phase = "open"] \in SocketRow
  BY DEF Off, SocketRow, Phases, Tokens
<1> DEFINE s == [Off EXCEPT !.phase = "open"]
<1>2. /\ Off.phase = "off" /\ Off.token = "none" /\ Off.auth = FALSE /\ Off.rooms = {}
      /\ Off.joining = {} /\ Off.wants = {} /\ Off.crossed = FALSE
  BY DEF Off
<1>3. /\ s.phase = "open" /\ s.token = "none" /\ s.auth = FALSE /\ s.rooms = {}
      /\ s.joining = {} /\ s.wants = {} /\ s.crossed = FALSE
  BY DEF Off
<1>4. JoinsOK(Off) /\ JoinsOK(s)
  BY <1>2, <1>3 DEF JoinsOK
<1>5. OnCourse(Off) /\ OnCourse(s)
  BY <1>2, <1>3 DEF OnCourse, Good
<1>6. Fine(Off)
  BY <1>1, <1>2, <1>4, <1>5 DEF Fine
<1>7. Fine(s)
  BY <1>1, <1>3, <1>4, <1>5 DEF Fine
<1> QED
  BY <1>6, <1>7

LEMMA FineOnline == ASSUME NEW room \in OwnerRooms PROVE Fine(OnlineIn(room))
<1> DEFINE s == OnlineIn(room)
<1>0. Off \in SocketRow /\ room \in AnyRoom
  BY SocketsAssumption DEF Off, SocketRow, Phases, Tokens, AnyRoom
<1>1. /\ s.phase = "open" /\ s.token = "owner" /\ s.auth = TRUE /\ s.rooms = {room}
      /\ s.joining = {} /\ s.wants = {room} /\ s.crossed = FALSE
  BY <1>0 DEF OnlineIn, Off, SocketRow
<1>2. s \in SocketRow
  BY <1>0 DEF OnlineIn, SocketRow, Phases, Tokens
<1>3. JoinsOK(s) /\ OnCourse(s)
  BY <1>1 DEF JoinsOK, OnCourse, Good
<1>4. s.rooms \cap Rooms \subseteq RoomsOf(s.token)
  BY <1>1 DEF RoomsOf
<1> QED
  BY <1>1, <1>2, <1>3, <1>4 DEF Fine

\* It suffices that what a step makes of its own socket is fine.
LEMMA BecomeInv ==
  ASSUME SocketInv, NEW c \in Clients, NEW s, Become(c, s), Fine(s) PROVE SocketInv'
<1>1. socket' = [socket EXCEPT ![c] = s]
  BY DEF Become
<1>2. DOMAIN socket' = Clients
  BY <1>1 DEF SocketInv
<1>3. ASSUME NEW d \in Clients PROVE Fine(socket'[d])
  <2>1. CASE d = c
    BY <2>1, <1>1 DEF SocketInv
  <2>2. CASE d # c
    BY <2>2, <1>1 DEF SocketInv
  <2> QED
    BY <2>1, <2>2
<1> QED
  BY <1>2, <1>3 DEF SocketInv, Fine, SocketRow, JoinsOK, OnCourse, Good

-----------------------------------------------------------------------------
(* The handlers of the gateway. *)

LEMMA ConnectInv == ASSUME SocketInv, NEW c \in Clients, Connect(c) PROVE SocketInv'
<1>1. PICK token \in Tokens :
        Become(c, [Off EXCEPT !.phase = IF token = "none" THEN "open" ELSE "verifying",
                              !.token = token])
  BY DEF Connect
<1>2. (IF token = "none" THEN "open" ELSE "verifying") \in Phases
  BY DEF Phases
<1>3. Fine([Off EXCEPT !.phase = IF token = "none" THEN "open" ELSE "verifying",
                       !.token = token])
  BY <1>2, FineOff
<1> QED
  BY <1>1, <1>3, BecomeInv

LEMMA VerifyInv == ASSUME SocketInv, NEW c \in Clients, Verify(c) PROVE SocketInv'
<1> DEFINE s == socket[c]
           t == [s EXCEPT !.phase = "open", !.auth = TRUE]
<1>0. Fine(s) /\ s \in SocketRow /\ s.phase = "verifying"
  BY DEF SocketInv, Fine, Verify
<1>1. CASE s.token = "bad"
  <2>1. Fine([Off EXCEPT !.phase = "closed", !.token = "bad"])
    BY FineOff DEF Phases, Tokens
  <2> QED
    BY <1>1, <2>1, BecomeInv DEF Verify
<1>2. CASE s.token # "bad"
  <2>1. Become(c, t)
    BY <1>2 DEF Verify
  <2>2. /\ t.phase = "open" /\ t.auth = TRUE /\ t.token = s.token /\ t.rooms = s.rooms
        /\ t.joining = s.joining /\ t.wants = s.wants /\ t.crossed = s.crossed
        /\ t \in SocketRow
    BY <1>0 DEF SocketRow, Phases
  <2>3. t.token \in {"owner", "device"}
    BY <1>0, <1>2, <2>2 DEF Fine, SocketRow, Tokens
  <2>4. JoinsOK(t)
    BY <1>0, <2>2 DEF Fine, JoinsOK
  <2>5. OnCourse(t)
    BY <1>0, <2>2 DEF Fine, OnCourse, Good
  <2>6. Fine(t)
    BY <1>0, <2>2, <2>3, <2>4, <2>5 DEF Fine
  <2> QED
    BY <2>1, <2>6, BecomeInv
<1> QED
  BY <1>1, <1>2

LEMMA JoinRoomInv == ASSUME SocketInv, NEW c \in Clients, JoinRoom(c) PROVE SocketInv'
<1> DEFINE s == socket[c]
<1>1. PICK rooms \in Payloads :
        LET asked == [s EXCEPT !.wants = IF rooms \subseteq RoomsOf(s.token)
                                         THEN @ \cup rooms ELSE @,
                               !.crossed = @ \/ s.phase = "verifying"]
        IN  /\ Connected(c)
            /\ CASE ~s.auth -> Become(c, asked)
                 [] s.auth /\ s.token = "device" ->
                      Become(c, IF Allowed(c, rooms) THEN [asked EXCEPT !.rooms = @ \cup rooms]
                                ELSE asked)
                 [] OTHER -> Become(c, [asked EXCEPT !.joining = @ \cup {rooms}])
  BY DEF JoinRoom
<1> DEFINE ok == rooms \subseteq RoomsOf(s.token)
           asked == [s EXCEPT !.wants = IF ok THEN @ \cup rooms ELSE @,
                              !.crossed = @ \/ s.phase = "verifying"]
<1>2. Fine(s) /\ s \in SocketRow /\ rooms \subseteq Rooms /\ rooms \subseteq AnyRoom /\ rooms # {}
  BY SocketsAssumption DEF SocketInv, Fine, AnyRoom
<1>3. /\ asked.phase = s.phase /\ asked.token = s.token /\ asked.auth = s.auth
      /\ asked.rooms = s.rooms /\ asked.joining = s.joining
      /\ asked.wants = IF ok THEN s.wants \cup rooms ELSE s.wants
      /\ asked.crossed <=> s.crossed \/ s.phase = "verifying"
      /\ asked \in SocketRow
  BY <1>2 DEF SocketRow
<1>4. CASE ~s.auth
  <2>1. Become(c, asked)
    BY <1>1, <1>4
  <2>2. s.phase # "verifying" => ~ok
    BY <1>1, <1>2, <1>4 DEF Connected, Fine, RoomsOf
  <2>3. JoinsOK(asked)
    BY <1>2, <1>3 DEF Fine, JoinsOK
  <2>4. OnCourse(asked)
    BY <1>2, <1>3, <2>2 DEF Fine, OnCourse, Good
  <2>5. Fine(asked)
    BY <1>2, <1>3, <2>3, <2>4 DEF Fine
  <2> QED
    BY <2>1, <2>5, BecomeInv
<1>5. CASE s.auth /\ s.token = "device"
  <2> DEFINE t == IF Allowed(c, rooms) THEN [asked EXCEPT !.rooms = @ \cup rooms] ELSE asked
  <2>1. Become(c, t)
    BY <1>1, <1>5
  <2>2. Allowed(c, rooms) <=> ok
    BY <1>5 DEF Allowed
  <2>3. /\ t.phase = s.phase /\ t.token = s.token /\ t.auth = s.auth
        /\ t.joining = s.joining /\ t.wants = asked.wants /\ t.crossed = asked.crossed
        /\ t.rooms = IF ok THEN s.rooms \cup rooms ELSE s.rooms
        /\ t \in SocketRow
    BY <1>2, <1>3, <2>2 DEF SocketRow
  <2>4. JoinsOK(t)
    BY <1>2, <2>3 DEF Fine, JoinsOK
  <2>5. OnCourse(t)
    BY <1>2, <1>3, <2>3 DEF Fine, OnCourse, Good
  <2>6. Fine(t)
    BY <1>2, <2>3, <2>4, <2>5 DEF Fine
  <2> QED
    BY <2>1, <2>6, BecomeInv
<1>6. CASE s.auth /\ s.token # "device"
  <2> DEFINE t == [asked EXCEPT !.joining = @ \cup {rooms}]
  <2>1. Become(c, t)
    BY <1>1, <1>6
  <2>2. /\ t.phase = s.phase /\ t.token = s.token /\ t.auth = s.auth
        /\ t.rooms = s.rooms /\ t.joining = s.joining \cup {rooms}
        /\ t.wants = asked.wants /\ t.crossed = asked.crossed
        /\ t \in SocketRow
    <3> HIDE DEF asked
    <3>1. rooms \in SUBSET AnyRoom /\ s.joining \in SUBSET SUBSET AnyRoom
      BY <1>2 DEF SocketRow
    <3> QED
      BY <1>3, <3>1 DEF SocketRow
  <2>3. JoinsOK(t)
    BY <1>2, <1>6, <2>2 DEF Fine, JoinsOK
  <2>4. Good(t) = IF ok THEN Good(s) \cup {rooms} ELSE Good(s)
    BY <1>2, <2>2, SocketsAssumption DEF Good
  <2>5. OnCourse(t)
    <3>1. SUFFICES ASSUME ~t.crossed
                   PROVE /\ t.rooms \subseteq t.wants
                         /\ t.wants \subseteq t.rooms \cup UNION Good(t)
                         /\ UNION Good(t) \subseteq t.wants
      BY DEF OnCourse
    <3>2. /\ s.rooms \subseteq s.wants /\ s.wants \subseteq s.rooms \cup UNION Good(s)
          /\ UNION Good(s) \subseteq s.wants
      BY <1>2, <1>3, <2>2, <3>1 DEF Fine, OnCourse
    <3>3. t.rooms = s.rooms /\ t.wants = IF ok THEN s.wants \cup rooms ELSE s.wants
      BY <1>3, <2>2
    <3> HIDE DEF ok, asked, t
    <3>4. CASE ok
      <4>1. UNION Good(t) = (UNION Good(s)) \cup rooms
        BY <2>4, <3>4
      <4> QED
        BY <3>2, <3>3, <3>4, <4>1
    <3>5. CASE ~ok
      BY <2>4, <3>2, <3>3, <3>5
    <3> QED
      BY <3>4, <3>5
  <2>6. Fine(t)
    BY <1>2, <2>2, <2>3, <2>5 DEF Fine
  <2> QED
    BY <2>1, <2>6, BecomeInv
<1> QED
  BY <1>4, <1>5, <1>6

LEMMA FinishJoinRoomInv ==
  ASSUME SocketInv, NEW c \in Clients, FinishJoinRoom(c) PROVE SocketInv'
<1> DEFINE s == socket[c]
<1>1. PICK rooms \in s.joining \cap Payloads :
        LET t == [s EXCEPT !.joining = @ \ {rooms}] IN
          Become(c, IF Allowed(c, rooms) THEN [t EXCEPT !.rooms = @ \cup rooms] ELSE t)
  BY DEF FinishJoinRoom
<1> DEFINE ok == rooms \subseteq RoomsOf(s.token)
           left == [s EXCEPT !.joining = @ \ {rooms}]
           t == IF Allowed(c, rooms) THEN [left EXCEPT !.rooms = @ \cup rooms] ELSE left
<1>2. Fine(s) /\ s \in SocketRow /\ rooms \subseteq Rooms /\ rooms \subseteq AnyRoom /\ rooms # {}
  BY SocketsAssumption DEF SocketInv, Fine, AnyRoom
<1>3. Allowed(c, rooms) <=> ok
  <2>1. ~\E x \in Receipts : rooms = {x}
    BY <1>2, SocketsAssumption
  <2> QED
    BY <1>1, <1>2, <2>1 DEF Allowed, Fine, JoinsOK
<1>4. /\ t.phase = s.phase /\ t.token = s.token /\ t.auth = s.auth
      /\ t.joining = s.joining \ {rooms} /\ t.wants = s.wants /\ t.crossed = s.crossed
      /\ t.rooms = IF ok THEN s.rooms \cup rooms ELSE s.rooms
      /\ t \in SocketRow
  BY <1>2, <1>3 DEF SocketRow
<1>5. JoinsOK(t)
  BY <1>2, <1>4 DEF Fine, JoinsOK
<1>6. Good(s) = IF ok THEN Good(t) \cup {rooms} ELSE Good(t)
  BY <1>1, <1>2, <1>4, SocketsAssumption DEF Good
<1>7. OnCourse(t)
  <2>1. SUFFICES ASSUME ~t.crossed
                 PROVE /\ t.rooms \subseteq t.wants
                       /\ t.wants \subseteq t.rooms \cup UNION Good(t)
                       /\ UNION Good(t) \subseteq t.wants
    BY DEF OnCourse
  <2>2. /\ s.rooms \subseteq s.wants /\ s.wants \subseteq s.rooms \cup UNION Good(s)
        /\ UNION Good(s) \subseteq s.wants
    BY <1>2, <1>4, <2>1 DEF Fine, OnCourse
  <2> HIDE DEF ok, t
  <2>3. CASE ok
    <3>1. UNION Good(s) = (UNION Good(t)) \cup rooms
      BY <1>6, <2>3
    <3> QED
      BY <1>4, <2>2, <2>3, <3>1
  <2>4. CASE ~ok
    BY <1>4, <1>6, <2>2, <2>4
  <2> QED
    BY <2>3, <2>4
<1>8. Fine(t)
  BY <1>2, <1>4, <1>5, <1>7 DEF Fine
<1> QED
  BY <1>1, <1>8, BecomeInv

LEMMA JoinReceiptInv == ASSUME SocketInv, NEW c \in Clients, JoinReceipt(c) PROVE SocketInv'
<1> DEFINE s == socket[c]
<1>1. PICK x \in Receipts : Become(c, [s EXCEPT !.joining = @ \cup {{x}}, !.wants = @ \cup {x}])
  BY DEF JoinReceipt
<1> DEFINE t == [s EXCEPT !.joining = @ \cup {{x}}, !.wants = @ \cup {x}]
<1>2. Fine(s) /\ s \in SocketRow /\ x \in AnyRoom
  BY DEF SocketInv, Fine, AnyRoom
<1>3. /\ t.phase = s.phase /\ t.token = s.token /\ t.auth = s.auth
      /\ t.rooms = s.rooms /\ t.joining = s.joining \cup {{x}}
      /\ t.wants = s.wants \cup {x} /\ t.crossed = s.crossed
      /\ t \in SocketRow
  BY <1>2 DEF SocketRow
<1>4. JoinsOK(t)
  BY <1>2, <1>3 DEF Fine, JoinsOK
<1>5. Good(t) = Good(s) \cup {{x}}
  BY <1>3 DEF Good
<1>6. OnCourse(t)
  BY <1>2, <1>3, <1>5 DEF Fine, OnCourse
<1>7. Fine(t)
  BY <1>2, <1>3, <1>4, <1>6 DEF Fine
<1> QED
  BY <1>1, <1>7, BecomeInv

LEMMA FinishJoinReceiptInv ==
  ASSUME SocketInv, NEW c \in Clients, FinishJoinReceipt(c) PROVE SocketInv'
<1> DEFINE s == socket[c]
<1>1. PICK x \in Receipts :
        LET left == [s EXCEPT !.joining = @ \ {{x}}] IN
          /\ {x} \in s.joining
          /\ Become(c, IF Readable(x) THEN [left EXCEPT !.rooms = @ \cup {x}]
                       ELSE [left EXCEPT !.wants = @ \ ({x} \ left.rooms)])
  BY DEF FinishJoinReceipt
<1> DEFINE left == [s EXCEPT !.joining = @ \ {{x}}]
           t == IF Readable(x) THEN [left EXCEPT !.rooms = @ \cup {x}]
                ELSE [left EXCEPT !.wants = @ \ ({x} \ left.rooms)]
<1>2. Fine(s) /\ s \in SocketRow /\ x \in AnyRoom /\ x \notin Rooms
  BY SocketsAssumption DEF SocketInv, Fine, AnyRoom
<1>3. /\ t.phase = s.phase /\ t.token = s.token /\ t.auth = s.auth
      /\ t.joining = s.joining \ {{x}} /\ t.crossed = s.crossed
      /\ t.rooms = IF Readable(x) THEN s.rooms \cup {x} ELSE s.rooms
      /\ t.wants = IF Readable(x) THEN s.wants ELSE s.wants \ ({x} \ s.rooms)
      /\ t \in SocketRow
  BY <1>2 DEF SocketRow
<1>4. JoinsOK(t)
  BY <1>2, <1>3 DEF Fine, JoinsOK
<1>5. Good(s) = Good(t) \cup {{x}}
  BY <1>1, <1>3 DEF Good
<1>6. x \notin UNION Good(t)
  <2>1. ASSUME NEW J \in t.joining, x \in J PROVE FALSE
    <3>1. J \in Payloads \/ \E y \in Receipts : J = {y}
      BY <1>4, <2>1 DEF JoinsOK
    <3>2. J # {x}
      BY <1>3
    <3>3. J \notin Payloads
      BY <1>2, <2>1, SocketsAssumption
    <3> QED
      BY <2>1, <3>1, <3>2, <3>3
  <2> QED
    BY <2>1 DEF Good
<1>7. OnCourse(t)
  <2>1. SUFFICES ASSUME ~t.crossed
                 PROVE /\ t.rooms \subseteq t.wants
                       /\ t.wants \subseteq t.rooms \cup UNION Good(t)
                       /\ UNION Good(t) \subseteq t.wants
    BY DEF OnCourse
  <2>2. /\ s.rooms \subseteq s.wants /\ s.wants \subseteq s.rooms \cup UNION Good(s)
        /\ UNION Good(s) \subseteq s.wants
    BY <1>2, <1>3, <2>1 DEF Fine, OnCourse
  <2>3. UNION Good(s) = (UNION Good(t)) \cup {x}
    BY <1>5
  <2> QED
    BY <1>3, <1>6, <2>2, <2>3
<1>8. Fine(t)
  BY <1>2, <1>3, <1>4, <1>7 DEF Fine
<1> QED
  BY <1>1, <1>8, BecomeInv

LEMMA LeaveInv == ASSUME SocketInv, NEW c \in Clients, Leave(c) PROVE SocketInv'
<1> DEFINE s == socket[c]
<1>1. PICK room \in s.wants :
        Become(c, [s EXCEPT !.rooms = @ \ {room}, !.wants = @ \ {room},
                            !.crossed = @ \/ room \in UNION s.joining])
  BY DEF Leave
<1> DEFINE t == [s EXCEPT !.rooms = @ \ {room}, !.wants = @ \ {room},
                          !.crossed = @ \/ room \in UNION s.joining]
<1>2. Fine(s) /\ s \in SocketRow
  BY DEF SocketInv, Fine
<1>3. /\ t.phase = s.phase /\ t.token = s.token /\ t.auth = s.auth /\ t.joining = s.joining
      /\ t.rooms = s.rooms \ {room} /\ t.wants = s.wants \ {room}
      /\ t.crossed <=> s.crossed \/ room \in UNION s.joining
      /\ t \in SocketRow
  BY <1>2 DEF SocketRow
<1>4. JoinsOK(t)
  BY <1>2, <1>3 DEF Fine, JoinsOK
<1>5. Good(t) = Good(s) /\ UNION Good(s) \subseteq UNION s.joining
  BY <1>3 DEF Good
<1>6. OnCourse(t)
  BY <1>2, <1>3, <1>5 DEF Fine, OnCourse
<1>7. Fine(t)
  BY <1>2, <1>3, <1>4, <1>6 DEF Fine
<1> QED
  BY <1>1, <1>7, BecomeInv

-----------------------------------------------------------------------------

LEMMA SocketsStepInv == ASSUME SocketInv, NEW c \in Clients, SocketsStep(c) PROVE SocketInv'
  BY ConnectInv, VerifyInv, JoinRoomInv, FinishJoinRoomInv, JoinReceiptInv,
     FinishJoinReceiptInv, LeaveInv DEF SocketsStep

LEMMA SameSocketInv == ASSUME SocketInv, UNCHANGED socket PROVE SocketInv'
  BY DEF SocketInv, Fine, SocketRow, JoinsOK, OnCourse, Good

LEMMA LiveInitInv == ASSUME LiveInit PROVE SocketInv
<1>1. Fine(Off) /\ Fine([Off EXCEPT !.phase = "open"])
  BY FinePublic
<1>2. Fine(OnlineIn(StoreRoom)) /\ Fine(OnlineIn(StationRoom))
  BY FineOnline, RealtimeAssumption
<1> QED
  BY <1>1, <1>2 DEF LiveInit, SocketInv, Offline

LEMMA LiveNextInv == ASSUME SocketInv, [LiveNext]_allVars PROVE SocketInv'
<1>1. ASSUME NEW r \in Requests, Take(r) \/ Serve(r) \/ Emit(r) PROVE SocketInv'
  <2>1. UNCHANGED socket
    BY <1>1 DEF Take, Serve, Emit, Quiet, EmitOrderCreated, EmitOrderUpdated,
      EmitOrderStationItemUpdated, LoadReceipt, EmitReceiptUpdated
  <2> QED
    BY <2>1, SameSocketInv
<1>2. CASE LoadTill \/ LoadDisplay
  <2>1. PICK c \in Clients, room \in OwnerRooms : socket' = [socket EXCEPT ![c] = OnlineIn(room)]
    BY <1>2, RealtimeAssumption DEF LoadTill, LoadDisplay
  <2>2. Fine(OnlineIn(room))
    BY FineOnline
  <2>3. lapsed' = lapsed
    BY <1>2 DEF LoadTill, LoadDisplay
  <2> QED
    BY <2>1, <2>2, <2>3, BecomeInv DEF Become
<1>3. CASE FindByToken
  BY <1>3, SameSocketInv DEF FindByToken
<1>4. CASE FollowReceipt
  <2>1. JoinReceipt(Page) \/ FinishJoinReceipt(Page) \/ UNCHANGED socket
    BY <1>4 DEF FollowReceipt, Lapse
  <2> QED
    BY <2>1, JoinReceiptInv, FinishJoinReceiptInv, SameSocketInv, RealtimeAssumption
<1>5. CASE Visit
  <2>1. SocketsStep(Page) \/ UNCHANGED socket
    BY <1>5 DEF Visit, Lapse
  <2> QED
    BY <2>1, SocketsStepInv, SameSocketInv, RealtimeAssumption
<1>6. CASE Crash
  <2>1. Fine(Off) /\ Fine([Off EXCEPT !.phase = "open"])
    BY FinePublic
  <2>2. DOMAIN socket' = Clients /\ \A c \in Clients : Fine(socket'[c])
    BY <1>6, <2>1 DEF Crash, Offline
  <2> QED
    BY <2>2 DEF SocketInv, Fine, SocketRow, JoinsOK, OnCourse, Good
<1>7. CASE UNCHANGED allVars
  BY <1>7, SameSocketInv DEF allVars
<1> QED
  BY <1>1, <1>2, <1>3, <1>4, <1>5, <1>6, <1>7 DEF LiveNext

LEMMA RoomsFollow == SocketInv => RoomsAsWanted
  BY DEF SocketInv, Fine, OnCourse, Good, RoomsAsWanted

\* Whoever connects, with whatever token, and asks for whichever rooms and
\* receipts, in whatever order its messages and the answers of the database
\* come: a socket is in no room its token is not good for, and in the rooms
\* it asked for when its handlers are done.
THEOREM RoomsHold == LiveSpec => []RoomsAsWanted
<1>1. LiveInit => SocketInv
  BY LiveInitInv
<1>2. SocketInv /\ [LiveNext]_allVars => SocketInv'
  BY LiveNextInv
<1> QED
  BY <1>1, <1>2, RoomsFollow, PTL DEF LiveSpec

-----------------------------------------------------------------------------
(* The order services, while the gateway listens. *)

\* The gateway adds to what the handlers do; it keeps them from nothing but
\* removing orders.
LEMMA HandlersStay == ASSUME [LiveNext]_allVars PROVE [Next]_vars
<1>1. ASSUME NEW r \in Requests, Take(r) PROVE Request(r)
  BY <1>1 DEF Take, Request, OrdersRequest
<1>2. ASSUME NEW r \in Requests, Serve(r) PROVE Step(r)
  BY <1>2 DEF Serve, SaveAndTell, ServeAndTell, CompleteAndTell, Untold, Step, OrdersStep,
              StationItemsStep
<1>3. ASSUME NEW r \in Requests, Emit(r) PROVE UNCHANGED vars
  BY <1>3 DEF Emit, EmitOrderCreated, EmitOrderUpdated, EmitOrderStationItemUpdated,
              LoadReceipt, EmitReceiptUpdated, Quiet
<1>4. CASE LoadTill \/ LoadDisplay \/ FindByToken \/ FollowReceipt \/ Visit
  BY <1>4 DEF LoadTill, LoadDisplay, FindByToken, FollowReceipt, Visit
<1>5. CASE Crash
  BY <1>5 DEF Crash, Next
<1>6. CASE UNCHANGED allVars
  BY <1>6 DEF allVars
<1> QED BY <1>1, <1>2, <1>3, <1>4, <1>5, <1>6 DEF LiveNext, Next

\* A handler that is creating an order: nobody else knows it, and it has no
\* copies of items.
Makes(r) == req[r].op = "create" /\ req[r].pc \in {"clear", "build", "save"}

NewAlone ==
  \A r \in Requests :
    Makes(r) =>
      /\ req[r].held = NoRows /\ req[r].order \notin DOMAIN orders
      /\ \A s \in Requests \ {r} : req[s].order # req[r].order

\* The ids of payments are handed out once.
Pays(r) == req[r].pc \in {"check", "charge"}

PaysApart ==
  /\ \A p \in DOMAIN payments : p <= ids.payment
  /\ \A r \in Requests :
       Pays(r) =>
         /\ req[r].item <= ids.payment /\ req[r].item \notin DOMAIN payments
         /\ \A s \in Requests \ {r} : Pays(s) => req[s].item # req[r].item

HandlersInv == TypeInv /\ OrdersHanded /\ SnapInv /\ NewAlone /\ PaysApart

\* A step that leaves its handler with no order, that of a row, the one it
\* had, or the next.
LEMMA AloneKept ==
  ASSUME TypeInv, OrdersHanded, NewAlone, NEW r \in Requests, Others(r),
         DOMAIN orders' \subseteq DOMAIN orders \cup {req[r].order},
         Makes(r)' => /\ req'[r].held = NoRows /\ req'[r].order \notin DOMAIN orders'
                      /\ \A s \in Requests \ {r} : req[s].order # req'[r].order,
         req'[r].order \in DOMAIN orders \cup {req[r].order, NoOrder, ids.order + 1}
  PROVE  NewAlone'
<1>1. ASSUME NEW s \in Requests, s # r, Makes(s)
      PROVE  req'[r].order # req[s].order
  <2>1. req[s].order # NoOrder /\ req[s].order # ids.order + 1
    BY <1>1, IdsKnown DEF Makes, StageOK, OrderIds, NoOrder, OrdersHanded
  <2> QED BY <1>1, <2>1 DEF NewAlone
<1>2. ASSUME NEW s \in Requests, s # r, Makes(s)'
      PROVE  /\ req'[s].held = NoRows /\ req'[s].order \notin DOMAIN orders'
             /\ \A t \in Requests \ {s} : req'[t].order # req'[s].order
  <2>1. req'[s] = req[s] /\ Makes(s)
    BY <1>2 DEF Others, Makes
  <2>2. req[r].order # req[s].order
    BY <1>2, <2>1 DEF NewAlone
  <2> QED BY <1>1, <1>2, <2>1, <2>2 DEF NewAlone, Others
<1> QED BY <1>2 DEF NewAlone, Others

\* A step that makes no order of its handler's own.
LEMMA NotMaking ==
  ASSUME TypeInv, OrdersHanded, NewAlone, NEW r \in Requests, Others(r),
         DOMAIN orders' \subseteq DOMAIN orders \cup {req[r].order}, ~Makes(r)',
         req'[r].order \in DOMAIN orders \cup {req[r].order, NoOrder}
  PROVE  NewAlone'
BY AloneKept

LEMMA MakerDone ==
  ASSUME TypeInv, OrdersHanded, NewAlone, NEW r \in Requests, Done(r),
         DOMAIN orders' \subseteq DOMAIN orders \cup {req[r].order}
  PROVE  NewAlone'
BY NotMaking, IdleValues DEF Done, Makes

LEMMA NextNewAlone ==
  ASSUME TypeInv, OrdersHanded, NewAlone, [Next]_vars
  PROVE  NewAlone'
<1>1. ASSUME NEW r \in Requests, OrdersRequest(r) \/ LoadTask(r) \/ LoadForPay(r)
      PROVE  NewAlone'
  <2>1. CASE CreateOrder(r)
    <3>1. \A s \in Requests \ {r} : req[s].order # ids.order + 1
      BY IdsKnown DEF OrdersHanded, LocalsOK, OrderIds, NoOrder
    <3>2. ids.order + 1 \notin DOMAIN orders
      BY IdsKnown DEF OrdersHanded
    <3> QED BY <2>1, <3>1, <3>2, CreateOrderMoves, AloneKept DEF db
  <2>2. CASE LoadForUpdate(r)
    BY <2>2, LoadForUpdateMoves, NotMaking DEF db, Makes
  <2>3. CASE LoadForRemove(r)
    BY <2>3, LoadForRemoveMoves, NotMaking DEF db, Makes
  <2>4. CASE LoadTask(r)
    BY <2>4, LoadTaskMoves, NotMaking DEF db, Makes, TypeInv, RefInt
  <2>5. CASE LoadForPay(r)
    BY <2>5, LoadForPayMoves, NotMaking DEF db, Makes
  <2> QED BY <1>1, <2>1, <2>2, <2>3, <2>4, <2>5 DEF OrdersRequest
<1>2. ASSUME NEW r \in Requests, OrdersStep(r)
      PROVE  NewAlone'
  <2>1. CASE ClearItems(r)
    <3>1. Makes(r)' => Makes(r)
      BY <2>1, ClearItemsMoves DEF Makes, At
    <3>2. Makes(r)' => /\ req'[r].held = NoRows /\ req'[r].order \notin DOMAIN orders'
                       /\ \A s \in Requests \ {r} : req[s].order # req'[r].order
      BY <2>1, <3>1, ClearItemsMoves DEF ClearItems, NewAlone
    <3> QED BY <2>1, <3>2, ClearItemsMoves, AloneKept DEF ClearItems
  <2>2. CASE BuildItem(r)
    <3>1. Makes(r)' => Makes(r)
      BY <2>2, BuildItemMoves DEF Makes, At
    <3> QED BY <2>2, <3>1, BuildItemMoves, AloneKept DEF db, NewAlone
  <2>3. CASE RejectItem(r)
    BY <2>3, FinishDone, MakerDone DEF RejectItem, db
  <2>4. CASE SaveBuilt(r)
    <3>1. DOMAIN orders' \subseteq DOMAIN orders \cup {req[r].order}
      BY <2>4 DEF SaveBuilt, SaveOrder, SaveOrderRow, Put, Row
    <3> QED BY <2>4, <3>1, FinishDone, MakerDone DEF SaveBuilt
  <2>5. CASE RemoveOrder(r)
    <3>1. DOMAIN orders' \subseteq DOMAIN orders
      BY <2>5 DEF RemoveOrder, DeleteOrderRow, Without, Restrict
    <3> QED BY <2>5, <3>1, FinishDone, MakerDone DEF RemoveOrder
  <2> QED BY <1>2, <2>1, <2>2, <2>3, <2>4, <2>5 DEF OrdersStep
<1>3. ASSUME NEW r \in Requests, StationItemsStep(r) \/ PaymentsStep(r)
      PROVE  NewAlone'
  <2>1. CASE SaveTask(r)
    BY <2>1, SaveTaskMoves, MakerDone, NotMaking DEF SaveTask, Onward, Makes
  <2>2. CASE RejectTask(r) \/ RefusePayment(r) \/ ChargeOrder(r) \/ ChargeFails(r)
    BY <2>2, FinishDone, MakerDone DEF RejectTask, RefusePayment, ChargeOrder, ChargeFails, db
  <2>3. CASE SyncCompletion(r)
    BY <2>3, SyncCompletionMoves, MakerDone, NotMaking DEF Onward, Makes, db
  <2>4. CASE CompleteOrder(r)
    <3>1. DOMAIN orders' \subseteq DOMAIN orders \cup {req[r].order}
      BY <2>4 DEF CompleteOrder, SaveOrderRow, Put, Row
    <3> QED BY <2>4, <3>1, FinishDone, MakerDone DEF CompleteOrder
  <2>5. CASE CheckPayment(r)
    BY <2>5, CheckPaymentMoves, NotMaking DEF Onward, Makes, db
  <2> QED BY <1>3, <2>1, <2>2, <2>3, <2>4, <2>5 DEF StationItemsStep, PaymentsStep
<1>4. CASE \E p \in Products : ChangeMenu(p)
  BY <1>4 DEF ChangeMenu, db, NewAlone, Makes
<1>5. CASE Restart
  BY <1>5, IdleValues DEF Restart, NewAlone, Makes
<1>6. CASE UNCHANGED vars
  BY <1>6 DEF vars, NewAlone, Makes
<1> QED BY <1>1, <1>2, <1>3, <1>4, <1>5, <1>6 DEF Next, Step, Request

\* A step that pays nothing: it leaves its handler with the payment it had,
\* or with the next one.
LEMMA ApartKept ==
  ASSUME TypeInv, PaysApart, NEW r \in Requests, Others(r), payments' = payments,
         ids'.payment \in {ids.payment, ids.payment + 1},
         Pays(r)' => \/ Pays(r) /\ req'[r].item = req[r].item
                     \/ req'[r].item = ids.payment + 1 /\ ids'.payment = ids.payment + 1
  PROVE  PaysApart'
<1>1. /\ ids.payment \in Nat /\ ids'.payment \in Nat /\ ids.payment <= ids'.payment
      /\ \A p \in DOMAIN payments : p \in Nat
      /\ \A s \in Requests : req[s].item \in Nat
  BY IdsKnown, BoundsAreNat DEF TypeInv, TypeOK, TablesOK, LocalsOK, PaymentIds
<1>2. \A p \in DOMAIN payments' : p <= ids'.payment
  BY <1>1 DEF PaysApart
<1>3. Pays(r)' =>
        /\ req'[r].item <= ids'.payment /\ req'[r].item \notin DOMAIN payments
        /\ \A s \in Requests \ {r} : Pays(s) => req[s].item # req'[r].item
  BY <1>1 DEF PaysApart
<1>4. ASSUME NEW s \in Requests, s # r, Pays(s)
      PROVE  /\ req[s].item <= ids'.payment /\ req[s].item \notin DOMAIN payments'
             /\ Pays(r)' => req'[r].item # req[s].item
  BY <1>1, <1>3, <1>4 DEF PaysApart
<1>5. \A s \in Requests \ {r} : req'[s] = req[s] /\ (Pays(s)' <=> Pays(s))
  BY DEF Others, Pays
<1>6. ASSUME NEW s \in Requests, Pays(s)'
      PROVE  /\ req'[s].item <= ids'.payment /\ req'[s].item \notin DOMAIN payments'
             /\ \A t \in Requests \ {s} : Pays(t)' => req'[t].item # req'[s].item
  <2>1. CASE s = r
    BY <1>3, <1>5, <1>6, <2>1
  <2>2. CASE s # r
    BY <1>4, <1>5, <1>6, <2>2 DEF PaysApart
  <2> QED BY <2>1, <2>2
<1> QED BY <1>2, <1>6 DEF PaysApart

LEMMA ApartDone ==
  ASSUME TypeInv, PaysApart, NEW r \in Requests, Done(r), payments' = payments
  PROVE  PaysApart'
BY ApartKept, IdleValues DEF Done, Pays

LEMMA ChargeApart ==
  ASSUME TypeInv, PaysApart, NEW r \in Requests, ChargeOrder(r)
  PROVE  PaysApart'
<1>1. Done(r) /\ Pays(r)
  BY FinishDone DEF ChargeOrder, At, Pays
<1>2. DOMAIN payments' = DOMAIN payments \cup {req[r].item}
  BY DEF ChargeOrder, Put, Row
<1>3. ~Pays(r)' /\ \A s \in Requests \ {r} : req'[s] = req[s] /\ (Pays(s)' <=> Pays(s))
  BY <1>1, IdleValues DEF Done, Others, Pays
<1> QED BY <1>1, <1>2, <1>3 DEF PaysApart, Done

LEMMA NextPaysApart ==
  ASSUME TypeInv, PaysApart, [Next]_vars
  PROVE  PaysApart'
<1>1. ASSUME NEW r \in Requests, OrdersRequest(r) \/ LoadTask(r) \/ LoadForPay(r)
      PROVE  PaysApart'
  <2>1. CASE CreateOrder(r)
    BY <2>1, CreateOrderMoves, ApartKept DEF db, Pays
  <2>2. CASE LoadForUpdate(r)
    BY <2>2, LoadForUpdateMoves, ApartKept DEF db, Pays
  <2>3. CASE LoadForRemove(r)
    BY <2>3, LoadForRemoveMoves, ApartKept DEF db, Pays
  <2>4. CASE LoadTask(r)
    BY <2>4, LoadTaskMoves, ApartKept DEF db, Pays
  <2>5. CASE LoadForPay(r)
    BY <2>5, LoadForPayMoves, ApartKept DEF db
  <2> QED BY <1>1, <2>1, <2>2, <2>3, <2>4, <2>5 DEF OrdersRequest
<1>2. ASSUME NEW r \in Requests, OrdersStep(r)
      PROVE  PaysApart'
  <2>1. CASE ClearItems(r)
    BY <2>1, ClearItemsMoves, ApartKept DEF ClearItems, Pays
  <2>2. CASE BuildItem(r)
    BY <2>2, BuildItemMoves, ApartKept DEF db, Pays
  <2>3. CASE RejectItem(r) \/ SaveBuilt(r)
    BY <2>3, FinishDone, ApartDone DEF RejectItem, SaveBuilt, db
  <2>4. CASE RemoveOrder(r)
    <3>1. Done(r) /\ DOMAIN payments' \subseteq DOMAIN payments
      BY <2>4, FinishDone DEF RemoveOrder, DeleteOrderRow, Without, Restrict
    <3>2. ~Pays(r)' /\ \A s \in Requests \ {r} : req'[s] = req[s] /\ (Pays(s)' <=> Pays(s))
      BY <3>1, IdleValues DEF Done, Others, Pays
    <3> QED BY <3>1, <3>2 DEF PaysApart, Done
  <2> QED BY <1>2, <2>1, <2>2, <2>3, <2>4 DEF OrdersStep
<1>3. ASSUME NEW r \in Requests, StationItemsStep(r) \/ PaymentsStep(r)
      PROVE  PaysApart'
  <2>1. CASE SaveTask(r)
    BY <2>1, SaveTaskMoves, ApartDone, ApartKept DEF SaveTask, Onward, Pays
  <2>2. CASE RejectTask(r) \/ RefusePayment(r) \/ CompleteOrder(r) \/ ChargeFails(r)
    BY <2>2, FinishDone, ApartDone
       DEF RejectTask, RefusePayment, CompleteOrder, ChargeFails, db
  <2>3. CASE SyncCompletion(r)
    BY <2>3, SyncCompletionMoves, ApartDone, ApartKept DEF Onward, Pays, db
  <2>4. CASE ChargeOrder(r)
    BY <2>4, ChargeApart
  <2>5. CASE CheckPayment(r)
    BY <2>5, CheckPaymentMoves, ApartKept DEF Onward, Pays, At, db
  <2> QED BY <1>3, <2>1, <2>2, <2>3, <2>4, <2>5 DEF StationItemsStep, PaymentsStep
<1>4. CASE \E p \in Products : ChangeMenu(p)
  BY <1>4 DEF ChangeMenu, db, PaysApart, Pays
<1>5. CASE Restart
  BY <1>5, IdleValues DEF Restart, PaysApart, Pays, db
<1>6. CASE UNCHANGED vars
  BY <1>6 DEF vars, PaysApart, Pays
<1> QED BY <1>1, <1>2, <1>3, <1>4, <1>5, <1>6 DEF Next, Step, Request

LEMMA HandlersInit == ASSUME Init PROVE HandlersInv
<1>1. \A r \in Requests : req[r] = Idle
  BY DEF Init
<1>2. NewAlone
  BY <1>1, IdleValues DEF NewAlone, Makes
<1>3. PaysApart
  <2>1. DOMAIN payments = {}
    BY DEF Init, NoRows
  <2> QED BY <1>1, <2>1, IdleValues DEF PaysApart, Pays
<1>4. OrdersHanded
  <2>1. DOMAIN orders = {} /\ ids.order = 0 /\ NoOrder = 0
    BY DEF Init, NoRows, NoOrder
  <2> QED BY <1>1, <2>1, IdleValues DEF OrdersHanded
<1> QED BY <1>2, <1>3, <1>4, InitInv, InitSnap DEF HandlersInv

LEMMA HandlersNext == ASSUME HandlersInv, [LiveNext]_allVars PROVE HandlersInv'
<1>1. [Next]_vars /\ TypeInv /\ OrdersHanded /\ SnapInv /\ NewAlone /\ PaysApart
  BY HandlersStay DEF HandlersInv
<1> QED BY <1>1, NextInv, NextHanded, NextKeeps, NextNewAlone, NextPaysApart DEF HandlersInv

-----------------------------------------------------------------------------
(* Events. *)

MailOK ==
  /\ DOMAIN mail = Requests
  /\ \A r \in Requests :
       /\ DOMAIN mail[r] = DOMAIN NoMail
       /\ mail[r].about = "none" => mail[r].stage = "done"
       /\ mail[r].stage \in {"look", "push"} => mail[r].about = "updated"
       /\ mail[r].stage = "send" => mail[r].about \in {"created", "updated", "task"}
       /\ mail[r].about \in {"created", "task"} => mail[r].stage = "send"
       /\ mail[r].about \in {"created", "updated"} => mail[r].order \in OrderIds

ShownOK == DOMAIN shown = DOMAIN Nothing

EventsOK == MailOK /\ ShownOK

LEMMA NoMailValues ==
  /\ NoMail.about = "none" /\ NoMail.stage = "done" /\ NoMail.order = NoOrder /\ NoMail.item = 0
  /\ DOMAIN NoMail = {"about", "stage", "order", "item", "status", "room"}
BY DEF NoMail

LEMMA WrittenValues ==
  ASSUME NEW r \in Requests, NEW what, NEW room
  PROVE  /\ Written(r, what, room).about = what /\ Written(r, what, room).stage = "send"
         /\ Written(r, what, room).order = req[r].order /\ Written(r, what, room).item = req[r].item
         /\ DOMAIN Written(r, what, room) = DOMAIN NoMail
BY DEF Written, NoMail

\* The mail of the others stays.
LEMMA PostValues ==
  ASSUME MailOK, NEW r \in Requests, NEW m, Post(r, m)
  PROVE  mail'[r] = m /\ DOMAIN mail' = Requests
         /\ \A s \in Requests \ {r} : mail'[s] = mail[s]
BY DEF Post, MailOK

LEMMA PostOK ==
  ASSUME MailOK, NEW r \in Requests, NEW m, Post(r, m),
         DOMAIN m = DOMAIN NoMail,
         m.about = "none" => m.stage = "done",
         m.stage \in {"look", "push"} => m.about = "updated",
         m.stage = "send" => m.about \in {"created", "updated", "task"},
         m.about \in {"created", "task"} => m.stage = "send",
         m.about \in {"created", "updated"} => m.order \in OrderIds
  PROVE  MailOK'
<1>1. mail'[r] = m /\ DOMAIN mail' = Requests /\ \A s \in Requests \ {r} : mail'[s] = mail[s]
  BY PostValues
<1> QED BY <1>1 DEF MailOK

LEMMA SentOK == ASSUME MailOK, NEW r \in Requests, Post(r, NoMail) PROVE MailOK'
BY PostOK, NoMailValues

\* What is looked at changes in one of its parts, or two, or not at all.
LEMMA ShownStays ==
  ASSUME ShownOK,
         \/ shown' = shown
         \/ \E a : shown' = [shown EXCEPT !.till = a]
         \/ \E a : shown' = [shown EXCEPT !.display = a]
         \/ \E a : shown' = [shown EXCEPT !.status = a]
         \/ \E a, b : shown' = [shown EXCEPT !.till = a, !.display = b]
         \/ \E a, b : shown' = [shown EXCEPT !.receipt = a, !.status = b]
  PROVE  ShownOK'
BY DEF ShownOK

\* What the steps of the gateway make of an event, and of what is shown.
LEMMA CreatedMoves ==
  ASSUME EventsOK, NEW r \in Requests, EmitOrderCreated(r)
  PROVE  /\ mail[r].about = "created" /\ mail[r].stage = "send" /\ Post(r, NoMail)
         /\ shown'.till = TillReads(mail[r].order)
         /\ shown'.display = DisplayReads(StationRoom, TasksOf(mail[r].order))
         /\ shown'.receipt = shown.receipt /\ shown'.status = shown.status
         /\ EventsOK' /\ UNCHANGED vars
<1>1. ShownOK'
  BY ShownStays DEF EventsOK, EmitOrderCreated
<1> QED BY <1>1, SentOK DEF EventsOK, EmitOrderCreated, Sending, ShownOK, Nothing, Quiet

LEMMA UpdatedMoves ==
  ASSUME EventsOK, NEW r \in Requests, EmitOrderUpdated(r)
  PROVE  /\ mail[r].about = "updated" /\ mail[r].stage = "send"
         /\ \E m : /\ Post(r, m) /\ m.about = "updated" /\ m.stage = "look"
                   /\ m.order = mail[r].order /\ m.item = mail[r].item
         /\ shown'.till = TillReads(mail[r].order)
         /\ shown'.display = shown.display
         /\ shown'.receipt = shown.receipt /\ shown'.status = shown.status
         /\ EventsOK' /\ UNCHANGED vars
<1>1. ShownOK'
  BY ShownStays DEF EventsOK, EmitOrderUpdated
<1> DEFINE m == [mail[r] EXCEPT !.stage = "look"]
<1>2. Post(r, m) /\ mail[r].about = "updated" /\ mail[r].stage = "send"
  BY DEF EmitOrderUpdated, Sending
<1>3. /\ m.about = mail[r].about /\ m.stage = "look" /\ m.order = mail[r].order
      /\ m.item = mail[r].item /\ DOMAIN m = DOMAIN NoMail /\ mail[r].order \in OrderIds
  BY <1>2, NoMailValues DEF EventsOK, MailOK
<1> HIDE DEF m
<1>4. MailOK'
  BY <1>2, <1>3, PostOK DEF EventsOK
<1> QED BY <1>1, <1>2, <1>3, <1>4 DEF EventsOK, EmitOrderUpdated, ShownOK, Nothing, Quiet

LEMMA TaskMoves ==
  ASSUME EventsOK, NEW r \in Requests, EmitOrderStationItemUpdated(r)
  PROVE  /\ mail[r].about = "task" /\ mail[r].stage = "send" /\ Post(r, NoMail)
         /\ shown'.display = DisplayReads(mail[r].room, {mail[r].item})
         /\ shown'.till = shown.till
         /\ shown'.receipt = shown.receipt /\ shown'.status = shown.status
         /\ EventsOK' /\ UNCHANGED vars
<1>1. ShownOK'
  BY ShownStays DEF EventsOK, EmitOrderStationItemUpdated
<1> QED BY <1>1, SentOK
        DEF EventsOK, EmitOrderStationItemUpdated, Sending, ShownOK, Nothing, Quiet

LEMMA LoadMoves ==
  ASSUME EventsOK, NEW r \in Requests, LoadReceipt(r)
  PROVE  /\ mail[r].about = "updated" /\ mail[r].stage = "look"
         /\ \/ PaymentsOf(mail[r].order) = {} /\ Post(r, NoMail)
            \/ \E m : /\ Post(r, m) /\ m.about = "updated" /\ m.stage = "push"
                      /\ m.order = mail[r].order /\ m.item \in PaymentsOf(mail[r].order)
                      /\ m.status = orders[mail[r].order]
         /\ EventsOK' /\ UNCHANGED <<vars, shown, missed>>
<1>1. mail[r].stage = "look" /\ mail[r].about = "updated" /\ UNCHANGED <<vars, shown, missed>>
  BY DEF LoadReceipt, Quiet, EventsOK, MailOK
<1>2. CASE PaymentsOf(mail[r].order) = {}
  <2>1. Post(r, NoMail)
    BY <1>2 DEF LoadReceipt
  <2> QED BY <1>1, <1>2, <2>1, SentOK DEF EventsOK, ShownOK
<1>3. CASE PaymentsOf(mail[r].order) # {}
  <2>1. PICK p \in PaymentsOf(mail[r].order) :
          Post(r, [mail[r] EXCEPT !.stage = "push", !.item = p, !.status = StatusFor(r)])
    BY <1>3 DEF LoadReceipt
  <2> DEFINE m == [mail[r] EXCEPT !.stage = "push", !.item = p, !.status = StatusFor(r)]
  <2>2. /\ m.about = mail[r].about /\ m.stage = "push" /\ m.order = mail[r].order
        /\ m.item = p /\ m.status = orders[mail[r].order] /\ DOMAIN m = DOMAIN NoMail
        /\ mail[r].order \in OrderIds
    BY <1>1, NoMailValues DEF EventsOK, MailOK, StatusFor
  <2>3. Post(r, m)
    BY <2>1
  <2> HIDE DEF m
  <2>4. MailOK'
    BY <1>1, <2>2, <2>3, PostOK DEF EventsOK
  <2> QED BY <1>1, <2>2, <2>3, <2>4 DEF EventsOK, ShownOK
<1> QED BY <1>2, <1>3

LEMMA PushMoves ==
  ASSUME EventsOK, NEW r \in Requests, EmitReceiptUpdated(r)
  PROVE  /\ mail[r].about = "updated" /\ mail[r].stage = "push" /\ Post(r, NoMail)
         /\ shown'.till = shown.till /\ shown'.display = shown.display
         /\ shown'.receipt = shown.receipt
         /\ shown'.status = IF shown.receipt = mail[r].item /\ Hears(Page, mail[r].item)
                               /\ Readable(mail[r].item)
                            THEN mail[r].status ELSE shown.status
         /\ EventsOK' /\ UNCHANGED vars
<1>1. ShownOK'
  BY ShownStays DEF EventsOK, EmitReceiptUpdated
<1>2. mail[r].stage = "push" /\ mail[r].about = "updated" /\ Post(r, NoMail) /\ UNCHANGED vars
  BY DEF EventsOK, MailOK, EmitReceiptUpdated, Quiet
<1>3. /\ shown'.till = shown.till /\ shown'.display = shown.display
      /\ shown'.receipt = shown.receipt
      /\ shown'.status = IF shown.receipt = mail[r].item /\ Hears(Page, mail[r].item)
                            /\ Readable(mail[r].item)
                         THEN mail[r].status ELSE shown.status
  BY DEF EventsOK, EmitReceiptUpdated, ShownOK, Nothing
<1> QED BY <1>1, <1>2, <1>3, SentOK DEF EventsOK

LEMMA WritePosts ==
  ASSUME EventsOK, HandlersInv, NEW r \in Requests, NEW what \in {"created", "updated", "task"},
         NEW room, Post(r, Written(r, what, room)), what # "task" => req[r].order \in OrderIds
  PROVE  MailOK'
BY WrittenValues, PostOK DEF EventsOK

LEMMA ServeEvents ==
  ASSUME EventsOK, HandlersInv, NEW r \in Requests, Serve(r)
  PROVE  EventsOK'
<1>1. ShownOK'
  BY DEF Serve, EventsOK, ShownOK
<1>2. CASE SaveAndTell(r)
  <2>1. req[r].order \in OrderIds
    BY <1>2, IdsKnown DEF SaveAndTell, SaveBuilt, At, StageOK, HandlersInv
  <2> QED BY <1>1, <1>2, <2>1, WritePosts DEF SaveAndTell, EventsOK
<1>3. CASE ServeAndTell(r)
  <2>1. PICK room : Post(r, Written(r, "task", room))
    BY <1>3 DEF ServeAndTell
  <2> QED BY <1>1, <2>1, WritePosts DEF EventsOK
<1>4. CASE CompleteAndTell(r)
  <2>1. req[r].order \in OrderIds
    BY <1>4, IdsKnown DEF CompleteAndTell, CompleteOrder, At, StageOK, HandlersInv
  <2> QED BY <1>1, <1>4, <2>1, WritePosts DEF CompleteAndTell, EventsOK
<1>5. CASE Untold(r)
  BY <1>1, <1>5 DEF Untold, EventsOK, MailOK
<1> QED BY <1>2, <1>3, <1>4, <1>5 DEF Serve

LEMMA EventsNext ==
  ASSUME EventsOK, HandlersInv, [LiveNext]_allVars
  PROVE  EventsOK'
<1>1. ASSUME UNCHANGED <<mail, shown>> PROVE EventsOK'
  BY <1>1 DEF EventsOK, MailOK, ShownOK
<1>2. ASSUME NEW r \in Requests, Take(r) PROVE EventsOK'
  BY <1>1, <1>2 DEF Take, live
<1>3. ASSUME NEW r \in Requests, Serve(r) PROVE EventsOK'
  BY <1>3, ServeEvents
<1>4. ASSUME NEW r \in Requests, Emit(r) PROVE EventsOK'
  BY <1>4, CreatedMoves, UpdatedMoves, TaskMoves, LoadMoves, PushMoves DEF Emit
<1>5. CASE LoadTill
  BY <1>5, ShownStays DEF LoadTill, EventsOK, MailOK
<1>6. CASE LoadDisplay
  BY <1>6, ShownStays DEF LoadDisplay, EventsOK, MailOK
<1>7. CASE FindByToken
  BY <1>7, ShownStays DEF FindByToken, EventsOK, MailOK
<1>8. CASE FollowReceipt \/ Visit \/ UNCHANGED allVars
  BY <1>1, <1>8 DEF FollowReceipt, Visit, live, allVars
<1>9. CASE Crash
  BY <1>9, NoMailValues DEF Crash, EventsOK, MailOK, ShownOK
<1> QED
  BY <1>2, <1>3, <1>4, <1>5, <1>6, <1>7, <1>8, <1>9 DEF LiveNext

LEMMA EventsInit == ASSUME LiveInit PROVE EventsOK
BY NoMailValues DEF LiveInit, EventsOK, MailOK, ShownOK

-----------------------------------------------------------------------------
(* The till. *)

\* What the till shows of an order is its row.
OnTill(o) == o \in DOMAIN shown.till /\ shown.till[o] = orders[o]

\* An event of the order has yet to leave for the store.
TellsTill(m, o) ==
  m.order = o /\ m.stage = "send" /\ m.about \in {"created", "updated"}

TillInv ==
  Till \notin missed =>
    \A o \in DOMAIN orders : OnTill(o) \/ \E r \in Requests : TellsTill(mail[r], o)

\* A save of an order, with the event that follows it.
LEMMA SaveForTill ==
  ASSUME TillInv, MailOK, NEW r \in Requests, NEW what \in {"created", "updated"}, NEW status,
         Post(r, Written(r, what, StoreRoom)), SaveOrderRow(req[r].order, status), ~Busy(r),
         shown' = shown, missed \subseteq missed'
  PROVE  TillInv'
<1> DEFINE o == req[r].order
<1>1. /\ mail'[r] = Written(r, what, StoreRoom) /\ TellsTill(mail'[r], o)
      /\ \A s \in Requests \ {r} : mail'[s] = mail[s]
  BY PostValues, WrittenValues DEF TellsTill
<1>2. DOMAIN orders' = DOMAIN orders \cup {o} /\ \A p \in DOMAIN orders \ {o} : orders'[p] = orders[p]
  BY DEF SaveOrderRow, Put, Row
<1>3. \A p : ~TellsTill(mail[r], p)
  BY NoMailValues DEF TellsTill, Busy
<1> HIDE DEF o
<1>4. ASSUME Till \notin missed', NEW p \in DOMAIN orders'
      PROVE  OnTill(p)' \/ \E s \in Requests : TellsTill(mail'[s], p)
  <2>1. CASE p = o
    BY <1>1, <2>1
  <2>2. CASE p # o
    <3>1. OnTill(p) \/ \E s \in Requests : TellsTill(mail[s], p)
      BY <1>2, <1>4, <2>2 DEF TillInv
    <3>2. CASE OnTill(p)
      BY <1>2, <1>4, <2>2, <3>2 DEF OnTill
    <3>3. CASE \E s \in Requests : TellsTill(mail[s], p)
      BY <1>1, <1>3, <3>3
    <3> QED BY <3>1, <3>2, <3>3
  <2> QED BY <2>1, <2>2
<1> QED BY <1>4 DEF TillInv, TellsTill

\* A step after which the till shows, and the events tell, what they did.
LEMMA SameForTill ==
  ASSUME TillInv, Till \in missed => Till \in missed',
         UNCHANGED orders, shown'.till = shown.till,
         \A o : \A r \in Requests : TellsTill(mail[r], o) => TellsTill(mail'[r], o)
  PROVE  TillInv'
BY DEF TillInv, OnTill, TellsTill

\* The event reaches the till, or the till knows that it missed something.
LEMMA ToldTill ==
  ASSUME TillInv, NEW r \in Requests, UNCHANGED orders,
         missed \cup Deaf(Till, StoreRoom) \subseteq missed',
         shown'.till = TillReads(mail[r].order),
         \A s \in Requests \ {r} : mail'[s] = mail[s]
  PROVE  TillInv'
<1> DEFINE o == mail[r].order
<1>1. ASSUME Till \notin missed', NEW p \in DOMAIN orders
      PROVE  OnTill(p)' \/ \E s \in Requests : TellsTill(mail'[s], p)
  <2>1. Hears(Till, StoreRoom) /\ Till \notin missed
    BY <1>1 DEF Deaf
  <2>2. shown'.till = IF o \in DOMAIN orders THEN Put(Row(o, orders[o]), shown.till) ELSE shown.till
    BY <2>1 DEF TillReads
  <2>3. OnTill(p) \/ \E s \in Requests : TellsTill(mail[s], p)
    BY <1>1, <2>1 DEF TillInv
  <2>4. p = o => OnTill(p)'
    BY <1>1, <2>2 DEF OnTill, Put, Row
  <2>5. OnTill(p) => OnTill(p)'
    BY <1>1, <2>2 DEF OnTill, Put, Row
  <2>6. p # o => ~TellsTill(mail[r], p)
    BY DEF TellsTill
  <2> QED BY <2>3, <2>4, <2>5, <2>6
<1> QED BY <1>1 DEF TillInv, TellsTill

LEMMA ServeTill ==
  ASSUME TillInv, EventsOK, NEW r \in Requests, Serve(r)
  PROVE  TillInv'
<1>1. shown' = shown /\ ~Busy(r) /\ MailOK
  BY DEF Serve, EventsOK
<1>2. \A o : ~TellsTill(mail[r], o)
  BY <1>1, NoMailValues DEF TellsTill, Busy
<1>3. CASE SaveAndTell(r)
  <2>1. PICK what \in {"created", "updated"} : Post(r, Written(r, what, StoreRoom))
    BY <1>3 DEF SaveAndTell
  <2>2. SaveOrderRow(req[r].order, req[r].status) /\ missed \subseteq missed'
    BY <1>3 DEF SaveAndTell, SaveBuilt, SaveOrder
  <2> QED BY <1>1, <2>1, <2>2, SaveForTill
<1>4. CASE ServeAndTell(r)
  <2>1. orders' = orders /\ missed' = missed /\ \A s \in Requests \ {r} : mail'[s] = mail[s]
    BY <1>1, <1>4, PostValues DEF ServeAndTell, SaveTask
  <2> QED BY <1>1, <1>2, <2>1, SameForTill
<1>5. CASE CompleteAndTell(r)
  BY <1>1, <1>5, SaveForTill DEF CompleteAndTell, CompleteOrder
<1>6. CASE Untold(r)
  <2>1. orders' = orders /\ missed' = missed /\ mail' = mail
    BY <1>6 DEF Untold, ClearItems, BuildItem, RejectItem, RejectTask, SyncCompletion,
                PaymentsStep, CheckPayment, RefusePayment, ChargeOrder, ChargeFails, db
  <2> QED BY <1>1, <2>1, SameForTill
<1> QED BY <1>3, <1>4, <1>5, <1>6 DEF Serve

LEMMA EmitTill ==
  ASSUME TillInv, EventsOK, NEW r \in Requests, Emit(r)
  PROVE  TillInv'
<1>1. MailOK
  BY DEF EventsOK
<1>2. CASE EmitOrderCreated(r)
  <2>1. /\ orders' = orders /\ missed \cup Deaf(Till, StoreRoom) \subseteq missed'
        /\ shown'.till = TillReads(mail[r].order)
        /\ \A s \in Requests \ {r} : mail'[s] = mail[s]
    BY <1>1, <1>2, CreatedMoves, PostValues DEF EmitOrderCreated, vars
  <2> QED BY <2>1, ToldTill
<1>3. CASE EmitOrderUpdated(r)
  <2>1. /\ orders' = orders /\ missed \cup Deaf(Till, StoreRoom) \subseteq missed'
        /\ shown'.till = TillReads(mail[r].order)
        /\ \A s \in Requests \ {r} : mail'[s] = mail[s]
    BY <1>1, <1>3, UpdatedMoves, PostValues DEF EmitOrderUpdated, vars
  <2> QED BY <2>1, ToldTill
<1>4. CASE EmitOrderStationItemUpdated(r)
  <2>1. /\ orders' = orders /\ missed \subseteq missed' /\ shown'.till = shown.till
        /\ mail[r].about = "task" /\ \A s \in Requests \ {r} : mail'[s] = mail[s]
    BY <1>1, <1>4, TaskMoves, PostValues DEF EmitOrderStationItemUpdated, vars
  <2> QED BY <2>1, SameForTill DEF TellsTill
<1>5. CASE LoadReceipt(r)
  <2>1. /\ orders' = orders /\ missed' = missed /\ shown'.till = shown.till
        /\ mail[r].stage = "look"
    BY <1>5, LoadMoves DEF vars
  <2>2. \A s \in Requests \ {r} : mail'[s] = mail[s]
    BY <1>1, <1>5, LoadMoves, PostValues
  <2> QED BY <2>1, <2>2, SameForTill DEF TellsTill
<1>6. CASE EmitReceiptUpdated(r)
  <2>1. /\ orders' = orders /\ missed \subseteq missed' /\ shown'.till = shown.till
        /\ mail[r].stage = "push" /\ \A s \in Requests \ {r} : mail'[s] = mail[s]
    BY <1>1, <1>6, PushMoves, PostValues DEF EmitReceiptUpdated, vars
  <2> QED BY <2>1, SameForTill DEF TellsTill
<1> QED BY <1>2, <1>3, <1>4, <1>5, <1>6 DEF Emit

LEMMA TillNext ==
  ASSUME TillInv, EventsOK, [LiveNext]_allVars
  PROVE  TillInv'
<1>1. ASSUME UNCHANGED <<orders, mail, missed>>, shown'.till = shown.till PROVE TillInv'
  BY <1>1, SameForTill
<1>2. ASSUME NEW r \in Requests, Take(r) PROVE TillInv'
  BY <1>1, <1>2 DEF Take, live, CreateOrder, LoadForUpdate, LoadTask, LoadForPay, db
<1>3. ASSUME NEW r \in Requests, Serve(r) \/ Emit(r) PROVE TillInv'
  BY <1>3, ServeTill, EmitTill
<1>4. CASE LoadTill
  BY <1>4 DEF LoadTill, TillInv, OnTill, EventsOK, ShownOK, Nothing, vars
<1>5. CASE LoadDisplay
  <2>1. shown'.till = shown.till /\ orders' = orders /\ mail' = mail
    BY <1>5 DEF LoadDisplay, EventsOK, ShownOK, Nothing, vars
  <2>2. Till \in missed => Till \in missed'
    BY <1>5, RealtimeAssumption DEF LoadDisplay
  <2> QED BY <2>1, <2>2, SameForTill
<1>6. CASE FindByToken
  <2>1. shown'.till = shown.till /\ orders' = orders /\ mail' = mail
    BY <1>6 DEF FindByToken, EventsOK, ShownOK, Nothing, vars
  <2>2. Till \in missed => Till \in missed'
    BY <1>6, RealtimeAssumption DEF FindByToken
  <2> QED BY <2>1, <2>2, SameForTill
<1>7. CASE FollowReceipt \/ Visit \/ UNCHANGED allVars
  BY <1>1, <1>7 DEF FollowReceipt, Visit, live, allVars, vars
<1>8. CASE Crash
  BY <1>8 DEF Crash, TillInv
<1> QED BY <1>2, <1>3, <1>4, <1>5, <1>6, <1>7, <1>8 DEF LiveNext

LEMMA EventsHold == LiveSpec => [](HandlersInv /\ EventsOK)
<1>1. LiveInit => HandlersInv /\ EventsOK
  BY HandlersInit, EventsInit DEF LiveInit
<1>2. HandlersInv /\ EventsOK /\ [LiveNext]_allVars => (HandlersInv /\ EventsOK)'
  BY HandlersNext, EventsNext
<1> QED BY <1>1, <1>2, PTL DEF LiveSpec

\* Whatever handlers change orders at once, and however the process and the
\* connections are interrupted: a till that has missed no event shows every
\* order as its row is, once the events of the order have left.
THEOREM TillFollows == LiveSpec => []TillCurrent
<1>1. LiveInit => TillInv
  <2> SUFFICES ASSUME LiveInit PROVE TillInv
    OBVIOUS
  <2>1. DOMAIN orders = {}
    BY DEF LiveInit, Init, NoRows
  <2> QED BY <2>1 DEF TillInv
<1>2. HandlersInv /\ EventsOK /\ TillInv /\ [LiveNext]_allVars => TillInv'
  BY TillNext
<1>3. TillInv => TillCurrent
  BY DEF TillInv, TillCurrent, OnTill, TellsTill, Unsent
<1> QED BY <1>1, <1>2, <1>3, EventsHold, PTL DEF LiveSpec

-----------------------------------------------------------------------------
(* The display. *)

\* What the display shows of a station item is its row.
OnDisplay(i) == i \in DOMAIN shown.display /\ shown.display[i] = tasks[i]

TellsTask(r, i) == mail[r].about = "task" /\ mail[r].item = i

\* A handler does not take the item from the order: it has a copy of it only
\* as an item of the order, and one if it is about to save the order without
\* new items.
Knows(q, i, o) ==
  /\ i \in DOMAIN q.held => q.order = o
  /\ q.pc = "save" /\ q.built = NoRows /\ q.order = o => i \in DOMAIN q.held

\* The item came with its order, whose first event has yet to leave and will
\* find it with the order.
TellsNew(r, i) ==
  /\ mail[r].about = "created" /\ mail[r].order = items[i].order
  /\ \A s \in Requests : Knows(req[s], i, items[i].order)

DisplayInv ==
  Display \notin missed =>
    \A i \in DOMAIN tasks :
      OnDisplay(i) \/ \E r \in Requests : TellsTask(r, i) \/ TellsNew(r, i)

\* A step of a handler that leaves its order no item less, and tells which
\* station item it has changed.
LEMMA DisplayKept ==
  ASSUME DisplayInv, TypeInv, NEW r \in Requests, Others(r),
         Display \in missed => Display \in missed', shown'.display = shown.display,
         \A s \in Requests : mail[s].about # "none" => mail'[s] = mail[s],
         \A i \in DOMAIN tasks' : \/ i \in DOMAIN tasks /\ tasks'[i] = tasks[i]
                                  \/ \E s \in Requests : TellsTask(s, i)',
         \A i \in DOMAIN tasks' : items'[i] = items[i],
         \A i \in DOMAIN tasks' :
           Knows(req[r], i, items[i].order) => Knows(req'[r], i, items[i].order)
  PROVE  DisplayInv'
<1>1. ASSUME Display \notin missed', NEW i \in DOMAIN tasks'
      PROVE  OnDisplay(i)' \/ \E s \in Requests : TellsTask(s, i)' \/ TellsNew(s, i)'
  <2>1. CASE \E s \in Requests : TellsTask(s, i)'
    BY <2>1
  <2>2. CASE i \in DOMAIN tasks /\ tasks'[i] = tasks[i]
    <3>1. OnDisplay(i) \/ \E s \in Requests : TellsTask(s, i) \/ TellsNew(s, i)
      BY <1>1, <2>2 DEF DisplayInv
    <3>2. CASE OnDisplay(i)
      BY <2>2, <3>2 DEF OnDisplay
    <3>3. ASSUME NEW s \in Requests, TellsTask(s, i) PROVE TellsTask(s, i)'
      BY <3>3 DEF TellsTask
    <3>4. ASSUME NEW s \in Requests, TellsNew(s, i) PROVE TellsNew(s, i)'
      <4>1. mail'[s] = mail[s] /\ mail[s].about = "created" /\ mail[s].order = items[i].order
        BY <3>4 DEF TellsNew
      <4>2. items'[i].order = items[i].order
        BY <1>1
      <4>3. ASSUME NEW t \in Requests PROVE Knows(req'[t], i, items[i].order)
        <5>1. Knows(req[t], i, items[i].order)
          BY <3>4 DEF TellsNew
        <5> QED BY <1>1, <5>1 DEF Others
      <4> QED BY <4>1, <4>2, <4>3 DEF TellsNew
    <3> QED BY <3>1, <3>2, <3>3, <3>4
  <2> QED BY <1>1, <2>1, <2>2
<1> QED BY <1>1 DEF DisplayInv

\* A handler without copies.
LEMMA NothingKnown ==
  ASSUME NEW q, NEW i, NEW o, q.held = NoRows, q.pc # "save"
  PROVE  Knows(q, i, o)
BY DEF Knows, NoRows

LEMMA IdleKnows == ASSUME NEW i, NEW o PROVE Knows(Idle, i, o)
BY NothingKnown, IdleValues

\* A copy of the items of an order that was just read.
LEMMA CopyKnows ==
  ASSUME NEW q, NEW i \in DOMAIN items, q.held = HeldCopy(q.order)
  PROVE  Knows(q, i, items[i].order)
BY DEF Knows, HeldCopy, ItemsOf

LEMMA TakeDisplay ==
  ASSUME DisplayInv, HandlersInv, NEW r \in Requests, Take(r)
  PROVE  DisplayInv'
<1>1. /\ TypeInv /\ UNCHANGED <<mail, shown, missed>> /\ DOMAIN tasks \subseteq DOMAIN items
  BY DEF HandlersInv, TypeInv, RefInt, Take, live
<1>2. UNCHANGED db /\ Others(r) /\ \A i \in DOMAIN items : Knows(req'[r], i, items[i].order)
  <2>1. CASE CreateOrder(r)
    BY <1>1, <2>1, CreateOrderMoves, NothingKnown
  <2>2. CASE LoadForUpdate(r)
    BY <1>1, <2>2, LoadForUpdateMoves, CopyKnows
  <2>3. CASE LoadTask(r)
    BY <1>1, <2>3, LoadTaskMoves, NothingKnown
  <2>4. CASE LoadForPay(r)
    BY <1>1, <2>4, LoadForPayMoves, CopyKnows
  <2> QED BY <2>1, <2>2, <2>3, <2>4 DEF Take
<1> QED BY <1>1, <1>2, DisplayKept DEF db

\* The handlers that tell nobody.
LEMMA UntoldDisplay ==
  ASSUME DisplayInv, HandlersInv, NEW r \in Requests, Untold(r), shown' = shown
  PROVE  DisplayInv'
<1>1. TypeInv /\ UNCHANGED <<mail, missed>>
  BY DEF HandlersInv, Untold
<1>2. CASE ClearItems(r)
  <2>1. /\ \A i \in DOMAIN tasks' : i \in DOMAIN tasks /\ tasks'[i] = tasks[i]
        /\ \A i \in DOMAIN items' : items'[i] = items[i]
        /\ DOMAIN tasks' \subseteq DOMAIN items'
    BY <1>1, <1>2 DEF ClearItems, DeleteItems, Without, Restrict, TypeInv, RefInt
  <2>2. Others(r) /\ \A i : Knows(req'[r], i, items[i].order)
    BY <1>1, <1>2, ClearItemsMoves, NothingKnown
  <2> QED BY <1>1, <2>1, <2>2, DisplayKept
<1>3. CASE BuildItem(r)
  <2>1. /\ Others(r) /\ req'[r].held = req[r].held /\ req'[r].order = req[r].order
        /\ req'[r].built # NoRows /\ UNCHANGED <<items, tasks>>
    BY <1>1, <1>3, BuildItemMoves DEF db
  <2>2. \A i : Knows(req[r], i, items[i].order) => Knows(req'[r], i, items[i].order)
    BY <2>1 DEF Knows
  <2> QED BY <1>1, <2>1, <2>2, DisplayKept
<1>4. ASSUME Done(r), UNCHANGED <<items, tasks>> PROVE DisplayInv'
  <2>1. Others(r) /\ \A i : Knows(req'[r], i, items[i].order)
    BY <1>4, IdleKnows DEF Done
  <2> QED BY <1>1, <1>4, <2>1, DisplayKept
<1>5. ASSUME NEW stage \in {"complete", "charge"}, Onward(r, stage), UNCHANGED <<items, tasks>>
      PROVE  DisplayInv'
  <2>1. Others(r) /\ \A i : Knows(req[r], i, items[i].order) => Knows(req'[r], i, items[i].order)
    BY <1>5 DEF Onward, Knows
  <2> QED BY <1>1, <1>5, <2>1, DisplayKept
<1>6. CASE RejectItem(r) \/ RejectTask(r) \/ RefusePayment(r) \/ ChargeOrder(r) \/ ChargeFails(r)
  BY <1>1, <1>4, <1>6, FinishDone
     DEF RejectItem, RejectTask, RefusePayment, ChargeOrder, ChargeFails, db
<1>7. CASE SyncCompletion(r)
  BY <1>1, <1>4, <1>5, <1>7, SyncCompletionMoves DEF db
<1>8. CASE CheckPayment(r)
  BY <1>1, <1>5, <1>8, CheckPaymentMoves DEF db
<1> QED BY <1>2, <1>3, <1>6, <1>7, <1>8 DEF Untold, PaymentsStep

LEMMA ServedDisplay ==
  ASSUME DisplayInv, HandlersInv, EventsOK, NEW r \in Requests, ServeAndTell(r), ~Busy(r),
         shown' = shown
  PROVE  DisplayInv'
<1>1. /\ TypeInv /\ MailOK /\ missed' = missed /\ UNCHANGED items /\ mail[r].about = "none"
      /\ tasks' = Put(Row(req[r].item, req[r].status), tasks)
  BY NoMailValues DEF HandlersInv, EventsOK, ServeAndTell, SaveTask, Busy
<1>2. PICK room : Post(r, Written(r, "task", room))
  BY DEF ServeAndTell
<1>3. mail'[r] = Written(r, "task", room) /\ \A s \in Requests \ {r} : mail'[s] = mail[s]
  BY <1>1, <1>2, PostValues
<1>4. ASSUME NEW i, i = req[r].item PROVE TellsTask(r, i)'
  BY <1>3, <1>4, WrittenValues DEF TellsTask
<1>5. \A i \in DOMAIN tasks' : \/ i \in DOMAIN tasks /\ tasks'[i] = tasks[i]
                               \/ \E s \in Requests : TellsTask(s, i)'
  <2> SUFFICES ASSUME NEW i \in DOMAIN tasks', i # req[r].item
               PROVE  i \in DOMAIN tasks /\ tasks'[i] = tasks[i]
    BY <1>4
  <2> QED BY <1>1 DEF Put, Row
<1>6. Others(r) /\ \A i : Knows(req[r], i, items[i].order) => Knows(req'[r], i, items[i].order)
  <2>1. IF req[r].order = NoOrder THEN Done(r) ELSE Onward(r, "sync")
    BY <1>1, SaveTaskMoves DEF ServeAndTell
  <2>2. CASE Done(r)
    BY <2>2, IdleKnows DEF Done
  <2>3. CASE Onward(r, "sync")
    BY <2>3 DEF Onward, Knows
  <2> QED BY <2>1, <2>2, <2>3
<1> QED BY <1>1, <1>3, <1>5, <1>6, DisplayKept

LEMMA CompletedDisplay ==
  ASSUME DisplayInv, HandlersInv, EventsOK, NEW r \in Requests, CompleteAndTell(r), ~Busy(r),
         shown' = shown
  PROVE  DisplayInv'
<1>1. /\ TypeInv /\ MailOK /\ missed' = missed /\ UNCHANGED <<items, tasks>>
      /\ mail[r].about = "none" /\ Done(r)
  BY NoMailValues, FinishDone
     DEF HandlersInv, EventsOK, CompleteAndTell, CompleteOrder, Busy
<1>2. \A s \in Requests \ {r} : mail'[s] = mail[s]
  BY <1>1, PostValues DEF CompleteAndTell
<1>3. Others(r) /\ \A i : Knows(req'[r], i, items[i].order)
  BY <1>1, IdleKnows DEF Done
<1> QED BY <1>1, <1>2, <1>3, DisplayKept

\* The rows a save of an order leaves.
LEMMA SavedItems ==
  ASSUME TypeInv, NEW r \in Requests, SaveBuilt(r)
  PROVE  /\ tasks' = Put([i \in DOMAIN req[r].built |-> "pending"], tasks)
         /\ \A i \in DOMAIN items \cup DOMAIN req[r].built :
              items'[i].order = IF i \in DOMAIN req[r].built \cup DOMAIN req[r].held
                                  THEN req[r].order
                                ELSE IF items[i].order = req[r].order THEN NoOrder
                                ELSE items[i].order
<1> DEFINE q == req[r]
           o == q.order
           attach(rows) == [i \in DOMAIN rows |-> [order |-> o, line |-> rows[i]]]
           detach(row) == IF row.order = o THEN [row EXCEPT !.order = NoOrder] ELSE row
           rest == [i \in DOMAIN items |-> detach(items[i])]
<1>1. items' = Put(attach(q.built), Put(attach(q.held), rest))
  BY DEF SaveBuilt, SaveOrder
<1>2. \A i \in DOMAIN items :
        rest[i].order = IF items[i].order = o THEN NoOrder ELSE items[i].order
  BY DEF TypeInv, TypeOK, TablesOK, Table, ItemRow
<1>3. /\ \A i \in DOMAIN q.built : attach(q.built)[i].order = o
      /\ \A i \in DOMAIN q.held : attach(q.held)[i].order = o
      /\ DOMAIN attach(q.built) = DOMAIN q.built /\ DOMAIN attach(q.held) = DOMAIN q.held
      /\ DOMAIN rest = DOMAIN items
  OBVIOUS
<1> HIDE DEF rest, attach
<1>4. \A i \in DOMAIN items \cup DOMAIN q.built :
        items'[i].order = IF i \in DOMAIN q.built \cup DOMAIN q.held THEN o ELSE rest[i].order
  BY <1>1, <1>3 DEF Put
<1>5. \A i \in DOMAIN items \cup DOMAIN q.built :
        items'[i].order = IF i \in DOMAIN q.built \cup DOMAIN q.held THEN o
                          ELSE IF items[i].order = o THEN NoOrder ELSE items[i].order
  BY <1>2, <1>4
<1> QED BY <1>5 DEF SaveBuilt, SaveOrder, InsertTasks

\* The first save of an order, and the event about it.
LEMMA NewDisplay ==
  ASSUME DisplayInv, HandlersInv, EventsOK, NEW r \in Requests, SaveBuilt(r), ~Busy(r),
         req[r].op = "create", Post(r, Written(r, "created", StoreRoom)),
         missed' = missed, shown' = shown
  PROVE  DisplayInv'
<1> DEFINE q == req[r]
           o == q.order
<1>1. /\ TypeInv /\ SnapInv /\ NewAlone /\ MailOK /\ Makes(r) /\ mail[r].about = "none"
      /\ DOMAIN tasks \subseteq DOMAIN items /\ q.pc = "save" /\ Done(r)
      /\ q.held = NoRows /\ o \notin DOMAIN orders
      /\ \A s \in Requests \ {r} : req[s].order # o
  BY NoMailValues, FinishDone
     DEF HandlersInv, EventsOK, SaveBuilt, At, Makes, NewAlone, Busy, TypeInv, RefInt
<1>2. mail'[r] = Written(r, "created", StoreRoom) /\ \A s \in Requests \ {r} : mail'[s] = mail[s]
  BY <1>1, PostValues
<1>3. /\ DOMAIN q.built \cap DOMAIN items = {}
      /\ \A s \in Requests : DOMAIN req[s].held \cap DOMAIN q.built = {}
  <2>1. DOMAIN q.built \subseteq Reserved(q)
    BY <1>1 DEF Reserved
  <2>2. /\ DOMAIN items \cap Reserved(q) = {}
        /\ \A s \in Requests : DOMAIN req[s].held \cap Reserved(q) = {}
    BY <1>1 DEF SnapInv, IdsFresh
  <2> QED BY <2>1, <2>2
<1>4. /\ \A i \in DOMAIN tasks : tasks'[i] = tasks[i] /\ items'[i].order = items[i].order
      /\ DOMAIN tasks' = DOMAIN tasks \cup DOMAIN q.built
      /\ \A i \in DOMAIN q.built : items'[i].order = o
  <2>1. /\ tasks' = Put([i \in DOMAIN q.built |-> "pending"], tasks)
        /\ \A i \in DOMAIN items \cup DOMAIN q.built :
             items'[i].order = IF i \in DOMAIN q.built \cup DOMAIN q.held THEN o
                               ELSE IF items[i].order = o THEN NoOrder ELSE items[i].order
    BY <1>1, SavedItems
  <2>2. \A i \in DOMAIN items : items[i].order # o
    <3>1. o \in OrderIds
      BY <1>1, IdsKnown DEF StageOK
    <3> QED BY <1>1, <3>1, BoundsAreNat DEF TypeInv, RefInt, OrderIds, NoOrder
  <2>3. DOMAIN q.held = {}
    BY <1>1, IdleValues
  <2> HIDE DEF q, o
  <2> QED BY <1>1, <1>3, <2>1, <2>2, <2>3 DEF Put
<1>5. req'[r] = Idle /\ \A s \in Requests \ {r} : req'[s] = req[s]
  BY <1>1 DEF Done, Others
<1>6. ASSUME Display \notin missed', NEW i \in DOMAIN tasks'
      PROVE  OnDisplay(i)' \/ \E s \in Requests : TellsTask(s, i)' \/ TellsNew(s, i)'
  <2>1. CASE i \in DOMAIN q.built
    <3>1. mail'[r].about = "created" /\ mail'[r].order = items'[i].order
      BY <1>2, <1>4, <2>1, WrittenValues
    <3>2. ASSUME NEW s \in Requests PROVE Knows(req'[s], i, items'[i].order)
      <4>1. CASE s = r
        BY <1>5, <4>1, IdleKnows
      <4>2. CASE s # r
        <5>1. i \notin DOMAIN req[s].held /\ req[s].order # o
          BY <1>1, <1>3, <2>1, <4>2
        <5> QED BY <1>4, <1>5, <2>1, <4>2, <5>1 DEF Knows
      <4> QED BY <4>1, <4>2
    <3> QED BY <3>1, <3>2 DEF TellsNew
  <2>2. CASE i \notin DOMAIN q.built
    <3>1. i \in DOMAIN tasks /\ tasks'[i] = tasks[i] /\ items'[i].order = items[i].order
      BY <1>4, <1>6, <2>2
    <3>2. OnDisplay(i) \/ \E s \in Requests : TellsTask(s, i) \/ TellsNew(s, i)
      BY <1>6, <3>1 DEF DisplayInv
    <3>3. CASE OnDisplay(i)
      BY <3>1, <3>3 DEF OnDisplay
    <3>4. ASSUME NEW s \in Requests, TellsTask(s, i) PROVE TellsTask(s, i)'
      BY <1>1, <1>2, <3>4 DEF TellsTask
    <3>5. ASSUME NEW s \in Requests, TellsNew(s, i) PROVE TellsNew(s, i)'
      <4>1. mail'[s] = mail[s] /\ mail[s].about = "created" /\ mail[s].order = items[i].order
        BY <1>1, <1>2, <3>5 DEF TellsNew
      <4>2. ASSUME NEW t \in Requests PROVE Knows(req'[t], i, items[i].order)
        <5>1. Knows(req[t], i, items[i].order)
          BY <3>5 DEF TellsNew
        <5> QED BY <1>5, <5>1, IdleKnows
      <4> QED BY <3>1, <4>1, <4>2 DEF TellsNew
    <3> QED BY <3>2, <3>3, <3>4, <3>5
  <2> QED BY <2>1, <2>2
<1> QED BY <1>6 DEF DisplayInv

\* The save of an update without new items: the order keeps those that came
\* with it.
LEMMA EditedDisplay ==
  ASSUME DisplayInv, HandlersInv, EventsOK, NEW r \in Requests, SaveBuilt(r), ~Busy(r),
         req[r].built = NoRows, NEW what \in {"created", "updated"},
         Post(r, Written(r, what, StoreRoom)), missed' = missed, shown' = shown
  PROVE  DisplayInv'
<1> DEFINE q == req[r]
           o == q.order
<1>1. /\ TypeInv /\ MailOK /\ mail[r].about = "none" /\ DOMAIN tasks \subseteq DOMAIN items
      /\ q.pc = "save" /\ Done(r)
  BY NoMailValues, FinishDone
     DEF HandlersInv, EventsOK, SaveBuilt, At, Busy, TypeInv, RefInt
<1>2. \A s \in Requests \ {r} : mail'[s] = mail[s]
  BY <1>1, PostValues
<1>3. DOMAIN q.built = {}
  BY IdleValues
<1>4. /\ tasks' = Put([i \in DOMAIN q.built |-> "pending"], tasks)
      /\ \A i \in DOMAIN items :
           items'[i].order = IF i \in DOMAIN q.held THEN o
                             ELSE IF items[i].order = o THEN NoOrder ELSE items[i].order
  BY <1>1, <1>3, SavedItems
<1>5. DOMAIN tasks' = DOMAIN tasks /\ \A i \in DOMAIN tasks : tasks'[i] = tasks[i]
  BY <1>3, <1>4 DEF Put
<1>6. req'[r] = Idle /\ \A s \in Requests \ {r} : req'[s] = req[s]
  BY <1>1 DEF Done, Others
<1>7. ASSUME Display \notin missed', NEW i \in DOMAIN tasks
      PROVE  OnDisplay(i)' \/ \E s \in Requests : TellsTask(s, i)' \/ TellsNew(s, i)'
  <2>1. OnDisplay(i) \/ \E s \in Requests : TellsTask(s, i) \/ TellsNew(s, i)
    BY <1>7 DEF DisplayInv
  <2>2. CASE OnDisplay(i)
    BY <1>5, <1>7, <2>2 DEF OnDisplay
  <2>3. ASSUME NEW s \in Requests, TellsTask(s, i) PROVE TellsTask(s, i)'
    BY <1>1, <1>2, <2>3 DEF TellsTask
  <2>4. ASSUME NEW s \in Requests, TellsNew(s, i) PROVE TellsNew(s, i)'
    <3>1. mail'[s] = mail[s] /\ mail[s].about = "created" /\ mail[s].order = items[i].order
      BY <1>1, <1>2, <2>4 DEF TellsNew
    <3>2. Knows(q, i, items[i].order)
      BY <2>4 DEF TellsNew
    <3>3. items'[i].order = items[i].order
      BY <1>1, <1>4, <1>7, <3>2 DEF Knows
    <3>4. ASSUME NEW t \in Requests PROVE Knows(req'[t], i, items[i].order)
      <4>1. Knows(req[t], i, items[i].order)
        BY <2>4 DEF TellsNew
      <4> QED BY <1>6, <4>1, IdleKnows
    <3> QED BY <3>1, <3>3, <3>4 DEF TellsNew
  <2> QED BY <2>1, <2>2, <2>3, <2>4
<1> QED BY <1>5, <1>7 DEF DisplayInv

LEMMA ServeDisplay ==
  ASSUME DisplayInv, HandlersInv, EventsOK, NEW r \in Requests, Serve(r)
  PROVE  DisplayInv'
<1>1. shown' = shown /\ ~Busy(r)
  BY DEF Serve
<1>2. CASE SaveAndTell(r)
  <2>1. CASE req[r].op = "create"
    BY <1>1, <1>2, <2>1, NewDisplay DEF SaveAndTell
  <2>2. CASE req[r].op # "create" /\ req[r].built = NoRows
    BY <1>1, <1>2, <2>2, EditedDisplay DEF SaveAndTell
  <2>3. CASE req[r].op # "create" /\ req[r].built # NoRows
    BY <1>2, <2>3 DEF SaveAndTell, DisplayInv
  <2> QED BY <2>1, <2>2, <2>3
<1> QED BY <1>1, <1>2, ServedDisplay, CompletedDisplay, UntoldDisplay DEF Serve

\* An event about some station items reaches the display, or the display
\* knows that it missed something.
LEMMA ToldDisplay ==
  ASSUME DisplayInv, NEW r \in Requests, NEW room, NEW keys, UNCHANGED vars,
         missed \cup Deaf(Display, room) \subseteq missed',
         shown'.display = DisplayReads(room, keys),
         \A s \in Requests \ {r} : mail'[s] = mail[s],
         \A i \in DOMAIN tasks : TellsTask(r, i) \/ TellsNew(r, i) => i \in keys
  PROVE  DisplayInv'
<1>1. UNCHANGED <<items, tasks, req>>
  BY DEF vars
<1>2. ASSUME Display \notin missed', NEW i \in DOMAIN tasks
      PROVE  OnDisplay(i)' \/ \E s \in Requests : TellsTask(s, i)' \/ TellsNew(s, i)'
  <2>1. Hears(Display, room) /\ Display \notin missed
    BY <1>2 DEF Deaf
  <2>2. shown'.display = Put([k \in keys \cap DOMAIN tasks |-> tasks[k]], shown.display)
    BY <2>1 DEF DisplayReads
  <2>3. OnDisplay(i) \/ \E s \in Requests : TellsTask(s, i) \/ TellsNew(s, i)
    BY <1>2, <2>1 DEF DisplayInv
  <2>4. OnDisplay(i) \/ i \in keys => OnDisplay(i)'
    BY <1>1, <1>2, <2>2 DEF OnDisplay, Put
  <2>5. ASSUME NEW s \in Requests \ {r}
        PROVE  /\ TellsTask(s, i) => TellsTask(s, i)'
               /\ TellsNew(s, i) => TellsNew(s, i)'
    BY <1>1, <2>5 DEF TellsTask, TellsNew
  <2> QED BY <1>2, <2>3, <2>4, <2>5
<1> QED BY <1>1, <1>2 DEF DisplayInv

\* A step of the gateway that is about something else.
LEMMA SameForDisplay ==
  ASSUME DisplayInv, UNCHANGED <<items, tasks, req>>, shown'.display = shown.display,
         Display \in missed => Display \in missed',
         \A r \in Requests : mail[r].about \in {"created", "task"} => mail'[r] = mail[r]
  PROVE  DisplayInv'
<1>1. ASSUME NEW r \in Requests, NEW i \in DOMAIN tasks
      PROVE  /\ TellsTask(r, i) => TellsTask(r, i)'
             /\ TellsNew(r, i) => TellsNew(r, i)'
  BY <1>1 DEF TellsTask, TellsNew
<1> QED BY <1>1 DEF DisplayInv, OnDisplay

LEMMA EmitDisplay ==
  ASSUME DisplayInv, HandlersInv, EventsOK, NEW r \in Requests, Emit(r)
  PROVE  DisplayInv'
<1>1. MailOK /\ DOMAIN tasks \subseteq DOMAIN items
  BY DEF EventsOK, HandlersInv, TypeInv, RefInt
<1>2. CASE EmitOrderCreated(r)
  <2>1. /\ UNCHANGED vars /\ missed \cup Deaf(Display, StationRoom) \subseteq missed'
        /\ shown'.display = DisplayReads(StationRoom, TasksOf(mail[r].order))
        /\ mail[r].about = "created" /\ \A s \in Requests \ {r} : mail'[s] = mail[s]
    BY <1>1, <1>2, CreatedMoves, PostValues DEF EmitOrderCreated
  <2>2. \A i \in DOMAIN tasks : TellsTask(r, i) \/ TellsNew(r, i) => i \in TasksOf(mail[r].order)
    BY <2>1 DEF TellsTask, TellsNew, TasksOf
  <2> QED BY <2>1, <2>2, ToldDisplay
<1>3. CASE EmitOrderUpdated(r)
  <2>1. /\ UNCHANGED vars /\ missed \subseteq missed' /\ shown'.display = shown.display
        /\ mail[r].about = "updated" /\ \A s \in Requests \ {r} : mail'[s] = mail[s]
    BY <1>1, <1>3, UpdatedMoves, PostValues DEF EmitOrderUpdated
  <2> QED BY <2>1, SameForDisplay DEF vars
<1>4. CASE EmitOrderStationItemUpdated(r)
  <2>1. /\ UNCHANGED vars /\ missed \cup Deaf(Display, mail[r].room) \subseteq missed'
        /\ shown'.display = DisplayReads(mail[r].room, {mail[r].item})
        /\ mail[r].about = "task" /\ \A s \in Requests \ {r} : mail'[s] = mail[s]
    BY <1>1, <1>4, TaskMoves, PostValues DEF EmitOrderStationItemUpdated
  <2>2. \A i \in DOMAIN tasks : TellsTask(r, i) \/ TellsNew(r, i) => i \in {mail[r].item}
    BY <2>1 DEF TellsTask, TellsNew
  <2> QED BY <2>1, <2>2, ToldDisplay
<1>5. CASE LoadReceipt(r)
  <2>1. /\ UNCHANGED vars /\ missed' = missed /\ shown' = shown /\ mail[r].about = "updated"
    BY <1>5, LoadMoves
  <2>2. \A s \in Requests \ {r} : mail'[s] = mail[s]
    BY <1>1, <1>5, LoadMoves, PostValues
  <2> QED BY <2>1, <2>2, SameForDisplay DEF vars
<1>6. CASE EmitReceiptUpdated(r)
  <2>1. /\ UNCHANGED vars /\ missed \subseteq missed' /\ shown'.display = shown.display
        /\ mail[r].about = "updated" /\ \A s \in Requests \ {r} : mail'[s] = mail[s]
    BY <1>1, <1>6, PushMoves, PostValues DEF EmitReceiptUpdated
  <2> QED BY <2>1, SameForDisplay DEF vars
<1> QED BY <1>2, <1>3, <1>4, <1>5, <1>6 DEF Emit

LEMMA DisplayNext ==
  ASSUME DisplayInv, HandlersInv, EventsOK, [LiveNext]_allVars
  PROVE  DisplayInv'
<1>1. ASSUME NEW r \in Requests, Take(r) \/ Serve(r) \/ Emit(r) PROVE DisplayInv'
  BY <1>1, TakeDisplay, ServeDisplay, EmitDisplay
<1>2. CASE LoadTill
  <2>1. shown'.display = shown.display /\ UNCHANGED <<items, tasks, req, mail>>
    BY <1>2 DEF LoadTill, EventsOK, ShownOK, Nothing, vars
  <2>2. Display \in missed => Display \in missed'
    BY <1>2, RealtimeAssumption DEF LoadTill
  <2> QED BY <2>1, <2>2, SameForDisplay
<1>3. CASE LoadDisplay
  BY <1>3 DEF LoadDisplay, DisplayInv, OnDisplay, EventsOK, ShownOK, Nothing, vars
<1>4. CASE FindByToken
  <2>1. shown'.display = shown.display /\ UNCHANGED <<items, tasks, req, mail>>
    BY <1>4 DEF FindByToken, EventsOK, ShownOK, Nothing, vars
  <2>2. Display \in missed => Display \in missed'
    BY <1>4, RealtimeAssumption DEF FindByToken
  <2> QED BY <2>1, <2>2, SameForDisplay
<1>5. CASE FollowReceipt \/ Visit \/ UNCHANGED allVars
  BY <1>5, SameForDisplay DEF FollowReceipt, Visit, live, allVars, vars
<1>6. CASE Crash
  BY <1>6 DEF Crash, DisplayInv
<1> QED BY <1>1, <1>2, <1>3, <1>4, <1>5, <1>6 DEF LiveNext

\* A display that has missed no event shows every station item as its row is,
\* once the events about it have left: also when the order a new item came
\* with is edited, before the display hears of it, from a copy that was read
\* after the order had been saved.  An event in the room of another station,
\* which the update of a station item may name, is one that it has missed.
THEOREM DisplayFollows == LiveSpec => []DisplayCurrent
<1>1. LiveInit => DisplayInv
  <2> SUFFICES ASSUME LiveInit PROVE DisplayInv
    OBVIOUS
  <2>1. DOMAIN tasks = {}
    BY DEF LiveInit, Init, NoRows
  <2> QED BY <2>1 DEF DisplayInv
<1>2. HandlersInv /\ EventsOK /\ DisplayInv /\ [LiveNext]_allVars => DisplayInv'
  BY DisplayNext
<1>3. EventsOK /\ DisplayInv => DisplayCurrent
  <2> SUFFICES ASSUME EventsOK, DisplayInv, Display \notin missed, NEW i \in DOMAIN tasks,
                      ~Unsent(items[i].order), ~Serving(i)
               PROVE  i \in DOMAIN shown.display /\ shown.display[i] = tasks[i]
    BY DEF DisplayCurrent
  <2>1. ASSUME NEW r \in Requests PROVE ~TellsTask(r, i) /\ ~TellsNew(r, i)
    BY <2>1, NoMailValues DEF TellsTask, TellsNew, Serving, Unsent, EventsOK, MailOK
  <2> QED BY <2>1 DEF DisplayInv, OnDisplay
<1> QED BY <1>1, <1>2, <1>3, EventsHold, PTL DEF LiveSpec

-----------------------------------------------------------------------------
(* The receipt page. *)

\* The receipt has yet to be looked up for an event about the order.
TellsPage(r, o) ==
  mail[r].about = "updated" /\ mail[r].stage \in {"send", "look"} /\ mail[r].order = o

\* A status is on its way to the page of a payment.
Pushing(r) == mail[r].stage = "push"
Pushes(r, p) == Pushing(r) /\ mail[r].item = p

\* What becomes of the page: it shows the status, and nothing else is on its
\* way; or the status is on its way; or two statuses are, of which the one
\* that comes first makes the page look again; or an event will look it up.
PageFollows(p, o) ==
  \/ shown.status = orders[o] /\ \A r \in Requests : ~Pushes(r, p)
  \/ \E r \in Requests : Pushes(r, p) /\ mail[r].status = orders[o]
  \/ \E r, s \in Requests : r # s /\ Pushes(r, p) /\ Pushing(s)
  \/ \E r \in Requests : TellsPage(r, o)

\* The page shows a payment, which is the only one of its order.
Watched(p) ==
  /\ Page \notin missed /\ shown.receipt = p /\ p \in DOMAIN payments \ lapsed
  /\ PaymentsOf(payments[p].order) = {p}

\* What is on its way is the status of the order of the payment.
PushOK ==
  \A r \in Requests :
    Pushing(r) => /\ mail[r].item \in DOMAIN payments
                  /\ payments[mail[r].item].order = mail[r].order

PageInv ==
  /\ PushOK /\ shown.receipt \in DOMAIN payments \cup {0}
  /\ \A p : Watched(p) => PageFollows(p, payments[p].order)

PaymentsStay ==
  \A p \in DOMAIN payments : p \in DOMAIN payments' /\ payments'[p] = payments[p]

\* A step that leaves the page, and what is on its way, as they are, and
\* tells which orders it has changed.
LEMMA PageKept ==
  ASSUME PageInv, TypeInv, TypeInv', MailOK, shown'.receipt = shown.receipt, shown'.status = shown.status,
         Page \in missed => Page \in missed', lapsed \subseteq lapsed', PaymentsStay,
         \A s \in Requests : mail[s].about = "updated" => mail'[s] = mail[s],
         \A s \in Requests : Pushing(s)' => Pushing(s),
         \A o \in DOMAIN orders : orders'[o] = orders[o] \/ \E s \in Requests : TellsPage(s, o)'
  PROVE  PageInv'
<1>1. \A s \in Requests : Pushing(s) => mail[s].about = "updated" /\ mail'[s] = mail[s]
  BY DEF Pushing, MailOK
<1>2. PushOK' /\ shown'.receipt \in DOMAIN payments' \cup {0}
  BY <1>1 DEF PageInv, PushOK, Pushing, PaymentsStay
<1>3. ASSUME NEW p, Watched(p)'
      PROVE  Watched(p) /\ p \in DOMAIN payments /\ payments'[p].order = payments[p].order
  <2>1. /\ p \in DOMAIN payments' \ lapsed' /\ Page \notin missed /\ shown.receipt = p
        /\ \A x \in DOMAIN payments' : payments'[x].order = payments'[p].order <=> x = p
    BY <1>3 DEF Watched, PaymentsOf
  <2>2. p # 0
    BY <2>1 DEF TypeInv, TypeOK, TablesOK, PaymentIds
  <2>3. p \in DOMAIN payments /\ payments'[p] = payments[p]
    BY <2>1, <2>2 DEF PageInv, PaymentsStay
  <2>4. \A x \in DOMAIN payments : payments[x].order = payments[p].order <=> x = p
    BY <2>1, <2>3 DEF PaymentsStay
  <2> QED BY <2>1, <2>3, <2>4 DEF Watched, PaymentsOf
<1>4. ASSUME NEW p, Watched(p)' PROVE PageFollows(p, payments[p].order)'
  <2> DEFINE o == payments[p].order
  <2>1. Watched(p) /\ p \in DOMAIN payments /\ payments'[p].order = o
    BY <1>3, <1>4
  <2>2. o \in DOMAIN orders
    BY <2>1 DEF TypeInv, RefInt
  <2>3. PICK k : k = o
    OBVIOUS
  <2>4. CASE \E s \in Requests : TellsPage(s, k)'
    BY <2>1, <2>3, <2>4 DEF PageFollows
  <2>5. CASE orders'[k] = orders[k]
    <3>1. PageFollows(p, k)
      BY <2>1, <2>3 DEF PageInv
    <3>2. CASE shown.status = orders[k] /\ \A r \in Requests : ~Pushes(r, p)
      <4>1. \A r \in Requests : ~Pushes(r, p)'
        BY <1>1, <3>2 DEF Pushes, Pushing
      <4>2. shown'.status = orders'[k]
        BY <2>5, <3>2
      <4> QED BY <2>1, <2>3, <4>1, <4>2 DEF PageFollows
    <3>3. ASSUME NEW r \in Requests, Pushes(r, p), mail[r].status = orders[k]
          PROVE  PageFollows(p, payments[p].order)'
      BY <1>1, <2>1, <2>3, <2>5, <3>3 DEF PageFollows, Pushes, Pushing
    <3>4. ASSUME NEW r \in Requests, NEW s \in Requests, r # s, Pushes(r, p), Pushing(s)
          PROVE  PageFollows(p, payments[p].order)'
      BY <1>1, <3>4 DEF PageFollows, Pushes, Pushing
    <3>5. ASSUME NEW r \in Requests, TellsPage(r, k)
          PROVE  PageFollows(p, payments[p].order)'
      BY <2>1, <2>3, <3>5 DEF PageFollows, TellsPage
    <3> QED BY <3>1, <3>2, <3>3, <3>4, <3>5 DEF PageFollows
  <2> QED BY <2>2, <2>3, <2>4, <2>5
<1> QED BY <1>2, <1>4 DEF PageInv

\* A payment that is charged is a new one.
LEMMA ChargesAnew ==
  ASSUME HandlersInv, NEW r \in Requests, ChargeOrder(r)
  PROVE  PaymentsStay
<1>1. req[r].item \notin DOMAIN payments
  BY DEF HandlersInv, PaysApart, ChargeOrder, At, Pays
<1> QED BY <1>1 DEF ChargeOrder, PaymentsStay, Put, Row

\* A handler that writes an order sets out to tell about it, so the page that is
\* behind has an event on its way.
LEMMA WritePage ==
  ASSUME PageInv, HandlersInv, HandlersInv', EventsOK, NEW r \in Requests,
         NEW what \in {"created", "updated", "task"}, NEW room, Post(r, Written(r, what, room)),
         mail[r].about = "none", mail[r].stage = "done", shown' = shown, lapsed' = lapsed,
         missed \subseteq missed', payments' = payments,
         \A o \in DOMAIN orders \ {req[r].order} : orders'[o] = orders[o],
         \/ what = "updated"
         \/ req[r].order \notin DOMAIN orders
         \/ orders' = orders
  PROVE  PageInv'
<1>1. MailOK /\ TypeInv /\ TypeInv'
  BY DEF EventsOK, HandlersInv
<1>2. mail'[r] = Written(r, what, room) /\ \A s \in Requests \ {r} : mail'[s] = mail[s]
  BY <1>1, PostValues
<1>3. mail'[r].about = what /\ mail'[r].stage = "send" /\ mail'[r].order = req[r].order
  BY <1>2, WrittenValues
<1>4. /\ \A s \in Requests : mail[s].about = "updated" => mail'[s] = mail[s]
      /\ \A s \in Requests : Pushing(s)' => Pushing(s)
  BY <1>2, <1>3 DEF Pushing
<1>5. ASSUME NEW o \in DOMAIN orders
      PROVE  orders'[o] = orders[o] \/ \E s \in Requests : TellsPage(s, o)'
  <2>1. CASE orders'[o] = orders[o]
    BY <2>1
  <2>2. CASE orders'[o] # orders[o]
    <3>1. o = req[r].order /\ what = "updated"
      BY <1>5, <2>2
    <3>2. TellsPage(r, o)'
      BY <1>3, <3>1 DEF TellsPage
    <3> QED BY <3>2
  <2> QED BY <2>1, <2>2
<1>6. PaymentsStay
  BY DEF PaymentsStay
<1> QED BY <1>1, <1>4, <1>5, <1>6, PageKept

\* No step of a handler leaves the receipt page behind with nothing to tell it.
LEMMA ServePage ==
  ASSUME PageInv, HandlersInv, HandlersInv', EventsOK, NEW r \in Requests, Serve(r)
  PROVE  PageInv'
<1>1. /\ shown' = shown /\ lapsed' = lapsed /\ mail[r].about = "none" /\ mail[r].stage = "done"
      /\ MailOK /\ TypeInv /\ TypeInv'
  BY NoMailValues DEF Serve, Busy, EventsOK, HandlersInv
<1>2. ASSUME SaveAndTell(r) \/ ServeAndTell(r) \/ CompleteAndTell(r)
      PROVE  missed \subseteq missed' /\ payments' = payments
  BY <1>2 DEF SaveAndTell, SaveBuilt, ServeAndTell, SaveTask, CompleteAndTell, CompleteOrder
<1>3. CASE SaveAndTell(r)
  <2>1. \A o \in DOMAIN orders \ {req[r].order} : orders'[o] = orders[o]
    BY <1>3 DEF SaveAndTell, SaveBuilt, SaveOrder, SaveOrderRow, Put, Row
  <2>2. req[r].pc = "save"
    BY <1>3 DEF SaveAndTell, SaveBuilt, At
  <2>3. CASE req[r].op = "create"
    <3>1. req[r].order \notin DOMAIN orders
      BY <2>2, <2>3 DEF HandlersInv, NewAlone, Makes
    <3>2. Post(r, Written(r, "created", StoreRoom))
      BY <1>3, <2>3 DEF SaveAndTell
    <3> QED BY <1>1, <1>2, <1>3, <2>1, <3>1, <3>2, WritePage
  <2>4. CASE req[r].op # "create"
    <3>1. Post(r, Written(r, "updated", StoreRoom))
      BY <1>3, <2>4 DEF SaveAndTell
    <3> QED BY <1>1, <1>2, <1>3, <2>1, <3>1, WritePage
  <2> QED BY <2>3, <2>4
<1>4. CASE ServeAndTell(r)
  <2>1. PICK room : Post(r, Written(r, "task", room))
    BY <1>4 DEF ServeAndTell
  <2>2. orders' = orders
    BY <1>4 DEF ServeAndTell, SaveTask
  <2> QED BY <1>1, <1>2, <1>4, <2>1, <2>2, WritePage
<1>5. CASE CompleteAndTell(r)
  <2>1. \A o \in DOMAIN orders \ {req[r].order} : orders'[o] = orders[o]
    BY <1>5 DEF CompleteAndTell, CompleteOrder, SaveOrderRow, Put, Row
  <2>2. Post(r, Written(r, "updated", StoreRoom))
    BY <1>5 DEF CompleteAndTell
  <2> QED BY <1>1, <1>2, <1>5, <2>1, <2>2, WritePage
<1>6. CASE Untold(r)
  <2>1. mail' = mail /\ missed' = missed /\ orders' = orders
    BY <1>6 DEF Untold, ClearItems, BuildItem, RejectItem, RejectTask, SyncCompletion,
                PaymentsStep, CheckPayment, RefusePayment, ChargeOrder, ChargeFails, db
  <2>2. PaymentsStay
    <3>1. CASE ChargeOrder(r)
      BY <3>1, ChargesAnew
    <3>2. CASE ~ChargeOrder(r)
      BY <1>6, <3>2 DEF Untold, ClearItems, BuildItem, RejectItem, RejectTask, SyncCompletion,
                PaymentsStep, CheckPayment, RefusePayment, ChargeFails, db, PaymentsStay
    <3> QED BY <3>1, <3>2
  <2>3. \A s \in Requests : Pushing(s)' => Pushing(s)
    BY <2>1 DEF Pushing
  <2> QED BY <1>1, <2>1, <2>2, <2>3, PageKept
<1> QED BY <1>3, <1>4, <1>5, <1>6 DEF Serve

\* A step of the gateway that changes neither the page nor what is on its way.
LEMMA EmitElse ==
  ASSUME PageInv, HandlersInv, EventsOK, NEW r \in Requests,
         EmitOrderCreated(r) \/ EmitOrderUpdated(r) \/ EmitOrderStationItemUpdated(r)
  PROVE  PageInv'
<1>1. /\ UNCHANGED vars /\ shown'.receipt = shown.receipt /\ shown'.status = shown.status
      /\ missed \subseteq missed' /\ lapsed' = lapsed /\ mail[r].stage = "send"
      /\ MailOK /\ TypeInv
  BY CreatedMoves, UpdatedMoves, TaskMoves
     DEF EmitOrderCreated, EmitOrderUpdated, EmitOrderStationItemUpdated, EventsOK,
         HandlersInv, Quiet
<1>2. PICK m : /\ Post(r, m) /\ m.stage # "push"
               /\ mail[r].about = "updated" =>
                    m.about = "updated" /\ m.stage = "look" /\ m.order = mail[r].order
  BY CreatedMoves, UpdatedMoves, TaskMoves, NoMailValues
<1>3. mail'[r] = m /\ \A s \in Requests \ {r} : mail'[s] = mail[s]
  BY <1>1, <1>2, PostValues
<1>4. UNCHANGED <<orders, payments>>
  BY <1>1 DEF vars
<1>5. \A s \in Requests : Pushing(s) => mail'[s] = mail[s]
  BY <1>1, <1>3 DEF Pushing
<1>6. \A s \in Requests : Pushing(s)' => Pushing(s)
  BY <1>2, <1>3 DEF Pushing
<1>7. ASSUME NEW s \in Requests, NEW o, TellsPage(s, o) PROVE TellsPage(s, o)'
  BY <1>2, <1>3, <1>7 DEF TellsPage
<1>8. PushOK' /\ shown'.receipt \in DOMAIN payments' \cup {0}
  BY <1>1, <1>4, <1>5, <1>6 DEF PageInv, PushOK, Pushing
<1>9. ASSUME NEW p, Watched(p)' PROVE PageFollows(p, payments[p].order)'
  <2>1. Watched(p)
    BY <1>1, <1>4, <1>9 DEF Watched, PaymentsOf
  <2>2. PageFollows(p, payments[p].order)
    BY <2>1 DEF PageInv
  <2>3. \A s \in Requests : Pushes(s, p)' <=> Pushes(s, p)
    BY <1>5, <1>6 DEF Pushes, Pushing
  <2> QED BY <1>1, <1>4, <1>5, <1>7, <2>2, <2>3 DEF PageFollows, Pushes, Pushing
<1> QED BY <1>8, <1>9 DEF PageInv

\* Loading the receipt to push reads the row as it stands.
LEMMA LoadPage ==
  ASSUME PageInv, HandlersInv, EventsOK, NEW r \in Requests, LoadReceipt(r)
  PROVE  PageInv'
<1>1. /\ UNCHANGED <<vars, shown, missed>> /\ lapsed' = lapsed /\ mail[r].stage = "look"
      /\ MailOK /\ mail[r].about = "updated"
  BY LoadMoves DEF LoadReceipt, EventsOK, Quiet
<1>2. UNCHANGED <<orders, payments>>
  BY <1>1 DEF vars
<1>3. PICK m : /\ Post(r, m)
               /\ \/ PaymentsOf(mail[r].order) = {} /\ m = NoMail
                  \/ /\ m.about = "updated" /\ m.stage = "push" /\ m.order = mail[r].order
                     /\ m.item \in PaymentsOf(mail[r].order)
                     /\ m.status = orders[mail[r].order]
  BY LoadMoves
<1>4. mail'[r] = m /\ \A s \in Requests \ {r} : mail'[s] = mail[s]
  BY <1>1, <1>3, PostValues
<1>5. ~Pushing(r) /\ \A s \in Requests : Pushing(s) => Pushing(s)' /\ mail'[s] = mail[s]
  BY <1>1, <1>4 DEF Pushing
<1>6. \A s \in Requests \ {r} : Pushing(s)' => Pushing(s)
  BY <1>4 DEF Pushing
<1>7. PushOK'
  <2>1. Pushing(r)' => /\ mail'[r].item \in DOMAIN payments
                       /\ payments[mail'[r].item].order = mail'[r].order
    BY <1>3, <1>4, NoMailValues DEF Pushing, PaymentsOf
  <2> QED BY <1>2, <1>5, <1>6, <2>1 DEF PageInv, PushOK
<1>8. ASSUME NEW p, Watched(p)' PROVE PageFollows(p, payments[p].order)'
  <2>1. Watched(p)
    BY <1>1, <1>2, <1>8 DEF Watched, PaymentsOf
  <2>2. PICK k : k = payments[p].order
    OBVIOUS
  <2>3. PageFollows(p, k) /\ PaymentsOf(k) = {p}
    BY <2>1, <2>2 DEF PageInv, Watched
  <2>4. SUFFICES PageFollows(p, k)'
    BY <1>2, <2>2 DEF PageFollows
  <2>5. CASE mail[r].order = k
    <3>1. Pushes(r, p)' /\ mail'[r].status = orders'[k]
      BY <1>2, <1>3, <1>4, <2>3, <2>5 DEF Pushes, Pushing
    <3> QED BY <3>1 DEF PageFollows
  <2>6. CASE mail[r].order # k
    <3>1. ~Pushes(r, p)'
      BY <1>3, <1>4, <2>2, <2>6, NoMailValues DEF Pushes, Pushing, PaymentsOf
    <3>2. \A s \in Requests : Pushes(s, p)' <=> Pushes(s, p)
      BY <1>4, <1>5, <3>1 DEF Pushes, Pushing
    <3>3. \A s \in Requests : TellsPage(s, k) => TellsPage(s, k)'
      BY <1>4, <2>6 DEF TellsPage
    <3> QED BY <1>1, <1>2, <1>5, <2>3, <3>2, <3>3 DEF PageFollows, Pushes
  <2> QED BY <2>5, <2>6
<1> QED BY <1>1, <1>2, <1>7, <1>8 DEF PageInv

\* The page takes the pushed status, or has missed an event.
LEMMA PushPage ==
  ASSUME PageInv, HandlersInv, EventsOK, NEW r \in Requests, EmitReceiptUpdated(r)
  PROVE  PageInv'
<1>1. /\ UNCHANGED <<vars, lapsed>> /\ shown'.receipt = shown.receipt /\ MailOK
      /\ mail[r].stage = "push" /\ Post(r, NoMail)
      /\ missed' = missed \cup (IF shown.receipt = mail[r].item
                                THEN Deaf(Page, mail[r].item) ELSE {})
                          \cup {Page : s \in {t \in Requests \ {r} : mail[t].stage = "push"}}
      /\ shown'.status = IF shown.receipt = mail[r].item /\ Hears(Page, mail[r].item)
                            /\ Readable(mail[r].item)
                         THEN mail[r].status ELSE shown.status
  BY PushMoves DEF EmitReceiptUpdated, EventsOK, Quiet
<1>2. UNCHANGED <<orders, payments>>
  BY <1>1 DEF vars
<1>3. mail'[r] = NoMail /\ \A s \in Requests \ {r} : mail'[s] = mail[s]
  BY <1>1, PostValues
<1>4. ~Pushing(r)' /\ \A s \in Requests \ {r} : mail'[s] = mail[s] /\ (Pushing(s)' <=> Pushing(s))
  BY <1>3, NoMailValues DEF Pushing
<1>5. PushOK'
  BY <1>2, <1>4 DEF PageInv, PushOK
<1>6. ASSUME NEW p, Watched(p)' PROVE PageFollows(p, payments[p].order)'
  <2>1. Watched(p) /\ Page \notin missed'
    BY <1>1, <1>2, <1>6 DEF Watched, PaymentsOf
  <2>2. PICK k : k = payments[p].order
    OBVIOUS
  <2>3. PageFollows(p, k)
    BY <2>1, <2>2 DEF PageInv
  <2>4. SUFFICES PageFollows(p, k)'
    BY <1>2, <2>2 DEF PageFollows
  <2>5. \A s \in Requests \ {r} : ~Pushing(s)
    BY <1>1, <2>1 DEF Pushing
  <2>6. \A s \in Requests : ~Pushing(s)'
    BY <1>4, <2>5
  <2>7. CASE \E s \in Requests : TellsPage(s, k)
    <3>1. \A s \in Requests : TellsPage(s, k) => s # r
      BY <1>1 DEF TellsPage
    <3>2. \E s \in Requests : TellsPage(s, k)'
      BY <1>4, <2>7, <3>1 DEF TellsPage
    <3> QED BY <3>2 DEF PageFollows
  <2>8. CASE shown.status = orders[k] /\ \A s \in Requests : ~Pushes(s, p)
    <3>1. mail[r].item # p /\ shown.receipt = p
      BY <1>1, <2>1, <2>8 DEF Pushes, Pushing, Watched
    <3> QED BY <1>1, <1>2, <2>6, <2>8, <3>1 DEF PageFollows, Pushes
  <2>9. ASSUME NEW s \in Requests, Pushes(s, p), mail[s].status = orders[k]
        PROVE  PageFollows(p, k)'
    <3>1. s = r /\ mail[r].item = p /\ shown.receipt = p /\ p \notin lapsed
      BY <2>1, <2>5, <2>9 DEF Pushes, Watched
    <3>2. Hears(Page, p) /\ Readable(p)
      BY <1>1, <2>1, <3>1 DEF Deaf, Readable
    <3>3. shown'.status = orders'[k]
      BY <1>1, <1>2, <2>9, <3>1, <3>2
    <3> QED BY <2>6, <3>3 DEF PageFollows, Pushes
  <2>10. ASSUME NEW s \in Requests, NEW t \in Requests, s # t, Pushes(s, p), Pushing(t)
         PROVE  FALSE
    BY <2>5, <2>10 DEF Pushes
  <2> QED BY <2>3, <2>7, <2>8, <2>9, <2>10 DEF PageFollows
<1> QED BY <1>1, <1>2, <1>5, <1>6 DEF PageInv

\* The page loads a receipt: what it shows is the row.
LEMMA FindPage ==
  ASSUME PageInv, EventsOK, FindByToken
  PROVE  PageInv'
<1>1. PICK p \in DOMAIN payments :
        /\ shown' = [shown EXCEPT !.receipt = p, !.status = orders[payments[p].order]]
        /\ Page \in missed
        /\ missed' = IF \E r \in Requests : mail[r].stage = "push" THEN missed
                     ELSE missed \ {Page}
        /\ UNCHANGED <<vars, mail, lapsed>>
  BY DEF FindByToken
<1>2. shown'.receipt = p /\ shown'.status = orders[payments[p].order]
  BY <1>1 DEF EventsOK, ShownOK, Nothing
<1>3. UNCHANGED <<orders, payments, mail>>
  BY <1>1 DEF vars
<1>4. PushOK'
  BY <1>3 DEF PageInv, PushOK, Pushing
<1>5. ASSUME NEW x, Watched(x)' PROVE PageFollows(x, payments[x].order)'
  <2>1. x = p /\ \A r \in Requests : mail[r].stage # "push"
    BY <1>1, <1>2, <1>5 DEF Watched
  <2> QED BY <1>2, <1>3, <2>1 DEF PageFollows, Pushes, Pushing
<1> QED BY <1>2, <1>3, <1>4, <1>5 DEF PageInv

\* Every step keeps the page following.
LEMMA PageNext ==
  ASSUME PageInv, HandlersInv, EventsOK, [LiveNext]_allVars
  PROVE  PageInv'
<1>1. HandlersInv' /\ TypeInv /\ TypeInv' /\ MailOK
  BY HandlersNext DEF HandlersInv, EventsOK
<1>2. ASSUME UNCHANGED <<orders, payments, mail>>, shown'.receipt = shown.receipt,
             shown'.status = shown.status, Page \in missed => Page \in missed',
             lapsed \subseteq lapsed'
      PROVE  PageInv'
  BY <1>1, <1>2, PageKept DEF PaymentsStay, Pushing
<1>3. ASSUME NEW r \in Requests, Take(r) PROVE PageInv'
  BY <1>2, <1>3 DEF Take, live, CreateOrder, LoadForUpdate, LoadTask, LoadForPay, db
<1>4. ASSUME NEW r \in Requests, Serve(r) \/ Emit(r) PROVE PageInv'
  BY <1>1, <1>4, ServePage, EmitElse, LoadPage, PushPage DEF Emit
<1>5. CASE LoadTill
  <2>1. /\ shown'.receipt = shown.receipt /\ shown'.status = shown.status
        /\ UNCHANGED <<orders, payments, mail, lapsed>>
    BY <1>5 DEF LoadTill, EventsOK, ShownOK, Nothing, vars
  <2>2. Page \in missed => Page \in missed'
    BY <1>5, RealtimeAssumption DEF LoadTill
  <2> QED BY <1>2, <2>1, <2>2
<1>6. CASE LoadDisplay
  <2>1. /\ shown'.receipt = shown.receipt /\ shown'.status = shown.status
        /\ UNCHANGED <<orders, payments, mail, lapsed>>
    BY <1>6 DEF LoadDisplay, EventsOK, ShownOK, Nothing, vars
  <2>2. Page \in missed => Page \in missed'
    BY <1>6, RealtimeAssumption DEF LoadDisplay
  <2> QED BY <1>2, <2>1, <2>2
<1>7. CASE FindByToken
  BY <1>7, FindPage
<1>8. CASE FollowReceipt \/ Visit \/ UNCHANGED allVars
  <2>1. UNCHANGED <<vars, live>> /\ lapsed \subseteq lapsed'
    BY <1>8 DEF FollowReceipt, Visit, allVars, JoinReceipt, FinishJoinReceipt, Become, Lapse,
                SocketsStep, Connect, Verify, JoinRoom, FinishJoinRoom, Leave
  <2> QED BY <1>2, <2>1 DEF live, vars
<1>9. CASE Crash
  <2>1. \A r \in Requests : ~Pushing(r)'
    BY <1>9, NoMailValues DEF Crash, Pushing
  <2>2. Page \in missed' /\ shown' = shown /\ payments' = payments
    BY <1>9 DEF Crash, Restart, db
  <2> QED BY <2>1, <2>2 DEF PageInv, PushOK, Watched
<1> QED BY <1>3, <1>4, <1>5, <1>6, <1>7, <1>8, <1>9 DEF LiveNext

\* A receipt page that has missed no event, of an order that is paid once,
\* shows the status of the order when nothing is left to tell about it: two
\* statuses that overtake each other make it look again.
THEOREM ReceiptFollows == LiveSpec => []ReceiptCurrent
<1>1. LiveInit => PageInv
  <2> SUFFICES ASSUME LiveInit PROVE PageInv
    OBVIOUS
  <2>1. DOMAIN payments = {} /\ shown.receipt = 0 /\ \A r \in Requests : ~Pushing(r)
    BY NoMailValues DEF LiveInit, Init, NoRows, Nothing, Pushing
  <2> QED BY <2>1 DEF PageInv, PushOK, Watched
<1>2. HandlersInv /\ EventsOK /\ PageInv /\ [LiveNext]_allVars => PageInv'
  BY PageNext
<1>3. EventsOK /\ PageInv => ReceiptCurrent
  <2> DEFINE p == shown.receipt
             o == payments[p].order
  <2> SUFFICES ASSUME EventsOK, PageInv, Page \notin missed, p \in DOMAIN payments \ lapsed,
                      ~Pending(o), PaymentsOf(o) = {p}
               PROVE  shown.status = orders[o]
    BY DEF ReceiptCurrent
  <2>1. PageFollows(p, o)
    BY DEF PageInv, Watched
  <2>2. ASSUME NEW r \in Requests, Pushing(r) \/ TellsPage(r, o) PROVE Busy(r)
    BY <2>2, NoMailValues DEF Pushing, TellsPage, Busy
  <2>3. ASSUME NEW r \in Requests, Pushes(r, p) \/ TellsPage(r, o) PROVE FALSE
    BY <2>2, <2>3 DEF Pushes, PageInv, PushOK, Pending, TellsPage
  <2> QED BY <2>1, <2>3 DEF PageFollows
<1> QED BY <1>1, <1>2, <1>3, EventsHold, PTL DEF LiveSpec
=============================================================================
