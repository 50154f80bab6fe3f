-------------------------------- MODULE Sockets --------------------------------
(***************************************************************************)
(* The connections of RealtimeGateway: who may join which rooms, and which *)
(* rooms a socket is in.  Messages of one socket are handled as they come, *)
(* also before its token has been verified; a handler that waits for the   *)
(* database is overtaken by one that does not.                             *)
(***************************************************************************)
EXTENDS FiniteSets

CONSTANTS
  Clients,      \* the sockets
  Rooms,        \* rooms of stores and stations
  OwnerRooms,   \* those of the owner's stores, and their stations
  DeviceRooms,  \* those of the device's store and station
  Payloads,     \* the store and station rooms a join-room message names
  Receipts      \* receipt tokens whose payment is there

VARIABLES
  socket,       \* client -> its connection
  lapsed        \* the receipt tokens that have expired

ASSUME SocketsAssumption ==
  /\ OwnerRooms \cup DeviceRooms \subseteq Rooms /\ Rooms \cap Receipts = {}
  /\ Payloads \subseteq (SUBSET Rooms) \ {{}}

AnyRoom == Rooms \cup Receipts

\* What a client shows when it connects: the token of an owner, of a device,
\* one that does not verify, or none.
Tokens == {"owner", "device", "bad", "none"}
Phases == {"off", "verifying", "open", "closed"}

Off == [phase |-> "off", token |-> "none",
        auth |-> FALSE,      \* client.data.auth is set
        rooms |-> {},        \* the rooms it is in
        joining |-> {},      \* the sets of rooms its handlers are looking up
        wants |-> {},        \* the rooms it asked for with good reason, and did not leave
        crossed |-> FALSE]   \* it asked before it was verified, or left while joining

Become(c, s) == socket' = [socket EXCEPT ![c] = s] /\ UNCHANGED lapsed

\* handleConnection: without a token the socket stays public.
Connect(c) ==
  \E token \in Tokens :
    /\ socket[c].phase = "off"
    /\ Become(c, [Off EXCEPT !.phase = IF token = "none" THEN "open" ELSE "verifying",
                             !.token = token])

\* The verification is an await; a bad token ends the connection.
Verify(c) ==
  /\ socket[c].phase = "verifying"
  /\ IF socket[c].token = "bad"
     THEN Become(c, [Off EXCEPT !.phase = "closed", !.token = "bad"])
     ELSE Become(c, [socket[c] EXCEPT !.phase = "open", !.auth = TRUE])

Connected(c) == socket[c].phase \in {"verifying", "open"}

\* The rooms a token is good for.
RoomsOf(token) ==
  CASE token = "owner" -> OwnerRooms [] token = "device" -> DeviceRooms [] OTHER -> {}

\* Mutation: a device may look at any room of its owner.
LooseDevice(c, rooms) ==
  socket[c].auth /\ rooms \subseteq RoomsOf(socket[c].token) \cup OwnerRooms

\* assertJoinAllowed: a device's rooms are in its token, an owner's are
\* looked up; without a verified token there are none.
Allowed(c, rooms) == socket[c].auth /\ rooms \subseteq RoomsOf(socket[c].token)

\* join-room.  The checks of a device take no await, so it joins at once.
JoinRoom(c) ==
  \E rooms \in Payloads :
    LET s == socket[c]
        asked == [s EXCEPT !.wants = IF rooms \subseteq RoomsOf(s.token) THEN @ \cup rooms ELSE @,
                           !.crossed = @ \/ s.phase = "verifying"]
    IN  /\ Connected(c)
        /\ CASE ~s.auth -> Become(c, asked)
             [] s.auth /\ s.token = "device" ->
                  Become(c, IF Allowed(c, rooms) THEN [asked EXCEPT !.rooms = @ \cup rooms]
                            ELSE asked)
             [] OTHER -> Become(c, [asked EXCEPT !.joining = @ \cup {rooms}])

\* The lookup of an owner's rooms is answered.
FinishJoinRoom(c) ==
  \E rooms \in socket[c].joining \cap Payloads :
    LET s == [socket[c] EXCEPT !.joining = @ \ {rooms}] IN
      Become(c, IF Allowed(c, rooms) THEN [s EXCEPT !.rooms = @ \cup rooms] ELSE s)

\* receipt.join is open to everyone who has the token.
JoinReceipt(c) ==
  \E t \in Receipts :
    /\ Connected(c)
    /\ Become(c, [socket[c] EXCEPT !.joining = @ \cup {{t}}, !.wants = @ \cup {t}])

\* An expired receipt is answered with receipt.expired instead.
Readable(t) == t \notin lapsed

\* The payment has been found.
FinishJoinReceipt(c) ==
  \E t \in Receipts :
    LET s == [socket[c] EXCEPT !.joining = @ \ {{t}}] IN
      /\ {t} \in socket[c].joining
      /\ Become(c, IF Readable(t) THEN [s EXCEPT !.rooms = @ \cup {t}]
                   ELSE [s EXCEPT !.wants = @ \ ({t} \ s.rooms)])

\* leave-room and receipt.leave take effect at once.
Leave(c) ==
  \E room \in socket[c].wants :
    /\ Connected(c)
    /\ Become(c, [socket[c] EXCEPT !.rooms = @ \ {room}, !.wants = @ \ {room},
                                   !.crossed = @ \/ room \in UNION socket[c].joining])

\* A receipt is a week old.
Lapse ==
  \E t \in Receipts \ lapsed : lapsed' = lapsed \cup {t} /\ UNCHANGED socket

SocketsStep(c) ==
  \/ Connect(c)
  \/ Verify(c)
  \/ JoinRoom(c)
  \/ FinishJoinRoom(c)
  \/ JoinReceipt(c)
  \/ FinishJoinReceipt(c)
  \/ Leave(c)

-----------------------------------------------------------------------------

\* A socket is only in rooms its token is good for, and once its handlers are
\* done it is in all rooms it asked for and has not left - unless it asked
\* before its token had been verified, or left a room while joining it.
RoomsAsWanted ==
  \A c \in Clients :
    LET s == socket[c] IN
      /\ s.rooms \cap Rooms \subseteq RoomsOf(s.token)
      /\ s.joining = {} /\ ~s.crossed => s.rooms = s.wants
=============================================================================
