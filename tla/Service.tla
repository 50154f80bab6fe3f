-------------------------------- MODULE Service --------------------------------
(***************************************************************************)
(* Kitchen, while orders are only created, served and paid, implements     *)
(* Ticket: the row's status is the ticket, and a handler that is about to  *)
(* save COMPLETED is the one who has decided.                              *)
(***************************************************************************)
EXTENDS Kitchen

TicketOf(o) ==
  IF o \notin DOMAIN orders THEN "none"
  ELSE IF orders[o] = "COMPLETED" THEN "completed" ELSE "open"

Deciding(o) == \E r \in Requests : At(r, "complete") /\ req[r].order = o

Promise == INSTANCE Ticket WITH
  Orders <- OrderIds,
  ticket <- [o \in OrderIds |-> TicketOf(o)],
  served <- [o \in OrderIds |-> AllServed(o)],
  decided <- [o \in OrderIds |-> Deciding(o)]

\* The handlers of both services, interleaved, are an order's life cycle:
\* completed by the last station item, once, and for good.
ImplementsTicket == Promise!Spec
=============================================================================
