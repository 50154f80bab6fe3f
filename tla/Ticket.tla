--------------------------------- MODULE Ticket --------------------------------
(***************************************************************************)
(* What the order and station item services promise of an order that is    *)
(* taken, cooked and served: it is completed only after a moment at which  *)
(* all its station items were served, it stays completed whatever the      *)
(* stations take back, and an order that stays served is completed.        *)
(***************************************************************************)
CONSTANTS Orders

VARIABLES
  ticket,    \* order -> "none", "open" or "completed"
  served,    \* order -> whether all its station items are served
  decided    \* order -> whether somebody who saw that is about to complete it

vars == <<ticket, served, decided>>

TypeOK ==
  /\ ticket \in [Orders -> {"none", "open", "completed"}]
  /\ served \in [Orders -> BOOLEAN] /\ decided \in [Orders -> BOOLEAN]

Init ==
  /\ ticket = [o \in Orders |-> "none"]
  /\ served = [o \in Orders |-> FALSE]
  /\ decided = [o \in Orders |-> FALSE]

Take(o) ==
  /\ ticket[o] = "none"
  /\ ticket' = [ticket EXCEPT ![o] = "open"]
  /\ UNCHANGED <<served, decided>>

\* A station serves the last item, or takes one back.
Cook(o) ==
  /\ ticket[o] # "none"
  /\ served' = [served EXCEPT ![o] = ~@]
  /\ UNCHANGED <<ticket, decided>>

Decide(o) ==
  /\ ticket[o] = "open" /\ served[o] /\ ~decided[o]
  /\ decided' = [decided EXCEPT ![o] = TRUE]
  /\ UNCHANGED <<ticket, served>>

\* More than one may have decided.
Complete(o) ==
  /\ decided[o]
  /\ ticket' = [ticket EXCEPT ![o] = "completed"]
  /\ \E more \in BOOLEAN : decided' = [decided EXCEPT ![o] = more]
  /\ UNCHANGED served

Next == \E o \in Orders : Take(o) \/ Cook(o) \/ Decide(o) \/ Complete(o)

Safe == Init /\ [][Next]_vars
Spec == Safe /\ \A o \in Orders : WF_vars(Decide(o)) /\ WF_vars(Complete(o))
=============================================================================
