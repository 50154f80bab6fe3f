------------------------------- MODULE MCFigures -------------------------------
(***************************************************************************)
(* Values of Figures' constants for TLC.                                   *)
(***************************************************************************)
EXTENDS Figures, TLC

CONSTANTS noodles, tea, large, extra, egg, size, topping, grab

Bowl == [product |-> noodles, price |-> 3, qty |-> 1]
Cups == [product |-> tea, price |-> 1, qty |-> 2]
CartsMC == {<<Bowl>>, <<Cups>>, <<Bowl, Cups>>}

\* The history of two orders that are cooked, cancelled, edited and paid; and
\* reports of payments over five hours.
Cooking == [ops |-> {"create", "status", "items", "serve", "pay", "time"}, last |-> 1,
            carts |-> {<<Bowl>>, <<Cups>>}, platforms |-> {None}]
Taking == [ops |-> {"create", "pay", "time"}, last |-> 4,
           carts |-> {<<Cups>>, <<Bowl, Cups>>}, platforms |-> {grab, None}]
CookingAndTaking == {Cooking, Taking}

MonthMC == <<0, 1>>

\* One filter at a time beside the flow, and the whole of a day.
AnyOrder == [flow |-> "ALL", kind |-> None, method |-> None, status |-> None,
             from |-> None, to |-> None]
FiltersMC ==
  {AnyOrder, [AnyOrder EXCEPT !.kind = "DELIVERY"], [AnyOrder EXCEPT !.method = "CASH"],
   [AnyOrder EXCEPT !.from = 1, !.to = 1]}
    \cup {[AnyOrder EXCEPT !.status = "READY"]}

-----------------------------------------------------------------------------
(* Menus: sizes, of which one or none is chosen, as required; toppings; and *)
(* egg, an option of neither.                                               *)

Priced(on) == [o \in {large, extra} |-> [on |-> o \in on, price |-> IF o = large THEN 2 ELSE 1]]
SizesMC ==
  {[kind |-> "SINGLE", min |-> min, max |-> 1, active |-> active, options |-> Priced(on)] :
     min \in 0..1, active \in BOOLEAN, on \in {{large}, {large, extra}}}
ToppingsMC ==
  {[kind |-> "MULTIPLE", min |-> min, max |-> max, active |-> active,
    options |-> [o \in {egg} |-> [on |-> TRUE, price |-> -1]]] :
     min \in 0..1, max \in 1..2, active \in BOOLEAN}
MenusMC ==
  {[g \in {size} |-> s] : s \in SizesMC}
    \cup {[g \in {size, topping} |-> IF g = size THEN s ELSE t] :
            s \in SizesMC, t \in ToppingsMC}

Lists == {<<>>, <<large>>, <<extra>>, <<egg>>, <<large, extra>>, <<egg, egg>>}
EntriesMC == [group : {size, topping}, options : Lists]
SelectionsMC == {<<>>} \cup {<<e>> : e \in EntriesMC} \cup (EntriesMC \X EntriesMC)
=============================================================================
