--------------------------------- MODULE Reports -------------------------------
(***************************************************************************)
(* ReportsService: what was taken, over today, the last seven days, or a   *)
(* month, from the payments of that time.                                  *)
(***************************************************************************)
EXTENDS Ledger

CONSTANTS
  Week,           \* days of a week: 7
  Month,          \* the first and the last day of the month asked for
  Listed          \* how many top products are listed: 5

ASSUME ReportsAssumption ==
  /\ Week \in Nat \ {0} /\ Listed \in Nat
  /\ Month \in Nat \X Nat /\ Month[1] <= Month[2]

Day(time) == time \div DayHours
Hour(time) == time % DayHours
Presets == {"today", "week", "month"}

\* Mutation: the last day of the month ends as it begins.
RangeToMidnight(preset) ==
  CASE preset = "today" -> [from |-> Day(now) * DayHours, to |-> now]
    [] preset = "week" -> [from |-> (Day(now) - (Week - 1)) * DayHours, to |-> now]
    [] preset = "month" -> [from |-> Month[1] * DayHours, to |-> Month[2] * DayHours]

\* resolveRange: a month ends with the last moment of its last day.
ResolveRange(preset) ==
  CASE preset = "today" -> [from |-> Day(now) * DayHours, to |-> now]
    [] preset = "week" -> [from |-> (Day(now) - (Week - 1)) * DayHours, to |-> now]
    [] preset = "month" -> [from |-> Month[1] * DayHours, to |-> Month[2] * DayHours + DayHours - 1]

\* The query: Between counts both ends.
Within(range) == {b \in DOMAIN bills : bills[b].time >= range.from /\ bills[b].time <= range.to}

SumAmount(some) == SumOf([b \in some |-> bills[b].amount])
OrdersOf(some) == {bills[b].order : b \in some}
Delivered(some) == {b \in some : sales[bills[b].order].kind = "DELIVERY"}

\* aggregatePaymentBreakdown, and so for delivery providers; a delivery
\* without one counts under "Unknown", which is None here.
PaymentBreakdown(some) ==
  [m \in {bills[b].method : b \in some} |-> SumAmount({b \in some : bills[b].method = m})]

\* Mutation: a delivery without a platform counts nowhere.
OfKnownPlatforms(some) ==
  LET platform(b) == sales[bills[b].order].platform
      known == {b \in Delivered(some) : platform(b) # None}
  IN  [p \in {platform(b) : b \in known} |-> SumAmount({b \in known : platform(b) = p})]

DeliveryProviders(some) ==
  LET platform(b) == sales[bills[b].order].platform IN
    [p \in {platform(b) : b \in Delivered(some)} |->
       SumAmount({b \in Delivered(some) : platform(b) = p})]

HourlyOrders(some) ==
  [h \in {Hour(bills[b].time) : b \in some} |->
     Cardinality({b \in some : Hour(bills[b].time) = h})]

\* Mutation: the items of an order are not multiplied.
RevenueOfUnits(some) ==
  LET sold == UNION {{b} \X DOMAIN Lines(bills[b].order) : b \in some}
      line(s) == Lines(bills[s[1]].order)[s[2]]
  IN  [p \in {line(s).product : s \in sold} |->
         SumOf([s \in {t \in sold : line(t).product = p} |-> line(s).price])]

\* What the bills' orders hold of each product now, by revenue.
Revenue(some) ==
  LET sold == UNION {{b} \X DOMAIN Lines(bills[b].order) : b \in some}
      line(s) == Lines(bills[s[1]].order)[s[2]]
  IN  [p \in {line(s).product : s \in sold} |->
         SumOf([s \in {t \in sold : line(t).product = p} |-> line(s).price * line(s).qty])]

\* aggregateTopProducts: the Listed best of them.
TopProducts(some) ==
  LET all == Revenue(some) IN
    CHOOSE top \in SUBSET DOMAIN all :
      /\ Cardinality(top) = Min({Listed, Cardinality(DOMAIN all)})
      /\ \A p \in top, q \in DOMAIN all \ top : all[p] >= all[q]

\* getReportData: the summary.
Summary(preset) ==
  LET paid == Within(ResolveRange(preset)) IN
    [revenue |-> SumAmount(paid), orders |-> Cardinality(OrdersOf(paid)),
     delivery |-> SumAmount(Delivered(paid))]

\* buildCalendarDays, from the bills of the month.
MonthDays == Month[1]..Month[2]
OnDay(day) == {b \in Within(ResolveRange("month")) : Day(bills[b].time) = day}
CalendarDays ==
  [day \in MonthDays |-> [revenue |-> SumAmount(OnDay(day)),
                          orders |-> Cardinality(OrdersOf(OnDay(day)))]]
=============================================================================
