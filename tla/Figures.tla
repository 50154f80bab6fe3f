--------------------------------- MODULE Figures -------------------------------
(***************************************************************************)
(* What the server computes and does not keep: the owner's history and     *)
(* reports, from a ledger that grows; and whether a choice of options is   *)
(* one the menu offers.  A behaviour is about one of the two.              *)
(***************************************************************************)
EXTENDS Transactions, Reports, ModifierSelection

CONSTANT Filters  \* the queries of this instance

ASSUME FiguresAssumption == Filters \subseteq Filter

FiguresInit ==
  \/ LedgerInit /\ menu = <<>> /\ chosen = <<>> /\ at = 1 /\ seen = {} /\ taken = <<>>
                /\ verdict = "none"
  \/ SelectionInit /\ sales = NoRows /\ bills = NoRows /\ now = 0 /\ history = {}
                   /\ scene = None

FiguresNext ==
  \/ verdict = "none" /\ LedgerNext /\ UNCHANGED selection
  \/ verdict # "none" /\ SelectionNext /\ UNCHANGED ledger

FiguresSpec == FiguresInit /\ [][FiguresNext]_<<ledger, selection>>

-----------------------------------------------------------------------------

\* The counts beside the tabs of the history are those of the lists the tabs
\* show, under every other filter: getCountsByStoreId sorts orders into flows
\* with toFlowStatus, the list with the switch on filter.flowStatus.
CountsAgree ==
  \A f \in {g \in Filters : g.flow = "ALL"} :
    LET counts == Counts(f) IN
      \A flow \in Flows : counts[flow] = Cardinality(List([f EXCEPT !.flow = flow]))

\* A report covers whole days, the last of them up to now, or to its end: the
\* bills of today, of the last Week days, of the month.  The calendar of the
\* month sums up to its summary.
RangesWhole ==
  LET of(days) == {b \in DOMAIN bills : Day(bills[b].time) \in days}
      sum(field) == SumOf([day \in MonthDays |-> CalendarDays[day][field]])
  IN  /\ Within(ResolveRange("today")) = of({Day(now)})
      /\ Within(ResolveRange("week")) = of(Day(now) - Week + 1 .. Day(now))
      /\ Within(ResolveRange("month")) = of(MonthDays)
      /\ sum("revenue") = Summary("month").revenue
      /\ sum("orders") = Summary("month").orders

\* Each breakdown of a report adds up to the figure it breaks down: payment
\* methods to the revenue, delivery providers to the revenue of deliveries,
\* hours to the number of payments.
BreakdownsAddUp ==
  \A preset \in Presets :
    LET paid == Within(ResolveRange(preset)) IN
      /\ SumOf(PaymentBreakdown(paid)) = Summary(preset).revenue
      /\ SumOf(DeliveryProviders(paid)) = Summary(preset).delivery
      /\ SumOf(HourlyOrders(paid)) = Cardinality(paid)

\* The history and the reports tell of the same money, also after an order
\* was edited when it had been paid: but of an order that was paid twice the
\* history shows one payment and the reports count both.
TakingsAgree ==
  "twice" \notin history =>
    SumAmount(DOMAIN bills) = SumOf([o \in {p \in DOMAIN sales : BillsOf(p) # {}} |-> View(o).total])

\* What the products of a report brought in is what was taken, and if none
\* was free (or, with its options, cost less than nothing) the products that
\* are listed brought in all of it unless there are more: but after an order
\* that was paid is edited they are those it holds now.
ProductsEarnRevenue ==
  \A preset \in Presets :
    LET all == Revenue(Within(ResolveRange(preset)))
        top == TopProducts(Within(ResolveRange(preset)))
    IN  "edited" \notin history =>
          /\ SumOf(all) = Summary(preset).revenue
          /\ (\A p \in DOMAIN all : all[p] > 0) =>
               (SumOf([p \in top |-> all[p]]) = Summary(preset).revenue
                  <=> Cardinality(DOMAIN all) <= Listed)
=============================================================================
