---------------------------- MODULE Figures_proofs -----------------------------
(***************************************************************************)
(* Proofs that the figures of the history and of the reports agree with    *)
(* each other and with the ledger, and that a choice of options is         *)
(* accepted exactly if it is on offer, and charged once.                   *)
(*                                                                         *)
(* The steps of the ledger matter little: LedgerInv says what its rows     *)
(* are, and that the history tells of what went wrong.  Most of the proof  *)
(* is about the views: two of them add up the same bills or lines, sorted  *)
(* in two ways (SumGroup of SumTheorems).                                  *)
(***************************************************************************)
EXTENDS Figures, SumTheorems

-----------------------------------------------------------------------------
(* The ledger. *)

LineRow == [line : CartLines, served : BOOLEAN]
SaleRow == [status : Status, kind : Kinds, platform : Platforms \cup {None},
            lines : Seq(LineRow), time : Nat]
BillRow == [order : Nat, amount : Int, method : Methods, time : Nat]

\* Ids are handed out in order, from 1, and no row goes away.
Numbered(table, rows) ==
  /\ table \in [DOMAIN table -> rows]
  /\ \E n \in Nat : DOMAIN table = 1..n

TablesOK == now \in Nat /\ Numbered(sales, SaleRow) /\ Numbered(bills, BillRow)

\* A payment is of an order, and not of the future; two payments of an order
\* are of the same moment.
BillsOK ==
  /\ \A b \in DOMAIN bills : bills[b].order \in DOMAIN sales /\ bills[b].time <= now
  /\ \A b, c \in DOMAIN bills : bills[b].order = bills[c].order => bills[b].time = bills[c].time

\* What the history says did not happen.
OncePaid ==
  "twice" \notin history =>
    \A b, c \in DOMAIN bills : bills[b].order = bills[c].order => b = c
PaidAsHeld ==
  "edited" \notin history =>
    \A b \in DOMAIN bills : bills[b].amount = Total(Lines(bills[b].order))

LedgerInv == TablesOK /\ BillsOK /\ OncePaid /\ PaidAsHeld

LEMMA NumberedEmpty ==
  ASSUME NEW rows
  PROVE  Numbered(NoRows, rows) /\ DOMAIN NoRows = {}
<1>1. DOMAIN NoRows = 1..0 /\ 0 \in Nat /\ DOMAIN NoRows = {}
  BY DEF NoRows
<1>2. NoRows \in [DOMAIN NoRows -> rows]
  BY DEF NoRows
<1> QED
  BY <1>1, <1>2 DEF Numbered

\* The next rows.
LEMMA NumberedPut ==
  ASSUME NEW table, NEW rows, Numbered(table, rows), NEW k \in Nat, NEW new,
         LET n == Cardinality(DOMAIN table) IN new \in [n + 1 .. n + k -> rows]
  PROVE  /\ Numbered(Put(new, table), rows)
         /\ DOMAIN Put(new, table) = DOMAIN new \cup DOMAIN table
         /\ DOMAIN new \cap DOMAIN table = {}
         /\ \A i \in DOMAIN new : Put(new, table)[i] = new[i]
         /\ \A i \in DOMAIN table : Put(new, table)[i] = table[i]
<1>1. PICK n \in Nat : DOMAIN table = 1..n
  BY DEF Numbered
<1>2. Cardinality(DOMAIN table) = n
  <2>1. Cardinality(1..n) = n
    BY FS_Interval
  <2> QED
    BY <1>1, <2>1
<1>3. DOMAIN new = n + 1 .. n + k /\ \A i \in n + 1 .. n + k : new[i] \in rows
  BY <1>2
<1>4. DOMAIN new \cap DOMAIN table = {}
  BY <1>1, <1>3
<1>5. DOMAIN Put(new, table) = DOMAIN new \cup DOMAIN table
  BY DEF Put
<1>6. DOMAIN Put(new, table) = 1..n + k
  BY <1>1, <1>3, <1>5
<1>7. \A i \in DOMAIN new : Put(new, table)[i] = new[i]
  BY DEF Put
<1>8. \A i \in DOMAIN table : Put(new, table)[i] = table[i]
  BY <1>4 DEF Put
<1>9. Put(new, table) \in [DOMAIN Put(new, table) -> rows]
  <2>1. \A i \in DOMAIN Put(new, table) : Put(new, table)[i] \in rows
    BY <1>3, <1>5, <1>7, <1>8 DEF Numbered
  <2>2. Put(new, table) = [i \in DOMAIN Put(new, table) |-> Put(new, table)[i]]
    BY DEF Put
  <2> QED
    BY <2>1, <2>2
<1>10. \E m \in Nat : DOMAIN Put(new, table) = 1..m
  <2>1. n + k \in Nat
    OBVIOUS
  <2> QED
    BY <2>1, <1>6
<1>11. Numbered(Put(new, table), rows)
  BY <1>9, <1>10 DEF Numbered
<1> QED
  BY <1>4, <1>5, <1>7, <1>8, <1>11

LEMMA UnservedLines ==
  ASSUME NEW cart \in Carts
  PROVE  Unserved(cart) \in Seq(LineRow)
<1>1. cart \in Seq(CartLines)
  BY CartsAssumption
<1>2. Len(cart) \in Nat /\ cart \in [1..Len(cart) -> CartLines] /\ DOMAIN cart = 1..Len(cart)
  BY <1>1
<1>3. Unserved(cart) \in [1..Len(cart) -> LineRow]
  BY <1>2 DEF Unserved, LineRow
<1> QED
  BY <1>2, <1>3

\* What an order costs is a number.
LEMMA TotalInt ==
  ASSUME TablesOK, NEW o \in DOMAIN sales
  PROVE  /\ Total(Lines(o)) \in Int
         /\ IsFiniteSet(DOMAIN Lines(o))
         /\ \A i \in DOMAIN Lines(o) : Lines(o)[i].price \in Int /\ Lines(o)[i].qty \in Int
<1>1. sales[o].lines \in Seq(LineRow)
  BY DEF TablesOK, Numbered, SaleRow
<1> DEFINE lines == sales[o].lines
<1>2. Len(lines) \in Nat /\ DOMAIN lines = 1..Len(lines) /\ \A i \in DOMAIN lines : lines[i] \in LineRow
  BY <1>1
<1>3. IsFiniteSet(DOMAIN lines)
  BY <1>2, FS_Interval
<1>4. DOMAIN Lines(o) = DOMAIN lines /\ \A i \in DOMAIN lines : Lines(o)[i] = lines[i].line
  BY DEF Lines
<1>5. \A i \in DOMAIN Lines(o) : Lines(o)[i].price \in Int /\ Lines(o)[i].qty \in Int
  <2>1. \A i \in DOMAIN lines : lines[i].line \in CartLines
    BY <1>2 DEF LineRow
  <2> QED
    BY <1>4, <2>1, CartsAssumption
<1> DEFINE cost == [i \in DOMAIN Lines(o) |-> Lines(o)[i].price * Lines(o)[i].qty]
<1>6. Total(Lines(o)) = Sum(cost, DOMAIN cost)
  BY DEF Total, SumOf, Sum
<1>7. \A i \in DOMAIN cost : cost[i] \in Int
  BY <1>5
<1>8. IsFiniteSet(DOMAIN cost)
  BY <1>3, <1>4
<1>9. Sum(cost, DOMAIN cost) \in Int
  <2> HIDE DEF cost
  <2> QED
    BY <1>7, <1>8, SumInt
<1> QED
  BY <1>3, <1>4, <1>5, <1>6, <1>9

\* Lines are those of the row: they do not change unless it does.
LEMMA LinesStay ==
  ASSUME NEW o, sales'[o].lines = sales[o].lines
  PROVE  Lines(o)' = Lines(o)
BY DEF Lines

\* The bills stay valid when they do not change and no row goes away.
LEMMA BillsStay ==
  ASSUME BillsOK, bills' = bills, now' = now, DOMAIN sales \subseteq DOMAIN sales'
  PROVE  BillsOK'
BY DEF BillsOK

LEMMA LedgerInitInv ==
  ASSUME sales = NoRows, bills = NoRows, now = 0
  PROVE  LedgerInv
<1>1. DOMAIN bills = {}
  BY NumberedEmpty
<1>2. TablesOK
  BY NumberedEmpty DEF TablesOK
<1> QED
  BY <1>1, <1>2 DEF LedgerInv, BillsOK, OncePaid, PaidAsHeld

LEMMA SellInv ==
  ASSUME LedgerInv, scene \in Scenes, Sell
  PROVE  LedgerInv'
<1> DEFINE o == Cardinality(DOMAIN sales) + 1
<1>1. PICK cart \in scene.carts, kind \in Kinds, platform \in scene.platforms \cup {None} :
        sales' = Put(Row(o, [status |-> "NEW", kind |-> kind, platform |-> platform,
                             lines |-> Unserved(cart), time |-> now]), sales)
  BY DEF Sell
<1>2. UNCHANGED <<bills, now, history>>
  BY DEF Sell
<1> DEFINE row == [status |-> "NEW", kind |-> kind, platform |-> platform,
                   lines |-> Unserved(cart), time |-> now]
<1>3. row \in SaleRow
  <2>1. cart \in Carts /\ platform \in Platforms \cup {None}
    BY LedgerAssumption
  <2>2. now \in Nat /\ Unserved(cart) \in Seq(LineRow)
    BY <2>1, UnservedLines DEF LedgerInv, TablesOK
  <2> QED
    BY <2>1, <2>2 DEF SaleRow, Status
<1> HIDE DEF row
<1>4. Cardinality(DOMAIN sales) \in Nat
  <2>1. PICK n \in Nat : DOMAIN sales = 1..n
    BY DEF LedgerInv, TablesOK, Numbered
  <2>2. IsFiniteSet(1..n)
    BY FS_Interval
  <2> QED
    BY <2>1, <2>2, FS_CardinalityType
<1>5. Row(o, row) \in [o..o -> SaleRow]
  <2>1. o..o = {o}
    BY <1>4
  <2> QED
    BY <2>1, <1>3 DEF Row
<1>6. /\ Numbered(Put(Row(o, row), sales), SaleRow)
      /\ \A i \in DOMAIN sales : Put(Row(o, row), sales)[i] = sales[i]
      /\ DOMAIN sales \subseteq DOMAIN Put(Row(o, row), sales)
  <2> DEFINE new == Row(o, row)
  <2>1. 1 \in Nat /\ Numbered(sales, SaleRow)
    BY DEF LedgerInv, TablesOK
  <2>2. LET n == Cardinality(DOMAIN sales) IN new \in [n + 1 .. n + 1 -> SaleRow]
    BY <1>5
  <2> HIDE DEF new
  <2>3. /\ Numbered(Put(new, sales), SaleRow)
        /\ DOMAIN Put(new, sales) = DOMAIN new \cup DOMAIN sales
        /\ \A i \in DOMAIN sales : Put(new, sales)[i] = sales[i]
    BY <2>1, <2>2, NumberedPut
  <2> QED
    BY <2>3 DEF new
<1>7. sales' = Put(Row(o, row), sales)
  BY <1>1 DEF row
<1>8. /\ Numbered(sales', SaleRow) /\ DOMAIN sales \subseteq DOMAIN sales'
      /\ \A i \in DOMAIN sales : sales'[i] = sales[i]
  BY <1>6, <1>7
<1>9. TablesOK'
  BY <1>2, <1>8 DEF LedgerInv, TablesOK
<1>10. BillsOK'
  BY <1>2, <1>8, BillsStay DEF LedgerInv
<1>11. OncePaid'
  BY <1>2 DEF LedgerInv, OncePaid
<1>12. PaidAsHeld'
  <2>1. \A b \in DOMAIN bills : Lines(bills[b].order)' = Lines(bills[b].order)
    BY <1>2, <1>8, LinesStay DEF LedgerInv, BillsOK
  <2> QED
    BY <1>2, <2>1 DEF LedgerInv, PaidAsHeld
<1> QED
  BY <1>9, <1>10, <1>11, <1>12 DEF LedgerInv

\* A row that is replaced by another.
LEMMA NumberedExcept ==
  ASSUME NEW table, NEW rows, Numbered(table, rows), NEW k, NEW new \in rows
  PROVE  LET next == [table EXCEPT ![k] = new]
         IN  /\ Numbered(next, rows) /\ DOMAIN next = DOMAIN table
             /\ \A i \in DOMAIN table : next[i] = IF i = k THEN new ELSE table[i]
BY DEF Numbered

\* An order is saved; what it holds of each product may be different only if
\* it has not been paid, or the history says that it was edited.
LEMMA SaveInv ==
  ASSUME LedgerInv, NEW o \in DOMAIN sales, NEW row \in SaleRow,
         sales' = [sales EXCEPT ![o] = row], bills' = bills, now' = now,
         \/ history' = history /\ Lines(o)' = Lines(o)
         \/ history' = history /\ BillsOf(o) = {}
         \/ history' = history \cup {"edited"}
  PROVE  LedgerInv'
<1>1. /\ Numbered(sales', SaleRow) /\ DOMAIN sales' = DOMAIN sales
      /\ \A i \in DOMAIN sales : i # o => sales'[i] = sales[i]
  BY NumberedExcept DEF LedgerInv, TablesOK
<1>2. TablesOK'
  BY <1>1 DEF LedgerInv, TablesOK
<1>3. BillsOK'
  BY <1>1, BillsStay DEF LedgerInv
<1>4. OncePaid'
  BY DEF LedgerInv, OncePaid
<1>5. PaidAsHeld'
  <2>1. SUFFICES ASSUME "edited" \notin history', NEW b \in DOMAIN bills
                 PROVE  bills[b].amount = Total(Lines(bills[b].order))'
    BY DEF PaidAsHeld
  <2>2. "edited" \notin history /\ (Lines(o)' = Lines(o) \/ BillsOf(o) = {})
    BY <2>1
  <2>3. bills[b].amount = Total(Lines(bills[b].order)) /\ bills[b].order \in DOMAIN sales
    BY <2>2 DEF LedgerInv, PaidAsHeld, BillsOK
  <2>4. Lines(bills[b].order)' = Lines(bills[b].order)
    <3>1. CASE bills[b].order = o
      BY <3>1, <2>2 DEF BillsOf
    <3>2. CASE bills[b].order # o
      BY <3>2, <1>1, <2>3, LinesStay
    <3> QED
      BY <3>1, <3>2
  <2> QED
    BY <2>3, <2>4
<1> QED
  BY <1>2, <1>3, <1>4, <1>5 DEF LedgerInv

LEMMA SaleFields ==
  ASSUME LedgerInv, NEW o \in DOMAIN sales
  PROVE  /\ sales[o] \in SaleRow
         /\ sales[o] = [status |-> sales[o].status, kind |-> sales[o].kind,
                       platform |-> sales[o].platform, lines |-> sales[o].lines,
                       time |-> sales[o].time]
BY DEF LedgerInv, TablesOK, Numbered, SaleRow

LEMMA RelabelInv ==
  ASSUME LedgerInv, NEW o \in DOMAIN sales, Relabel(o)
  PROVE  LedgerInv'
<1>1. PICK status \in Assigned : sales' = [sales EXCEPT ![o].status = status]
  BY DEF Relabel
<1> DEFINE row == [sales[o] EXCEPT !.status = status]
<1>2. sales[o] \in SaleRow
  BY SaleFields
<1>3. row \in SaleRow /\ row.lines = sales[o].lines
  BY <1>2, LedgerAssumption DEF SaleRow
<1>4. sales' = [sales EXCEPT ![o] = row]
  BY <1>1
<1> HIDE DEF row
<1>5. sales'[o].lines = sales[o].lines
  BY <1>3, <1>4
<1>6. Lines(o)' = Lines(o)
  BY <1>5, LinesStay
<1> QED
  BY <1>3, <1>4, <1>6, SaveInv DEF Relabel

LEMMA EditInv ==
  ASSUME LedgerInv, scene \in Scenes, NEW o \in DOMAIN sales, Edit(o)
  PROVE  LedgerInv'
<1>1. PICK cart \in scene.carts : sales' = [sales EXCEPT ![o].lines = Unserved(cart)]
  BY DEF Edit
<1> DEFINE row == [sales[o] EXCEPT !.lines = Unserved(cart)]
<1>2. sales[o] \in SaleRow
  BY SaleFields
<1>3. Unserved(cart) \in Seq(LineRow)
  BY LedgerAssumption, UnservedLines
<1>4. row \in SaleRow
  BY <1>2, <1>3 DEF SaleRow
<1>5. sales' = [sales EXCEPT ![o] = row]
  BY <1>1
<1>6. /\ bills' = bills /\ now' = now
      /\ history' = IF BillsOf(o) = {} THEN history ELSE history \cup {"edited"}
  BY DEF Edit
<1> HIDE DEF row
<1> QED
  BY <1>4, <1>5, <1>6, SaveInv

LEMMA ServeLineInv ==
  ASSUME LedgerInv, NEW o \in DOMAIN sales, ServeLine(o)
  PROVE  LedgerInv'
<1> DEFINE lines == sales[o].lines
           served(i) == [sales[o] EXCEPT !.lines = [lines EXCEPT ![i] = [@ EXCEPT !.served = TRUE]]]
           done(i) == [served(i) EXCEPT !.status = "COMPLETED"]
<1>1. PICK i \in DOMAIN lines :
        \/ sales' = [sales EXCEPT ![o] = served(i)]
        \/ sales' = [sales EXCEPT ![o] = done(i)]
  BY DEF ServeLine
<1>2. sales[o] \in SaleRow /\ lines \in Seq(LineRow)
  BY SaleFields DEF SaleRow
<1>3. Len(lines) \in Nat /\ lines \in [1..Len(lines) -> LineRow] /\ DOMAIN lines = 1..Len(lines)
  BY <1>2
<1> DEFINE line == [lines[i] EXCEPT !.served = TRUE]
           new == [lines EXCEPT ![i] = line]
<1>4. line \in LineRow /\ line.line = lines[i].line
  BY <1>3 DEF LineRow
<1>5. /\ new \in Seq(LineRow) /\ DOMAIN new = DOMAIN lines
      /\ \A j \in DOMAIN lines : new[j].line = lines[j].line
  <2> HIDE DEF line
  <2>1. new \in [1..Len(lines) -> LineRow]
    BY <1>3, <1>4
  <2> QED
    BY <1>3, <1>4, <2>1
<1>6. PICK row \in SaleRow : sales' = [sales EXCEPT ![o] = row] /\ row.lines = new
  <2> HIDE DEF new
  <2>1. [sales[o] EXCEPT !.lines = new] \in SaleRow
        /\ [sales[o] EXCEPT !.lines = new].lines = new
    BY <1>2, <1>5 DEF SaleRow
  <2>2. [[sales[o] EXCEPT !.lines = new] EXCEPT !.status = "COMPLETED"] \in SaleRow
        /\ [[sales[o] EXCEPT !.lines = new] EXCEPT !.status = "COMPLETED"].lines = new
    BY <2>1 DEF SaleRow, Status
  <2>3. served(i) = [sales[o] EXCEPT !.lines = new]
    BY DEF new
  <2> HIDE DEF served
  <2> QED
    BY <1>1, <2>1, <2>2, <2>3
<1>7. Lines(o)' = Lines(o)
  <2>1. sales'[o].lines = new
    BY <1>6
  <2> HIDE DEF new
  <2> QED
    BY <1>5, <2>1 DEF Lines
<1>8. bills' = bills /\ now' = now /\ history' = history
  BY DEF ServeLine
<1> QED
  BY <1>6, <1>7, <1>8, SaveInv

LEMMA LenOfList ==
  ASSUME NEW S, NEW n \in Nat, NEW list \in [1..n -> S]
  PROVE  Len(list) = n
<1>1. list \in Seq(S) /\ DOMAIN list = 1..n
  OBVIOUS
<1>2. Len(list) \in Nat /\ DOMAIN list = 1..Len(list)
  BY <1>1
<1> QED
  BY <1>1, <1>2

LEMMA PayInv ==
  ASSUME LedgerInv, NEW o \in DOMAIN sales, Pay(o)
  PROVE  LedgerInv'
<1> DEFINE b == Cardinality(DOMAIN bills)
           bill(m) == [order |-> o, amount |-> Total(Lines(o)), method |-> m, time |-> now]
<1>1. PICK methods \in [1..1 -> Methods] \cup [1..2 -> Methods] :
        /\ BillsOf(o) = {} /\ UNCHANGED <<sales, now>>
        /\ bills' = Put([k \in b + 1 .. b + Len(methods) |-> bill(methods[k - b])], bills)
        /\ history' = IF Len(methods) = 1 THEN history ELSE history \cup {"twice"}
  BY DEF Pay
<1> DEFINE times == Len(methods)
           new == [k \in b + 1 .. b + times |-> bill(methods[k - b])]
<1>2. times \in {1, 2} /\ methods \in [1..times -> Methods]
  <2>1. CASE methods \in [1..1 -> Methods]
    <3>1. 1 \in Nat
      OBVIOUS
    <3> QED
      BY <2>1, <3>1, LenOfList
  <2>2. CASE methods \in [1..2 -> Methods]
    <3>1. 2 \in Nat
      OBVIOUS
    <3> QED
      BY <2>2, <3>1, LenOfList
  <2> QED
    BY <2>1, <2>2
<1>3. b \in Nat
  <2>1. PICK n \in Nat : DOMAIN bills = 1..n
    BY DEF LedgerInv, TablesOK, Numbered
  <2>2. IsFiniteSet(1..n)
    BY FS_Interval
  <2> QED
    BY <2>1, <2>2, FS_CardinalityType
<1>4. o \in Nat /\ now \in Nat /\ Total(Lines(o)) \in Int
  BY TotalInt DEF LedgerInv, TablesOK, Numbered
<1> HIDE DEF times, b
<1>5. new \in [b + 1 .. b + times -> BillRow]
  <2>1. ASSUME NEW k \in b + 1 .. b + times PROVE bill(methods[k - b]) \in BillRow
    <3>1. k - b \in 1..times
      BY <1>2, <1>3
    <3>2. methods[k - b] \in Methods
      BY <1>2, <3>1
    <3> QED
      BY <1>4, <3>2 DEF BillRow
  <2> HIDE DEF bill
  <2> QED
    BY <2>1
<1>6. /\ DOMAIN new = b + 1 .. b + times
      /\ \A k \in DOMAIN new : /\ new[k].order = o /\ new[k].time = now
                                /\ new[k].amount = Total(Lines(o))
  OBVIOUS
<1> HIDE DEF new
<1>7. /\ Numbered(Put(new, bills), BillRow)
      /\ DOMAIN Put(new, bills) = DOMAIN new \cup DOMAIN bills
      /\ DOMAIN new \cap DOMAIN bills = {}
      /\ \A i \in DOMAIN new : Put(new, bills)[i] = new[i]
      /\ \A i \in DOMAIN bills : Put(new, bills)[i] = bills[i]
  <2>1. times \in Nat /\ Numbered(bills, BillRow)
    BY <1>2 DEF LedgerInv, TablesOK
  <2>2. LET n == Cardinality(DOMAIN bills) IN new \in [n + 1 .. n + times -> BillRow]
    BY <1>5 DEF b
  <2> QED
    BY <2>1, <2>2, NumberedPut
<1>8. bills' = Put(new, bills)
  BY <1>1 DEF new, b, times
<1>9. /\ Numbered(bills', BillRow)
      /\ DOMAIN bills' = DOMAIN new \cup DOMAIN bills
      /\ \A i \in DOMAIN new : bills'[i].order = o /\ bills'[i].time = now
                               /\ bills'[i].amount = Total(Lines(o))
      /\ \A i \in DOMAIN bills : bills'[i] = bills[i]
  BY <1>6, <1>7, <1>8
<1>10. \A i \in DOMAIN bills : bills[i].order # o
  BY <1>1 DEF BillsOf
<1>11. TablesOK'
  BY <1>1, <1>9 DEF LedgerInv, TablesOK
<1>12. BillsOK'
  <2>1. \A i \in DOMAIN bills' : bills'[i].order \in DOMAIN sales /\ bills'[i].time <= now
    BY <1>4, <1>9 DEF LedgerInv, BillsOK
  <2>2. \A i, j \in DOMAIN bills' :
          bills'[i].order = bills'[j].order => bills'[i].time = bills'[j].time
    BY <1>9, <1>10 DEF LedgerInv, BillsOK
  <2> QED
    BY <1>1, <2>1, <2>2 DEF BillsOK
<1>13. OncePaid'
  <2>1. SUFFICES ASSUME "twice" \notin history',
                        NEW i \in DOMAIN bills', NEW j \in DOMAIN bills',
                        bills'[i].order = bills'[j].order
                 PROVE  i = j
    BY DEF OncePaid
  <2>2. times = 1 /\ "twice" \notin history
    BY <1>1, <2>1 DEF times
  <2>3. DOMAIN new = {b + 1}
    BY <1>3, <1>6, <2>2
  <2> QED
    BY <1>9, <1>10, <2>1, <2>2, <2>3 DEF LedgerInv, OncePaid
<1>14. PaidAsHeld'
  <2>1. SUFFICES ASSUME "edited" \notin history', NEW i \in DOMAIN bills'
                 PROVE  bills'[i].amount = Total(Lines(bills[i].order))'
    BY DEF PaidAsHeld
  <2>2. "edited" \notin history /\ sales' = sales
    BY <1>1, <2>1
  <2>3. CASE i \in DOMAIN new
    <3>1. bills'[i].order = o /\ bills'[i].amount = Total(Lines(o))
      BY <2>3, <1>9
    <3>2. Lines(bills[i].order)' = Lines(o)
      BY <3>1, <2>2 DEF Lines
    <3> QED
      BY <3>1, <3>2
  <2>4. CASE i \in DOMAIN bills
    <3>1. bills'[i] = bills[i] /\ bills[i].amount = Total(Lines(bills[i].order))
      BY <2>2, <2>4, <1>9 DEF LedgerInv, PaidAsHeld
    <3>2. Lines(bills[i].order)' = Lines(bills[i].order)
      BY <3>1, <2>2 DEF Lines
    <3> QED
      BY <3>1, <3>2
  <2> QED
    BY <1>9, <2>3, <2>4
<1> QED
  BY <1>11, <1>12, <1>13, <1>14 DEF LedgerInv

LEMMA PassInv ==
  ASSUME LedgerInv, Pass
  PROVE  LedgerInv'
<1>1. UNCHANGED <<sales, bills, history>> /\ now' = now + 1
  BY DEF Pass
<1>2. TablesOK'
  BY <1>1 DEF LedgerInv, TablesOK
<1>3. BillsOK'
  <2>1. \A b \in DOMAIN bills : bills[b].time \in Nat /\ now \in Nat
    BY DEF LedgerInv, TablesOK, Numbered, BillRow
  <2>2. \A b \in DOMAIN bills : bills[b].time <= now + 1
    BY <2>1 DEF LedgerInv, BillsOK
  <2> QED
    BY <1>1, <2>2 DEF LedgerInv, BillsOK
<1>4. OncePaid' /\ PaidAsHeld'
  BY <1>1 DEF LedgerInv, OncePaid, PaidAsHeld, Lines
<1> QED
  BY <1>2, <1>3, <1>4 DEF LedgerInv

LEMMA LedgerNextInv ==
  ASSUME LedgerInv, scene \in Scenes, LedgerNext
  PROVE  LedgerInv' /\ scene' \in Scenes
<1>1. scene' = scene
  BY DEF LedgerNext
<1>2. \/ Sell \/ Pass
      \/ \E o \in DOMAIN sales : Relabel(o) \/ Edit(o) \/ ServeLine(o) \/ Pay(o)
  BY DEF LedgerNext
<1> QED
  BY <1>1, <1>2, SellInv, PassInv, RelabelInv, EditInv, ServeLineInv, PayInv

LEMMA LedgerStays ==
  ASSUME LedgerInv, UNCHANGED ledger
  PROVE  LedgerInv'
BY DEF ledger, LedgerInv, TablesOK, BillsOK, OncePaid, PaidAsHeld, Lines

-----------------------------------------------------------------------------
(* The history. *)

\* The tabs count what their lists hold, whatever the ledger holds.
LEMMA CountsAreThoseOfLists == CountsAgree
<1> SUFFICES ASSUME NEW f \in Filters, f.flow = "ALL", NEW flow \in Flows
             PROVE  Counts(f)[flow] = Cardinality(List([f EXCEPT !.flow = flow]))
  BY DEF CountsAgree
<1> DEFINE g == [f EXCEPT !.flow = flow]
<1>1. f \in Filter
  BY FiguresAssumption
<1>2. /\ g.flow = flow /\ g.kind = f.kind /\ g.method = f.method /\ g.status = f.status
      /\ g.from = f.from /\ g.to = f.to
  BY <1>1 DEF Filter
<1> HIDE DEF g
<1>3. ASSUME NEW status PROVE InFlow(flow, status) <=> flow \in {"ALL", FlowStatus(status)}
  BY DEF InFlow, FlowStatus, Done, Flows
<1>4. \A o : View(o).status = sales[o].status
  BY DEF View
<1>5. ASSUME NEW v PROVE Matches(g, v) <=> Matches(f, v) /\ InFlow(flow, v.status)
  BY <1>2 DEF Matches, Dated, InFlow
<1>6. List(g) = {o \in List(f) : InFlow(flow, View(o).status)}
  BY <1>5 DEF List
<1>7. List(g) = {o \in List(f) : flow \in {"ALL", FlowStatus(sales[o].status)}}
  BY <1>3, <1>4, <1>6
<1> QED
  BY <1>7 DEF Counts, g

-----------------------------------------------------------------------------
(* Days. *)

LEMMA TimesMonotone ==
  ASSUME NEW a \in Int, NEW b \in Int, a <= b, NEW d \in Nat
  PROVE  a * d <= b * d
<1>1. PICK c \in Nat : b = a + c
  <2>1. b - a \in Nat /\ b = a + (b - a)
    OBVIOUS
  <2> QED
    BY <2>1
<1>2. c * d >= 0 /\ c * d \in Int /\ a * d \in Int
  OBVIOUS
<1>3. b * d = a * d + c * d
  BY <1>1
<1> QED
  BY <1>2, <1>3

\* Day k has begun when its first hour has, and is over when the next begins.
LEMMA DayOf ==
  ASSUME NEW time \in Nat, NEW k \in Int
  PROVE  /\ Day(time) \in Nat
         /\ k <= Day(time) <=> k * DayHours <= time
         /\ Day(time) <= k <=> time <= k * DayHours + DayHours - 1
<1> DEFINE d == DayHours
           q == time \div d
<1>1. d \in Nat /\ d > 0
  BY LedgerAssumption
<1> HIDE DEF d
<1>2. q \in Nat /\ q * d <= time /\ time < q * d + d
  BY <1>1
<1> HIDE DEF q
<1>3. k * d \in Int /\ q * d \in Int
  BY <1>1, <1>2
<1>4. ASSUME k <= q PROVE k * d <= time
  BY <1>1, <1>2, <1>3, <1>4, TimesMonotone
<1>5. ASSUME q + 1 <= k PROVE time < k * d
  <2>1. (q + 1) * d <= k * d
    BY <1>1, <1>2, <1>5, TimesMonotone
  <2>2. (q + 1) * d = q * d + d
    BY <1>1, <1>2
  <2> QED
    BY <1>1, <1>2, <1>3, <2>1, <2>2
<1>6. ASSUME q <= k PROVE time <= k * d + d - 1
  <2>1. q * d <= k * d
    BY <1>1, <1>2, <1>6, TimesMonotone
  <2> QED
    BY <1>1, <1>2, <1>3, <2>1
<1>7. ASSUME k + 1 <= q PROVE k * d + d <= time
  <2>1. (k + 1) * d <= q * d
    BY <1>1, <1>2, <1>7, TimesMonotone
  <2>2. (k + 1) * d = k * d + d
    BY <1>1, <1>2
  <2> QED
    BY <1>1, <1>2, <1>3, <2>1, <2>2
<1>8. Day(time) = q
  BY DEF Day, q, d
<1>9. k <= q <=> k * d <= time
  BY <1>1, <1>2, <1>3, <1>4, <1>5
<1>10. q <= k <=> time <= k * d + d - 1
  BY <1>1, <1>2, <1>3, <1>6, <1>7
<1> QED
  BY <1>2, <1>8, <1>9, <1>10 DEF d

LEMMA BillTimes ==
  ASSUME LedgerInv
  PROVE  now \in Nat /\ \A b \in DOMAIN bills : bills[b].time \in Nat /\ bills[b].time <= now
BY DEF LedgerInv, TablesOK, Numbered, BillRow, BillsOK

\* The ranges of a report are days.
DaysOf(preset) ==
  CASE preset = "today" -> {Day(now)}
    [] preset = "week" -> Day(now) - Week + 1 .. Day(now)
    [] preset = "month" -> MonthDays

LEMMA RangeIsDays ==
  ASSUME LedgerInv, NEW preset \in Presets
  PROVE  Within(ResolveRange(preset)) = {b \in DOMAIN bills : Day(bills[b].time) \in DaysOf(preset)}
<1> SUFFICES ASSUME NEW b \in DOMAIN bills
             PROVE  bills[b].time >= ResolveRange(preset).from /\ bills[b].time <= ResolveRange(preset).to
                      <=> Day(bills[b].time) \in DaysOf(preset)
  BY DEF Within
<1> DEFINE time == bills[b].time
<1>1. time \in Nat /\ now \in Nat /\ time <= now
  BY BillTimes
<1> HIDE DEF time
<1>2. DayHours \in Nat /\ Week \in Nat
  BY LedgerAssumption, ReportsAssumption
<1>3. Day(time) \in Nat /\ Day(now) \in Nat /\ Day(time) <= Day(now)
  <2>1. Day(time) \in Nat /\ Day(now) \in Nat
    BY <1>1, DayOf
  <2>2. Day(time) * DayHours <= time
    BY <1>1, <2>1, DayOf
  <2>3. Day(time) * DayHours <= now
    BY <1>1, <1>2, <2>1, <2>2
  <2> QED
    BY <1>1, <2>1, <2>3, DayOf
<1>4. CASE preset = "today"
  <2>1. ResolveRange(preset).from = Day(now) * DayHours /\ ResolveRange(preset).to = now
    BY <1>4 DEF ResolveRange
  <2>2. Day(now) <= Day(time) <=> Day(now) * DayHours <= time
    BY <1>1, <1>3, DayOf
  <2>3. Day(now) * DayHours \in Nat
    BY <1>2, <1>3
  <2>4. DaysOf(preset) = {Day(now)}
    BY <1>4 DEF DaysOf
  <2> QED
    BY <1>1, <1>3, <2>1, <2>2, <2>3, <2>4 DEF time
<1>5. CASE preset = "week"
  <2> DEFINE first == Day(now) - (Week - 1)
  <2>1. ResolveRange(preset).from = first * DayHours /\ ResolveRange(preset).to = now
    BY <1>5 DEF ResolveRange
  <2>2. first \in Int /\ first = Day(now) - Week + 1
    BY <1>2, <1>3
  <2> HIDE DEF first
  <2>3. first <= Day(time) <=> first * DayHours <= time
    BY <1>1, <2>2, DayOf
  <2>4. first * DayHours \in Int
    BY <1>2, <2>2
  <2>5. DaysOf(preset) = first .. Day(now)
    BY <1>5, <2>2 DEF DaysOf
  <2> QED
    BY <1>1, <1>3, <2>1, <2>2, <2>3, <2>4, <2>5 DEF time
<1>6. CASE preset = "month"
  <2>1. /\ ResolveRange(preset).from = Month[1] * DayHours
        /\ ResolveRange(preset).to = Month[2] * DayHours + DayHours - 1
    BY <1>6 DEF ResolveRange
  <2>2. Month[1] \in Nat /\ Month[2] \in Nat
    BY ReportsAssumption
  <2>3. /\ Month[1] <= Day(time) <=> Month[1] * DayHours <= time
        /\ Day(time) <= Month[2] <=> time <= Month[2] * DayHours + DayHours - 1
    BY <1>1, <2>2, DayOf
  <2>4. Month[1] * DayHours \in Nat /\ Month[2] * DayHours \in Nat
    BY <1>2, <2>2
  <2>5. DaysOf(preset) = Month[1]..Month[2]
    BY <1>6 DEF DaysOf, MonthDays
  <2> QED
    BY <1>1, <1>2, <1>3, <2>1, <2>2, <2>3, <2>4, <2>5 DEF time
<1> QED
  BY <1>4, <1>5, <1>6 DEF Presets

-----------------------------------------------------------------------------
(* Sums over bills. *)

Amounts == [b \in DOMAIN bills |-> bills[b].amount]

LEMMA SumOfPart ==
  ASSUME NEW w, NEW S, IsFiniteSet(S)
  PROVE  SumOf([x \in S |-> w[x]]) = Sum(w, S)
<1> DEFINE v == [x \in S |-> w[x]]
<1>1. DOMAIN v = S /\ \A x \in S : v[x] = w[x]
  OBVIOUS
<1> HIDE DEF v
<1>2. SumOf(v) = Sum(v, S)
  BY <1>1 DEF SumOf, Sum
<1>3. Sum(v, S) = Sum(w, S)
  BY <1>1, SumSame
<1> QED
  BY <1>2, <1>3 DEF v

LEMMA TablesFinite ==
  ASSUME LedgerInv
  PROVE  IsFiniteSet(DOMAIN sales) /\ IsFiniteSet(DOMAIN bills)
<1>1. \A n \in Nat : IsFiniteSet(1..n)
  BY FS_Interval
<1> QED
  BY <1>1 DEF LedgerInv, TablesOK, Numbered

LEMMA SomeBills ==
  ASSUME LedgerInv, NEW some \in SUBSET DOMAIN bills
  PROVE  /\ IsFiniteSet(some) /\ IsFiniteSet(OrdersOf(some))
         /\ \A b \in some : Amounts[b] \in Int
         /\ SumAmount(some) = Sum(Amounts, some) /\ SumAmount(some) \in Int
<1>1. IsFiniteSet(some)
  BY TablesFinite, FS_Subset
<1>2. OrdersOf(some) \in SUBSET DOMAIN sales
  BY DEF OrdersOf, LedgerInv, BillsOK
<1>3. IsFiniteSet(OrdersOf(some))
  BY <1>2, TablesFinite, FS_Subset
<1>4. \A b \in some : Amounts[b] = bills[b].amount /\ Amounts[b] \in Int
  BY DEF Amounts, LedgerInv, TablesOK, Numbered, BillRow
<1>5. SumAmount(some) = Sum(Amounts, some)
  <2>1. [b \in some |-> bills[b].amount] = [b \in some |-> Amounts[b]]
    BY <1>4
  <2>2. SumOf([b \in some |-> Amounts[b]]) = Sum(Amounts, some)
    BY <1>1, SumOfPart
  <2> QED
    BY <2>1, <2>2 DEF SumAmount
<1>6. Sum(Amounts, some) \in Int
  BY <1>1, <1>4, SumInt
<1> QED
  BY <1>1, <1>3, <1>4, <1>5, <1>6

\* What some bills come to is what they come to for each key.
LEMMA AmountsGroup ==
  ASSUME LedgerInv, NEW some \in SUBSET DOMAIN bills,
         NEW key, NEW K, IsFiniteSet(K), \A b \in some : key[b] \in K,
         NEW g, \A c \in K : g[c] = SumAmount(Class(some, key, c))
  PROVE  Sum(g, K) = SumAmount(some)
<1>1. ASSUME NEW c \in K PROVE g[c] = Sum(Amounts, Class(some, key, c))
  <2>1. Class(some, key, c) \in SUBSET DOMAIN bills
    BY DEF Class
  <2> QED
    BY <2>1, SomeBills
<1>2. Sum(Amounts, some) = Sum(g, K)
  <2>1. IsFiniteSet(some) /\ \A b \in some : Amounts[b] \in Int
    BY SomeBills
  <2> QED
    BY <1>1, <2>1, SumGroup
<1> QED
  BY <1>2, SomeBills

LEMMA MonthFinite == IsFiniteSet(MonthDays)
BY ReportsAssumption, FS_Interval DEF MonthDays

LEMMA MonthRevenue ==
  ASSUME LedgerInv
  PROVE  SumOf([day \in MonthDays |-> CalendarDays[day].revenue]) = Summary("month").revenue
<1> DEFINE paid == Within(ResolveRange("month"))
           key == [b \in paid |-> Day(bills[b].time)]
           g == [day \in MonthDays |-> CalendarDays[day].revenue]
<1>1. paid \in SUBSET DOMAIN bills /\ \A b \in paid : key[b] \in MonthDays
  <2>1. "month" \in Presets /\ DaysOf("month") = MonthDays
    BY DEF Presets, DaysOf
  <2>2. paid = {b \in DOMAIN bills : Day(bills[b].time) \in MonthDays}
    BY <2>1, RangeIsDays
  <2> HIDE DEF paid
  <2> QED
    BY <2>2
<1>2. \A c \in MonthDays : g[c] = SumAmount(Class(paid, key, c))
  <2> TAKE c \in MonthDays
  <2>1. Class(paid, key, c) = OnDay(c)
    BY DEF Class, OnDay
  <2>2. g[c] = SumAmount(OnDay(c))
    BY DEF CalendarDays
  <2> QED
    BY <2>1, <2>2
<1>3. Summary("month").revenue = SumAmount(paid)
  BY DEF Summary
<1>4. SumOf(g) = Sum(g, MonthDays)
  BY DEF SumOf, Sum
<1> HIDE DEF paid, key, g
<1>5. Sum(g, MonthDays) = SumAmount(paid)
  BY <1>1, <1>2, MonthFinite, AmountsGroup
<1> QED
  BY <1>3, <1>4, <1>5 DEF g

LEMMA MonthOrders ==
  ASSUME LedgerInv
  PROVE  SumOf([day \in MonthDays |-> CalendarDays[day].orders]) = Summary("month").orders
<1> DEFINE paid == Within(ResolveRange("month"))
           all == OrdersOf(paid)
           bill(o) == CHOOSE b \in paid : bills[b].order = o
           key == [o \in all |-> Day(bills[bill(o)].time)]
           one == [o \in all |-> 1]
           g == [day \in MonthDays |-> CalendarDays[day].orders]
<1>1. paid \in SUBSET DOMAIN bills /\ \A b \in paid : Day(bills[b].time) \in MonthDays
  <2>1. "month" \in Presets /\ DaysOf("month") = MonthDays
    BY DEF Presets, DaysOf
  <2>2. paid = {b \in DOMAIN bills : Day(bills[b].time) \in MonthDays}
    BY <2>1, RangeIsDays
  <2> HIDE DEF paid
  <2> QED
    BY <2>2
<1>2. \A c \in MonthDays : OnDay(c) = {b \in paid : Day(bills[b].time) = c}
  BY DEF OnDay
<1>3. \A c \in MonthDays : g[c] = Cardinality(OrdersOf(OnDay(c)))
  BY DEF CalendarDays
<1>4. Summary("month").orders = Cardinality(all)
  BY DEF Summary
<1>5. SumOf(g) = Sum(g, MonthDays)
  BY DEF SumOf, Sum
<1> HIDE DEF paid, g
<1>6. IsFiniteSet(all)
  BY <1>1, SomeBills
<1>7. \A o \in all : bill(o) \in paid /\ bills[bill(o)].order = o
  BY DEF OrdersOf
<1>8. \A b \in paid : bills[b].order \in all /\ key[bills[b].order] = Day(bills[b].time)
  <2> TAKE b \in paid
  <2>1. bills[b].order \in all
    BY DEF OrdersOf
  <2> DEFINE c == bill(bills[b].order)
  <2>2. c \in paid /\ bills[c].order = bills[b].order
    BY <2>1, <1>7
  <2>3. key[bills[b].order] = Day(bills[c].time)
    BY <2>1
  <2> HIDE DEF c
  <2>4. bills[c].time = bills[b].time
    BY <1>1, <2>2 DEF LedgerInv, BillsOK
  <2> QED
    BY <2>1, <2>3, <2>4
<1>9. \A o \in all : key[o] \in MonthDays
  BY <1>1, <1>7, <1>8
<1>10. \A c \in MonthDays : Class(all, key, c) = OrdersOf(OnDay(c))
  <2> TAKE c \in MonthDays
  <2>1. OrdersOf(OnDay(c)) \subseteq Class(all, key, c)
    <3> HIDE DEF key, all
    <3>1. \A b \in OnDay(c) : bills[b].order \in Class(all, key, c)
      BY <1>2, <1>8 DEF Class
    <3> QED
      BY <3>1 DEF OrdersOf
  <2>2. ASSUME NEW o \in Class(all, key, c) PROVE o \in OrdersOf(OnDay(c))
    <3>1. o \in all /\ key[o] = c
      BY DEF Class
    <3>2. bill(o) \in OnDay(c) /\ bills[bill(o)].order = o
      BY <1>2, <1>7, <1>8, <3>1
    <3> HIDE DEF bill
    <3> QED
      BY <3>2 DEF OrdersOf
  <2> QED
    BY <2>1, <2>2
<1>11. \A c \in MonthDays : g[c] = Sum(one, Class(all, key, c))
  <2> TAKE c \in MonthDays
  <2>1. IsFiniteSet(Class(all, key, c)) /\ \A o \in Class(all, key, c) : one[o] = 1
    <3>1. Class(all, key, c) \in SUBSET all
      BY DEF Class
    <3> QED
      BY <3>1, <1>6, FS_Subset
  <2> QED
    BY <2>1, <1>3, <1>10, SumOnes
<1>12. Sum(one, all) = Cardinality(all)
  BY <1>6, SumOnes
<1>13. \A o \in all : one[o] \in Int
  OBVIOUS
<1> HIDE DEF key, one, all
<1>14. Sum(one, all) = Sum(g, MonthDays)
  BY <1>6, <1>9, <1>11, <1>13, MonthFinite, SumGroup
<1> QED
  BY <1>4, <1>5, <1>12, <1>14 DEF g

LEMMA RangesAreWhole == LedgerInv => RangesWhole
<1> SUFFICES ASSUME LedgerInv PROVE RangesWhole
  OBVIOUS
<1> DEFINE of(days) == {b \in DOMAIN bills : Day(bills[b].time) \in days}
<1>1. /\ Within(ResolveRange("today")) = of({Day(now)})
      /\ Within(ResolveRange("week")) = of(Day(now) - Week + 1 .. Day(now))
      /\ Within(ResolveRange("month")) = of(MonthDays)
  BY RangeIsDays DEF Presets, DaysOf
<1> HIDE DEF of
<1>2. /\ SumOf([day \in MonthDays |-> CalendarDays[day]["revenue"]]) = Summary("month").revenue
      /\ SumOf([day \in MonthDays |-> CalendarDays[day]["orders"]]) = Summary("month").orders
  BY MonthRevenue, MonthOrders
<1> QED
  BY <1>1, <1>2 DEF RangesWhole, of

-----------------------------------------------------------------------------
(* Breakdowns. *)

LEMMA WithinBills ==
  ASSUME NEW preset
  PROVE  Within(ResolveRange(preset)) \in SUBSET DOMAIN bills
BY DEF Within

\* A set of keys that are read from finitely many bills.
LEMMA KeysFinite ==
  ASSUME NEW S, IsFiniteSet(S), NEW key
  PROVE  IsFiniteSet({key[x] : x \in S})
<1> DEFINE K == {key[x] : x \in S}
           f == [x \in S |-> key[x]]
<1>1. f \in Surjection(S, K)
  BY DEF Surjection
<1> QED
  BY <1>1, FS_Surjection

LEMMA MethodsAddUp ==
  ASSUME LedgerInv, NEW some \in SUBSET DOMAIN bills
  PROVE  SumOf(PaymentBreakdown(some)) = SumAmount(some)
<1> DEFINE key == [b \in some |-> bills[b].method]
           K == {key[b] : b \in some}
           g == PaymentBreakdown(some)
<1>1. DOMAIN g = K /\ SumOf(g) = Sum(g, DOMAIN g)
  BY DEF PaymentBreakdown, SumOf, Sum
<1>2. \A c \in K : g[c] = SumAmount(Class(some, key, c))
  <2> TAKE c \in K
  <2>1. {b \in some : bills[b].method = c} = Class(some, key, c)
    BY DEF Class
  <2> QED
    BY <2>1 DEF PaymentBreakdown
<1>3. \A b \in some : key[b] \in K
  OBVIOUS
<1> HIDE DEF key, g
<1>4. IsFiniteSet(K)
  BY SomeBills, KeysFinite
<1> HIDE DEF K
<1>5. Sum(g, K) = SumAmount(some)
  BY <1>2, <1>3, <1>4, AmountsGroup
<1> QED
  BY <1>1, <1>5 DEF g

LEMMA ProvidersAddUp ==
  ASSUME LedgerInv, NEW some \in SUBSET DOMAIN bills
  PROVE  SumOf(DeliveryProviders(some)) = SumAmount(Delivered(some))
<1> DEFINE key == [b \in Delivered(some) |-> sales[bills[b].order].platform]
           K == {key[b] : b \in Delivered(some)}
           g == DeliveryProviders(some)
<1>1. DOMAIN g = K /\ SumOf(g) = Sum(g, DOMAIN g)
  BY DEF DeliveryProviders, SumOf, Sum
<1>2. \A c \in K : g[c] = SumAmount(Class(Delivered(some), key, c))
  <2> TAKE c \in K
  <2>1. {b \in Delivered(some) : sales[bills[b].order].platform = c} = Class(Delivered(some), key, c)
    BY DEF Class
  <2> QED
    BY <2>1 DEF DeliveryProviders
<1>3. \A b \in Delivered(some) : key[b] \in K
  OBVIOUS
<1>4. Delivered(some) \in SUBSET DOMAIN bills
  BY DEF Delivered
<1> HIDE DEF key, g
<1>5. IsFiniteSet(K)
  BY <1>4, SomeBills, KeysFinite
<1> HIDE DEF K
<1>6. Sum(g, K) = SumAmount(Delivered(some))
  BY <1>2, <1>3, <1>4, <1>5, AmountsGroup
<1> QED
  BY <1>1, <1>6 DEF g

LEMMA HoursAddUp ==
  ASSUME LedgerInv, NEW some \in SUBSET DOMAIN bills
  PROVE  SumOf(HourlyOrders(some)) = Cardinality(some)
<1> DEFINE key == [b \in some |-> Hour(bills[b].time)]
           K == {key[b] : b \in some}
           g == HourlyOrders(some)
           one == [b \in some |-> 1]
<1>1. DOMAIN g = K /\ SumOf(g) = Sum(g, DOMAIN g)
  BY DEF HourlyOrders, SumOf, Sum
<1>2. \A c \in K : g[c] = Cardinality(Class(some, key, c))
  <2> TAKE c \in K
  <2>1. {b \in some : Hour(bills[b].time) = c} = Class(some, key, c)
    BY DEF Class
  <2> QED
    BY <2>1 DEF HourlyOrders
<1>3. \A b \in some : key[b] \in K /\ one[b] = 1 /\ one[b] \in Int
  OBVIOUS
<1> HIDE DEF key, g, one
<1>4. IsFiniteSet(some) /\ IsFiniteSet(K)
  BY SomeBills, KeysFinite
<1> HIDE DEF K
<1>5. \A c \in K : g[c] = Sum(one, Class(some, key, c))
  <2> TAKE c \in K
  <2>1. Class(some, key, c) \in SUBSET some
    BY DEF Class
  <2>2. IsFiniteSet(Class(some, key, c)) /\ \A b \in Class(some, key, c) : one[b] = 1
    BY <1>3, <1>4, <2>1, FS_Subset
  <2> QED
    BY <1>2, <2>2, SumOnes
<1>6. Sum(one, some) = Sum(g, K)
  BY <1>3, <1>4, <1>5, SumGroup
<1>7. Sum(one, some) = Cardinality(some)
  BY <1>3, <1>4, SumOnes
<1> QED
  BY <1>1, <1>6, <1>7 DEF g

LEMMA BreakdownsDoAddUp == LedgerInv => BreakdownsAddUp
<1> SUFFICES ASSUME LedgerInv, NEW preset \in Presets
             PROVE  LET paid == Within(ResolveRange(preset)) IN
                      /\ SumOf(PaymentBreakdown(paid)) = Summary(preset).revenue
                      /\ SumOf(DeliveryProviders(paid)) = Summary(preset).delivery
                      /\ SumOf(HourlyOrders(paid)) = Cardinality(paid)
  BY DEF BreakdownsAddUp
<1> DEFINE paid == Within(ResolveRange(preset))
<1>1. Summary(preset).revenue = SumAmount(paid) /\ Summary(preset).delivery = SumAmount(Delivered(paid))
  BY DEF Summary
<1>2. paid \in SUBSET DOMAIN bills
  BY WithinBills
<1> HIDE DEF paid
<1>3. /\ SumOf(PaymentBreakdown(paid)) = SumAmount(paid)
      /\ SumOf(DeliveryProviders(paid)) = SumAmount(Delivered(paid))
      /\ SumOf(HourlyOrders(paid)) = Cardinality(paid)
  BY <1>2, MethodsAddUp, ProvidersAddUp, HoursAddUp
<1> QED
  BY <1>1, <1>3 DEF paid

-----------------------------------------------------------------------------
(* What was taken. *)

LEMMA TakingsDoAgree == LedgerInv => TakingsAgree
<1> SUFFICES ASSUME LedgerInv, "twice" \notin history
             PROVE  SumAmount(DOMAIN bills)
                      = SumOf([o \in {p \in DOMAIN sales : BillsOf(p) # {}} |-> View(o).total])
  BY DEF TakingsAgree
<1> DEFINE key == [b \in DOMAIN bills |-> bills[b].order]
           K == {p \in DOMAIN sales : BillsOf(p) # {}}
           g == [o \in K |-> View(o).total]
<1>1. SumOf(g) = Sum(g, K)
  BY DEF SumOf, Sum
<1>2. \A b \in DOMAIN bills : key[b] \in K
  BY DEF BillsOf, LedgerInv, BillsOK
<1>3. \A c \in K : g[c] = SumAmount(Class(DOMAIN bills, key, c))
  <2> TAKE c \in K
  <2>1. First(c) \in BillsOf(c)
    BY DEF First
  <2>2. Class(DOMAIN bills, key, c) = BillsOf(c)
    BY DEF Class, BillsOf
  <2>3. BillsOf(c) = {First(c)}
    BY <2>1 DEF BillsOf, LedgerInv, OncePaid
  <2>4. View(c).total = bills[First(c)].amount
    BY DEF View, Amount
  <2>5. {First(c)} \in SUBSET DOMAIN bills
    BY <2>1 DEF BillsOf
  <2>6. SumAmount({First(c)}) = Sum(Amounts, {First(c)}) /\ Amounts[First(c)] \in Int
    BY <2>5, SomeBills
  <2>7. Amounts[First(c)] = bills[First(c)].amount
    BY <2>5 DEF Amounts
  <2>8. Sum(Amounts, {First(c)}) = Amounts[First(c)]
    BY <2>6, SumSingle
  <2> QED
    BY <2>2, <2>3, <2>4, <2>6, <2>7, <2>8
<1>4. IsFiniteSet(K)
  BY TablesFinite, FS_Subset
<1>5. DOMAIN bills \in SUBSET DOMAIN bills
  OBVIOUS
<1> HIDE DEF key, K, g
<1>6. Sum(g, K) = SumAmount(DOMAIN bills)
  BY <1>2, <1>3, <1>4, <1>5, AmountsGroup
<1> QED
  BY <1>1, <1>6 DEF g, K

-----------------------------------------------------------------------------
(* Products. *)

\* The lines of the orders of some bills, and what each costs.
Sold(some) == UNION {{b} \X DOMAIN Lines(bills[b].order) : b \in some}
LineOf(s) == Lines(bills[s[1]].order)[s[2]]
Costs(some) == [s \in Sold(some) |-> LineOf(s).price * LineOf(s).qty]

LEMMA SoldLines ==
  ASSUME LedgerInv, NEW some \in SUBSET DOMAIN bills
  PROVE  /\ IsFiniteSet(Sold(some))
         /\ \A s \in Sold(some) : s[1] \in some /\ Costs(some)[s] \in Int
         /\ \A b \in some :
              /\ IsFiniteSet(DOMAIN Lines(bills[b].order))
              /\ \A i \in DOMAIN Lines(bills[b].order) : <<b, i>> \in Sold(some)
         /\ \A s \in Sold(some) : \E i \in DOMAIN Lines(bills[s[1]].order) : s = <<s[1], i>>
<1> DEFINE lines(b) == DOMAIN Lines(bills[b].order)
           of == [b \in some |-> {b} \X lines(b)]
<1>1. ASSUME NEW b \in some
      PROVE  /\ IsFiniteSet(lines(b))
             /\ \A i \in lines(b) : LET line == Lines(bills[b].order)[i]
                                    IN  line.price \in Int /\ line.qty \in Int
  <2>1. bills[b].order \in DOMAIN sales
    BY DEF LedgerInv, BillsOK
  <2> QED
    BY <2>1, TotalInt DEF LedgerInv
<1>2. \A s \in Sold(some) : s[1] \in some /\ s[2] \in lines(s[1]) /\ s = <<s[1], s[2]>>
  BY DEF Sold
<1>3. \A b \in some : \A i \in lines(b) : <<b, i>> \in Sold(some)
  BY DEF Sold
<1>4. IsFiniteSet(Sold(some))
  <2>1. \A b \in some : IsFiniteSet(of[b])
    <3> TAKE b \in some
    <3>1. IsFiniteSet({b}) /\ IsFiniteSet(lines(b))
      BY <1>1, FS_Singleton
    <3> HIDE DEF lines
    <3>2. IsFiniteSet({b} \X lines(b))
      BY <3>1, FS_Product
    <3> QED
      BY <3>2
  <2>2. Sold(some) = UNION {of[b] : b \in some}
    BY DEF Sold
  <2> HIDE DEF of
  <2>3. IsFiniteSet({of[b] : b \in some})
    BY SomeBills, KeysFinite
  <2> QED
    BY <2>1, <2>2, <2>3, FS_UNION
<1>5. \A s \in Sold(some) : Costs(some)[s] \in Int
  <2> TAKE s \in Sold(some)
  <2>1. LineOf(s).price \in Int /\ LineOf(s).qty \in Int
    BY <1>1, <1>2 DEF LineOf
  <2> QED
    BY <2>1 DEF Costs
<1> QED
  BY <1>1, <1>2, <1>3, <1>4, <1>5

\* The lines of a bill cost what its order does.
LEMMA BillLines ==
  ASSUME LedgerInv, NEW some \in SUBSET DOMAIN bills, NEW b \in some
  PROVE  Sum(Costs(some), Class(Sold(some), [s \in Sold(some) |-> s[1]], b))
           = Total(Lines(bills[b].order))
<1> DEFINE lines == Lines(bills[b].order)
           w == [i \in DOMAIN lines |-> lines[i].price * lines[i].qty]
           name == [i \in DOMAIN lines |-> <<b, i>>]
           T == Class(Sold(some), [s \in Sold(some) |-> s[1]], b)
<1>1. bills[b].order \in DOMAIN sales
  BY DEF LedgerInv, BillsOK
<1>2. IsFiniteSet(DOMAIN lines) /\ \A i \in DOMAIN lines : w[i] \in Int
  BY <1>1, TotalInt DEF LedgerInv
<1>3. Total(lines) = Sum(w, DOMAIN lines)
  BY DEF Total, SumOf, Sum
<1>4. \A i, j \in DOMAIN lines : name[i] = name[j] => i = j
  OBVIOUS
<1>5. \A i \in DOMAIN lines : name[i] \in Sold(some) /\ name[i][1] = b /\ name[i][2] = i
  BY SoldLines
<1>6. T = {name[i] : i \in DOMAIN lines}
  <2>1. \A i \in DOMAIN lines : name[i] \in T
    BY <1>5 DEF Class
  <2>2. ASSUME NEW s \in T PROVE \E i \in DOMAIN lines : s = name[i]
    <3>1. s \in Sold(some) /\ s[1] = b
      BY DEF Class
    <3> QED
      BY <3>1, SoldLines
  <2> HIDE DEF T, name
  <2> QED
    BY <2>1, <2>2
<1>7. \A i \in DOMAIN lines : Costs(some)[name[i]] = w[i]
  BY <1>5 DEF Costs, LineOf
<1> HIDE DEF w, name, T
<1>8. Sum(w, DOMAIN lines) = Sum(Costs(some), T)
  BY <1>2, <1>4, <1>6, <1>7, SumRenamed
<1> QED
  BY <1>3, <1>8 DEF T

LEMMA RevenueIs ==
  ASSUME LedgerInv, "edited" \notin history, NEW some \in SUBSET DOMAIN bills
  PROVE  LET all == Revenue(some) IN
           /\ IsFiniteSet(DOMAIN all) /\ \A p \in DOMAIN all : all[p] \in Int
           /\ SumOf(all) = Sum(all, DOMAIN all) /\ SumOf(all) = SumAmount(some)
<1> DEFINE all == Revenue(some)
           key == [s \in Sold(some) |-> LineOf(s).product]
           K == {key[s] : s \in Sold(some)}
           bill == [s \in Sold(some) |-> s[1]]
           costs == Costs(some)
<1>1. DOMAIN all = K
  BY DEF Revenue, Sold, LineOf
<1>2. ASSUME NEW p \in K PROVE all[p] = Sum(costs, Class(Sold(some), key, p))
  <2> DEFINE S == Class(Sold(some), key, p)
  <2>1. S = {t \in Sold(some) : LineOf(t).product = p}
    BY DEF Class
  <2>2. IsFiniteSet(S)
    BY <2>1, SoldLines, FS_Subset
  <2>3. all[p] = SumOf([s \in S |-> LineOf(s).price * LineOf(s).qty])
    BY <2>1, <1>2 DEF Revenue, Sold, LineOf
  <2>4. [s \in S |-> LineOf(s).price * LineOf(s).qty] = [s \in S |-> costs[s]]
    BY <2>1 DEF Costs
  <2> HIDE DEF S, costs
  <2>5. SumOf([s \in S |-> costs[s]]) = Sum(costs, S)
    BY <2>2, SumOfPart
  <2> QED
    BY <2>3, <2>4, <2>5 DEF S
<1>3. SumOf(all) = Sum(all, DOMAIN all)
  BY DEF SumOf, Sum
<1>4. IsFiniteSet(Sold(some)) /\ \A s \in Sold(some) : costs[s] \in Int
  BY SoldLines
<1>5. \A s \in Sold(some) : key[s] \in K /\ bill[s] \in some
  BY SoldLines
<1> HIDE DEF all, key, costs
<1>6. IsFiniteSet(K)
  BY <1>4, KeysFinite
<1> HIDE DEF K
<1>7. \A p \in K : all[p] \in Int
  <2> TAKE p \in K
  <2>1. Class(Sold(some), key, p) \in SUBSET Sold(some)
    BY DEF Class
  <2>2. IsFiniteSet(Class(Sold(some), key, p))
        /\ \A s \in Class(Sold(some), key, p) : costs[s] \in Int
    BY <1>4, <2>1, FS_Subset
  <2> QED
    BY <1>2, <2>2, SumInt
<1>8. Sum(costs, Sold(some)) = Sum(all, K)
  BY <1>2, <1>4, <1>5, <1>6, SumGroup
<1>9. ASSUME NEW b \in some PROVE Amounts[b] = Sum(costs, Class(Sold(some), bill, b))
  <2>1. Amounts[b] = Total(Lines(bills[b].order))
    BY DEF Amounts, LedgerInv, PaidAsHeld
  <2> QED
    BY <2>1, BillLines DEF costs
<1> HIDE DEF bill
<1>10. Sum(costs, Sold(some)) = Sum(Amounts, some)
  BY <1>4, <1>5, <1>9, SomeBills, SumGroup
<1>11. SumAmount(some) = Sum(Amounts, some)
  BY SomeBills
<1> QED
  BY <1>1, <1>3, <1>6, <1>7, <1>8, <1>10, <1>11 DEF all

LEMMA ListedMin ==
  ASSUME NEW n \in Nat
  PROVE  /\ n <= Listed => Min({Listed, n}) = n
         /\ Listed <= n => Min({Listed, n}) = Listed
BY ReportsAssumption DEF Min

\* The list of top products: all of them, or as many as are listed.
LEMMA TopProductsAre ==
  ASSUME LedgerInv, "edited" \notin history, NEW some \in SUBSET DOMAIN bills
  PROVE  LET all == Revenue(some)
             n == Cardinality(DOMAIN all)
         IN  /\ n \in Nat /\ TopProducts(some) \in SUBSET DOMAIN all
             /\ n <= Listed => TopProducts(some) = DOMAIN all
             /\ ~ (n <= Listed) => TopProducts(some) # DOMAIN all
<1> DEFINE all == Revenue(some)
           D == DOMAIN all
           n == Cardinality(D)
           P(top) == /\ Cardinality(top) = Min({Listed, n})
                     /\ \A p \in top, q \in D \ top : all[p] >= all[q]
           top == CHOOSE t \in SUBSET D : P(t)
<1>1. IsFiniteSet(D) /\ \A p \in D : all[p] \in Int
  BY RevenueIs
<1>2. TopProducts(some) = top
  BY DEF TopProducts
<1> HIDE DEF all
<1>3. n \in Nat
  BY <1>1, FS_CardinalityType
<1>4. Min({Listed, n}) \in Nat /\ Min({Listed, n}) <= n
  <2>1. Listed \in Nat
    BY ReportsAssumption
  <2> HIDE DEF n
  <2> QED
    BY <2>1, <1>3, ListedMin
<1>5. \E t \in SUBSET D : P(t)
  <2> HIDE DEF D
  <2> QED
    BY <1>1, <1>4, BestExist
<1>6. top \in SUBSET D /\ Cardinality(top) = Min({Listed, n})
  <2>1. top \in SUBSET D /\ P(top)
    <3> HIDE DEF P
    <3> QED
      BY <1>5
  <2> QED
    BY <2>1
<1> HIDE DEF top
<1>7. ASSUME n <= Listed PROVE top = D
  <2>1. Cardinality(top) = n
    BY <1>3, <1>6, <1>7, ListedMin
  <2> QED
    BY <1>1, <1>6, <2>1, FS_Subset
<1>8. ASSUME ~ (n <= Listed) PROVE top # D
  <2>1. Listed \in Nat
    BY ReportsAssumption
  <2>2. Cardinality(top) = Listed
    BY <1>3, <1>6, <1>8, <2>1, ListedMin
  <2> QED
    BY <1>3, <1>8, <2>1, <2>2
<1> QED
  BY <1>2, <1>3, <1>6, <1>7, <1>8 DEF all

LEMMA ProductsDoEarnRevenue == LedgerInv => ProductsEarnRevenue
<1> SUFFICES ASSUME LedgerInv, NEW preset \in Presets, "edited" \notin history
             PROVE  LET all == Revenue(Within(ResolveRange(preset)))
                        top == TopProducts(Within(ResolveRange(preset)))
                    IN  /\ SumOf(all) = Summary(preset).revenue
                        /\ (\A p \in DOMAIN all : all[p] > 0) =>
                             (SumOf([p \in top |-> all[p]]) = Summary(preset).revenue
                                <=> Cardinality(DOMAIN all) <= Listed)
  BY DEF ProductsEarnRevenue
<1> DEFINE paid == Within(ResolveRange(preset))
           all == Revenue(paid)
           top == TopProducts(paid)
           D == DOMAIN all
<1>1. Summary(preset).revenue = SumAmount(paid)
  BY DEF Summary
<1>2. paid \in SUBSET DOMAIN bills
  BY WithinBills
<1> HIDE DEF paid
<1>3. /\ IsFiniteSet(D) /\ \A p \in D : all[p] \in Int
      /\ SumOf(all) = Sum(all, D) /\ SumOf(all) = SumAmount(paid)
  BY <1>2, RevenueIs
<1>4. /\ top \in SUBSET D
      /\ Cardinality(D) <= Listed => top = D
      /\ ~ (Cardinality(D) <= Listed) => top # D
  BY <1>2, TopProductsAre
<1> HIDE DEF all, top
<1>5. IsFiniteSet(top) /\ IsFiniteSet(D \ top)
  BY <1>3, <1>4, FS_Subset, FS_Difference
<1>6. SumOf([p \in top |-> all[p]]) = Sum(all, top)
  BY <1>5, SumOfPart
<1>7. Sum(all, top) \in Int
  <2>1. \A p \in top : all[p] \in Int
    BY <1>3, <1>4
  <2> QED
    BY <1>5, <2>1, SumInt
<1>8. ASSUME \A p \in D : all[p] > 0, top # D PROVE Sum(all, top) # Sum(all, D)
  <2> DEFINE rest == D \ top
  <2>1. rest # {} /\ IsFiniteSet(rest) /\ \A p \in rest : all[p] \in Int /\ all[p] > 0
    BY <1>3, <1>4, <1>5, <1>8
  <2>2. top \cup rest = D /\ top \cap rest = {} /\ \A p \in top \cup rest : all[p] \in Int
    BY <1>3, <1>4
  <2> HIDE DEF rest, D
  <2>3. Sum(all, rest) > 0 /\ Sum(all, rest) \in Int
    BY <2>1, SumPositive, SumInt
  <2>4. Sum(all, top \cup rest) = Sum(all, top) + Sum(all, rest)
    BY <1>5, <2>1, <2>2, SumUnion
  <2>5. Sum(all, D) = Sum(all, top) + Sum(all, rest)
    BY <2>2, <2>4
  <2> QED
    BY <1>7, <2>3, <2>5
<1>9. (\A p \in D : all[p] > 0) =>
        (SumOf([p \in top |-> all[p]]) = SumAmount(paid) <=> Cardinality(D) <= Listed)
  <2> HIDE DEF D
  <2>1. SUFFICES ASSUME \A p \in D : all[p] > 0
                 PROVE  Sum(all, top) = Sum(all, D) <=> Cardinality(D) <= Listed
    BY <1>3, <1>6
  <2>2. CASE Cardinality(D) <= Listed
    BY <2>2, <1>4
  <2>3. CASE ~ (Cardinality(D) <= Listed)
    BY <2>1, <2>3, <1>4, <1>8
  <2> QED
    BY <2>2, <2>3
<1> QED
  BY <1>1, <1>3, <1>9 DEF paid, all, top

-----------------------------------------------------------------------------
(* The selection. *)

\* What the loop knows when it looks at entry `at`: it has seen the groups of
\* the entries before it, each once, and each of those is a choice on offer.
\* Once it has refused, one entry is not, or a group that requires something
\* was not named.
Fits(entry) ==
  /\ entry.group \in OfferedGroups
  /\ Named(entry.options) \subseteq OfferedOptions(entry.group)
  /\ Distinct(entry.options) /\ Bounded(menu[entry.group], entry.options)

LoopInv ==
  /\ Len(chosen) \in Nat /\ DOMAIN chosen = 1..Len(chosen)
  /\ at \in 1..Len(chosen) + 1
  /\ seen = {chosen[i].group : i \in 1..at - 1}
  /\ \A i, j \in 1..at - 1 : chosen[i].group = chosen[j].group => i = j
  /\ \A i \in 1..at - 1 : Fits(chosen[i])

VerdictInv == LoopInv /\ verdict \in {"open", "accepted", "refused"} /\ OfferedIsAccepted

\* OnOffer in the terms of the loop.
LEMMA OnOfferFits ==
  OnOffer <=>
    /\ \A i, j \in DOMAIN chosen : chosen[i].group = chosen[j].group => i = j
    /\ \A i \in DOMAIN chosen : Fits(chosen[i])
    /\ \A g \in OfferedGroups : menu[g].min > 0 => \E i \in DOMAIN chosen : chosen[i].group = g
  BY DEF OnOffer, Fits

\* An entry passes the checks exactly when it fits and its group is new.
LEMMA PassesFits ==
  ASSUME NEW entry PROVE Passes(entry) <=> entry.group \notin seen /\ Fits(entry)
  BY DEF Passes, Fits, OfferedGroups, OfferedOptions

LEMMA SelectionInitInv == SelectionInit => VerdictInv
<1> SUFFICES ASSUME SelectionInit PROVE VerdictInv
  OBVIOUS
<1>1. chosen \in Seq(Entry)
  BY ModifierSelectionAssumption DEF SelectionInit
<1>2. Len(chosen) \in Nat /\ DOMAIN chosen = 1..Len(chosen)
  BY <1>1
<1>3. 1..at - 1 = {} /\ at \in 1..Len(chosen) + 1
  BY <1>2 DEF SelectionInit
<1>4. LoopInv
  BY <1>2, <1>3 DEF LoopInv, SelectionInit
<1> QED
  BY <1>4 DEF VerdictInv, OfferedIsAccepted, SelectionInit

LEMMA SelectionNextInv == VerdictInv /\ [SelectionNext]_selection => VerdictInv'
<1> SUFFICES ASSUME VerdictInv, [SelectionNext]_selection PROVE VerdictInv'
  OBVIOUS
<1> USE DEF VerdictInv
<1>0. /\ Len(chosen) \in Nat /\ DOMAIN chosen = 1..Len(chosen)
      /\ at \in 1..Len(chosen) + 1
  BY DEF LoopInv
<1>1. CASE TakeEntry
  <2>1. menu' = menu /\ chosen' = chosen /\ verdict' = "open" /\ verdict = "open" /\ at' = at + 1
    BY <1>1 DEF TakeEntry
  <2>2. at \in 1..Len(chosen) /\ seen' = seen \cup {chosen[at].group}
    BY <1>0, <1>1 DEF TakeEntry
  <2>3. chosen[at].group \notin seen /\ Fits(chosen[at])
    BY <1>1, PassesFits DEF TakeEntry
  <2>4. ASSUME NEW entry PROVE Fits(entry)' <=> Fits(entry)
    BY <2>1 DEF Fits, OfferedGroups, OfferedOptions, Named, Distinct, Bounded
  <2>5. 1..at' - 1 = (1..at - 1) \cup {at} /\ at' \in 1..Len(chosen) + 1
    BY <2>1, <2>2, <1>0
  <2>6. seen' = {chosen[i].group : i \in 1..at' - 1}
    BY <2>2, <2>5 DEF LoopInv
  <2>7. \A i \in 1..at - 1 : chosen[i].group # chosen[at].group
    BY <2>3 DEF LoopInv
  <2>8. \A i, j \in 1..at' - 1 : chosen[i].group = chosen[j].group => i = j
    BY <2>5, <2>7 DEF LoopInv
  <2>9. \A i \in 1..at' - 1 : Fits(chosen[i])
    BY <2>3, <2>5 DEF LoopInv
  <2>10. \A i \in 1..at' - 1 : Fits(chosen[i])'
    BY <2>1, <2>9 DEF Fits, OfferedGroups, OfferedOptions, Named, Distinct, Bounded
  <2>11. LoopInv'
    BY <1>0, <2>1, <2>5, <2>6, <2>8, <2>10 DEF LoopInv
  <2> QED
    BY <2>1, <2>11 DEF OfferedIsAccepted
<1>2. CASE RefuseEntry
  <2>1. UNCHANGED <<menu, chosen, at, seen, taken>> /\ verdict' = "refused"
    BY <1>2 DEF RefuseEntry
  <2>2. at \in 1..Len(chosen) /\ ~Passes(chosen[at])
    BY <1>0, <1>2 DEF RefuseEntry
  <2>3. ~OnOffer
    <3>1. SUFFICES ASSUME OnOffer PROVE FALSE
      OBVIOUS
    <3>2. Fits(chosen[at])
      BY <3>1, <2>2, <1>0, OnOfferFits
    <3>3. chosen[at].group \in seen
      BY <2>2, <3>2, PassesFits
    <3>4. PICK i \in 1..at - 1 : chosen[i].group = chosen[at].group
      BY <3>3 DEF LoopInv
    <3>5. i \in DOMAIN chosen /\ at \in DOMAIN chosen /\ i # at
      BY <2>2, <1>0, <3>4
    <3> QED
      BY <3>1, <3>4, <3>5, OnOfferFits
  <2>4. ~OnOffer' /\ LoopInv'
    BY <2>1, <2>3 DEF OnOffer, LoopInv, Fits, OfferedGroups, OfferedOptions, Named,
      Distinct, Bounded
  <2> QED
    BY <2>1, <2>4 DEF OfferedIsAccepted
<1>3. CASE Conclude
  <2>1. UNCHANGED <<menu, chosen, at, seen, taken>> /\ at = Len(chosen) + 1
    BY <1>3 DEF Conclude
  <2>2. 1..at - 1 = DOMAIN chosen
    BY <1>0, <2>1
  <2>3. seen = {chosen[i].group : i \in DOMAIN chosen}
    BY <2>2 DEF LoopInv
  <2>4. RequiredSeen <=> OnOffer
    <3>1. RequiredSeen <=> \A g \in OfferedGroups :
                             menu[g].min > 0 => \E i \in DOMAIN chosen : chosen[i].group = g
      BY <2>3 DEF RequiredSeen, OfferedGroups
    <3> QED
      BY <2>2, <3>1, OnOfferFits DEF LoopInv
  <2>5. (OnOffer' <=> OnOffer) /\ LoopInv'
    BY <2>1 DEF OnOffer, LoopInv, Fits, OfferedGroups, OfferedOptions, Named, Distinct, Bounded
  <2>6. verdict' = IF RequiredSeen THEN "accepted" ELSE "refused"
    BY <1>3 DEF Conclude
  <2> QED
    BY <2>4, <2>5, <2>6 DEF OfferedIsAccepted
<1>4. CASE UNCHANGED selection
  BY <1>4 DEF selection, LoopInv, OfferedIsAccepted, OnOffer, Fits, OfferedGroups,
    OfferedOptions, Named, Distinct, Bounded
<1> QED
  BY <1>1, <1>2, <1>3, <1>4 DEF SelectionNext

-----------------------------------------------------------------------------
(* What was noted: the options of the entries looked at, each once.        *)

Noted ==
  /\ menu \in Menus /\ chosen \in Seq(Entry) /\ taken \in Seq(Groups \X Options)
  /\ \A k, l \in DOMAIN taken : taken[k] = taken[l] => k = l
  /\ \A k \in DOMAIN taken : \E i \in 1..at - 1 :
       taken[k][1] = chosen[i].group /\ taken[k][2] \in Named(chosen[i].options)
  /\ \A i \in 1..at - 1 : \A o \in Named(chosen[i].options) :
       \E k \in DOMAIN taken : taken[k] = <<chosen[i].group, o>>
  /\ verdict = "accepted" => at = Len(chosen) + 1

LEMMA NotedInit == SelectionInit => Noted
<1> SUFFICES ASSUME SelectionInit PROVE Noted
  OBVIOUS
<1>1. chosen \in Seq(Entry)
  BY ModifierSelectionAssumption DEF SelectionInit
<1>2. taken = <<>> /\ taken \in Seq(Groups \X Options) /\ DOMAIN taken = {} /\ 1..at - 1 = {}
  BY DEF SelectionInit
<1> QED
  BY <1>1, <1>2 DEF Noted, SelectionInit

LEMMA NotedNext == VerdictInv /\ Noted /\ [SelectionNext]_selection => Noted'
<1> SUFFICES ASSUME VerdictInv, Noted, [SelectionNext]_selection PROVE Noted'
  OBVIOUS
<1>0. /\ Len(chosen) \in Nat /\ DOMAIN chosen = 1..Len(chosen)
      /\ at \in 1..Len(chosen) + 1
      /\ seen = {chosen[i].group : i \in 1..at - 1}
  BY DEF VerdictInv, LoopInv
<1>1. CASE TakeEntry
  <2> DEFINE entry == chosen[at]
             more == [i \in DOMAIN entry.options |-> <<entry.group, entry.options[i]>>]
             n == Len(taken)
  <2>1. /\ menu' = menu /\ chosen' = chosen /\ verdict' = "open" /\ at' = at + 1
        /\ taken' = taken \o more
    BY <1>1 DEF TakeEntry
  <2>2. at \in DOMAIN chosen /\ Passes(entry)
    BY <1>0, <1>1 DEF TakeEntry
  <2>3. entry.group \in Groups /\ entry.options \in Seq(Options)
    <3>1. chosen[at] \in Entry
      BY <2>2 DEF Noted
    <3> QED
      BY <3>1 DEF Entry
  <2>4. entry.group \notin seen /\ Distinct(entry.options)
    BY <2>2, PassesFits DEF Fits
  <2> HIDE DEF entry
  <2>5. /\ more \in Seq(Groups \X Options) /\ DOMAIN more = 1..Len(more)
        /\ DOMAIN more = DOMAIN entry.options
        /\ \A i \in DOMAIN more : more[i] = <<entry.group, entry.options[i]>>
    <3>1. DOMAIN entry.options = 1..Len(entry.options) /\ Len(entry.options) \in Nat
      BY <2>3
    <3>2. \A i \in DOMAIN entry.options : more[i] \in Groups \X Options
      BY <2>3
    <3>3. more \in Seq(Groups \X Options)
      <4> DEFINE m == Len(entry.options)
      <4>1. m \in Nat /\ more \in [1..m -> Groups \X Options]
        BY <3>1, <3>2
      <4> HIDE DEF more, m
      <4> QED
        BY <4>1
    <3> HIDE DEF more
    <3>4. DOMAIN more = 1..Len(more)
      BY <3>3
    <3> QED
      BY <3>3, <3>4 DEF more
  <2> HIDE DEF more
  <2>6. /\ taken' \in Seq(Groups \X Options) /\ n \in Nat /\ DOMAIN taken = 1..n
        /\ DOMAIN taken' = 1..n + Len(more) /\ Len(more) \in Nat
        /\ \A k \in 1..n : taken'[k] = taken[k]
        /\ \A k \in 1..n + Len(more) : ~ (k \in 1..n) =>
             k - n \in DOMAIN more /\ taken'[k] = more[k - n]
    BY <2>1, <2>5 DEF Noted
  <2>7. \A i \in DOMAIN more : n + i \in DOMAIN taken' /\ taken'[n + i] = more[i]
    <3> TAKE i \in DOMAIN more
    <3>1. i \in 1..Len(more)
      BY <2>5
    <3>2. n + i \in 1..n + Len(more) /\ ~ (n + i \in 1..n) /\ n + i - n = i
      BY <3>1, <2>6
    <3> QED
      BY <3>2, <2>6
  <2> HIDE DEF n
  <2>8. 1..at' - 1 = (1..at - 1) \cup {at}
    BY <2>1, <1>0
  <2>9. ASSUME NEW k \in DOMAIN taken', NEW l \in DOMAIN taken', taken'[k] = taken'[l]
        PROVE  k = l
    <3>1. ASSUME NEW a \in 1..n PROVE taken'[a][1] \in seen
      <4>1. PICK i \in 1..at - 1 : taken[a][1] = chosen[i].group
        BY <2>6 DEF Noted
      <4> QED
        BY <4>1, <2>6, <1>0
    <3>2. ASSUME NEW a \in DOMAIN taken', a \notin 1..n
          PROVE  taken'[a][1] = entry.group /\ taken'[a][2] = entry.options[a - n]
                 /\ a - n \in DOMAIN entry.options
      BY <3>2, <2>5, <2>6
    <3>3. CASE k \in 1..n /\ l \in 1..n
      BY <3>3, <2>6, <2>9 DEF Noted
    <3>4. CASE k \in 1..n /\ l \notin 1..n
      BY <3>1, <3>2, <3>4, <2>4, <2>9
    <3>5. CASE k \notin 1..n /\ l \in 1..n
      BY <3>1, <3>2, <3>5, <2>4, <2>9
    <3>6. CASE k \notin 1..n /\ l \notin 1..n
      <4>1. entry.options[k - n] = entry.options[l - n]
        BY <3>2, <3>6, <2>9
      <4>2. k - n = l - n
        BY <4>1, <3>2, <3>6, <2>4 DEF Distinct
      <4> QED
        BY <4>2, <2>6
    <3> QED
      BY <3>3, <3>4, <3>5, <3>6
  <2>10. ASSUME NEW k \in DOMAIN taken'
         PROVE  \E i \in 1..at' - 1 :
                  taken'[k][1] = chosen[i].group /\ taken'[k][2] \in Named(chosen[i].options)
    <3>1. CASE k \in 1..n
      <4>1. PICK i \in 1..at - 1 :
                taken[k][1] = chosen[i].group /\ taken[k][2] \in Named(chosen[i].options)
        BY <3>1, <2>6 DEF Noted
      <4> QED
        BY <4>1, <3>1, <2>6, <2>8
    <3>2. CASE k \notin 1..n
      <4>1. taken'[k] = <<entry.group, entry.options[k - n]>> /\ k - n \in DOMAIN entry.options
        BY <3>2, <2>5, <2>6
      <4>2. taken'[k][2] \in Named(entry.options)
        BY <4>1 DEF Named
      <4> QED
        BY <4>1, <4>2, <2>8 DEF entry
    <3> QED
      BY <3>1, <3>2
  <2>11. ASSUME NEW i \in 1..at' - 1, NEW o \in Named(chosen[i].options)
         PROVE  \E k \in DOMAIN taken' : taken'[k] = <<chosen[i].group, o>>
    <3>1. CASE i \in 1..at - 1
      <4>1. PICK k \in DOMAIN taken : taken[k] = <<chosen[i].group, o>>
        BY <3>1, <2>11 DEF Noted
      <4>2. k \in DOMAIN taken'
        BY <4>1, <2>6
      <4> QED
        BY <4>1, <4>2, <2>6
    <3>2. CASE i = at
      <4>1. PICK j \in DOMAIN entry.options : o = entry.options[j]
        BY <3>2, <2>11 DEF Named, entry
      <4>2. n + j \in DOMAIN taken' /\ taken'[n + j] = <<entry.group, o>>
        BY <4>1, <2>5, <2>7
      <4> QED
        BY <4>2, <3>2 DEF entry
    <3> QED
      BY <3>1, <3>2, <2>8
  <2>12. verdict' # "accepted"
    BY <2>1
  <2> QED
    BY <2>1, <2>6, <2>9, <2>10, <2>11, <2>12 DEF Noted
<1>2. CASE RefuseEntry
  BY <1>2 DEF RefuseEntry, Noted
<1>3. CASE Conclude
  BY <1>3 DEF Conclude, Noted
<1>4. CASE UNCHANGED selection
  BY <1>4 DEF selection, Noted
<1> QED
  BY <1>1, <1>2, <1>3, <1>4 DEF SelectionNext

LEMMA NotedIsCharged == VerdictInv /\ Noted => ChargedOnce
<1> DEFINE pairs == {c \in Groups \X Options :
                       \E i \in DOMAIN chosen :
                         c[1] = chosen[i].group /\ c[2] \in Named(chosen[i].options)}
           price == [k \in DOMAIN taken |-> Price(taken[k])]
           each == [c \in pairs |-> Price(c)]
<1>1. SUFFICES ASSUME VerdictInv, Noted, verdict = "accepted"
               PROVE  SumOf(price) = SumOf(each)
  BY DEF ChargedOnce, ModifierTotal
<1>2. /\ Len(chosen) \in Nat /\ DOMAIN chosen = 1..Len(chosen) /\ 1..at - 1 = DOMAIN chosen
  BY <1>1 DEF VerdictInv, LoopInv, Noted
<1>3. IsFiniteSet(DOMAIN taken) /\ \A k \in DOMAIN taken : taken[k] \in Groups \X Options
  <2>1. DOMAIN taken = 1..Len(taken) /\ Len(taken) \in Nat
    BY <1>1 DEF Noted
  <2>2. IsFiniteSet(1..Len(taken))
    BY <2>1, FS_Interval
  <2> QED
    BY <1>1, <2>1, <2>2 DEF Noted
<1>4. pairs = {taken[k] : k \in DOMAIN taken}
  <2>1. ASSUME NEW k \in DOMAIN taken PROVE taken[k] \in pairs
    BY <1>1, <1>2, <1>3 DEF Noted
  <2>2. ASSUME NEW c \in pairs PROVE \E k \in DOMAIN taken : c = taken[k]
    <3>1. PICK i \in DOMAIN chosen : c[1] = chosen[i].group /\ c[2] \in Named(chosen[i].options)
      OBVIOUS
    <3>2. PICK k \in DOMAIN taken : taken[k] = <<chosen[i].group, c[2]>>
      BY <1>1, <1>2, <3>1 DEF Noted
    <3>3. c = <<c[1], c[2]>>
      OBVIOUS
    <3> QED
      BY <3>1, <3>2, <3>3
  <2> HIDE DEF pairs
  <2> QED
    BY <2>1, <2>2
<1>5. ASSUME NEW c \in pairs PROVE Price(c) \in Int
  <2>1. PICK i \in DOMAIN chosen : c[1] = chosen[i].group /\ c[2] \in Named(chosen[i].options)
    OBVIOUS
  <2>2. Fits(chosen[i])
    BY <1>1, <1>2 DEF VerdictInv, LoopInv
  <2>3. c[1] \in DOMAIN menu /\ c[2] \in DOMAIN menu[c[1]].options
    BY <2>1, <2>2 DEF Fits, OfferedGroups, OfferedOptions
  <2>4. IsGroup(menu[c[1]])
    BY <1>1, <2>3, ModifierSelectionAssumption DEF Noted
  <2>5. menu[c[1]].options[c[2]] \in [on : BOOLEAN, price : Int]
    BY <2>3, <2>4 DEF IsGroup
  <2> QED
    BY <2>5 DEF Price
<1>6. \A k \in DOMAIN taken : taken[k] \in pairs /\ price[k] \in Int /\ each[taken[k]] = price[k]
  <2> TAKE k \in DOMAIN taken
  <2>1. taken[k] \in pairs
    BY <1>4
  <2> HIDE DEF pairs
  <2> QED
    BY <2>1, <1>5
<1>7. SumOf(price) = Sum(price, DOMAIN taken) /\ SumOf(each) = Sum(each, pairs)
  <2> HIDE DEF pairs
  <2>1. DOMAIN price = DOMAIN taken /\ DOMAIN each = pairs
    OBVIOUS
  <2> HIDE DEF price, each
  <2> QED
    BY <2>1 DEF SumOf, Sum
<1>8. \A k, l \in DOMAIN taken : taken[k] = taken[l] => k = l
  BY <1>1 DEF Noted
<1> HIDE DEF price, each, pairs
<1>9. Sum(price, DOMAIN taken) = Sum(each, pairs)
  BY <1>3, <1>4, <1>6, <1>8, SumRenamed
<1> QED
  BY <1>7, <1>9

-----------------------------------------------------------------------------
(* Both. *)

FiguresInv ==
  /\ LedgerInv
  /\ IF verdict = "none" THEN scene \in Scenes ELSE VerdictInv /\ Noted

LEMMA FiguresInitInv == FiguresInit => FiguresInv
<1> SUFFICES ASSUME FiguresInit PROVE FiguresInv
  OBVIOUS
<1>1. CASE LedgerInit /\ verdict = "none"
  BY <1>1, LedgerInitInv DEF LedgerInit, FiguresInv
<1>2. CASE SelectionInit /\ sales = NoRows /\ bills = NoRows /\ now = 0
  <2>1. LedgerInv /\ VerdictInv /\ Noted
    BY <1>2, LedgerInitInv, SelectionInitInv, NotedInit
  <2> QED
    BY <1>2, <2>1 DEF SelectionInit, FiguresInv
<1> QED
  BY <1>1, <1>2 DEF FiguresInit

LEMMA FiguresNextInv == FiguresInv /\ [FiguresNext]_<<ledger, selection>> => FiguresInv'
<1> SUFFICES ASSUME FiguresInv, [FiguresNext]_<<ledger, selection>> PROVE FiguresInv'
  OBVIOUS
<1>1. CASE verdict = "none" /\ LedgerNext /\ UNCHANGED selection
  <2>1. LedgerInv' /\ scene' \in Scenes
    BY <1>1, LedgerNextInv DEF FiguresInv
  <2> QED
    BY <1>1, <2>1 DEF FiguresInv, selection
<1>2. CASE verdict # "none" /\ [SelectionNext]_selection /\ UNCHANGED ledger
  <2>1. VerdictInv' /\ Noted'
    BY <1>2, SelectionNextInv, NotedNext DEF FiguresInv
  <2>2. verdict' # "none"
    BY <2>1 DEF VerdictInv
  <2>3. LedgerInv'
    BY <1>2, LedgerStays DEF FiguresInv
  <2> QED
    BY <2>1, <2>2, <2>3 DEF FiguresInv
<1>3. CASE verdict = "none" /\ UNCHANGED <<ledger, selection>>
  <2>1. LedgerInv'
    BY <1>3, LedgerStays DEF FiguresInv
  <2> QED
    BY <1>3, <2>1 DEF FiguresInv, ledger, selection
<1> QED
  BY <1>1, <1>2, <1>3 DEF FiguresNext

LEMMA FiguresAlways == FiguresSpec => []FiguresInv
  BY FiguresInitInv, FiguresNextInv, PTL DEF FiguresSpec

\* getCountsByStoreId counts what the lists of the history show: for every
\* ledger and every filter.
THEOREM CountsFollowLists == FiguresSpec => []CountsAgree
  BY CountsAreThoseOfLists, PTL

\* resolveRange cuts between days: for every length of a week, a month and a
\* day, and whenever the payments were.
THEOREM RangesAreDays == FiguresSpec => []RangesWhole
  BY FiguresAlways, RangesAreWhole, PTL DEF FiguresInv

\* Each breakdown of getReportData adds up: whatever was paid, how and when.
THEOREM PartsMakeTheWhole == FiguresSpec => []BreakdownsAddUp
  BY FiguresAlways, BreakdownsDoAddUp, PTL DEF FiguresInv

\* The history and the reports tell of the same money unless an order was
\* paid twice.
THEOREM SameMoney == FiguresSpec => []TakingsAgree
  BY FiguresAlways, TakingsDoAgree, PTL DEF FiguresInv

\* aggregateTopProducts accounts for what was taken, unless an order was
\* edited after it was paid; its list does if it lists all products.
THEOREM ProductsAddUp == FiguresSpec => []ProductsEarnRevenue
  BY FiguresAlways, ProductsDoEarnRevenue, PTL DEF FiguresInv

\* validateAndCalculate accepts exactly the choices the menu offers: for every
\* set of groups and options, every menu made of them, and every request,
\* however long and whatever it names.
THEOREM SelectionOffered == FiguresSpec => []OfferedIsAccepted
<1>1. FiguresInv => OfferedIsAccepted
  BY DEF FiguresInv, VerdictInv, OfferedIsAccepted
<1> QED
  BY <1>1, FiguresAlways, PTL

\* modifierTotal charges each option of an accepted choice once: for every
\* menu, whatever its options cost, and every request.
THEOREM SelectionCharged == FiguresSpec => []ChargedOnce
<1>1. FiguresInv => ChargedOnce
  BY NotedIsCharged DEF FiguresInv, ChargedOnce
<1> QED
  BY <1>1, FiguresAlways, PTL
=============================================================================
