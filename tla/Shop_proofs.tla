------------------------------- MODULE Shop_proofs ------------------------------
(***************************************************************************)
(* Proofs about Shop, for any number of requests and any scenes: what is   *)
(* proved below holds for every interleaving of the back office's handlers *)
(* that starts from a database as the services leave it.                   *)
(***************************************************************************)
EXTENDS FiniteSetTheorems, Shop, TLAPS

-----------------------------------------------------------------------------
(* Tables. *)

LEMMA IdsAreNumbers == Ids \subseteq Nat /\ MaxIds \in Nat
BY ShopTablesAssumption DEF Ids

LEMMA Further ==
  ASSUME NEW m \in Nat, NEW n \in Nat, m <= n
  PROVE  \A k \in Ids : k <= m => k <= n
BY IdsAreNumbers

LEMMA PutIs ==
  ASSUME NEW t, NEW k, NEW row, NEW u, u = Put(Row(k, row), t)
  PROVE  /\ DOMAIN u = {k} \cup DOMAIN t /\ u[k] = row
         /\ \A j \in DOMAIN t : j # k => u[j] = t[j]
BY DEF Put, Row

LEMMA PutsTable ==
  ASSUME NEW rows, NEW t, NEW k \in Ids, NEW row \in rows, Table(t, Ids, rows)
  PROVE  Table(Put(Row(k, row), t), Ids, rows)
BY DEF Put, Row, Table

LEMMA WithoutIs ==
  ASSUME NEW t, NEW gone, NEW u, u = Without(t, gone)
  PROVE  /\ DOMAIN u = DOMAIN t \ gone
         /\ \A k \in DOMAIN u : u[k] = t[k]
BY DEF Without, Restrict

LEMMA WithoutTable ==
  ASSUME NEW rows, NEW t, NEW gone, Table(t, Ids, rows)
  PROVE  Table(Without(t, gone), Ids, rows)
BY DEF Without, Restrict, Table

\* What a table of the right type gives a step.
LEMMA RowsOf ==
  ASSUME NEW rows, NEW t, Table(t, Ids, rows)
  PROVE  DOMAIN t \subseteq Ids /\ \A k \in DOMAIN t : t[k] \in rows
BY DEF Table

\* e is d except for the tables named.
Keeps(d, e, changed) == DOMAIN e = TableNames /\ \A t \in TableNames \ changed : e[t] = d[t]

\* In table t the row is inserted, or put in place of its own.
Puts(d, e, t, k, row) ==
  /\ Keeps(d, e, {t})
  /\ e[t] = Put(Row(k, row), d[t])
  /\ DOMAIN e[t] = {k} \cup DOMAIN d[t] /\ e[t][k] = row
  /\ \A j \in DOMAIN d[t] : j # k => e[t][j] = d[t][j]

LEMMA SavedPuts ==
  ASSUME DOMAIN db = TableNames, NEW t \in TableNames, NEW k, NEW row,
         NEW e, e = Saved(t, k, row)
  PROVE  Puts(db, e, t, k, row)
<1>1. Keeps(db, e, {t}) /\ e[t] = Put(Row(k, row), db[t])
  BY DEF Saved, Keeps
<1>2. e[t] = Put(Row(k, row), db[t])
  BY <1>1
<1>3. DOMAIN e[t] = {k} \cup DOMAIN db[t]
  BY <1>2 DEF Put, Row
<1>4. e[t][k] = row
  BY <1>2 DEF Put, Row
<1>5. \A j \in DOMAIN db[t] : j # k => e[t][j] = db[t][j]
  BY <1>2 DEF Put, Row
<1> QED BY <1>1, <1>2, <1>3, <1>4, <1>5 DEF Puts

\* The foreign keys, table by table.
LEMMA RefsAre ==
  ASSUME NEW d
  PROVE  RefsHold(d) <=>
           /\ \A k \in DOMAIN d.stations : d.stations[k].store \in DOMAIN d.stores
           /\ \A k \in DOMAIN d.categories : d.categories[k].store \in DOMAIN d.stores
           /\ \A k \in DOMAIN d.groups : d.groups[k].store \in DOMAIN d.stores
           /\ \A k \in DOMAIN d.notes : d.notes[k].store \in DOMAIN d.stores
           /\ \A k \in DOMAIN d.products :
                /\ d.products[k].store \in DOMAIN d.stores
                /\ d.products[k].station \in DOMAIN d.stations
                /\ d.products[k].category \in DOMAIN d.categories \cup {None}
           /\ \A k \in DOMAIN d.options : d.options[k].group \in DOMAIN d.groups
           /\ \A k \in DOMAIN d.links :
                /\ d.links[k].product \in DOMAIN d.products
                /\ d.links[k].group \in DOMAIN d.groups
           /\ \A k \in DOMAIN d.items :
                /\ d.items[k].product \in DOMAIN d.products
                /\ d.items[k].station \in DOMAIN d.stations
BY DEF RefsHold

\* The numbers, table by table.
LEMMA NumbersAre ==
  ASSUME NEW d, NEW n
  PROVE  Numbered(d, n) <=>
           /\ \A k \in DOMAIN d.stores : k <= n
           /\ \A k \in DOMAIN d.stations : k <= n
           /\ \A k \in DOMAIN d.categories : k <= n
           /\ \A k \in DOMAIN d.products : k <= n
           /\ \A k \in DOMAIN d.groups : k <= n
           /\ \A k \in DOMAIN d.options : k <= n
           /\ \A k \in DOMAIN d.links : k <= n
           /\ \A k \in DOMAIN d.notes : k <= n
           /\ \A k \in DOMAIN d.accounts : k <= n
           /\ \A k \in DOMAIN d.items : k <= n
BY DEF Numbered, TableNames

Sound(d) == TablesOK(d) /\ RefsHold(d)


\* Saving a row whose parents exist.
LEMMA PutStore ==
  ASSUME NEW d, NEW e, Sound(d), NEW k \in Ids, NEW row \in StoreRow,
         Puts(d, e, "stores", k, row)
  PROVE  Sound(e)
<1>1. TablesOK(e)
  BY PutsTable DEF Puts, Sound, TablesOK, Keeps, TableNames
<1>2. RefsHold(e)
  <2>1. DOMAIN d.stores \subseteq DOMAIN e.stores
    BY DEF Puts
  <2> QED BY <2>1, RefsAre DEF Puts, Sound, Keeps, TableNames
<1> QED BY <1>1, <1>2 DEF Sound

LEMMA PutProduct ==
  ASSUME NEW d, NEW e, Sound(d), NEW k \in Ids, NEW row \in ProductRow,
         Puts(d, e, "products", k, row),
         row.store \in DOMAIN d.stores, row.station \in DOMAIN d.stations,
         row.category \in DOMAIN d.categories \cup {None}
  PROVE  Sound(e)
<1>1. TablesOK(e)
  BY PutsTable DEF Puts, Sound, TablesOK, Keeps, TableNames
<1>2. RefsHold(e)
  BY RefsAre DEF Puts, Sound, Keeps, TableNames
<1> QED BY <1>1, <1>2 DEF Sound

LEMMA PutStation ==
  ASSUME NEW d, NEW e, Sound(d), NEW k \in Ids, NEW row \in StationRow,
         Puts(d, e, "stations", k, row),
         row.store \in DOMAIN d.stores
  PROVE  Sound(e)
<1>1. TablesOK(e)
  BY PutsTable DEF Puts, Sound, TablesOK, Keeps, TableNames
<1>2. RefsHold(e)
  BY RefsAre DEF Puts, Sound, Keeps, TableNames
<1> QED BY <1>1, <1>2 DEF Sound

LEMMA PutCategory ==
  ASSUME NEW d, NEW e, Sound(d), NEW k \in Ids, NEW row \in CategoryRow,
         Puts(d, e, "categories", k, row),
         row.store \in DOMAIN d.stores
  PROVE  Sound(e)
<1>1. TablesOK(e)
  BY PutsTable DEF Puts, Sound, TablesOK, Keeps, TableNames
<1>2. RefsHold(e)
  BY RefsAre DEF Puts, Sound, Keeps, TableNames
<1> QED BY <1>1, <1>2 DEF Sound

LEMMA PutGroup ==
  ASSUME NEW d, NEW e, Sound(d), NEW k \in Ids, NEW row \in GroupRow,
         Puts(d, e, "groups", k, row),
         row.store \in DOMAIN d.stores
  PROVE  Sound(e)
<1>1. TablesOK(e)
  BY PutsTable DEF Puts, Sound, TablesOK, Keeps, TableNames
<1>2. RefsHold(e)
  BY RefsAre DEF Puts, Sound, Keeps, TableNames
<1> QED BY <1>1, <1>2 DEF Sound

LEMMA PutNote ==
  ASSUME NEW d, NEW e, Sound(d), NEW k \in Ids, NEW row \in NoteRow,
         Puts(d, e, "notes", k, row),
         row.store \in DOMAIN d.stores
  PROVE  Sound(e)
<1>1. TablesOK(e)
  BY PutsTable DEF Puts, Sound, TablesOK, Keeps, TableNames
<1>2. RefsHold(e)
  BY RefsAre DEF Puts, Sound, Keeps, TableNames
<1> QED BY <1>1, <1>2 DEF Sound

LEMMA PutOption ==
  ASSUME NEW d, NEW e, Sound(d), NEW k \in Ids, NEW row \in OptionRow,
         Puts(d, e, "options", k, row),
         row.group \in DOMAIN d.groups
  PROVE  Sound(e)
<1>1. TablesOK(e)
  BY PutsTable DEF Puts, Sound, TablesOK, Keeps, TableNames
<1>2. RefsHold(e)
  BY RefsAre DEF Puts, Sound, Keeps, TableNames
<1> QED BY <1>1, <1>2 DEF Sound

LEMMA PutLink ==
  ASSUME NEW d, NEW e, Sound(d), NEW k \in Ids, NEW row \in LinkRow,
         Puts(d, e, "links", k, row),
         row.product \in DOMAIN d.products, row.group \in DOMAIN d.groups
  PROVE  Sound(e)
<1>1. TablesOK(e)
  BY PutsTable DEF Puts, Sound, TablesOK, Keeps, TableNames
<1>2. RefsHold(e)
  BY RefsAre DEF Puts, Sound, Keeps, TableNames
<1> QED BY <1>1, <1>2 DEF Sound

LEMMA PutAccount ==
  ASSUME NEW d, NEW e, Sound(d), NEW k \in Ids, NEW row \in AccountRow,
         Puts(d, e, "accounts", k, row)
  PROVE  Sound(e)
<1>1. TablesOK(e)
  BY PutsTable DEF Puts, Sound, TablesOK, Keeps, TableNames
<1>2. RefsHold(e)
  BY RefsAre DEF Puts, Sound, Keeps, TableNames
<1> QED BY <1>1, <1>2 DEF Sound

LEMMA PutItem ==
  ASSUME NEW d, NEW e, Sound(d), NEW k \in Ids, NEW row \in ItemRow,
         Puts(d, e, "items", k, row),
         row.product \in DOMAIN d.products, row.station \in DOMAIN d.stations
  PROVE  Sound(e)
<1>1. TablesOK(e)
  BY PutsTable DEF Puts, Sound, TablesOK, Keeps, TableNames
<1>2. RefsHold(e)
  BY RefsAre DEF Puts, Sound, Keeps, TableNames
<1> QED BY <1>1, <1>2 DEF Sound

\* A statement sets a column of a row.
LEMMA SetPuts ==
  ASSUME NEW t \in TableNames, NEW c, DOMAIN db = TableNames, NEW k \in DOMAIN db[t], NEW v,
         NEW e, e = [db EXCEPT ![t][k][c] = v],
         db[t] = [j \in DOMAIN db[t] |-> db[t][j]]
  PROVE  Puts(db, e, t, k, [db[t][k] EXCEPT ![c] = v])
<1>1. Keeps(db, e, {t})
  BY DEF Keeps
<1>2. e[t] = [db[t] EXCEPT ![k] = [db[t][k] EXCEPT ![c] = v]]
  OBVIOUS
<1>3. e[t] = Put(Row(k, [db[t][k] EXCEPT ![c] = v]), db[t])
  BY <1>2 DEF Put, Row
<1>4. DOMAIN e[t] = {k} \cup DOMAIN db[t] /\ e[t][k] = [db[t][k] EXCEPT ![c] = v]
  BY <1>2
<1>5. \A j \in DOMAIN db[t] : j # k => e[t][j] = db[t][j]
  BY <1>2
<1> QED BY <1>1, <1>3, <1>4, <1>5 DEF Puts

LEMMA WritePinPuts ==
  ASSUME TablesOK(db), NEW k \in DOMAIN db.stores, NEW pin \in Pins,
         NEW e, e = [db EXCEPT !.stores[k].pin = pin]
  PROVE  Puts(db, e, "stores", k, [pin |-> pin, settings |-> db.stores[k].settings])
<1>1. db.stores[k] \in StoreRow /\ db.stores = [j \in DOMAIN db.stores |-> db.stores[j]]
  BY DEF TablesOK, Table
<1>2. [db.stores[k] EXCEPT !.pin = pin] = [pin |-> pin, settings |-> db.stores[k].settings]
  BY <1>1 DEF StoreRow
<1> QED BY <1>1, <1>2, SetPuts DEF TablesOK, TableNames

LEMMA MarkPuts ==
  ASSUME TablesOK(db), NEW k \in DOMAIN db.products, NEW b \in BOOLEAN,
         NEW e, e = [db EXCEPT !.products[k].deleted = b]
  PROVE  /\ Puts(db, e, "products", k, [db.products[k] EXCEPT !.deleted = b])
         /\ [db.products[k] EXCEPT !.deleted = b] \in ProductRow
<1>1. db.products[k] \in ProductRow /\ db.products = [j \in DOMAIN db.products |-> db.products[j]]
  BY DEF TablesOK, Table
<1>2. [db.products[k] EXCEPT !.deleted = b] \in ProductRow
  BY <1>1 DEF ProductRow
<1> QED BY <1>1, <1>2, SetPuts DEF TablesOK, TableNames

LEMMA MovePuts ==
  ASSUME TablesOK(db), NEW k \in DOMAIN db.stations, NEW s \in Ids,
         NEW e, e = [db EXCEPT !.stations[k].store = s]
  PROVE  Puts(db, e, "stations", k, [store |-> s])
<1>1. db.stations[k] \in StationRow /\ db.stations = [j \in DOMAIN db.stations |-> db.stations[j]]
  BY DEF TablesOK, Table
<1>2. [db.stations[k] EXCEPT !.store = s] = [store |-> s]
  BY <1>1 DEF StationRow
<1> QED BY <1>1, <1>2, SetPuts DEF TablesOK, TableNames

\* The rows of gone leave table t.
Drops(d, e, t, gone) ==
  /\ Keeps(d, e, {t})
  /\ e[t] = Without(d[t], gone)
  /\ DOMAIN e[t] = DOMAIN d[t] \ gone
  /\ \A j \in DOMAIN e[t] : e[t][j] = d[t][j]

LEMMA WithoutDrops ==
  ASSUME NEW d, DOMAIN d = TableNames, NEW t \in TableNames, NEW gone,
         NEW e, e = [d EXCEPT ![t] = Without(@, gone)]
  PROVE  Drops(d, e, t, gone)
<1>1. Keeps(d, e, {t})
  BY DEF Keeps
<1>2. e[t] = Without(d[t], gone)
  OBVIOUS
<1>3. DOMAIN e[t] = DOMAIN d[t] \ gone
  BY <1>2 DEF Without, Restrict
<1>4. \A j \in DOMAIN e[t] : e[t][j] = d[t][j]
  BY <1>2 DEF Without, Restrict
<1> QED BY <1>1, <1>2, <1>3, <1>4 DEF Drops

LEMMA DropLeaf ==
  ASSUME NEW d, NEW e, Sound(d), NEW t \in {"notes", "options", "links"}, NEW gone,
         Drops(d, e, t, gone)
  PROVE  Sound(e)
<1>1. TablesOK(e)
  BY WithoutTable DEF Drops, Sound, TablesOK, Keeps, TableNames
<1>2. RefsHold(e)
  BY RefsAre DEF Drops, Sound, Keeps, TableNames
<1> QED BY <1>1, <1>2 DEF Sound

\* What goes with products, and with groups.
LEMMA WithoutProductsIs ==
  ASSUME NEW d, TablesOK(d), NEW gone, NEW e, e = WithoutProducts(d, gone)
  PROVE  /\ Keeps(d, e, {"products", "links"}) /\ TablesOK(e)
         /\ DOMAIN e.products = DOMAIN d.products \ gone
         /\ \A k \in DOMAIN e.products : e.products[k] = d.products[k]
         /\ DOMAIN e.links = {l \in DOMAIN d.links : d.links[l].product \notin gone}
         /\ \A l \in DOMAIN e.links : e.links[l] = d.links[l]
<1> DEFINE lost == {l \in DOMAIN d.links : d.links[l].product \in gone}
<1>1. DOMAIN d = TableNames
  BY DEF TablesOK
<1>2. Keeps(d, e, {"products", "links"})
  BY <1>1 DEF WithoutProducts, Keeps
<1>3. e.products = Without(d.products, gone)
  BY <1>1 DEF WithoutProducts, TableNames
<1>4. e.links = Without(d.links, lost)
  BY <1>1 DEF WithoutProducts, TableNames
<1>5. TablesOK(e)
  <2>1. Table(e.products, Ids, ProductRow)
    BY <1>3, WithoutTable DEF TablesOK
  <2>2. Table(e.links, Ids, LinkRow)
    BY <1>4, WithoutTable DEF TablesOK
  <2> QED BY <1>2, <2>1, <2>2 DEF TablesOK, Keeps, TableNames
<1>6. DOMAIN e.products = DOMAIN d.products \ gone /\ \A k \in DOMAIN e.products : e.products[k] = d.products[k]
  BY <1>3 DEF Without, Restrict
<1>7. DOMAIN e.links = DOMAIN d.links \ lost /\ \A k \in DOMAIN e.links : e.links[k] = d.links[k]
  BY <1>4 DEF Without, Restrict
<1> QED BY <1>2, <1>5, <1>6, <1>7

LEMMA WithoutGroupsIs ==
  ASSUME NEW d, TablesOK(d), NEW gone, NEW e, e = WithoutGroups(d, gone)
  PROVE  /\ Keeps(d, e, {"groups", "options", "links"}) /\ TablesOK(e)
         /\ DOMAIN e.groups = DOMAIN d.groups \ gone
         /\ \A k \in DOMAIN e.groups : e.groups[k] = d.groups[k]
         /\ DOMAIN e.options = {o \in DOMAIN d.options : d.options[o].group \notin gone}
         /\ \A o \in DOMAIN e.options : e.options[o] = d.options[o]
         /\ DOMAIN e.links = {l \in DOMAIN d.links : d.links[l].group \notin gone}
         /\ \A l \in DOMAIN e.links : e.links[l] = d.links[l]
<1> DEFINE lost == {l \in DOMAIN d.links : d.links[l].group \in gone}
           left == {o \in DOMAIN d.options : d.options[o].group \in gone}
<1>1. DOMAIN d = TableNames
  BY DEF TablesOK
<1>2. Keeps(d, e, {"groups", "options", "links"})
  BY <1>1 DEF WithoutGroups, Keeps
<1>3. e.groups = Without(d.groups, gone)
  BY <1>1 DEF WithoutGroups, TableNames
<1>4. e.links = Without(d.links, lost)
  BY <1>1 DEF WithoutGroups, TableNames
<1>5. e.options = Without(d.options, left)
  BY <1>1 DEF WithoutGroups, TableNames
<1>6. TablesOK(e)
  <2>1. Table(e.groups, Ids, GroupRow)
    BY <1>3, WithoutTable DEF TablesOK
  <2>2. Table(e.links, Ids, LinkRow)
    BY <1>4, WithoutTable DEF TablesOK
  <2>3. Table(e.options, Ids, OptionRow)
    BY <1>5, WithoutTable DEF TablesOK
  <2> QED BY <1>2, <2>1, <2>2, <2>3 DEF TablesOK, Keeps, TableNames
<1>7. DOMAIN e.groups = DOMAIN d.groups \ gone /\ \A k \in DOMAIN e.groups : e.groups[k] = d.groups[k]
  BY <1>3 DEF Without, Restrict
<1>8. DOMAIN e.links = DOMAIN d.links \ lost /\ \A k \in DOMAIN e.links : e.links[k] = d.links[k]
  BY <1>4 DEF Without, Restrict
<1>9. DOMAIN e.options = DOMAIN d.options \ left /\ \A k \in DOMAIN e.options : e.options[k] = d.options[k]
  BY <1>5 DEF Without, Restrict
<1> QED BY <1>2, <1>6, <1>7, <1>8, <1>9

LEMMA DropGroups ==
  ASSUME NEW d, Sound(d), NEW gone, NEW e, e = WithoutGroups(d, gone)
  PROVE  Sound(e)
<1>1. RefsHold(e)
  BY WithoutGroupsIs, RefsAre DEF Sound, Keeps, TableNames
<1> QED BY <1>1, WithoutGroupsIs DEF Sound

\* Station items keep a station and the products made at it.
LEMMA DropStation ==
  ASSUME NEW s, Sound(db), Releasable(s), NEW e, e = WithoutStation(db, s)
  PROVE  /\ Sound(e)
         /\ Keeps(db, e, {"products", "links", "stations"})
         /\ DOMAIN e.products = {p \in DOMAIN db.products : db.products[p].station # s}
         /\ \A k \in DOMAIN e.products : e.products[k] = db.products[k]
         /\ DOMAIN e.links = {l \in DOMAIN db.links :
                                db.products[db.links[l].product].station # s}
         /\ \A l \in DOMAIN e.links : e.links[l] = db.links[l]
         /\ DOMAIN e.stations = DOMAIN db.stations \ {s}
         /\ \A k \in DOMAIN e.stations : e.stations[k] = db.stations[k]
<1> DEFINE gone == Of(db.products, "station", s)
           rest == WithoutProducts(db, gone)
<1>1. gone = {p \in DOMAIN db.products : db.products[p].station = s}
  BY DEF Of
<1>2. /\ Keeps(db, rest, {"products", "links"}) /\ TablesOK(rest)
      /\ DOMAIN rest.products = DOMAIN db.products \ gone
      /\ \A k \in DOMAIN rest.products : rest.products[k] = db.products[k]
      /\ DOMAIN rest.links = {l \in DOMAIN db.links : db.links[l].product \notin gone}
      /\ \A l \in DOMAIN rest.links : rest.links[l] = db.links[l]
  <2> HIDE DEF gone
  <2> QED BY WithoutProductsIs DEF Sound
<1>3. e = [rest EXCEPT !.stations = Without(@, {s})]
  BY DEF WithoutStation
<1>4. Drops(rest, e, "stations", {s})
  <2> HIDE DEF rest
  <2> QED BY <1>2, <1>3, WithoutDrops DEF TablesOK, TableNames
<1> HIDE DEF rest
<1>5. TablesOK(e)
  BY <1>2, <1>4, WithoutTable DEF Drops, TablesOK, Keeps, TableNames
<1>6. Keeps(db, e, {"products", "links", "stations"})
  BY <1>2, <1>4 DEF Drops, Keeps
<1>7. /\ DOMAIN e.products = {p \in DOMAIN db.products : db.products[p].station # s}
      /\ \A k \in DOMAIN e.products : e.products[k] = db.products[k]
  <2>1. e.products = rest.products
    BY <1>4 DEF Drops, Keeps, TableNames
  <2> QED BY <1>1, <1>2, <2>1
<1>8. /\ DOMAIN e.links = {l \in DOMAIN db.links : db.links[l].product \notin gone}
      /\ \A l \in DOMAIN e.links : e.links[l] = db.links[l]
  <2>1. e.links = rest.links
    BY <1>4 DEF Drops, Keeps, TableNames
  <2> QED BY <1>2, <2>1
<1>9. \A l \in DOMAIN db.links : db.links[l].product \in DOMAIN db.products
  BY RefsAre DEF Sound
<1>10. DOMAIN e.links = {l \in DOMAIN db.links : db.products[db.links[l].product].station # s}
  BY <1>1, <1>8, <1>9
<1>11. /\ DOMAIN e.stations = DOMAIN db.stations \ {s}
       /\ \A k \in DOMAIN e.stations : e.stations[k] = db.stations[k]
  <2>1. rest.stations = db.stations
    BY <1>2 DEF Keeps, TableNames
  <2> QED BY <1>4, <2>1 DEF Drops
<1>12. RefsHold(e)
  BY <1>1, <1>6, <1>7, <1>8, <1>11, RefsAre DEF Sound, Keeps, TableNames, Releasable
<1> QED BY <1>5, <1>6, <1>7, <1>8, <1>10, <1>11, <1>12 DEF Sound

\* The products that go with a store.
GoneWith(s) ==
  {p \in DOMAIN db.products :
     \/ db.products[p].store = s
     \/ db.stations[db.products[p].station].store = s}

\* What is left when a store goes.
StoreGone(s, e) ==
  /\ Keeps(db, e, TableNames \ {"accounts", "files"})
  /\ DOMAIN e.stores = DOMAIN db.stores \ {s}
  /\ \A k \in DOMAIN e.stores : e.stores[k] = db.stores[k]
  /\ DOMAIN e.stations = {k \in DOMAIN db.stations : db.stations[k].store # s}
  /\ \A k \in DOMAIN e.stations : e.stations[k] = db.stations[k]
  /\ DOMAIN e.categories = {k \in DOMAIN db.categories : db.categories[k].store # s}
  /\ \A k \in DOMAIN e.categories : e.categories[k] = db.categories[k]
  /\ DOMAIN e.products = DOMAIN db.products \ GoneWith(s)
  /\ \A p \in DOMAIN e.products :
       e.products[p] = IF db.products[p].category \in DOMAIN db.categories \ DOMAIN e.categories
                       THEN [db.products[p] EXCEPT !.category = None]
                       ELSE db.products[p]
  /\ DOMAIN e.groups = {k \in DOMAIN db.groups : db.groups[k].store # s}
  /\ \A k \in DOMAIN e.groups : e.groups[k] = db.groups[k]
  /\ DOMAIN e.options = {k \in DOMAIN db.options : db.groups[db.options[k].group].store # s}
  /\ \A k \in DOMAIN e.options : e.options[k] = db.options[k]
  /\ DOMAIN e.links = {k \in DOMAIN db.links :
                         /\ db.links[k].product \notin GoneWith(s)
                         /\ db.groups[db.links[k].group].store # s}
  /\ \A k \in DOMAIN e.links : e.links[k] = db.links[k]
  /\ DOMAIN e.notes = {k \in DOMAIN db.notes : db.notes[k].store # s}
  /\ \A k \in DOMAIN e.notes : e.notes[k] = db.notes[k]
  /\ DOMAIN e.items = {k \in DOMAIN db.items :
                         /\ db.items[k].product \notin GoneWith(s)
                         /\ db.stations[db.items[k].station].store # s}
  /\ \A k \in DOMAIN e.items : e.items[k] = db.items[k]

LEMMA WithoutStoreIs ==
  ASSUME NEW s, Sound(db), NEW e, e = WithoutStore(db, s)
  PROVE  StoreGone(s, e) /\ TablesOK(e)
<1> DEFINE gone == Of(db.products, "store", s)
                     \cup {p \in DOMAIN db.products :
                             db.products[p].station \in Of(db.stations, "store", s)}
           mid == WithoutProducts(db, gone)
           out == Of(db.groups, "store", s)
           rest == WithoutGroups(mid, out)
           lost == Of(db.categories, "store", s)
<1>1. gone = GoneWith(s)
  BY RefsAre DEF Of, Sound, GoneWith
<1>2. /\ Keeps(db, mid, {"products", "links"}) /\ TablesOK(mid)
      /\ DOMAIN mid.products = DOMAIN db.products \ gone
      /\ \A k \in DOMAIN mid.products : mid.products[k] = db.products[k]
      /\ DOMAIN mid.links = {l \in DOMAIN db.links : db.links[l].product \notin gone}
      /\ \A l \in DOMAIN mid.links : mid.links[l] = db.links[l]
  <2> HIDE DEF gone
  <2> QED BY WithoutProductsIs DEF Sound
<1>3. out = {k \in DOMAIN db.groups : db.groups[k].store = s}
  BY DEF Of
<1>4. /\ Keeps(mid, rest, {"groups", "options", "links"}) /\ TablesOK(rest)
      /\ DOMAIN rest.groups = DOMAIN mid.groups \ out
      /\ \A k \in DOMAIN rest.groups : rest.groups[k] = mid.groups[k]
      /\ DOMAIN rest.options = {o \in DOMAIN mid.options : mid.options[o].group \notin out}
      /\ \A o \in DOMAIN rest.options : rest.options[o] = mid.options[o]
      /\ DOMAIN rest.links = {l \in DOMAIN mid.links : mid.links[l].group \notin out}
      /\ \A l \in DOMAIN rest.links : rest.links[l] = mid.links[l]
  <2> HIDE DEF mid, out
  <2> QED BY <1>2, WithoutGroupsIs
<1>5. lost = {k \in DOMAIN db.categories : db.categories[k].store = s}
  BY DEF Of
<1>6. e = [rest EXCEPT
             !.stores = Without(@, {s}),
             !.stations = Without(@, Of(@, "store", s)),
             !.categories = Without(@, lost),
             !.products = [p \in DOMAIN @ |-> IF @[p].category \in lost
                                              THEN [@[p] EXCEPT !.category = None]
                                              ELSE @[p]],
             !.notes = Without(@, Of(@, "store", s)),
             !.items = Without(@, {i \in DOMAIN @ : \/ @[i].product \in gone
                                                    \/ @[i].station \in Of(db.stations, "store", s)})]
  BY DEF WithoutStore
<1> HIDE DEF rest, mid, gone, lost, out
<1>7. DOMAIN rest = TableNames
  BY <1>4 DEF Keeps
<1>8. /\ DOMAIN e = TableNames /\ e.accounts = rest.accounts /\ e.files = rest.files
      /\ e.groups = rest.groups /\ e.options = rest.options /\ e.links = rest.links
  BY <1>6, <1>7 DEF TableNames
<1>9. e.stores = Without(rest.stores, {s})
  BY <1>6, <1>7 DEF TableNames
<1>10. e.stations = Without(rest.stations, Of(rest.stations, "store", s))
  BY <1>6, <1>7 DEF TableNames
<1>11. e.categories = Without(rest.categories, lost)
  BY <1>6, <1>7 DEF TableNames
<1>12. e.products = [p \in DOMAIN rest.products |->
                       IF rest.products[p].category \in lost
                       THEN [rest.products[p] EXCEPT !.category = None] ELSE rest.products[p]]
  BY <1>6, <1>7 DEF TableNames
<1>13. e.notes = Without(rest.notes, Of(rest.notes, "store", s))
  BY <1>6, <1>7 DEF TableNames
<1>14. e.items = Without(rest.items,
                   {i \in DOMAIN rest.items : \/ rest.items[i].product \in gone
                                              \/ rest.items[i].station \in Of(db.stations, "store", s)})
  BY <1>6, <1>7 DEF TableNames
<1>15. /\ rest.stores = db.stores /\ rest.stations = db.stations
       /\ rest.categories = db.categories /\ rest.notes = db.notes /\ rest.items = db.items
       /\ rest.accounts = db.accounts /\ rest.files = db.files
       /\ mid.groups = db.groups /\ mid.options = db.options
       /\ rest.products = mid.products
  BY <1>2, <1>4 DEF Keeps, TableNames
<1>16. TablesOK(e)
  <2>1. Table(e.stores, Ids, StoreRow)
    BY <1>9, <1>4, WithoutTable DEF TablesOK
  <2>2. Table(e.stations, Ids, StationRow)
    BY <1>10, <1>4, WithoutTable DEF TablesOK
  <2>3. Table(e.categories, Ids, CategoryRow)
    BY <1>11, <1>4, WithoutTable DEF TablesOK
  <2>4. Table(e.products, Ids, ProductRow)
    <3>1. Table(rest.products, Ids, ProductRow)
      BY <1>4 DEF TablesOK
    <3> QED BY <1>12, <3>1 DEF Table, ProductRow
  <2>5. Table(e.notes, Ids, NoteRow)
    BY <1>13, <1>4, WithoutTable DEF TablesOK
  <2>6. Table(e.items, Ids, ItemRow)
    BY <1>14, <1>4, WithoutTable DEF TablesOK
  <2> QED BY <1>4, <1>8, <2>1, <2>2, <2>3, <2>4, <2>5, <2>6 DEF TablesOK
<1>17. /\ DOMAIN e.stores = DOMAIN db.stores \ {s}
       /\ \A k \in DOMAIN e.stores : e.stores[k] = db.stores[k]
  BY <1>9, <1>15 DEF Without, Restrict
<1>18. /\ DOMAIN e.stations = {k \in DOMAIN db.stations : db.stations[k].store # s}
       /\ \A k \in DOMAIN e.stations : e.stations[k] = db.stations[k]
  BY <1>10, <1>15 DEF Without, Restrict, Of
<1>19. /\ DOMAIN e.categories = {k \in DOMAIN db.categories : db.categories[k].store # s}
       /\ \A k \in DOMAIN e.categories : e.categories[k] = db.categories[k]
  BY <1>5, <1>11, <1>15 DEF Without, Restrict
<1>20. /\ DOMAIN e.notes = {k \in DOMAIN db.notes : db.notes[k].store # s}
       /\ \A k \in DOMAIN e.notes : e.notes[k] = db.notes[k]
  BY <1>13, <1>15 DEF Without, Restrict, Of
<1>21. /\ DOMAIN e.items = {k \in DOMAIN db.items :
                              /\ db.items[k].product \notin gone
                              /\ db.stations[db.items[k].station].store # s}
       /\ \A k \in DOMAIN e.items : e.items[k] = db.items[k]
  <2>1. \A k \in DOMAIN db.items : db.items[k].station \in DOMAIN db.stations
    BY RefsAre DEF Sound
  <2>2. \A k \in DOMAIN db.items : db.items[k].station \in Of(db.stations, "store", s)
                                     <=> db.stations[db.items[k].station].store = s
    BY <2>1 DEF Of
  <2> QED BY <1>14, <1>15, <2>2 DEF Without, Restrict
<1>22. /\ DOMAIN e.products = DOMAIN db.products \ gone
       /\ \A p \in DOMAIN e.products :
            e.products[p] = IF db.products[p].category \in DOMAIN db.categories \ DOMAIN e.categories
                            THEN [db.products[p] EXCEPT !.category = None]
                            ELSE db.products[p]
  <2>1. lost = DOMAIN db.categories \ DOMAIN e.categories
    BY <1>5, <1>19
  <2>2. DOMAIN e.products = DOMAIN mid.products
    BY <1>12, <1>15
  <2>3. \A p \in DOMAIN e.products :
          e.products[p] = IF mid.products[p].category \in lost
                          THEN [mid.products[p] EXCEPT !.category = None] ELSE mid.products[p]
    BY <1>12, <1>15
  <2> QED BY <1>2, <2>1, <2>2, <2>3
<1>23. /\ DOMAIN e.groups = {k \in DOMAIN db.groups : db.groups[k].store # s}
       /\ \A k \in DOMAIN e.groups : e.groups[k] = db.groups[k]
  BY <1>3, <1>4, <1>8, <1>15
<1>24. /\ DOMAIN e.options = {k \in DOMAIN db.options : db.groups[db.options[k].group].store # s}
       /\ \A k \in DOMAIN e.options : e.options[k] = db.options[k]
  <2>1. \A k \in DOMAIN db.options : db.options[k].group \in DOMAIN db.groups
    BY RefsAre DEF Sound
  <2>2. \A k \in DOMAIN db.options :
          db.options[k].group \in out <=> db.groups[db.options[k].group].store = s
    BY <1>3, <2>1
  <2>3. /\ DOMAIN e.options = {k \in DOMAIN db.options : db.options[k].group \notin out}
        /\ \A k \in DOMAIN e.options : e.options[k] = db.options[k]
    BY <1>4, <1>8, <1>15
  <2> QED BY <2>2, <2>3
<1>25. /\ DOMAIN e.links = {k \in DOMAIN db.links :
                              /\ db.links[k].product \notin gone
                              /\ db.groups[db.links[k].group].store # s}
       /\ \A k \in DOMAIN e.links : e.links[k] = db.links[k]
  <2>1. \A k \in DOMAIN db.links : db.links[k].group \in DOMAIN db.groups
    BY RefsAre DEF Sound
  <2>2. \A k \in DOMAIN db.links :
          db.links[k].group \in out <=> db.groups[db.links[k].group].store = s
    BY <1>3, <2>1
  <2>3. /\ DOMAIN e.links = {k \in DOMAIN mid.links : mid.links[k].group \notin out}
        /\ \A k \in DOMAIN e.links : e.links[k] = mid.links[k]
    BY <1>4, <1>8
  <2> QED BY <1>2, <2>2, <2>3
<1>26. Keeps(db, e, TableNames \ {"accounts", "files"})
  BY <1>8, <1>15 DEF Keeps, TableNames
<1> QED BY <1>1, <1>16, <1>17, <1>18, <1>19, <1>20, <1>21, <1>22, <1>23, <1>24, <1>25, <1>26 DEF StoreGone

LEMMA DropStore ==
  ASSUME NEW s, Sound(db), NEW e, e = WithoutStore(db, s)
  PROVE  Sound(e)
<1>1. StoreGone(s, e) /\ TablesOK(e)
  BY WithoutStoreIs
<1>2. \A p \in DOMAIN e.products :
        /\ db.products[p] \in ProductRow
        /\ e.products[p].store = db.products[p].store
        /\ e.products[p].station = db.products[p].station
        /\ e.products[p].category \in {db.products[p].category, None}
        /\ e.products[p].category \in DOMAIN db.categories
             => e.products[p].category \in DOMAIN e.categories
  <2>1. \A p \in DOMAIN db.products : db.products[p] \in ProductRow
    BY RowsOf DEF Sound, TablesOK
  <2>2. None \notin DOMAIN db.categories
    BY RowsOf, ShopTablesAssumption DEF Sound, TablesOK
  <2> TAKE p \in DOMAIN e.products
  <2>3. p \in DOMAIN db.products /\ db.products[p] \in ProductRow
    BY <1>1, <2>1 DEF StoreGone
  <2>4. CASE db.products[p].category \in DOMAIN db.categories \ DOMAIN e.categories
    <3>1. e.products[p] = [db.products[p] EXCEPT !.category = None]
      BY <1>1, <2>4 DEF StoreGone
    <3> QED BY <2>2, <2>3, <3>1 DEF ProductRow
  <2>5. CASE db.products[p].category \notin DOMAIN db.categories \ DOMAIN e.categories
    <3>1. e.products[p] = db.products[p]
      BY <1>1, <2>5 DEF StoreGone
    <3> QED BY <2>3, <2>5, <3>1
  <2> QED BY <2>4, <2>5
<1>3. /\ \A k \in DOMAIN e.stations : e.stations[k].store \in DOMAIN e.stores
      /\ \A k \in DOMAIN e.categories : e.categories[k].store \in DOMAIN e.stores
      /\ \A k \in DOMAIN e.groups : e.groups[k].store \in DOMAIN e.stores
      /\ \A k \in DOMAIN e.notes : e.notes[k].store \in DOMAIN e.stores
  BY <1>1, RefsAre DEF Sound, StoreGone
<1>4. \A k \in DOMAIN e.products :
        /\ e.products[k].store \in DOMAIN e.stores
        /\ e.products[k].station \in DOMAIN e.stations
        /\ e.products[k].category \in DOMAIN e.categories \cup {None}
  BY <1>1, <1>2, RefsAre DEF Sound, StoreGone, GoneWith
<1>5. \A k \in DOMAIN e.options : e.options[k].group \in DOMAIN e.groups
  BY <1>1, RefsAre DEF Sound, StoreGone
<1>6. \A k \in DOMAIN e.links :
        e.links[k].product \in DOMAIN e.products /\ e.links[k].group \in DOMAIN e.groups
  BY <1>1, RefsAre DEF Sound, StoreGone
<1>7. \A k \in DOMAIN e.items :
        e.items[k].product \in DOMAIN e.products /\ e.items[k].station \in DOMAIN e.stations
  BY <1>1, RefsAre DEF Sound, StoreGone
<1> QED BY <1>1, <1>3, <1>4, <1>5, <1>6, <1>7, RefsAre DEF Sound

-----------------------------------------------------------------------------
(* What a request does when it is taken up, action by action. *)

\* q is at this stage of this operation, with these locals.
Is(q, op, pc, id, row, held, asked, seen, new) ==
  /\ DOMAIN q = DOMAIN Idle
  /\ q.op = op /\ q.pc = pc /\ q.id = id /\ q.row = row /\ q.held = held
  /\ q.asked = asked /\ q.seen = seen /\ q.new = new

\* Only the handler of r moves.
Moves(r) == DOMAIN req' = Requests /\ \A s \in Requests \ {r} : req'[s] = req[s]

\* A handler begins with op, and the given events are noted.
Begins(r, op, events) ==
  /\ req[r].pc = "idle" /\ op \in scene
  /\ Moves(r)
  /\ history' = history \cup (Overlaps(r, op) \cap Watched) \cup events
  /\ db' = db /\ scene' = scene

\* It will not insert, or it will insert the rows of the ids new.
Loads(r, op, pc, id, row, held, asked, seen, events) ==
  /\ Begins(r, op, events) /\ ids' = ids
  /\ Is(req'[r], op, pc, id, row, held, asked, seen, {})

Inserts(r, op, pc, id, row, n, new, events) ==
  /\ Begins(r, op, events) /\ ids' = ids + n /\ ids + n <= MaxIds
  /\ Is(req'[r], op, pc, id, row, NoRows, {}, None, new)

LEMMA LoadForSetPinIs ==
  ASSUME NEW r \in Requests, DOMAIN req = Requests, LoadForSetPin(r)
  PROVE  \E s \in DOMAIN db.stores, pin \in Pins :
           /\ PinFree(s)
           /\ Loads(r, "setPin", "writePin", s, [pin |-> pin],
                    NoRows, {"pin"}, None, {})
<1>1. PICK s \in DOMAIN db.stores, pin \in Pins :
        /\ PinFree(s)
        /\ Accept(r, "setPin",
               [Idle EXCEPT !.pc = "writePin", !.id = s, !.row = [pin |-> pin], !.asked = {"pin"}])
  BY DEF LoadForSetPin
<1>2. Loads(r, "setPin", "writePin", s, [pin |-> pin],
            NoRows, {"pin"}, None, {})
  BY <1>1 DEF Accept, AcceptNoting, TakeUp, Loads, Begins, Moves, Is, Idle, Go, At
<1> QED BY <1>1, <1>2

LEMMA LoadForUpdatePinIs ==
  ASSUME NEW r \in Requests, DOMAIN req = Requests, LoadForUpdatePin(r)
  PROVE  \E s \in DOMAIN db.stores, current, pin \in Pins :
           /\ db.stores[s].pin = current /\ current # pin
           /\ Loads(r, "updatePin", "writePin", s, [pin |-> pin],
                    NoRows, {"pin"}, current, {})
<1>1. PICK s \in DOMAIN db.stores, current, pin \in Pins :
        /\ db.stores[s].pin = current /\ current # pin
        /\ Accept(r, "updatePin",
               [Idle EXCEPT !.pc = "writePin", !.id = s, !.seen = current,
                             !.row = [pin |-> pin], !.asked = {"pin"}])
  BY DEF LoadForUpdatePin
<1>2. Loads(r, "updatePin", "writePin", s, [pin |-> pin],
            NoRows, {"pin"}, current, {})
  BY <1>1 DEF Accept, AcceptNoting, TakeUp, Loads, Begins, Moves, Is, Idle, Go, At
<1> QED BY <1>1, <1>2

LEMMA LoadForStoreUpdateIs ==
  ASSUME NEW r \in Requests, DOMAIN req = Requests, LoadForStoreUpdate(r)
  PROVE  \E s \in DOMAIN db.stores, pin \in Pins, settings \in Settings :
           /\ Loads(r, "updateStore", "checkPin", s, [settings |-> settings],
                    NoRows, {"settings"}, pin, {})
<1>1. PICK s \in DOMAIN db.stores, pin \in Pins, settings \in Settings :
        /\ Accept(r, "updateStore",
               [Idle EXCEPT !.pc = "checkPin", !.id = s, !.seen = pin,
                             !.row = [settings |-> settings], !.asked = {"settings"}])
  BY DEF LoadForStoreUpdate
<1>2. Loads(r, "updateStore", "checkPin", s, [settings |-> settings],
            NoRows, {"settings"}, pin, {})
  BY <1>1 DEF Accept, AcceptNoting, TakeUp, Loads, Begins, Moves, Is, Idle, Go, At
<1> QED BY <1>1, <1>2

LEMMA LoadForRemoveStoreIs ==
  ASSUME NEW r \in Requests, DOMAIN req = Requests, LoadForRemoveStore(r)
  PROVE  \E s \in DOMAIN db.stores :
           /\ Loads(r, "removeStore", "deleteStore", s, NoRows,
                    NoRows, {}, None, {})
<1>1. PICK s \in DOMAIN db.stores :
        /\ Accept(r, "removeStore",
               [Idle EXCEPT !.pc = "deleteStore", !.id = s])
  BY DEF LoadForRemoveStore
<1>2. Loads(r, "removeStore", "deleteStore", s, NoRows,
            NoRows, {}, None, {})
  BY <1>1 DEF Accept, AcceptNoting, TakeUp, Loads, Begins, Moves, Is, Idle, Go, At
<1> QED BY <1>1, <1>2

LEMMA PlaceNoteIs ==
  ASSUME NEW r \in Requests, DOMAIN req = Requests, ids \in Nat, PlaceNote(r)
  PROVE  \E s \in DOMAIN db.stores, place \in Places :
           /\ Inserts(r, "createNote", "insertNote", s, [store |-> s, order |-> Over(place, NextPlace(s))],
                      1, {ids + 1}, Placed(place))
<1>1. PICK s \in DOMAIN db.stores, place \in Places :
        /\ AcceptInsert(r, "createNote",
             [Idle EXCEPT !.pc = "insertNote", !.id = s,
                           !.row = [store |-> s, order |-> Over(place, NextPlace(s))]],
             1, Placed(place))
  BY DEF PlaceNote
<1>2. ids + 1 .. ids + 1 = {ids + 1}
  OBVIOUS
<1>3. Inserts(r, "createNote", "insertNote", s, [store |-> s, order |-> Over(place, NextPlace(s))],
              1, {ids + 1}, Placed(place))
  BY <1>1, <1>2 DEF AcceptInsert, TakeUp, Inserts, Begins, Moves, Is, Idle, Go, At
<1> QED BY <1>1, <1>3

LEMMA LoadNoteIs ==
  ASSUME NEW r \in Requests, DOMAIN req = Requests, LoadNote(r)
  PROVE  \E n \in DOMAIN db.notes, place \in Places :
           /\ Loads(r, "updateNote", "saveNote", n, Assign(db.notes[n], [order |-> place]),
                    NoRows, Asked([order |-> place]), None, Placed(place))
<1>1. PICK n \in DOMAIN db.notes, place \in Places :
        /\ AcceptNoting(r, "updateNote",
                 [Idle EXCEPT !.pc = "saveNote", !.id = n, !.asked = Asked([order |-> place]),
                               !.row = Assign(db.notes[n], [order |-> place])],
                 Placed(place))
  BY DEF LoadNote
<1>2. Loads(r, "updateNote", "saveNote", n, Assign(db.notes[n], [order |-> place]),
            NoRows, Asked([order |-> place]), None, Placed(place))
  BY <1>1 DEF Accept, AcceptNoting, TakeUp, Loads, Begins, Moves, Is, Idle, Go, At
<1> QED BY <1>1, <1>2

LEMMA LoadForRemoveNoteIs ==
  ASSUME NEW r \in Requests, DOMAIN req = Requests, LoadForRemoveNote(r)
  PROVE  \E n \in DOMAIN db.notes :
           /\ Loads(r, "removeNote", "countNotes", n, db.notes[n],
                    NoRows, {}, None, {})
<1>1. PICK n \in DOMAIN db.notes :
        /\ Accept(r, "removeNote",
               [Idle EXCEPT !.pc = "countNotes", !.id = n, !.row = db.notes[n]])
  BY DEF LoadForRemoveNote
<1>2. Loads(r, "removeNote", "countNotes", n, db.notes[n],
            NoRows, {}, None, {})
  BY <1>1 DEF Accept, AcceptNoting, TakeUp, Loads, Begins, Moves, Is, Idle, Go, At
<1> QED BY <1>1, <1>2

LEMMA ReplaceNotesIs ==
  ASSUME NEW r \in Requests, DOMAIN req = Requests, ids \in Nat, ReplaceNotes(r)
  PROVE  \E s \in DOMAIN db.stores :
           /\ Inserts(r, "replaceNotes", "clearNotes", s, NoRows,
                      2, {ids + 1, ids + 2}, {})
<1>1. PICK s \in DOMAIN db.stores :
        /\ AcceptInsert(r, "replaceNotes",
             [Idle EXCEPT !.pc = "clearNotes", !.id = s],
             2, {})
  BY DEF ReplaceNotes
<1>2. ids + 1 .. ids + 2 = {ids + 1, ids + 2}
  OBVIOUS
<1>3. Inserts(r, "replaceNotes", "clearNotes", s, NoRows,
              2, {ids + 1, ids + 2}, {})
  BY <1>1, <1>2 DEF AcceptInsert, TakeUp, Inserts, Begins, Moves, Is, Idle, Go, At
<1> QED BY <1>1, <1>3

LEMMA RegisterIs ==
  ASSUME NEW r \in Requests, DOMAIN req = Requests, ids \in Nat, Register(r)
  PROVE  \E email, phone \in Contacts \cup {None} :
           /\ email # None \/ phone # None
           /\ ContactsFree(Contact(email, phone))
           /\ Inserts(r, "register", "insertAccount", 0, Contact(email, phone),
                      1, {ids + 1}, {})
<1>1. PICK email, phone \in Contacts \cup {None} :
        /\ email # None \/ phone # None
        /\ ContactsFree(Contact(email, phone))
        /\ AcceptInsert(r, "register",
             [Idle EXCEPT !.pc = "insertAccount", !.row = Contact(email, phone)],
             1, {})
  BY DEF Register
<1>2. ids + 1 .. ids + 1 = {ids + 1}
  OBVIOUS
<1>3. Inserts(r, "register", "insertAccount", 0, Contact(email, phone),
              1, {ids + 1}, {})
  BY <1>1, <1>2 DEF AcceptInsert, TakeUp, Inserts, Begins, Moves, Is, Idle, Go, At
<1> QED BY <1>1, <1>3

LEMMA GoogleLoginIs ==
  ASSUME NEW r \in Requests, DOMAIN req = Requests, ids \in Nat, GoogleLogin(r)
  PROVE  \E email \in Contacts :
           /\ ~Holds("email", email)
           /\ Inserts(r, "googleLogin", "insertAccount", 0, Contact(email, None),
                      1, {ids + 1}, {})
<1>1. PICK email \in Contacts :
        /\ ~Holds("email", email)
        /\ AcceptInsert(r, "googleLogin",
             [Idle EXCEPT !.pc = "insertAccount", !.row = Contact(email, None)],
             1, {})
  BY DEF GoogleLogin
<1>2. ids + 1 .. ids + 1 = {ids + 1}
  OBVIOUS
<1>3. Inserts(r, "googleLogin", "insertAccount", 0, Contact(email, None),
              1, {ids + 1}, {})
  BY <1>1, <1>2 DEF AcceptInsert, TakeUp, Inserts, Begins, Moves, Is, Idle, Go, At
<1> QED BY <1>1, <1>3

LEMMA LoadCategoryIs ==
  ASSUME NEW r \in Requests, DOMAIN req = Requests, LoadCategory(r)
  PROVE  \E c \in DOMAIN db.categories, patch \in CategoryPatches :
           /\ Loads(r, "updateCategory", "saveCategory", c, Assign(db.categories[c], patch),
                    NoRows, Asked(patch), None, {})
<1>1. PICK c \in DOMAIN db.categories, patch \in CategoryPatches :
        /\ Accept(r, "updateCategory",
               [Idle EXCEPT !.pc = "saveCategory", !.id = c, !.asked = Asked(patch),
                             !.row = Assign(db.categories[c], patch)])
  BY DEF LoadCategory
<1>2. Loads(r, "updateCategory", "saveCategory", c, Assign(db.categories[c], patch),
            NoRows, Asked(patch), None, {})
  BY <1>1 DEF Accept, AcceptNoting, TakeUp, Loads, Begins, Moves, Is, Idle, Go, At
<1> QED BY <1>1, <1>2

LEMMA LoadForRemoveCategoryIs ==
  ASSUME NEW r \in Requests, DOMAIN req = Requests, LoadForRemoveCategory(r)
  PROVE  \E c \in DOMAIN db.categories :
           /\ Loads(r, "removeCategory", "saveCategory", c, [db.categories[c] EXCEPT !.active = FALSE],
                    NoRows, {"active"}, None, {})
<1>1. PICK c \in DOMAIN db.categories :
        /\ Accept(r, "removeCategory",
               [Idle EXCEPT !.pc = "saveCategory", !.id = c, !.asked = {"active"},
                             !.row = [db.categories[c] EXCEPT !.active = FALSE]])
  BY DEF LoadForRemoveCategory
<1>2. Loads(r, "removeCategory", "saveCategory", c, [db.categories[c] EXCEPT !.active = FALSE],
            NoRows, {"active"}, None, {})
  BY <1>1 DEF Accept, AcceptNoting, TakeUp, Loads, Begins, Moves, Is, Idle, Go, At
<1> QED BY <1>1, <1>2

LEMMA LoadForRemoveStationIs ==
  ASSUME NEW r \in Requests, DOMAIN req = Requests, LoadForRemoveStation(r)
  PROVE  \E st \in DOMAIN db.stations, force \in BOOLEAN :
           /\ force \/ Unused(st)
           /\ Loads(r, "removeStation", "deleteStation", st, NoRows,
                    NoRows, IF force THEN {"force"} ELSE {}, None, {})
<1>1. PICK st \in DOMAIN db.stations, force \in BOOLEAN :
        /\ force \/ Unused(st)
        /\ Accept(r, "removeStation",
               [Idle EXCEPT !.pc = "deleteStation", !.id = st,
                             !.asked = IF force THEN {"force"} ELSE {}])
  BY DEF LoadForRemoveStation
<1>2. Loads(r, "removeStation", "deleteStation", st, NoRows,
            NoRows, IF force THEN {"force"} ELSE {}, None, {})
  BY <1>1 DEF Accept, AcceptNoting, TakeUp, Loads, Begins, Moves, Is, Idle, Go, At
<1> QED BY <1>1, <1>2

LEMMA CreateProductIs ==
  ASSUME NEW r \in Requests, DOMAIN req = Requests, ids \in Nat, CreateProduct(r)
  PROVE  \E s \in DOMAIN db.stores, st \in DOMAIN db.stations,
            c \in DOMAIN db.categories \cup {None}, image \in db.files \cup {None} :
           /\ Coherent([store |-> s, station |-> st, category |-> c, image |-> image, deleted |-> FALSE])
           /\ Inserts(r, "createProduct", "insertProduct", 0, [store |-> s, station |-> st, category |-> c, image |-> image, deleted |-> FALSE],
                      1, {ids + 1}, Shared(r, 0, image))
<1>1. PICK s \in DOMAIN db.stores, st \in DOMAIN db.stations,
            c \in DOMAIN db.categories \cup {None}, image \in db.files \cup {None} :
        /\ Coherent([store |-> s, station |-> st, category |-> c, image |-> image, deleted |-> FALSE])
        /\ AcceptInsert(r, "createProduct",
             [Idle EXCEPT !.pc = "insertProduct",
                           !.row = [store |-> s, station |-> st, category |-> c, image |-> image, deleted |-> FALSE]],
             1, Shared(r, 0, image))
  BY DEF CreateProduct
<1>2. ids + 1 .. ids + 1 = {ids + 1}
  OBVIOUS
<1>3. Inserts(r, "createProduct", "insertProduct", 0, [store |-> s, station |-> st, category |-> c, image |-> image, deleted |-> FALSE],
              1, {ids + 1}, Shared(r, 0, image))
  BY <1>1, <1>2 DEF AcceptInsert, TakeUp, Inserts, Begins, Moves, Is, Idle, Go, At
<1> QED BY <1>1, <1>3

LEMMA LoadProductIs ==
  ASSUME NEW r \in Requests, DOMAIN req = Requests, LoadProduct(r)
  PROVE  \E p \in DOMAIN db.products, patch \in ProductPatches :
           /\ ~db.products[p].deleted
           /\ patch.image \in db.files \cup {Same}
           /\ Loads(r, "updateProduct", "resolve", p, Assign(db.products[p], patch),
                    NoRows, Asked(patch), db.products[p].image, Shared(r, p, patch.image)
                     \cup IF patch.store # Same THEN {{"moved"}} ELSE {})
<1>1. PICK p \in DOMAIN db.products, patch \in ProductPatches :
        /\ ~db.products[p].deleted
        /\ patch.image \in db.files \cup {Same}
        /\ AcceptNoting(r, "updateProduct",
                 [Idle EXCEPT !.pc = "resolve", !.id = p, !.asked = Asked(patch),
                               !.row = Assign(db.products[p], patch),
                               !.seen = db.products[p].image],
                 Shared(r, p, patch.image)
                     \cup IF patch.store # Same THEN {{"moved"}} ELSE {})
  BY DEF LoadProduct
<1>2. Loads(r, "updateProduct", "resolve", p, Assign(db.products[p], patch),
            NoRows, Asked(patch), db.products[p].image, Shared(r, p, patch.image)
                     \cup IF patch.store # Same THEN {{"moved"}} ELSE {})
  BY <1>1 DEF Accept, AcceptNoting, TakeUp, Loads, Begins, Moves, Is, Idle, Go, At
<1> QED BY <1>1, <1>2

LEMMA LoadForRemoveProductIs ==
  ASSUME NEW r \in Requests, DOMAIN req = Requests, LoadForRemoveProduct(r)
  PROVE  \E p \in DOMAIN db.products :
           /\ ~db.products[p].deleted
           /\ Loads(r, "removeProduct", "markProduct", p, [deleted |-> TRUE],
                    NoRows, {"deleted"}, None, {})
<1>1. PICK p \in DOMAIN db.products :
        /\ ~db.products[p].deleted
        /\ Accept(r, "removeProduct",
               [Idle EXCEPT !.pc = "markProduct", !.id = p,
                             !.row = [deleted |-> TRUE], !.asked = {"deleted"}])
  BY DEF LoadForRemoveProduct
<1>2. Loads(r, "removeProduct", "markProduct", p, [deleted |-> TRUE],
            NoRows, {"deleted"}, None, {})
  BY <1>1 DEF Accept, AcceptNoting, TakeUp, Loads, Begins, Moves, Is, Idle, Go, At
<1> QED BY <1>1, <1>2

LEMMA LoadForRestoreProductIs ==
  ASSUME NEW r \in Requests, DOMAIN req = Requests, LoadForRestoreProduct(r)
  PROVE  \E p \in DOMAIN db.products :
           /\ db.products[p].deleted
           /\ Loads(r, "restoreProduct", "markProduct", p, [deleted |-> FALSE],
                    NoRows, {"deleted"}, None, {})
<1>1. PICK p \in DOMAIN db.products :
        /\ db.products[p].deleted
        /\ Accept(r, "restoreProduct",
               [Idle EXCEPT !.pc = "markProduct", !.id = p,
                             !.row = [deleted |-> FALSE], !.asked = {"deleted"}])
  BY DEF LoadForRestoreProduct
<1>2. Loads(r, "restoreProduct", "markProduct", p, [deleted |-> FALSE],
            NoRows, {"deleted"}, None, {})
  BY <1>1 DEF Accept, AcceptNoting, TakeUp, Loads, Begins, Moves, Is, Idle, Go, At
<1> QED BY <1>1, <1>2

LEMMA CreateGroupIs ==
  ASSUME NEW r \in Requests, DOMAIN req = Requests, ids \in Nat, CreateGroup(r)
  PROVE  \E s \in DOMAIN db.stores, patch \in GroupPatches :
           /\ Valid(NewGroup(s, patch))
           /\ Inserts(r, "createGroup", "insertGroup", 0, NewGroup(s, patch),
                      1, {ids + 1}, {})
<1>1. PICK s \in DOMAIN db.stores, patch \in GroupPatches :
        /\ Valid(NewGroup(s, patch))
        /\ AcceptInsert(r, "createGroup",
             [Idle EXCEPT !.pc = "insertGroup", !.row = NewGroup(s, patch)],
             1, {})
  BY DEF CreateGroup
<1>2. ids + 1 .. ids + 1 = {ids + 1}
  OBVIOUS
<1>3. Inserts(r, "createGroup", "insertGroup", 0, NewGroup(s, patch),
              1, {ids + 1}, {})
  BY <1>1, <1>2 DEF AcceptInsert, TakeUp, Inserts, Begins, Moves, Is, Idle, Go, At
<1> QED BY <1>1, <1>3

LEMMA LoadGroupIs ==
  ASSUME NEW r \in Requests, DOMAIN req = Requests, LoadGroup(r)
  PROVE  \E g \in DOMAIN db.groups, patch \in GroupPatches :
           /\ Valid(Assign(db.groups[g], patch))
           /\ Loads(r, "updateGroup", "saveGroup", g, Assign(db.groups[g], patch),
                    [o \in OptionsOf(g) |-> db.options[o]], Asked(patch), None, {})
<1>1. PICK g \in DOMAIN db.groups, patch \in GroupPatches :
        /\ Valid(Assign(db.groups[g], patch))
        /\ Accept(r, "updateGroup",
               [Idle EXCEPT !.pc = "saveGroup", !.id = g, !.asked = Asked(patch),
                             !.row = Assign(db.groups[g], patch),
                             !.held = [o \in OptionsOf(g) |-> db.options[o]]])
  BY DEF LoadGroup
<1>2. Loads(r, "updateGroup", "saveGroup", g, Assign(db.groups[g], patch),
            [o \in OptionsOf(g) |-> db.options[o]], Asked(patch), None, {})
  BY <1>1 DEF Accept, AcceptNoting, TakeUp, Loads, Begins, Moves, Is, Idle, Go, At
<1> QED BY <1>1, <1>2

LEMMA LoadForDeleteGroupIs ==
  ASSUME NEW r \in Requests, DOMAIN req = Requests, LoadForDeleteGroup(r)
  PROVE  \E g \in DOMAIN db.groups :
           /\ Loads(r, "deleteGroup", "deleteGroup", g, NoRows,
                    NoRows, {}, None, {})
<1>1. PICK g \in DOMAIN db.groups :
        /\ Accept(r, "deleteGroup",
               [Idle EXCEPT !.pc = "deleteGroup", !.id = g])
  BY DEF LoadForDeleteGroup
<1>2. Loads(r, "deleteGroup", "deleteGroup", g, NoRows,
            NoRows, {}, None, {})
  BY <1>1 DEF Accept, AcceptNoting, TakeUp, Loads, Begins, Moves, Is, Idle, Go, At
<1> QED BY <1>1, <1>2

LEMMA CreateOptionIs ==
  ASSUME NEW r \in Requests, DOMAIN req = Requests, ids \in Nat, CreateOption(r)
  PROVE  \E g \in DOMAIN db.groups, on \in BOOLEAN :
           /\ Inserts(r, "createOption", "insertOption", 0, [group |-> g, on |-> on],
                      1, {ids + 1}, {})
<1>1. PICK g \in DOMAIN db.groups, on \in BOOLEAN :
        /\ AcceptInsert(r, "createOption",
             [Idle EXCEPT !.pc = "insertOption", !.row = [group |-> g, on |-> on]],
             1, {})
  BY DEF CreateOption
<1>2. ids + 1 .. ids + 1 = {ids + 1}
  OBVIOUS
<1>3. Inserts(r, "createOption", "insertOption", 0, [group |-> g, on |-> on],
              1, {ids + 1}, {})
  BY <1>1, <1>2 DEF AcceptInsert, TakeUp, Inserts, Begins, Moves, Is, Idle, Go, At
<1> QED BY <1>1, <1>3

LEMMA LoadOptionIs ==
  ASSUME NEW r \in Requests, DOMAIN req = Requests, LoadOption(r)
  PROVE  \E o \in DOMAIN db.options, on \in BOOLEAN \cup {Same} :
           /\ on = FALSE => Spare(db.options[o].group, o)
           /\ Loads(r, "updateOption", "saveOption", o, [db.options[o] EXCEPT !.on = Over(on, @)],
                    NoRows, Asked([on |-> on]), None, {})
<1>1. PICK o \in DOMAIN db.options, on \in BOOLEAN \cup {Same} :
        /\ on = FALSE => Spare(db.options[o].group, o)
        /\ Accept(r, "updateOption",
               [Idle EXCEPT !.pc = "saveOption", !.id = o,
                             !.asked = Asked([on |-> on]),
                             !.row = [db.options[o] EXCEPT !.on = Over(on, @)]])
  BY DEF LoadOption
<1>2. Loads(r, "updateOption", "saveOption", o, [db.options[o] EXCEPT !.on = Over(on, @)],
            NoRows, Asked([on |-> on]), None, {})
  BY <1>1 DEF Accept, AcceptNoting, TakeUp, Loads, Begins, Moves, Is, Idle, Go, At
<1> QED BY <1>1, <1>2

LEMMA LoadForDeleteOptionIs ==
  ASSUME NEW r \in Requests, DOMAIN req = Requests, LoadForDeleteOption(r)
  PROVE  \E o \in DOMAIN db.options :
           /\ db.options[o].on => Spare(db.options[o].group, o)
           /\ Loads(r, "deleteOption", "deleteOption", o, NoRows,
                    NoRows, {}, None, {})
<1>1. PICK o \in DOMAIN db.options :
        /\ db.options[o].on => Spare(db.options[o].group, o)
        /\ Accept(r, "deleteOption",
               [Idle EXCEPT !.pc = "deleteOption", !.id = o])
  BY DEF LoadForDeleteOption
<1>2. Loads(r, "deleteOption", "deleteOption", o, NoRows,
            NoRows, {}, None, {})
  BY <1>1 DEF Accept, AcceptNoting, TakeUp, Loads, Begins, Moves, Is, Idle, Go, At
<1> QED BY <1>1, <1>2

LEMMA AssignGroupIs ==
  ASSUME NEW r \in Requests, DOMAIN req = Requests, ids \in Nat, AssignGroup(r)
  PROVE  \E p \in DOMAIN db.products, g \in DOMAIN db.groups :
           /\ ~db.products[p].deleted /\ SameShop(p, g) /\ ~Linked(p, g)
           /\ Inserts(r, "assign", "insertLink", 0, [product |-> p, group |-> g],
                      1, {ids + 1}, {})
<1>1. PICK p \in DOMAIN db.products, g \in DOMAIN db.groups :
        /\ ~db.products[p].deleted /\ SameShop(p, g) /\ ~Linked(p, g)
        /\ AcceptInsert(r, "assign",
             [Idle EXCEPT !.pc = "insertLink", !.row = [product |-> p, group |-> g]],
             1, {})
  BY DEF AssignGroup
<1>2. ids + 1 .. ids + 1 = {ids + 1}
  OBVIOUS
<1>3. Inserts(r, "assign", "insertLink", 0, [product |-> p, group |-> g],
              1, {ids + 1}, {})
  BY <1>1, <1>2 DEF AcceptInsert, TakeUp, Inserts, Begins, Moves, Is, Idle, Go, At
<1> QED BY <1>1, <1>3

LEMMA LoadForUnassignIs ==
  ASSUME NEW r \in Requests, DOMAIN req = Requests, LoadForUnassign(r)
  PROVE  \E l \in DOMAIN db.links :
           /\ Loads(r, "unassign", "deleteLink", l, NoRows,
                    NoRows, {}, None, {})
<1>1. PICK l \in DOMAIN db.links :
        /\ Accept(r, "unassign",
               [Idle EXCEPT !.pc = "deleteLink", !.id = l])
  BY DEF LoadForUnassign
<1>2. Loads(r, "unassign", "deleteLink", l, NoRows,
            NoRows, {}, None, {})
  BY <1>1 DEF Accept, AcceptNoting, TakeUp, Loads, Begins, Moves, Is, Idle, Go, At
<1> QED BY <1>1, <1>2

\* Of a finite set that is not empty, some member has the greatest value.
LEMMA Greatest ==
  ASSUME NEW S, IsFiniteSet(S), S # {}, NEW f, \A x \in S : f[x] \in Nat
  PROVE  \E m \in S : \A n \in S : f[n] <= f[m]
<1> DEFINE Topless == {T \in FiniteSubsetsOf(S) :
                         T # {} /\ ~\E m \in T : \A n \in T : f[n] <= f[m]}
<1> SUFFICES ASSUME Topless # {} PROVE FALSE
  <2>1. S \in FiniteSubsetsOf(S)
    BY DEF FiniteSubsetsOf
  <2> QED BY <2>1
<1>1. PICK T \in Topless : \A U \in Topless : <<U, T>> \notin StrictSubsetOrdering(S)
  <2> HIDE DEF Topless
  <2>1. Topless \subseteq FiniteSubsetsOf(S)
    BY DEF Topless
  <2> QED BY <2>1, FS_StrictSubsetOrderingWellFounded, WFMin
<1>2. T \in SUBSET S /\ IsFiniteSet(T)
  BY <1>1 DEF FiniteSubsetsOf
<1>3. PICK x \in T : TRUE
  BY <1>1
<1>4. T \ {x} \in FiniteSubsetsOf(S)
  BY <1>2, FS_RemoveElement DEF FiniteSubsetsOf
<1>5. <<T \ {x}, T>> \in StrictSubsetOrdering(S)
  BY <1>2, <1>3 DEF StrictSubsetOrdering
<1>6. T \ {x} \notin Topless
  BY <1>1, <1>5
<1>7. CASE T \ {x} = {}
  BY <1>1, <1>2, <1>3, <1>7
<1>8. CASE T \ {x} # {}
  <2>1. PICK m \in T \ {x} : \A n \in T \ {x} : f[n] <= f[m]
    BY <1>4, <1>6, <1>8
  <2>2. CASE f[x] <= f[m]
    BY <1>1, <1>2, <2>1, <2>2
  <2>3. CASE ~(f[x] <= f[m])
    <3>1. \A n \in T : f[n] <= f[x]
      BY <1>2, <1>3, <2>1, <2>3
    <3> QED BY <1>1, <1>3, <3>1
  <2> QED BY <2>2, <2>3
<1> QED BY <1>7, <1>8

LEMMA NotesFinite ==
  ASSUME NEW s, Table(db.notes, Ids, NoteRow)
  PROVE  IsFiniteSet(NotesOf(s))
<1>1. NotesOf(s) \in SUBSET (1..MaxIds)
  BY RowsOf DEF Ids, NotesOf, Of
<1>2. IsFiniteSet(1..MaxIds)
  BY IdsAreNumbers, FS_Interval
<1> QED BY <1>1, <1>2, FS_Subset

\* The place of a new note is a number, and after all others.
LEMMA NextPlaceIs ==
  ASSUME NEW s, Table(db.notes, Ids, NoteRow)
  PROVE  /\ NextPlace(s) \in Nat
         /\ \A k \in NotesOf(s) : db.notes[k].order < NextPlace(s)
<1> DEFINE S == {db.notes[k].order : k \in NotesOf(s)}
           f == [k \in NotesOf(s) |-> db.notes[k].order]
<1>1. NotesOf(s) \subseteq DOMAIN db.notes /\ \A k \in DOMAIN db.notes : db.notes[k] \in NoteRow
  BY RowsOf DEF NotesOf, Of
<1>2. CASE NotesOf(s) = {}
  BY <1>2 DEF NextPlace
<1>3. CASE NotesOf(s) # {}
  <2>1. \A k \in NotesOf(s) : f[k] \in Nat
    BY <1>1 DEF NoteRow
  <2>2. PICK m \in NotesOf(s) : \A n \in NotesOf(s) : f[n] <= f[m]
    <3> HIDE DEF f
    <3> QED BY <1>3, <2>1, NotesFinite, Greatest
  <2>3. db.notes[m].order \in S /\ \A k \in NotesOf(s) : db.notes[k].order <= db.notes[m].order
    BY <2>2
  <2>4. NextPlace(s) = 1 + CHOOSE n \in S : \A k \in NotesOf(s) : db.notes[k].order <= n
    BY <1>3 DEF NextPlace
  <2>5. S \subseteq Nat
    BY <2>1
  <2> HIDE DEF S
  <2>6. PICK top \in S : /\ NextPlace(s) = 1 + top
                         /\ \A k \in NotesOf(s) : db.notes[k].order <= top
    BY <2>3, <2>4
  <2>7. top \in Nat /\ \A k \in NotesOf(s) : db.notes[k].order \in Nat
    BY <1>1, <2>5, <2>6 DEF NoteRow
  <2> QED BY <2>6, <2>7
<1> QED BY <1>2, <1>3

-----------------------------------------------------------------------------
(* What handlers know at each stage. *)

\* The stages at which a handler is going to write row q.id, at which it is
\* going to insert one row, and two.
Saving == {"checkPin", "saveStore", "saveNote", "saveCategory", "resolve", "saveProduct",
           "saveGroup", "saveOption"}
Inserting == {"insertNote", "insertAccount", "insertProduct", "insertGroup", "insertOption",
              "insertLink"}
Replacing == {"clearNotes", "insertNotes"}

\* The copies are rows of their tables, under one of the first n ids.
StageOK(q, n) ==
  /\ q.pc \in Saving => q.id \in Ids /\ q.id <= n
  /\ q.pc \in Inserting => \E k \in Ids : k <= n /\ q.new = {k}
  /\ q.pc \in Replacing => \E k \in Ids : k + 1 \in Ids /\ k + 1 <= n /\ q.new = {k, k + 1}
  /\ q.pc = "writePin" => q.row.pin \in Pins
  /\ q.pc \in {"checkPin", "saveStore"} => q.row.settings \in Settings
  /\ q.pc = "insertNote" => q.row \in NoteRow /\ q.row.store = q.id
  /\ q.pc = "saveNote" => q.row \in NoteRow
  /\ q.pc = "insertAccount" => q.row \in AccountRow
  /\ q.pc = "saveCategory" => q.row \in CategoryRow
  /\ q.pc \in {"insertProduct", "resolve", "saveProduct"} => q.row \in ProductRow
  /\ q.pc = "markProduct" => q.row.deleted \in BOOLEAN
  /\ q.pc \in {"insertGroup", "saveGroup"} => q.row \in GroupRow
  /\ q.pc = "saveGroup" =>
       /\ q.held = [o \in DOMAIN q.held |-> q.held[o]]
       /\ \A o \in DOMAIN q.held :
            o \in Ids /\ o <= n /\ q.held[o] \in OptionRow /\ q.held[o].group = q.id
  /\ q.pc \in {"insertOption", "saveOption"} => q.row \in OptionRow
  /\ q.pc = "insertLink" => q.row \in LinkRow

TypeInv == TypeOK /\ \A r \in Requests : StageOK(req[r], ids)

\* Ids that were handed out stay handed out.
LEMMA StageGrows ==
  ASSUME NEW q, NEW m \in Nat, NEW n \in Nat, m <= n, StageOK(q, m)
  PROVE  StageOK(q, n)
<1>1. \A k \in Ids : k <= m => k <= n
  BY IdsAreNumbers
<1>2. q.pc \in Saving => q.id \in Ids /\ q.id <= n
  BY <1>1 DEF StageOK
<1>3. q.pc \in Inserting => \E k \in Ids : k <= n /\ q.new = {k}
  BY <1>1 DEF StageOK
<1>4. q.pc \in Replacing => \E k \in Ids : k + 1 \in Ids /\ k + 1 <= n /\ q.new = {k, k + 1}
  BY <1>1 DEF StageOK
<1>5. q.pc = "saveGroup" => \A o \in DOMAIN q.held : o \in Ids /\ o <= n
  BY <1>1 DEF StageOK
<1> QED BY <1>2, <1>3, <1>4, <1>5 DEF StageOK

\* What a step knows of the database.
LEMMA Known ==
  ASSUME TypeInv
  PROVE  /\ Sound(db) /\ Numbered(db, ids) /\ ids \in Nat /\ ids <= MaxIds
         /\ DOMAIN req = Requests /\ DOMAIN db = TableNames
         /\ \A k \in DOMAIN db.stores : k \in Ids /\ k <= ids /\ db.stores[k] \in StoreRow
         /\ \A k \in DOMAIN db.stations : k \in Ids /\ k <= ids /\ db.stations[k] \in StationRow
         /\ \A k \in DOMAIN db.categories :
              k \in Ids /\ k <= ids /\ db.categories[k] \in CategoryRow
         /\ \A k \in DOMAIN db.products : k \in Ids /\ k <= ids /\ db.products[k] \in ProductRow
         /\ \A k \in DOMAIN db.groups : k \in Ids /\ k <= ids /\ db.groups[k] \in GroupRow
         /\ \A k \in DOMAIN db.options : k \in Ids /\ k <= ids /\ db.options[k] \in OptionRow
         /\ \A k \in DOMAIN db.links : k \in Ids /\ k <= ids /\ db.links[k] \in LinkRow
         /\ \A k \in DOMAIN db.notes : k \in Ids /\ k <= ids /\ db.notes[k] \in NoteRow
         /\ \A k \in DOMAIN db.accounts : k \in Ids /\ k <= ids /\ db.accounts[k] \in AccountRow
         /\ \A k \in DOMAIN db.items : k \in Ids /\ k <= ids /\ db.items[k] \in ItemRow
         /\ db.files \subseteq Ids
<1>1. TablesOK(db) /\ RefsHold(db) /\ Numbered(db, ids) /\ ids \in 0..MaxIds /\ DOMAIN req = Requests
  BY DEF TypeInv, TypeOK
<1> QED BY <1>1, RowsOf, NumbersAre, IdsAreNumbers DEF Sound, TablesOK

LEMMA NextIdIs ==
  ASSUME ids \in Nat, ids + 1 <= MaxIds
  PROVE  ids + 1 \in Ids
BY IdsAreNumbers DEF Ids

\* A handler that has begun, or gone on, leaves the locals as they should be.
LEMMA LocalsStay ==
  ASSUME TypeInv, NEW r \in Requests, Moves(r), ids' \in Nat, ids <= ids',
         DOMAIN req'[r] = DOMAIN Idle, req'[r].new \subseteq 1..ids', StageOK(req'[r], ids')
  PROVE  /\ DOMAIN req' = Requests
         /\ \A s \in Requests : DOMAIN req'[s] = DOMAIN Idle /\ req'[s].new \subseteq 1..ids'
         /\ \A s \in Requests : StageOK(req'[s], ids')
<1>1. ids \in Nat
  BY Known
<1>2. \A s \in Requests \ {r} : StageOK(req'[s], ids')
  BY <1>1, StageGrows DEF TypeInv, Moves
<1>3. \A s \in Requests \ {r} : DOMAIN req'[s] = DOMAIN Idle /\ req'[s].new \subseteq 1..ids'
  BY <1>1 DEF TypeInv, TypeOK, Moves
<1> QED BY <1>2, <1>3 DEF Moves

LEMMA IdleOK ==
  ASSUME NEW n \in Nat
  PROVE  StageOK(Idle, n) /\ Idle.new \subseteq 1..n /\ Idle.pc = "idle" /\ Idle.op = "none"
BY DEF Idle, StageOK, Saving, Inserting, Replacing

\* A body's columns over a row's give a row.
LEMMA AssignTypes ==
  /\ \A row \in CategoryRow, patch \in CategoryPatch : Assign(row, patch) \in CategoryRow
  /\ \A row \in ProductRow, patch \in ProductPatch : Assign(row, patch) \in ProductRow
  /\ \A row \in GroupRow, patch \in GroupPatch : Assign(row, patch) \in GroupRow
  /\ \A row \in NoteRow, place \in Places : Assign(row, [order |-> place]) \in NoteRow
<1>1. ASSUME NEW row \in CategoryRow, NEW patch \in CategoryPatch
      PROVE  Assign(row, patch) \in CategoryRow
  <2>1. Assign(row, patch) = [store |-> row.store, name |-> Over(patch.name, row.name),
                              active |-> Over(patch.active, row.active)]
    BY DEF Assign, CategoryRow, CategoryPatch
  <2> QED BY <2>1 DEF CategoryRow, CategoryPatch, Over
<1>2. ASSUME NEW row \in ProductRow, NEW patch \in ProductPatch
      PROVE  Assign(row, patch) \in ProductRow
  <2>1. Assign(row, patch) = [store |-> Over(patch.store, row.store),
                              station |-> Over(patch.station, row.station),
                              category |-> Over(patch.category, row.category),
                              image |-> Over(patch.image, row.image), deleted |-> row.deleted]
    BY DEF Assign, ProductRow, ProductPatch
  <2> QED BY <2>1 DEF ProductRow, ProductPatch, Over
<1>3. ASSUME NEW row \in GroupRow, NEW patch \in GroupPatch
      PROVE  Assign(row, patch) \in GroupRow
  <2>1. Assign(row, patch) = [store |-> row.store, kind |-> Over(patch.kind, row.kind),
                              min |-> Over(patch.min, row.min), max |-> Over(patch.max, row.max)]
    BY DEF Assign, GroupRow, GroupPatch
  <2> QED BY <2>1 DEF GroupRow, GroupPatch, Over
<1>4. ASSUME NEW row \in NoteRow, NEW place \in Places
      PROVE  Assign(row, [order |-> place]) \in NoteRow
  <2>1. Assign(row, [order |-> place]) = [store |-> row.store, order |-> Over(place, row.order)]
    BY DEF Assign, NoteRow
  <2> QED BY <2>1 DEF NoteRow, Places, Over
<1> QED BY <1>1, <1>2, <1>3, <1>4

\* A handler that has begun.
Begun(r) ==
  /\ Moves(r) /\ db' = db /\ scene' = scene
  /\ ids' \in Nat /\ ids <= ids' /\ ids' <= MaxIds
  /\ DOMAIN req'[r] = DOMAIN Idle /\ req'[r].new \subseteq 1..ids' /\ StageOK(req'[r], ids')

LEMMA StoresRequestOK ==
  ASSUME TypeInv, NEW r \in Requests, StoresRequest(r)
  PROVE  Begun(r)
<1>1. CASE LoadForSetPin(r)
  <2>1. PICK s \in DOMAIN db.stores, pin \in Pins :
           /\ PinFree(s)
           /\ Loads(r, "setPin", "writePin", s, [pin |-> pin],
                    NoRows, {"pin"}, None, {})
    BY <1>1, Known, LoadForSetPinIs
  <2> QED BY <2>1, Known DEF Loads, Begins, Is, Begun, StageOK, Saving, Inserting, Replacing
<1>2. CASE LoadForUpdatePin(r)
  <2>1. PICK s \in DOMAIN db.stores, current, pin \in Pins :
           /\ db.stores[s].pin = current /\ current # pin
           /\ Loads(r, "updatePin", "writePin", s, [pin |-> pin],
                    NoRows, {"pin"}, current, {})
    BY <1>2, Known, LoadForUpdatePinIs
  <2> QED BY <2>1, Known DEF Loads, Begins, Is, Begun, StageOK, Saving, Inserting, Replacing
<1>3. CASE LoadForStoreUpdate(r)
  <2>1. PICK s \in DOMAIN db.stores, pin \in Pins, settings \in Settings :
           /\ Loads(r, "updateStore", "checkPin", s, [settings |-> settings],
                    NoRows, {"settings"}, pin, {})
    BY <1>3, Known, LoadForStoreUpdateIs
  <2> QED BY <2>1, Known DEF Loads, Begins, Is, Begun, StageOK, Saving, Inserting, Replacing
<1>4. CASE LoadForRemoveStore(r)
  <2>1. PICK s \in DOMAIN db.stores :
           /\ Loads(r, "removeStore", "deleteStore", s, NoRows,
                    NoRows, {}, None, {})
    BY <1>4, Known, LoadForRemoveStoreIs
  <2> QED BY <2>1, Known DEF Loads, Begins, Is, Begun, StageOK, Saving, Inserting, Replacing
<1> QED BY <1>1, <1>2, <1>3, <1>4 DEF StoresRequest

LEMMA NotesRequestOK ==
  ASSUME TypeInv, NEW r \in Requests, NotesRequest(r)
  PROVE  Begun(r)
<1>1. CASE PlaceNote(r)
  <2>1. PICK s \in DOMAIN db.stores, place \in Places :
           /\ Inserts(r, "createNote", "insertNote", s, [store |-> s, order |-> Over(place, NextPlace(s))],
                      1, {ids + 1}, Placed(place))
    BY <1>1, Known, PlaceNoteIs
  <2>2. NextPlace(s) \in Nat /\ s \in Ids
    BY Known, NextPlaceIs DEF Sound, TablesOK
  <2>3. [store |-> s, order |-> Over(place, NextPlace(s))] \in NoteRow
    BY <2>2 DEF NoteRow, Over, Places
  <2> QED BY <2>1, <2>3, Known, NextIdIs
          DEF Inserts, Begins, Is, Begun, StageOK, Saving, Inserting, Replacing
<1>2. CASE LoadNote(r)
  <2>1. PICK n \in DOMAIN db.notes, place \in Places :
           /\ Loads(r, "updateNote", "saveNote", n, Assign(db.notes[n], [order |-> place]),
                    NoRows, Asked([order |-> place]), None, Placed(place))
    BY <1>2, Known, LoadNoteIs
  <2> QED BY <2>1, Known, AssignTypes DEF Loads, Begins, Is, Begun, StageOK, Saving, Inserting, Replacing
<1>3. CASE LoadForRemoveNote(r)
  <2>1. PICK n \in DOMAIN db.notes :
           /\ Loads(r, "removeNote", "countNotes", n, db.notes[n],
                    NoRows, {}, None, {})
    BY <1>3, Known, LoadForRemoveNoteIs
  <2> QED BY <2>1, Known DEF Loads, Begins, Is, Begun, StageOK, Saving, Inserting, Replacing
<1>4. CASE ReplaceNotes(r)
  <2>1. PICK s \in DOMAIN db.stores :
           /\ Inserts(r, "replaceNotes", "clearNotes", s, NoRows,
                      2, {ids + 1, ids + 2}, {})
    BY <1>4, Known, ReplaceNotesIs
  <2> QED BY <2>1, Known, NextIdIs, IdsAreNumbers DEF Inserts, Begins, Is, Begun, StageOK, Saving, Inserting, Replacing, Ids
<1> QED BY <1>1, <1>2, <1>3, <1>4 DEF NotesRequest

LEMMA AccountsRequestOK ==
  ASSUME TypeInv, NEW r \in Requests, AccountsRequest(r)
  PROVE  Begun(r)
<1>1. CASE Register(r)
  <2>1. PICK email, phone \in Contacts \cup {None} :
           /\ email # None \/ phone # None
           /\ ContactsFree(Contact(email, phone))
           /\ Inserts(r, "register", "insertAccount", 0, Contact(email, phone),
                      1, {ids + 1}, {})
    BY <1>1, Known, RegisterIs
  <2> QED BY <2>1, Known, NextIdIs DEF Inserts, Begins, Is, Begun, StageOK, Saving, Inserting, Replacing, AccountRow, Contact
<1>2. CASE GoogleLogin(r)
  <2>1. PICK email \in Contacts :
           /\ ~Holds("email", email)
           /\ Inserts(r, "googleLogin", "insertAccount", 0, Contact(email, None),
                      1, {ids + 1}, {})
    BY <1>2, Known, GoogleLoginIs
  <2> QED BY <2>1, Known, NextIdIs DEF Inserts, Begins, Is, Begun, StageOK, Saving, Inserting, Replacing, AccountRow, Contact
<1> QED BY <1>1, <1>2 DEF AccountsRequest

LEMMA CategoriesRequestOK ==
  ASSUME TypeInv, NEW r \in Requests, CategoriesRequest(r)
  PROVE  Begun(r)
<1>1. CASE LoadCategory(r)
  <2>1. PICK c \in DOMAIN db.categories, patch \in CategoryPatches :
           /\ Loads(r, "updateCategory", "saveCategory", c, Assign(db.categories[c], patch),
                    NoRows, Asked(patch), None, {})
    BY <1>1, Known, LoadCategoryIs
  <2> QED BY <2>1, Known, AssignTypes, CategoriesAssumption DEF Loads, Begins, Is, Begun, StageOK, Saving, Inserting, Replacing
<1>2. CASE LoadForRemoveCategory(r)
  <2>1. PICK c \in DOMAIN db.categories :
           /\ Loads(r, "removeCategory", "saveCategory", c, [db.categories[c] EXCEPT !.active = FALSE],
                    NoRows, {"active"}, None, {})
    BY <1>2, Known, LoadForRemoveCategoryIs
  <2>2. [db.categories[c] EXCEPT !.active = FALSE] \in CategoryRow
    BY Known DEF CategoryRow
  <2> QED BY <2>1, <2>2, Known DEF Loads, Begins, Is, Begun, StageOK, Saving, Inserting, Replacing
<1> QED BY <1>1, <1>2 DEF CategoriesRequest

LEMMA StationsRequestOK ==
  ASSUME TypeInv, NEW r \in Requests, StationsRequest(r)
  PROVE  Begun(r)
<1>1. CASE LoadForRemoveStation(r)
  <2>1. PICK st \in DOMAIN db.stations, force \in BOOLEAN :
           /\ force \/ Unused(st)
           /\ Loads(r, "removeStation", "deleteStation", st, NoRows,
                    NoRows, IF force THEN {"force"} ELSE {}, None, {})
    BY <1>1, Known, LoadForRemoveStationIs
  <2> QED BY <2>1, Known DEF Loads, Begins, Is, Begun, StageOK, Saving, Inserting, Replacing
<1> QED BY <1>1 DEF StationsRequest

LEMMA ProductsRequestOK ==
  ASSUME TypeInv, NEW r \in Requests, ProductsRequest(r)
  PROVE  Begun(r)
<1>1. CASE CreateProduct(r)
  <2>1. PICK s \in DOMAIN db.stores, st \in DOMAIN db.stations,
            c \in DOMAIN db.categories \cup {None}, image \in db.files \cup {None} :
           /\ Coherent([store |-> s, station |-> st, category |-> c, image |-> image, deleted |-> FALSE])
           /\ Inserts(r, "createProduct", "insertProduct", 0, [store |-> s, station |-> st, category |-> c, image |-> image, deleted |-> FALSE],
                      1, {ids + 1}, Shared(r, 0, image))
    BY <1>1, Known, CreateProductIs
  <2> QED BY <2>1, Known, NextIdIs DEF Inserts, Begins, Is, Begun, StageOK, Saving, Inserting, Replacing, ProductRow
<1>2. CASE LoadProduct(r)
  <2>1. PICK p \in DOMAIN db.products, patch \in ProductPatches :
           /\ ~db.products[p].deleted
           /\ patch.image \in db.files \cup {Same}
           /\ Loads(r, "updateProduct", "resolve", p, Assign(db.products[p], patch),
                    NoRows, Asked(patch), db.products[p].image, Shared(r, p, patch.image)
                     \cup IF patch.store # Same THEN {{"moved"}} ELSE {})
    BY <1>2, Known, LoadProductIs
  <2> QED BY <2>1, Known, AssignTypes, ProductCatalogAssumption DEF Loads, Begins, Is, Begun, StageOK, Saving, Inserting, Replacing
<1>3. CASE LoadForRemoveProduct(r)
  <2>1. PICK p \in DOMAIN db.products :
           /\ ~db.products[p].deleted
           /\ Loads(r, "removeProduct", "markProduct", p, [deleted |-> TRUE],
                    NoRows, {"deleted"}, None, {})
    BY <1>3, Known, LoadForRemoveProductIs
  <2> QED BY <2>1, Known DEF Loads, Begins, Is, Begun, StageOK, Saving, Inserting, Replacing
<1>4. CASE LoadForRestoreProduct(r)
  <2>1. PICK p \in DOMAIN db.products :
           /\ db.products[p].deleted
           /\ Loads(r, "restoreProduct", "markProduct", p, [deleted |-> FALSE],
                    NoRows, {"deleted"}, None, {})
    BY <1>4, Known, LoadForRestoreProductIs
  <2> QED BY <2>1, Known DEF Loads, Begins, Is, Begun, StageOK, Saving, Inserting, Replacing
<1> QED BY <1>1, <1>2, <1>3, <1>4 DEF ProductsRequest

LEMMA ModifiersRequestOK ==
  ASSUME TypeInv, NEW r \in Requests, ModifiersRequest(r)
  PROVE  Begun(r)
<1>1. CASE CreateGroup(r)
  <2>1. PICK s \in DOMAIN db.stores, patch \in GroupPatches :
           /\ Valid(NewGroup(s, patch))
           /\ Inserts(r, "createGroup", "insertGroup", 0, NewGroup(s, patch),
                      1, {ids + 1}, {})
    BY <1>1, Known, CreateGroupIs
  <2>2. NewGroup(s, patch) \in GroupRow
    BY Known, ModifiersAssumption DEF NewGroup, GroupRow, GroupPatch, Over, Kinds
  <2> QED BY <2>1, <2>2, Known, NextIdIs
          DEF Inserts, Begins, Is, Begun, StageOK, Saving, Inserting, Replacing
<1>2. CASE LoadGroup(r)
  <2>1. PICK g \in DOMAIN db.groups, patch \in GroupPatches :
           /\ Valid(Assign(db.groups[g], patch))
           /\ Loads(r, "updateGroup", "saveGroup", g, Assign(db.groups[g], patch),
                    [o \in OptionsOf(g) |-> db.options[o]], Asked(patch), None, {})
    BY <1>2, Known, LoadGroupIs
  <2> QED BY <2>1, Known, AssignTypes, ModifiersAssumption DEF Loads, Begins, Is, Begun, StageOK, Saving, Inserting, Replacing, OptionsOf, Of
<1>3. CASE LoadForDeleteGroup(r)
  <2>1. PICK g \in DOMAIN db.groups :
           /\ Loads(r, "deleteGroup", "deleteGroup", g, NoRows,
                    NoRows, {}, None, {})
    BY <1>3, Known, LoadForDeleteGroupIs
  <2> QED BY <2>1, Known DEF Loads, Begins, Is, Begun, StageOK, Saving, Inserting, Replacing
<1>4. CASE CreateOption(r)
  <2>1. PICK g \in DOMAIN db.groups, on \in BOOLEAN :
           /\ Inserts(r, "createOption", "insertOption", 0, [group |-> g, on |-> on],
                      1, {ids + 1}, {})
    BY <1>4, Known, CreateOptionIs
  <2> QED BY <2>1, Known, NextIdIs DEF Inserts, Begins, Is, Begun, StageOK, Saving, Inserting, Replacing, OptionRow
<1>5. CASE LoadOption(r)
  <2>1. PICK o \in DOMAIN db.options, on \in BOOLEAN \cup {Same} :
           /\ on = FALSE => Spare(db.options[o].group, o)
           /\ Loads(r, "updateOption", "saveOption", o, [db.options[o] EXCEPT !.on = Over(on, @)],
                    NoRows, Asked([on |-> on]), None, {})
    BY <1>5, Known, LoadOptionIs
  <2> QED BY <2>1, Known DEF Loads, Begins, Is, Begun, StageOK, Saving, Inserting, Replacing, OptionRow, Over
<1>6. CASE LoadForDeleteOption(r)
  <2>1. PICK o \in DOMAIN db.options :
           /\ db.options[o].on => Spare(db.options[o].group, o)
           /\ Loads(r, "deleteOption", "deleteOption", o, NoRows,
                    NoRows, {}, None, {})
    BY <1>6, Known, LoadForDeleteOptionIs
  <2> QED BY <2>1, Known DEF Loads, Begins, Is, Begun, StageOK, Saving, Inserting, Replacing
<1>7. CASE AssignGroup(r)
  <2>1. PICK p \in DOMAIN db.products, g \in DOMAIN db.groups :
           /\ ~db.products[p].deleted /\ SameShop(p, g) /\ ~Linked(p, g)
           /\ Inserts(r, "assign", "insertLink", 0, [product |-> p, group |-> g],
                      1, {ids + 1}, {})
    BY <1>7, Known, AssignGroupIs
  <2> QED BY <2>1, Known, NextIdIs DEF Inserts, Begins, Is, Begun, StageOK, Saving, Inserting, Replacing, LinkRow
<1>8. CASE LoadForUnassign(r)
  <2>1. PICK l \in DOMAIN db.links :
           /\ Loads(r, "unassign", "deleteLink", l, NoRows,
                    NoRows, {}, None, {})
    BY <1>8, Known, LoadForUnassignIs
  <2> QED BY <2>1, Known DEF Loads, Begins, Is, Begun, StageOK, Saving, Inserting, Replacing
<1> QED BY <1>1, <1>2, <1>3, <1>4, <1>5, <1>6, <1>7, <1>8 DEF ModifiersRequest

-----------------------------------------------------------------------------
(* What the steps of a handler do. *)

LEMMA NewIdIs ==
  ASSUME NEW q, NEW k \in Ids
  PROVE  /\ q.new = {k} => NewId(q) = k
         /\ q.new = {k, k + 1} => NewId(q) = k
BY IdsAreNumbers DEF NewId

\* The handler is done, or it goes on to the given stage.
Ends(r) ==
  Moves(r) /\ req'[r] = Idle /\ ids' = ids /\ scene' = scene /\ history' = history

GoesOn(r, stage) ==
  /\ Moves(r) /\ ids' = ids /\ scene' = scene /\ history' = history
  /\ Is(req'[r], req[r].op, stage, req[r].id, req[r].row, req[r].held, req[r].asked,
        req[r].seen, req[r].new)

LEMMA CommitIs ==
  ASSUME TypeInv, NEW r \in Requests, NEW d, Commit(r, d)
  PROVE  Ends(r) /\ db' = d
BY Known DEF Commit, Finish, Go, Ends, Moves

LEMMA AbortIs ==
  ASSUME TypeInv, NEW r \in Requests, Abort(r)
  PROVE  Ends(r) /\ db' = db
BY CommitIs DEF Abort

LEMMA GoOnIs ==
  ASSUME TypeInv, NEW r \in Requests, NEW stage, Go(r, [req[r] EXCEPT !.pc = stage]),
         UNCHANGED <<ids, scene, history>>
  PROVE  GoesOn(r, stage)
BY Known DEF Go, GoesOn, Moves, Is, Idle, TypeInv, TypeOK

LEMMA WritePinIs ==
  ASSUME TypeInv, NEW r \in Requests, WritePin(r)
  PROVE  /\ req[r].pc = "writePin" /\ Ends(r)
         /\ \/ db' = db
            \/ /\ req[r].id \in DOMAIN db.stores
               /\ Puts(db, db', "stores", req[r].id,
                       [pin |-> req[r].row.pin, settings |-> db.stores[req[r].id].settings])
<1>1. req[r].pc = "writePin"
  BY DEF WritePin, At
<1>2. req[r].row.pin \in Pins
  BY <1>1 DEF TypeInv, StageOK
<1>3. CASE req[r].id \notin DOMAIN db.stores
  BY <1>1, <1>3, CommitIs DEF WritePin
<1>4. CASE req[r].id \in DOMAIN db.stores
  <2>1. Ends(r) /\ db' = [db EXCEPT !.stores[req[r].id].pin = req[r].row.pin]
    BY <1>4, CommitIs DEF WritePin
  <2> QED BY <1>1, <1>2, <1>4, <2>1, WritePinPuts DEF TypeInv, TypeOK
<1> QED BY <1>3, <1>4

LEMMA CheckPinIs ==
  ASSUME TypeInv, NEW r \in Requests, CheckPin(r)
  PROVE  /\ req[r].pc = "checkPin" /\ db' = db
         /\ \/ Ends(r)
            \/ /\ GoesOn(r, "saveStore")
               /\ req[r].id \in DOMAIN db.stores /\ PinHolds(req[r])
BY AbortIs, GoOnIs DEF CheckPin, At, Proceed

LEMMA SaveStoreIs ==
  ASSUME TypeInv, NEW r \in Requests, SaveStore(r)
  PROVE  /\ req[r].pc = "saveStore" /\ Ends(r)
         /\ Puts(db, db', "stores", req[r].id,
                 [pin |-> IF req[r].id \in DOMAIN db.stores THEN db.stores[req[r].id].pin ELSE None,
                  settings |-> req[r].row.settings])
<1>1. req[r].pc = "saveStore" /\ Ends(r) /\ db' = SettingsSaved(req[r])
  BY CommitIs DEF SaveStore, At
<1> QED BY <1>1, Known, SavedPuts DEF SettingsSaved, TableNames

LEMMA DeleteStoreIs ==
  ASSUME TypeInv, NEW r \in Requests, DeleteStore(r)
  PROVE  /\ req[r].pc = "deleteStore" /\ Ends(r)
         /\ \/ db' = db
            \/ db' = WithoutStore(db, req[r].id) /\ StoreGone(req[r].id, db')
<1>1. req[r].pc = "deleteStore" /\ Ends(r) /\ (db' = db \/ db' = WithoutStore(db, req[r].id))
  BY CommitIs, AbortIs DEF DeleteStore, At
<1> QED BY <1>1, Known, WithoutStoreIs

LEMMA InsertNoteIs ==
  ASSUME TypeInv, NEW r \in Requests, InsertNote(r)
  PROVE  /\ req[r].pc = "insertNote" /\ Ends(r)
         /\ \/ db' = db
            \/ /\ req[r].id \in DOMAIN db.stores
               /\ \E k \in Ids : /\ req[r].new = {k} /\ k <= ids
                                 /\ Puts(db, db', "notes", k, req[r].row)
<1>1. /\ req[r].pc = "insertNote" /\ Ends(r)
      /\ db' = IF req[r].id \in DOMAIN db.stores
               THEN Saved("notes", NewId(req[r]), req[r].row) ELSE db
  BY CommitIs DEF InsertNote, At
<1>2. PICK k \in Ids : req[r].new = {k} /\ k <= ids
  BY <1>1 DEF TypeInv, StageOK, Inserting
<1> QED BY <1>1, <1>2, Known, NewIdIs, SavedPuts DEF TableNames

LEMMA SaveNoteIs ==
  ASSUME TypeInv, NEW r \in Requests, SaveNote(r)
  PROVE  /\ req[r].pc = "saveNote" /\ Ends(r)
         /\ \/ db' = db
            \/ /\ req[r].row.store \in DOMAIN db.stores
               /\ Puts(db, db', "notes", req[r].id, req[r].row)
<1>1. /\ req[r].pc = "saveNote" /\ Ends(r)
      /\ db' = IF req[r].row.store \in DOMAIN db.stores
               THEN Saved("notes", req[r].id, req[r].row) ELSE db
  BY CommitIs DEF SaveNote, At
<1> QED BY <1>1, Known, SavedPuts DEF TableNames

LEMMA CountNotesIs ==
  ASSUME TypeInv, NEW r \in Requests, CountNotes(r)
  PROVE  /\ req[r].pc = "countNotes" /\ db' = db
         /\ \/ Ends(r)
            \/ GoesOn(r, "deleteNote") /\ OthersLeft(req[r].row.store)
BY AbortIs, GoOnIs DEF CountNotes, At, Proceed

LEMMA DeleteNoteIs ==
  ASSUME TypeInv, NEW r \in Requests, DeleteNote(r)
  PROVE  /\ req[r].pc = "deleteNote" /\ Ends(r)
         /\ Drops(db, db', "notes", {req[r].id})
<1>1. /\ req[r].pc = "deleteNote" /\ Ends(r)
      /\ db' = [db EXCEPT !.notes = Without(@, {req[r].id})]
  BY CommitIs DEF DeleteNote, At
<1> QED BY <1>1, Known, WithoutDrops DEF TableNames

LEMMA ClearNotesIs ==
  ASSUME TypeInv, NEW r \in Requests, ClearNotes(r)
  PROVE  /\ req[r].pc = "clearNotes" /\ GoesOn(r, "insertNotes")
         /\ Drops(db, db', "notes", NotesOf(req[r].id))
<1>1. /\ req[r].pc = "clearNotes" /\ GoesOn(r, "insertNotes")
      /\ db' = [db EXCEPT !.notes = Without(@, NotesOf(req[r].id))]
  BY GoOnIs DEF ClearNotes, At, Cleared
<1> QED BY <1>1, Known, WithoutDrops DEF TableNames

LEMMA InsertNotesIs ==
  ASSUME TypeInv, NEW r \in Requests, InsertNotes(r)
  PROVE  /\ req[r].pc = "insertNotes" /\ Ends(r)
         /\ \/ db' = db /\ req[r].id \notin DOMAIN db.stores
            \/ /\ req[r].id \in DOMAIN db.stores
               /\ \E k \in Ids :
                    /\ k + 1 \in Ids /\ k + 1 <= ids /\ req[r].new = {k, k + 1}
                    /\ Keeps(db, db', {"notes"}) /\ Table(db'.notes, Ids, NoteRow)
                    /\ DOMAIN db'.notes = {k, k + 1} \cup DOMAIN db.notes
                    /\ db'.notes[k] = [store |-> req[r].id, order |-> 0]
                    /\ db'.notes[k + 1] = [store |-> req[r].id, order |-> 1]
                    /\ \A n \in DOMAIN db.notes \ {k, k + 1} : db'.notes[n] = db.notes[n]
<1> DEFINE q == req[r]
           rows == [k \in q.new |-> [store |-> q.id, order |-> k - NewId(q)]]
<1>1. /\ q.pc = "insertNotes" /\ Ends(r)
      /\ db' = IF q.id \in DOMAIN db.stores THEN [db EXCEPT !.notes = Put(rows, @)] ELSE db
  BY CommitIs DEF InsertNotes, At
<1>2. PICK k \in Ids : k + 1 \in Ids /\ k + 1 <= ids /\ q.new = {k, k + 1}
  BY <1>1 DEF TypeInv, StageOK, Replacing
<1>3. CASE q.id \notin DOMAIN db.stores
  BY <1>1, <1>3
<1>4. CASE q.id \in DOMAIN db.stores
  <2>1. NewId(q) = k /\ k \in Nat
    BY <1>2, NewIdIs, IdsAreNumbers
  <2>2. /\ DOMAIN rows = {k, k + 1}
        /\ rows[k] = [store |-> q.id, order |-> 0]
        /\ rows[k + 1] = [store |-> q.id, order |-> 1]
    BY <1>2, <2>1
  <2> HIDE DEF rows, q
  <2>3. db' = [db EXCEPT !.notes = Put(rows, @)] /\ DOMAIN db = TableNames
    BY <1>1, <1>4, Known
  <2>4. Keeps(db, db', {"notes"}) /\ db'.notes = Put(rows, db.notes)
    BY <2>3 DEF Keeps, TableNames
  <2>5. db'.notes = Put(rows, db.notes)
    BY <2>4
  <2>6. /\ DOMAIN db'.notes = {k, k + 1} \cup DOMAIN db.notes
        /\ db'.notes[k] = rows[k] /\ db'.notes[k + 1] = rows[k + 1]
        /\ \A n \in DOMAIN db.notes \ {k, k + 1} : db'.notes[n] = db.notes[n]
    BY <2>2, <2>5 DEF Put
  <2>7. Table(db'.notes, Ids, NoteRow)
    <3>1. rows[k] \in NoteRow /\ rows[k + 1] \in NoteRow
      BY <1>4, <2>2, Known DEF NoteRow
    <3>2. Table(db.notes, Ids, NoteRow)
      BY Known DEF Sound, TablesOK
    <3> QED BY <1>2, <2>2, <2>5, <3>1, <3>2 DEF Put, Table
  <2> QED BY <1>1, <1>2, <1>4, <2>2, <2>4, <2>6, <2>7 DEF q
<1> QED BY <1>3, <1>4

LEMMA InsertAccountIs ==
  ASSUME TypeInv, NEW r \in Requests, InsertAccount(r)
  PROVE  /\ req[r].pc = "insertAccount" /\ Ends(r) /\ Unique(req[r].row)
         /\ \E k \in Ids : /\ req[r].new = {k} /\ k <= ids
                           /\ Puts(db, db', "accounts", k, req[r].row)
<1>1. /\ req[r].pc = "insertAccount" /\ Ends(r) /\ Unique(req[r].row)
      /\ db' = Saved("accounts", NewId(req[r]), req[r].row)
  BY CommitIs DEF InsertAccount, At
<1>2. PICK k \in Ids : req[r].new = {k} /\ k <= ids
  BY <1>1 DEF TypeInv, StageOK, Inserting
<1> QED BY <1>1, <1>2, Known, NewIdIs, SavedPuts DEF TableNames

LEMMA RefuseAccountIs ==
  ASSUME TypeInv, NEW r \in Requests, RefuseAccount(r)
  PROVE  /\ req[r].pc = "insertAccount" /\ ~Unique(req[r].row)
         /\ Moves(r) /\ req'[r] = Idle
         /\ ids' = ids /\ scene' = scene /\ db' = db
         /\ history' = history \cup {{"lateRefusal"}}
BY Known DEF RefuseAccount, At, Finish, Go, Moves

LEMMA SaveCategoryIs ==
  ASSUME TypeInv, NEW r \in Requests, SaveCategory(r)
  PROVE  /\ req[r].pc = "saveCategory" /\ Ends(r)
         /\ \/ db' = db
            \/ /\ req[r].row.store \in DOMAIN db.stores
               /\ Puts(db, db', "categories", req[r].id, req[r].row)
<1>1. /\ req[r].pc = "saveCategory" /\ Ends(r)
      /\ db' = IF req[r].row.store \in DOMAIN db.stores
               THEN Saved("categories", req[r].id, req[r].row) ELSE db
  BY CommitIs DEF SaveCategory, At
<1> QED BY <1>1, Known, SavedPuts DEF TableNames

\* What is left when a station goes, with the products made at it.
StationGone(s, e) ==
  /\ Keeps(db, e, {"products", "links", "stations"})
  /\ DOMAIN e.products = {p \in DOMAIN db.products : db.products[p].station # s}
  /\ \A k \in DOMAIN e.products : e.products[k] = db.products[k]
  /\ DOMAIN e.links = {l \in DOMAIN db.links : db.products[db.links[l].product].station # s}
  /\ \A l \in DOMAIN e.links : e.links[l] = db.links[l]
  /\ DOMAIN e.stations = DOMAIN db.stations \ {s}
  /\ \A k \in DOMAIN e.stations : e.stations[k] = db.stations[k]

LEMMA DeleteStationIs ==
  ASSUME TypeInv, NEW r \in Requests, DeleteStation(r)
  PROVE  /\ req[r].pc = "deleteStation" /\ Ends(r)
         /\ \/ db' = db
            \/ Sound(db') /\ StationGone(req[r].id, db')
<1>1. /\ req[r].pc = "deleteStation" /\ Ends(r)
      /\ \/ db' = db
         \/ Releasable(req[r].id) /\ db' = WithoutStation(db, req[r].id)
  BY CommitIs, AbortIs DEF DeleteStation, At
<1> QED BY <1>1, Known, DropStation DEF StationGone

LEMMA InsertProductIs ==
  ASSUME TypeInv, NEW r \in Requests, InsertProduct(r)
  PROVE  /\ req[r].pc = "insertProduct" /\ Ends(r)
         /\ \/ db' = db
            \/ /\ Insertable(req[r].row)
               /\ \E k \in Ids : /\ req[r].new = {k} /\ k <= ids
                                 /\ Puts(db, db', "products", k, req[r].row)
<1>1. /\ req[r].pc = "insertProduct" /\ Ends(r)
      /\ \/ db' = db
         \/ Insertable(req[r].row) /\ db' = Saved("products", NewId(req[r]), req[r].row)
  BY CommitIs, AbortIs DEF InsertProduct, At
<1>2. PICK k \in Ids : req[r].new = {k} /\ k <= ids
  BY <1>1 DEF TypeInv, StageOK, Inserting
<1> QED BY <1>1, <1>2, Known, NewIdIs, SavedPuts DEF TableNames

LEMMA ResolveRelationsIs ==
  ASSUME TypeInv, NEW r \in Requests, ResolveRelations(r)
  PROVE  /\ req[r].pc = "resolve" /\ db' = db
         /\ \/ Ends(r)
            \/ GoesOn(r, "saveProduct") /\ Resolved(req[r])
BY AbortIs, GoOnIs DEF ResolveRelations, At, Proceed

LEMMA SaveProductIs ==
  ASSUME TypeInv, NEW r \in Requests, SaveProduct(r)
  PROVE  /\ req[r].pc = "saveProduct"
         /\ \/ Ends(r) /\ db' = db
            \/ /\ GoesOn(r, "reload") /\ Insertable(req[r].row)
               /\ Puts(db, db', "products", req[r].id, req[r].row)
<1>1. /\ req[r].pc = "saveProduct"
      /\ \/ Ends(r) /\ db' = db
         \/ /\ GoesOn(r, "reload") /\ Insertable(req[r].row)
            /\ db' = Saved("products", req[r].id, req[r].row)
  BY AbortIs, GoOnIs DEF SaveProduct, At
<1> QED BY <1>1, Known, SavedPuts DEF TableNames

LEMMA ReloadProductIs ==
  ASSUME TypeInv, NEW r \in Requests, ReloadProduct(r)
  PROVE  /\ req[r].pc = "reload" /\ db' = db
         /\ \/ Ends(r)
            \/ GoesOn(r, "dropImage") /\ req[r].id \in DOMAIN db.products /\ Replaced(req[r])
BY AbortIs, GoOnIs DEF ReloadProduct, At, Proceed

LEMMA DropImageIs ==
  ASSUME TypeInv, NEW r \in Requests, DropImage(r) \/ KeepImage(r)
  PROVE  /\ req[r].pc = "dropImage" /\ Ends(r)
         /\ Keeps(db, db', {"files"}) /\ db'.files \in {db.files, db.files \ {req[r].seen}}
<1>1. /\ req[r].pc = "dropImage" /\ Ends(r)
      /\ db' = db \/ db' = [db EXCEPT !.files = @ \ {req[r].seen}]
  BY CommitIs, AbortIs DEF DropImage, KeepImage, At
<1> QED BY <1>1, Known DEF Keeps, TableNames

LEMMA MarkProductIs ==
  ASSUME TypeInv, NEW r \in Requests, MarkProduct(r)
  PROVE  /\ req[r].pc = "markProduct" /\ Ends(r)
         /\ \/ db' = db
            \/ /\ req[r].id \in DOMAIN db.products
               /\ [db.products[req[r].id] EXCEPT !.deleted = req[r].row.deleted] \in ProductRow
               /\ Puts(db, db', "products", req[r].id,
                       [db.products[req[r].id] EXCEPT !.deleted = req[r].row.deleted])
<1>1. req[r].pc = "markProduct"
  BY DEF MarkProduct, At
<1>2. req[r].row.deleted \in BOOLEAN
  BY <1>1 DEF TypeInv, StageOK
<1>3. CASE req[r].id \notin DOMAIN db.products
  BY <1>1, <1>3, CommitIs DEF MarkProduct
<1>4. CASE req[r].id \in DOMAIN db.products
  <2>1. Ends(r) /\ db' = [db EXCEPT !.products[req[r].id].deleted = req[r].row.deleted]
    BY <1>4, CommitIs DEF MarkProduct
  <2> QED BY <1>1, <1>2, <1>4, <2>1, MarkPuts DEF TypeInv, TypeOK
<1> QED BY <1>3, <1>4

LEMMA InsertGroupIs ==
  ASSUME TypeInv, NEW r \in Requests, InsertGroup(r)
  PROVE  /\ req[r].pc = "insertGroup" /\ Ends(r)
         /\ \/ db' = db
            \/ /\ req[r].row.store \in DOMAIN db.stores
               /\ \E k \in Ids : /\ req[r].new = {k} /\ k <= ids
                                 /\ Puts(db, db', "groups", k, req[r].row)
<1>1. /\ req[r].pc = "insertGroup" /\ Ends(r)
      /\ \/ db' = db
         \/ /\ req[r].row.store \in DOMAIN db.stores
            /\ db' = Saved("groups", NewId(req[r]), req[r].row)
  BY CommitIs, AbortIs DEF InsertGroup, At
<1>2. PICK k \in Ids : req[r].new = {k} /\ k <= ids
  BY <1>1 DEF TypeInv, StageOK, Inserting
<1> QED BY <1>1, <1>2, Known, NewIdIs, SavedPuts DEF TableNames

\* The group and the options of a copy replace theirs.
LEMMA SaveGroupIs ==
  ASSUME TypeInv, NEW r \in Requests, SaveGroup(r)
  PROVE  /\ req[r].pc = "saveGroup" /\ Ends(r)
         /\ \/ db' = db
            \/ /\ req[r].row.store \in DOMAIN db.stores
               /\ OptionsOf(req[r].id) \subseteq DOMAIN req[r].held
               /\ Keeps(db, db', {"groups", "options"})
               /\ Table(db'.groups, Ids, GroupRow) /\ Table(db'.options, Ids, OptionRow)
               /\ DOMAIN db'.groups = {req[r].id} \cup DOMAIN db.groups
               /\ db'.groups[req[r].id] = req[r].row
               /\ \A g \in DOMAIN db.groups : g # req[r].id => db'.groups[g] = db.groups[g]
               /\ DOMAIN db'.options = DOMAIN req[r].held \cup DOMAIN db.options
               /\ \A o \in DOMAIN req[r].held : db'.options[o] = req[r].held[o]
               /\ \A o \in DOMAIN db.options \ DOMAIN req[r].held :
                    db'.options[o] = db.options[o]
<1> DEFINE q == req[r]
           mid == Saved("groups", q.id, q.row)
<1>1. /\ q.pc = "saveGroup" /\ Ends(r)
      /\ \/ db' = db
         \/ /\ q.row.store \in DOMAIN db.stores /\ OptionsOf(q.id) \subseteq DOMAIN q.held
            /\ db' = [mid EXCEPT !.options = Put(q.held, @)]
  BY CommitIs, AbortIs DEF SaveGroup, At, GroupSaved
<1>2. /\ q.id \in Ids /\ q.row \in GroupRow
      /\ \A o \in DOMAIN q.held : o \in Ids /\ q.held[o] \in OptionRow
  BY <1>1 DEF TypeInv, StageOK, Saving
<1>3. Puts(db, mid, "groups", q.id, q.row)
  BY Known, SavedPuts DEF TableNames
<1> SUFFICES ASSUME db' = [mid EXCEPT !.options = Put(q.held, @)]
             PROVE  /\ Keeps(db, db', {"groups", "options"})
                    /\ Table(db'.groups, Ids, GroupRow) /\ Table(db'.options, Ids, OptionRow)
                    /\ DOMAIN db'.groups = {q.id} \cup DOMAIN db.groups
                    /\ db'.groups[q.id] = q.row
                    /\ \A g \in DOMAIN db.groups : g # q.id => db'.groups[g] = db.groups[g]
                    /\ DOMAIN db'.options = DOMAIN q.held \cup DOMAIN db.options
                    /\ \A o \in DOMAIN q.held : db'.options[o] = q.held[o]
                    /\ \A o \in DOMAIN db.options \ DOMAIN q.held :
                         db'.options[o] = db.options[o]
  BY <1>1
<1> HIDE DEF mid, q
<1>4. Keeps(db, db', {"groups", "options"}) /\ db'.groups = mid.groups
  BY <1>3 DEF Puts, Keeps, TableNames
<1>5. db'.options = Put(q.held, db.options)
  BY <1>3 DEF Puts, Keeps, TableNames
<1>6. Table(db'.groups, Ids, GroupRow)
  <2>1. mid.groups = Put(Row(q.id, q.row), db.groups)
    BY <1>3 DEF Puts
  <2> QED BY <1>2, <1>4, <2>1, PutsTable, Known DEF Sound, TablesOK
<1>7. Table(db'.options, Ids, OptionRow)
  <2>1. Table(db.options, Ids, OptionRow)
    BY Known DEF Sound, TablesOK
  <2> QED BY <1>2, <1>5, <2>1 DEF Put, Table
<1>8. /\ DOMAIN db'.options = DOMAIN q.held \cup DOMAIN db.options
      /\ \A o \in DOMAIN q.held : db'.options[o] = q.held[o]
      /\ \A o \in DOMAIN db.options \ DOMAIN q.held : db'.options[o] = db.options[o]
  BY <1>5 DEF Put
<1>9. /\ DOMAIN db'.groups = {q.id} \cup DOMAIN db.groups
      /\ db'.groups[q.id] = q.row
      /\ \A g \in DOMAIN db.groups : g # q.id => db'.groups[g] = db.groups[g]
  BY <1>3, <1>4 DEF Puts
<1> QED BY <1>4, <1>6, <1>7, <1>8, <1>9

\* The options and links of a group go with it.
GroupGone(g, e) ==
  /\ Keeps(db, e, {"groups", "options", "links"})
  /\ DOMAIN e.groups = DOMAIN db.groups \ {g}
  /\ \A k \in DOMAIN e.groups : e.groups[k] = db.groups[k]
  /\ DOMAIN e.options = {o \in DOMAIN db.options : db.options[o].group # g}
  /\ \A o \in DOMAIN e.options : e.options[o] = db.options[o]
  /\ DOMAIN e.links = {l \in DOMAIN db.links : db.links[l].group # g}
  /\ \A l \in DOMAIN e.links : e.links[l] = db.links[l]

LEMMA DeleteGroupIs ==
  ASSUME TypeInv, NEW r \in Requests, DeleteGroup(r)
  PROVE  /\ req[r].pc = "deleteGroup" /\ Ends(r)
         /\ Sound(db') /\ GroupGone(req[r].id, db')
<1>1. /\ req[r].pc = "deleteGroup" /\ Ends(r)
      /\ db' = WithoutGroups(db, {req[r].id})
  BY CommitIs DEF DeleteGroup, At
<1> DEFINE g == req[r].id
<1>2. db' = WithoutGroups(db, {g})
  BY <1>1
<1> HIDE DEF g
<1>3. GroupGone(g, db')
  BY <1>2, Known, WithoutGroupsIs DEF GroupGone, Sound
<1>4. Sound(db')
  BY <1>2, Known, DropGroups
<1> QED BY <1>1, <1>3, <1>4 DEF g

LEMMA SaveOptionIs ==
  ASSUME TypeInv, NEW r \in Requests, SaveOption(r)
  PROVE  /\ req[r].pc \in {"insertOption", "saveOption"} /\ Ends(r)
         /\ \/ db' = db
            \/ /\ req[r].row.group \in DOMAIN db.groups
               /\ \E k \in Ids :
                    /\ k <= ids /\ Puts(db, db', "options", k, req[r].row)
                    /\ \/ req[r].pc = "insertOption" /\ req[r].new = {k}
                       \/ req[r].pc = "saveOption" /\ req[r].id = k
<1>1. /\ req[r].pc \in {"insertOption", "saveOption"} /\ Ends(r)
      /\ \/ db' = db
         \/ /\ req[r].row.group \in DOMAIN db.groups
            /\ db' = Saved("options", IF req[r].pc = "saveOption" THEN req[r].id
                                      ELSE NewId(req[r]), req[r].row)
  BY CommitIs, AbortIs DEF SaveOption
<1>2. CASE req[r].pc = "saveOption"
  <2>1. req[r].id \in Ids /\ req[r].id <= ids
    BY <1>2 DEF TypeInv, StageOK, Saving
  <2> QED BY <1>1, <1>2, <2>1, Known, SavedPuts DEF TableNames
<1>3. CASE req[r].pc = "insertOption"
  <2>1. PICK k \in Ids : req[r].new = {k} /\ k <= ids
    BY <1>3 DEF TypeInv, StageOK, Inserting
  <2> QED BY <1>1, <1>3, <2>1, Known, NewIdIs, SavedPuts DEF TableNames
<1> QED BY <1>1, <1>2, <1>3

LEMMA DeleteOptionIs ==
  ASSUME TypeInv, NEW r \in Requests, DeleteOption(r)
  PROVE  /\ req[r].pc = "deleteOption" /\ Ends(r)
         /\ Drops(db, db', "options", {req[r].id})
<1>1. /\ req[r].pc = "deleteOption" /\ Ends(r)
      /\ db' = [db EXCEPT !.options = Without(@, {req[r].id})]
  BY CommitIs DEF DeleteOption, At
<1> QED BY <1>1, Known, WithoutDrops DEF TableNames

LEMMA InsertLinkIs ==
  ASSUME TypeInv, NEW r \in Requests, InsertLink(r)
  PROVE  /\ req[r].pc = "insertLink" /\ Ends(r)
         /\ \/ db' = db
            \/ /\ req[r].row.product \in DOMAIN db.products
               /\ req[r].row.group \in DOMAIN db.groups
               /\ \E k \in Ids : /\ req[r].new = {k} /\ k <= ids
                                 /\ Puts(db, db', "links", k, req[r].row)
<1>1. /\ req[r].pc = "insertLink" /\ Ends(r)
      /\ \/ db' = db
         \/ /\ req[r].row.product \in DOMAIN db.products
            /\ req[r].row.group \in DOMAIN db.groups
            /\ db' = Saved("links", NewId(req[r]), req[r].row)
  BY CommitIs, AbortIs DEF InsertLink, At
<1>2. PICK k \in Ids : req[r].new = {k} /\ k <= ids
  BY <1>1 DEF TypeInv, StageOK, Inserting
<1> QED BY <1>1, <1>2, Known, NewIdIs, SavedPuts DEF TableNames

LEMMA DeleteLinkIs ==
  ASSUME TypeInv, NEW r \in Requests, DeleteLink(r)
  PROVE  /\ req[r].pc = "deleteLink" /\ Ends(r)
         /\ Drops(db, db', "links", {req[r].id})
<1>1. /\ req[r].pc = "deleteLink" /\ Ends(r)
      /\ db' = [db EXCEPT !.links = Without(@, {req[r].id})]
  BY CommitIs DEF DeleteLink, At
<1> QED BY <1>1, Known, WithoutDrops DEF TableNames

\* What takes a single call: the row gets the next id.
Creates(t, row) ==
  /\ req' = req /\ scene' = scene /\ history' = history
  /\ ids + 1 \in Ids /\ ids' = ids + 1
  /\ Puts(db, db', t, ids + 1, row)

LEMMA AtOnceIs ==
  ASSUME TypeInv, NEW op, NEW t \in TableNames, NEW row, AtOnce(op, Saved(t, ids + 1, row), 1)
  PROVE  Creates(t, row)
<1>1. ids + 1 \in Ids
  BY Known, NextIdIs DEF AtOnce
<1>2. db' = Saved(t, ids + 1, row)
  BY DEF AtOnce
<1> QED BY <1>1, <1>2, Known, SavedPuts DEF AtOnce, Creates

LEMMA DirectIs ==
  ASSUME TypeInv, Direct
  PROVE  \/ \E s \in Settings : Creates("stores", [pin |-> None, settings |-> s])
         \/ \E s \in DOMAIN db.stores, name \in Settings :
              Creates("categories", [store |-> s, name |-> name, active |-> TRUE])
         \/ \E s \in DOMAIN db.stores : Creates("stations", [store |-> s])
         \/ /\ req' = req /\ scene' = scene /\ ids' = ids
            /\ history' = history \cup {{"moved"}}
            /\ \E st \in DOMAIN db.stations, s \in DOMAIN db.stores :
                 Puts(db, db', "stations", st, [store |-> s])
         \/ /\ req' = req /\ scene' = scene /\ history' = history
            /\ ids + 1 \in Ids /\ ids' = ids + 1
            /\ Keeps(db, db', {"files"}) /\ db'.files = db.files \cup {ids + 1}
         \/ \E p \in DOMAIN db.products :
              Creates("items", [product |-> p, station |-> db.products[p].station])
         \/ /\ req' = req /\ scene' = scene /\ history' = history /\ ids' = ids
            /\ Keeps(db, db', {"items"}) /\ db'.items = NoRows
<1>1. CASE CreateStore
  BY <1>1, AtOnceIs DEF CreateStore, TableNames
<1>2. CASE CreateCategory
  BY <1>2, AtOnceIs DEF CreateCategory, TableNames
<1>3. CASE CreateStation
  BY <1>3, AtOnceIs DEF CreateStation, TableNames
<1>4. CASE MoveStation
  <2>1. PICK st \in DOMAIN db.stations, s \in DOMAIN db.stores :
          db' = [db EXCEPT !.stations[st].store = s]
    BY <1>4 DEF MoveStation
  <2>2. Puts(db, db', "stations", st, [store |-> s])
    BY <2>1, Known, MovePuts DEF Sound
  <2> QED BY <1>4, <2>2 DEF MoveStation
<1>5. CASE UploadImage
  <2>1. ids + 1 \in Ids
    BY <1>5, Known, NextIdIs DEF UploadImage, AtOnce
  <2> QED BY <1>5, <2>1, Known DEF UploadImage, AtOnce, Keeps, TableNames
<1>6. CASE SellProduct
  <2>1. PICK p \in DOMAIN db.products :
          AtOnce("sell", Saved("items", ids + 1,
                               [product |-> p, station |-> db.products[p].station]), 1)
    BY <1>6 DEF SellProduct
  <2> QED BY <2>1, AtOnceIs DEF TableNames
<1>7. CASE RemoveItems
  BY <1>7, Known DEF RemoveItems, AtOnce, Keeps, TableNames
<1> QED BY <1>1, <1>2, <1>3, <1>4, <1>5, <1>6, <1>7 DEF Direct

-----------------------------------------------------------------------------
(* Every action keeps the types. *)

\* A handler has moved, and what it leaves is sound.
Fine(r) ==
  /\ Moves(r) /\ Sound(db') /\ Numbered(db', ids')
  /\ ids' \in Nat /\ ids <= ids' /\ ids' <= MaxIds
  /\ DOMAIN req'[r] = DOMAIN Idle /\ req'[r].new \subseteq 1..ids' /\ StageOK(req'[r], ids')

LEMMA FineIsTyped ==
  ASSUME TypeInv, NEW r \in Requests, Fine(r)
  PROVE  TypeInv'
<1>1. /\ DOMAIN req' = Requests
      /\ \A s \in Requests : DOMAIN req'[s] = DOMAIN Idle /\ req'[s].new \subseteq 1..ids'
      /\ \A s \in Requests : StageOK(req'[s], ids')
  BY LocalsStay DEF Fine
<1>2. ids' \in 0..MaxIds
  BY IdsAreNumbers DEF Fine
<1> QED BY <1>1, <1>2 DEF Fine, Sound, TypeInv, TypeOK

LEMMA BegunIsFine ==
  ASSUME TypeInv, NEW r \in Requests, Begun(r)
  PROVE  Fine(r)
<1>1. \A k \in Ids : k <= ids => k <= ids'
  BY Known, Further DEF Begun
<1>2. Numbered(db, ids')
  BY <1>1, Known, NumbersAre
<1> QED BY <1>2, Known DEF Begun, Fine

LEMMA EndIsFine ==
  ASSUME TypeInv, NEW r \in Requests, Ends(r), Sound(db'), Numbered(db', ids)
  PROVE  Fine(r)
BY Known, IdleOK DEF Ends, Fine

LEMMA GoneOnIsFine ==
  ASSUME TypeInv, NEW r \in Requests, NEW stage, GoesOn(r, stage),
         Sound(db'), Numbered(db', ids), StageOK(req'[r], ids)
  PROVE  Fine(r)
BY Known DEF GoesOn, Is, Fine, TypeInv, TypeOK

\* A row under an id that was handed out keeps the tables numbered.
LEMMA PutNumbered ==
  ASSUME NEW t \in TableNames, NEW k \in Ids, NEW n \in Nat, k <= n, NEW row,
         NEW d, NEW e, Numbered(d, n), Puts(d, e, t, k, row)
  PROVE  Numbered(e, n)
BY DEF Numbered, Puts, Keeps

LEMMA DropNumbered ==
  ASSUME NEW t \in TableNames, NEW n \in Nat, NEW gone,
         NEW d, NEW e, Numbered(d, n), Drops(d, e, t, gone)
  PROVE  Numbered(e, n)
BY DEF Numbered, Drops, Keeps

LEMMA StoresStepFine ==
  ASSUME TypeInv, NEW r \in Requests, StoresStep(r)
  PROVE  Fine(r)
<1>1. CASE WritePin(r)
  <2>1. CASE db' = db
    BY <1>1, <2>1, WritePinIs, Known, EndIsFine
  <2>2. CASE db' # db
    <3>1. /\ req[r].pc = "writePin" /\ Ends(r) /\ req[r].id \in DOMAIN db.stores
          /\ Puts(db, db', "stores", req[r].id,
                  [pin |-> req[r].row.pin, settings |-> db.stores[req[r].id].settings])
      BY <1>1, <2>2, WritePinIs
    <3>2. req[r].row.pin \in Pins
      BY <3>1 DEF TypeInv, StageOK
    <3>3. [pin |-> req[r].row.pin, settings |-> db.stores[req[r].id].settings] \in StoreRow
      BY <3>1, <3>2, Known DEF StoreRow
    <3>4. Sound(db')
      BY <3>1, <3>3, Known, PutStore
    <3>5. Numbered(db', ids)
      BY <3>1, Known, PutNumbered DEF TableNames
    <3> QED BY <3>1, <3>4, <3>5, EndIsFine
  <2> QED BY <2>1, <2>2
<1>2. CASE CheckPin(r)
  <2>1. CASE Ends(r)
    BY <1>2, <2>1, CheckPinIs, Known, EndIsFine
  <2>2. CASE ~Ends(r)
    <3>1. req[r].pc = "checkPin" /\ db' = db /\ GoesOn(r, "saveStore")
      BY <1>2, <2>2, CheckPinIs
    <3>2. req'[r].pc = "saveStore" /\ req'[r].id = req[r].id /\ req'[r].row = req[r].row
      BY <3>1 DEF GoesOn, Is
    <3>3. /\ req[r].id \in Ids /\ req[r].id <= ids /\ req[r].row.settings \in Settings
      BY <3>1 DEF TypeInv, StageOK, Saving
    <3>4. StageOK(req'[r], ids)
      BY <3>2, <3>3 DEF StageOK, Saving, Inserting, Replacing
    <3> QED BY <3>1, <3>4, Known, GoneOnIsFine
  <2> QED BY <2>1, <2>2
<1>3. CASE SaveStore(r)
  <2> DEFINE pin == IF req[r].id \in DOMAIN db.stores THEN db.stores[req[r].id].pin ELSE None
  <2>1. /\ req[r].pc = "saveStore" /\ Ends(r)
        /\ Puts(db, db', "stores", req[r].id, [pin |-> pin, settings |-> req[r].row.settings])
    BY <1>3, SaveStoreIs
  <2>2. /\ req[r].id \in Ids /\ req[r].id <= ids /\ req[r].row.settings \in Settings
    BY <2>1 DEF TypeInv, StageOK, Saving
  <2>3. pin \in Pins \cup {None}
    BY Known DEF StoreRow
  <2> HIDE DEF pin
  <2>4. [pin |-> pin, settings |-> req[r].row.settings] \in StoreRow
    BY <2>2, <2>3 DEF StoreRow
  <2>5. Sound(db')
    BY <2>1, <2>2, <2>4, Known, PutStore
  <2>6. Numbered(db', ids)
    BY <2>1, <2>2, Known, PutNumbered DEF TableNames
  <2> QED BY <2>1, <2>5, <2>6, EndIsFine
<1>4. CASE DeleteStore(r)
  <2>1. CASE db' = db
    BY <1>4, <2>1, DeleteStoreIs, Known, EndIsFine
  <2>2. CASE db' # db
    <3>1. Ends(r) /\ db' = WithoutStore(db, req[r].id) /\ StoreGone(req[r].id, db')
      BY <1>4, <2>2, DeleteStoreIs
    <3>2. Sound(db')
      BY <3>1, Known, DropStore
    <3>3. Numbered(db', ids)
      BY <3>1, Known, NumbersAre DEF StoreGone, Keeps, TableNames
    <3> QED BY <3>1, <3>2, <3>3, EndIsFine
  <2> QED BY <2>1, <2>2
<1> QED BY <1>1, <1>2, <1>3, <1>4 DEF StoresStep

LEMMA NotesStepFine ==
  ASSUME TypeInv, NEW r \in Requests, NotesStep(r)
  PROVE  Fine(r)
<1>1. CASE InsertNote(r)
  <2>1. CASE db' = db
    BY <1>1, <2>1, InsertNoteIs, Known, EndIsFine
  <2>2. CASE db' # db
    <3>1. /\ req[r].pc = "insertNote" /\ Ends(r) /\ req[r].id \in DOMAIN db.stores
          /\ \E k \in Ids : k <= ids /\ Puts(db, db', "notes", k, req[r].row)
      BY <1>1, <2>2, InsertNoteIs
    <3>2. req[r].row \in NoteRow /\ req[r].row.store = req[r].id
      BY <3>1 DEF TypeInv, StageOK
    <3>3. Sound(db') /\ Numbered(db', ids)
      BY <3>1, <3>2, Known, PutNote, PutNumbered DEF TableNames
    <3> QED BY <3>1, <3>3, EndIsFine
  <2> QED BY <2>1, <2>2
<1>2. CASE SaveNote(r)
  <2>1. CASE db' = db
    BY <1>2, <2>1, SaveNoteIs, Known, EndIsFine
  <2>2. CASE db' # db
    <3>1. /\ req[r].pc = "saveNote" /\ Ends(r) /\ req[r].row.store \in DOMAIN db.stores
          /\ Puts(db, db', "notes", req[r].id, req[r].row)
      BY <1>2, <2>2, SaveNoteIs
    <3>2. req[r].row \in NoteRow /\ req[r].id \in Ids /\ req[r].id <= ids
      BY <3>1 DEF TypeInv, StageOK, Saving
    <3>3. Sound(db') /\ Numbered(db', ids)
      BY <3>1, <3>2, Known, PutNote, PutNumbered DEF TableNames
    <3> QED BY <3>1, <3>3, EndIsFine
  <2> QED BY <2>1, <2>2
<1>3. CASE CountNotes(r)
  <2>1. CASE Ends(r)
    BY <1>3, <2>1, CountNotesIs, Known, EndIsFine
  <2>2. CASE ~Ends(r)
    <3>1. db' = db /\ GoesOn(r, "deleteNote")
      BY <1>3, <2>2, CountNotesIs
    <3>2. StageOK(req'[r], ids)
      BY <3>1 DEF GoesOn, Is, StageOK, Saving, Inserting, Replacing
    <3> QED BY <3>1, <3>2, Known, GoneOnIsFine
  <2> QED BY <2>1, <2>2
<1>4. CASE DeleteNote(r)
  <2>1. Ends(r) /\ Drops(db, db', "notes", {req[r].id})
    BY <1>4, DeleteNoteIs
  <2>2. Sound(db') /\ Numbered(db', ids)
    BY <2>1, Known, DropLeaf, DropNumbered DEF TableNames
  <2> QED BY <2>1, <2>2, EndIsFine
<1>5. CASE ClearNotes(r)
  <2>1. /\ req[r].pc = "clearNotes" /\ GoesOn(r, "insertNotes")
        /\ Drops(db, db', "notes", NotesOf(req[r].id))
    BY <1>5, ClearNotesIs
  <2>2. Sound(db') /\ Numbered(db', ids)
    BY <2>1, Known, DropLeaf, DropNumbered DEF TableNames
  <2>3. \E k \in Ids : k + 1 \in Ids /\ k + 1 <= ids /\ req[r].new = {k, k + 1}
    BY <2>1 DEF TypeInv, StageOK, Replacing
  <2>4. StageOK(req'[r], ids)
    BY <2>1, <2>3 DEF GoesOn, Is, StageOK, Saving, Inserting, Replacing
  <2> QED BY <2>1, <2>2, <2>4, GoneOnIsFine
<1>6. CASE InsertNotes(r)
  <2>1. CASE db' = db
    BY <1>6, <2>1, InsertNotesIs, Known, EndIsFine
  <2>2. CASE db' # db
    <3>1. Ends(r) /\ req[r].id \in DOMAIN db.stores
      BY <1>6, <2>2, InsertNotesIs
    <3>2. PICK k \in Ids :
            /\ k + 1 \in Ids /\ k + 1 <= ids /\ req[r].new = {k, k + 1}
            /\ Keeps(db, db', {"notes"}) /\ Table(db'.notes, Ids, NoteRow)
            /\ DOMAIN db'.notes = {k, k + 1} \cup DOMAIN db.notes
            /\ db'.notes[k] = [store |-> req[r].id, order |-> 0]
            /\ db'.notes[k + 1] = [store |-> req[r].id, order |-> 1]
            /\ \A n \in DOMAIN db.notes \ {k, k + 1} : db'.notes[n] = db.notes[n]
      BY <1>6, <2>2, InsertNotesIs
    <3>3. TablesOK(db')
      BY <3>2, Known DEF Sound, TablesOK, Keeps, TableNames
    <3>4. \A n \in DOMAIN db'.notes : db'.notes[n].store \in DOMAIN db.stores
      BY <3>1, <3>2, Known, RefsAre DEF Sound
    <3>5. RefsHold(db')
      BY <3>2, <3>4, Known, RefsAre DEF Sound, Keeps, TableNames
    <3>6. \A n \in DOMAIN db'.notes : n <= ids
      BY <3>2, Known, IdsAreNumbers
    <3>7. Numbered(db', ids)
      BY <3>2, <3>6, Known, NumbersAre DEF Keeps, TableNames
    <3> QED BY <3>1, <3>3, <3>5, <3>7, EndIsFine DEF Sound
  <2> QED BY <2>1, <2>2
<1> QED BY <1>1, <1>2, <1>3, <1>4, <1>5, <1>6 DEF NotesStep

LEMMA AccountsStepFine ==
  ASSUME TypeInv, NEW r \in Requests, AccountsStep(r)
  PROVE  Fine(r)
<1>1. CASE InsertAccount(r)
  <2>1. /\ req[r].pc = "insertAccount" /\ Ends(r)
        /\ \E k \in Ids : k <= ids /\ Puts(db, db', "accounts", k, req[r].row)
    BY <1>1, InsertAccountIs
  <2>2. req[r].row \in AccountRow
    BY <2>1 DEF TypeInv, StageOK
  <2>3. Sound(db') /\ Numbered(db', ids)
    BY <2>1, <2>2, Known, PutAccount, PutNumbered DEF TableNames
  <2> QED BY <2>1, <2>3, EndIsFine
<1>2. CASE RefuseAccount(r)
  BY <1>2, RefuseAccountIs, Known, IdleOK DEF Fine
<1> QED BY <1>1, <1>2 DEF AccountsStep

LEMMA CategoriesStepFine ==
  ASSUME TypeInv, NEW r \in Requests, CategoriesStep(r)
  PROVE  Fine(r)
<1>1. CASE db' = db
  BY <1>1, SaveCategoryIs, Known, EndIsFine DEF CategoriesStep
<1>2. CASE db' # db
  <2>1. /\ req[r].pc = "saveCategory" /\ Ends(r) /\ req[r].row.store \in DOMAIN db.stores
        /\ Puts(db, db', "categories", req[r].id, req[r].row)
    BY <1>2, SaveCategoryIs DEF CategoriesStep
  <2>2. req[r].row \in CategoryRow /\ req[r].id \in Ids /\ req[r].id <= ids
    BY <2>1 DEF TypeInv, StageOK, Saving
  <2>3. Sound(db') /\ Numbered(db', ids)
    BY <2>1, <2>2, Known, PutCategory, PutNumbered DEF TableNames
  <2> QED BY <2>1, <2>3, EndIsFine
<1> QED BY <1>1, <1>2

LEMMA StationsStepFine ==
  ASSUME TypeInv, NEW r \in Requests, StationsStep(r)
  PROVE  Fine(r)
<1>1. CASE db' = db
  BY <1>1, DeleteStationIs, Known, EndIsFine DEF StationsStep
<1>2. CASE db' # db
  <2>1. Ends(r) /\ Sound(db') /\ StationGone(req[r].id, db')
    BY <1>2, DeleteStationIs DEF StationsStep
  <2>2. Numbered(db', ids)
    BY <2>1, Known, NumbersAre DEF StationGone, Keeps, TableNames
  <2> QED BY <2>1, <2>2, EndIsFine
<1> QED BY <1>1, <1>2

LEMMA ProductsStepFine ==
  ASSUME TypeInv, NEW r \in Requests, ProductsStep(r)
  PROVE  Fine(r)
<1>1. CASE InsertProduct(r)
  <2>1. CASE db' = db
    BY <1>1, <2>1, InsertProductIs, Known, EndIsFine
  <2>2. CASE db' # db
    <3>1. /\ req[r].pc = "insertProduct" /\ Ends(r) /\ Insertable(req[r].row)
          /\ \E k \in Ids : k <= ids /\ Puts(db, db', "products", k, req[r].row)
      BY <1>1, <2>2, InsertProductIs
    <3>2. req[r].row \in ProductRow
      BY <3>1 DEF TypeInv, StageOK
    <3>3. Sound(db') /\ Numbered(db', ids)
      BY <3>1, <3>2, Known, PutProduct, PutNumbered DEF TableNames, Insertable
    <3> QED BY <3>1, <3>3, EndIsFine
  <2> QED BY <2>1, <2>2
<1>2. CASE ResolveRelations(r)
  <2>1. CASE Ends(r)
    BY <1>2, <2>1, ResolveRelationsIs, Known, EndIsFine
  <2>2. CASE ~Ends(r)
    <3>1. req[r].pc = "resolve" /\ db' = db /\ GoesOn(r, "saveProduct")
      BY <1>2, <2>2, ResolveRelationsIs
    <3>2. req[r].id \in Ids /\ req[r].id <= ids /\ req[r].row \in ProductRow
      BY <3>1 DEF TypeInv, StageOK, Saving
    <3>3. StageOK(req'[r], ids)
      BY <3>1, <3>2 DEF GoesOn, Is, StageOK, Saving, Inserting, Replacing
    <3> QED BY <3>1, <3>3, Known, GoneOnIsFine
  <2> QED BY <2>1, <2>2
<1>3. CASE SaveProduct(r)
  <2>1. CASE db' = db /\ Ends(r)
    BY <2>1, Known, EndIsFine
  <2>2. CASE ~(db' = db /\ Ends(r))
    <3>1. /\ req[r].pc = "saveProduct" /\ GoesOn(r, "reload") /\ Insertable(req[r].row)
          /\ Puts(db, db', "products", req[r].id, req[r].row)
      BY <1>3, <2>2, SaveProductIs
    <3>2. req[r].row \in ProductRow /\ req[r].id \in Ids /\ req[r].id <= ids
      BY <3>1 DEF TypeInv, StageOK, Saving
    <3>3. Sound(db') /\ Numbered(db', ids)
      BY <3>1, <3>2, Known, PutProduct, PutNumbered DEF TableNames, Insertable
    <3>4. StageOK(req'[r], ids)
      BY <3>1 DEF GoesOn, Is, StageOK, Saving, Inserting, Replacing
    <3> QED BY <3>1, <3>3, <3>4, GoneOnIsFine
  <2> QED BY <2>1, <2>2
<1>4. CASE ReloadProduct(r)
  <2>1. CASE Ends(r)
    BY <1>4, <2>1, ReloadProductIs, Known, EndIsFine
  <2>2. CASE ~Ends(r)
    <3>1. db' = db /\ GoesOn(r, "dropImage")
      BY <1>4, <2>2, ReloadProductIs
    <3>2. StageOK(req'[r], ids)
      BY <3>1 DEF GoesOn, Is, StageOK, Saving, Inserting, Replacing
    <3> QED BY <3>1, <3>2, Known, GoneOnIsFine
  <2> QED BY <2>1, <2>2
<1>5. CASE DropImage(r) \/ KeepImage(r)
  <2>1. /\ Ends(r) /\ Keeps(db, db', {"files"})
        /\ db'.files \in {db.files, db.files \ {req[r].seen}}
    BY <1>5, DropImageIs
  <2>2. TablesOK(db')
    BY <2>1, Known DEF Sound, TablesOK, Keeps, TableNames
  <2>3. RefsHold(db')
    BY <2>1, Known, RefsAre DEF Sound, Keeps, TableNames
  <2>4. Numbered(db', ids)
    BY <2>1, Known DEF Numbered, Keeps
  <2> QED BY <2>1, <2>2, <2>3, <2>4, EndIsFine DEF Sound
<1>6. CASE MarkProduct(r)
  <2>1. CASE db' = db
    BY <1>6, <2>1, MarkProductIs, Known, EndIsFine
  <2>2. CASE db' # db
    <3> DEFINE row == [db.products[req[r].id] EXCEPT !.deleted = req[r].row.deleted]
    <3>1. /\ Ends(r) /\ req[r].id \in DOMAIN db.products /\ row \in ProductRow
          /\ Puts(db, db', "products", req[r].id, row)
      BY <1>6, <2>2, MarkProductIs
    <3>2. /\ row.store = db.products[req[r].id].store
          /\ row.station = db.products[req[r].id].station
          /\ row.category = db.products[req[r].id].category
      BY <3>1, Known DEF ProductRow
    <3>3. /\ row.store \in DOMAIN db.stores /\ row.station \in DOMAIN db.stations
          /\ row.category \in DOMAIN db.categories \cup {None}
      BY <3>1, <3>2, Known, RefsAre DEF Sound
    <3> HIDE DEF row
    <3>4. Sound(db') /\ Numbered(db', ids)
      BY <3>1, <3>3, Known, PutProduct, PutNumbered DEF TableNames
    <3> QED BY <3>1, <3>4, EndIsFine
  <2> QED BY <2>1, <2>2
<1> QED BY <1>1, <1>2, <1>3, <1>4, <1>5, <1>6 DEF ProductsStep

LEMMA ModifiersStepFine ==
  ASSUME TypeInv, NEW r \in Requests, ModifiersStep(r)
  PROVE  Fine(r)
<1>1. CASE InsertGroup(r)
  <2>1. CASE db' = db
    BY <1>1, <2>1, InsertGroupIs, Known, EndIsFine
  <2>2. CASE db' # db
    <3>1. /\ req[r].pc = "insertGroup" /\ Ends(r) /\ req[r].row.store \in DOMAIN db.stores
          /\ \E k \in Ids : k <= ids /\ Puts(db, db', "groups", k, req[r].row)
      BY <1>1, <2>2, InsertGroupIs
    <3>2. req[r].row \in GroupRow
      BY <3>1 DEF TypeInv, StageOK
    <3>3. Sound(db') /\ Numbered(db', ids)
      BY <3>1, <3>2, Known, PutGroup, PutNumbered DEF TableNames
    <3> QED BY <3>1, <3>3, EndIsFine
  <2> QED BY <2>1, <2>2
<1>2. CASE SaveGroup(r)
  <2>1. CASE db' = db
    BY <1>2, <2>1, SaveGroupIs, Known, EndIsFine
  <2>2. CASE db' # db
    <3> DEFINE q == req[r]
    <3>1. /\ q.pc = "saveGroup" /\ Ends(r)
          /\ q.row.store \in DOMAIN db.stores
          /\ Keeps(db, db', {"groups", "options"})
          /\ Table(db'.groups, Ids, GroupRow) /\ Table(db'.options, Ids, OptionRow)
          /\ DOMAIN db'.groups = {q.id} \cup DOMAIN db.groups
          /\ db'.groups[q.id] = q.row
          /\ \A g \in DOMAIN db.groups : g # q.id => db'.groups[g] = db.groups[g]
          /\ DOMAIN db'.options = DOMAIN q.held \cup DOMAIN db.options
          /\ \A o \in DOMAIN q.held : db'.options[o] = q.held[o]
          /\ \A o \in DOMAIN db.options \ DOMAIN q.held : db'.options[o] = db.options[o]
      BY <1>2, <2>2, SaveGroupIs
    <3>2. /\ q.id <= ids
          /\ \A o \in DOMAIN q.held : o <= ids /\ q.held[o].group = q.id
      BY <3>1 DEF TypeInv, StageOK, Saving
    <3>3. TablesOK(db')
      BY <3>1, Known DEF Sound, TablesOK, Keeps, TableNames
    <3>4. \A g \in DOMAIN db'.groups : db'.groups[g].store \in DOMAIN db.stores
      BY <3>1, Known, RefsAre DEF Sound
    <3>5. \A o \in DOMAIN db'.options : db'.options[o].group \in DOMAIN db'.groups
      BY <3>1, <3>2, Known, RefsAre DEF Sound
    <3>6. RefsHold(db')
      BY <3>1, <3>4, <3>5, Known, RefsAre DEF Sound, Keeps, TableNames
    <3>7. Numbered(db', ids)
      BY <3>1, <3>2, Known, NumbersAre DEF Keeps, TableNames
    <3> QED BY <3>1, <3>3, <3>6, <3>7, EndIsFine DEF Sound
  <2> QED BY <2>1, <2>2
<1>3. CASE DeleteGroup(r)
  <2>1. Ends(r) /\ Sound(db') /\ GroupGone(req[r].id, db')
    BY <1>3, DeleteGroupIs
  <2>2. Numbered(db', ids)
    BY <2>1, Known, NumbersAre DEF GroupGone, Keeps, TableNames
  <2> QED BY <2>1, <2>2, EndIsFine
<1>4. CASE SaveOption(r)
  <2>1. CASE db' = db
    BY <1>4, <2>1, SaveOptionIs, Known, EndIsFine
  <2>2. CASE db' # db
    <3>1. /\ req[r].pc \in {"insertOption", "saveOption"} /\ Ends(r)
          /\ req[r].row.group \in DOMAIN db.groups
          /\ \E k \in Ids : k <= ids /\ Puts(db, db', "options", k, req[r].row)
      BY <1>4, <2>2, SaveOptionIs
    <3>2. req[r].row \in OptionRow
      BY <3>1 DEF TypeInv, StageOK
    <3>3. Sound(db') /\ Numbered(db', ids)
      BY <3>1, <3>2, Known, PutOption, PutNumbered DEF TableNames
    <3> QED BY <3>1, <3>3, EndIsFine
  <2> QED BY <2>1, <2>2
<1>5. CASE DeleteOption(r)
  <2>1. Ends(r) /\ Drops(db, db', "options", {req[r].id})
    BY <1>5, DeleteOptionIs
  <2>2. Sound(db') /\ Numbered(db', ids)
    BY <2>1, Known, DropLeaf, DropNumbered DEF TableNames
  <2> QED BY <2>1, <2>2, EndIsFine
<1>6. CASE InsertLink(r)
  <2>1. CASE db' = db
    BY <1>6, <2>1, InsertLinkIs, Known, EndIsFine
  <2>2. CASE db' # db
    <3>1. /\ req[r].pc = "insertLink" /\ Ends(r)
          /\ req[r].row.product \in DOMAIN db.products /\ req[r].row.group \in DOMAIN db.groups
          /\ \E k \in Ids : k <= ids /\ Puts(db, db', "links", k, req[r].row)
      BY <1>6, <2>2, InsertLinkIs
    <3>2. req[r].row \in LinkRow
      BY <3>1 DEF TypeInv, StageOK
    <3>3. Sound(db') /\ Numbered(db', ids)
      BY <3>1, <3>2, Known, PutLink, PutNumbered DEF TableNames
    <3> QED BY <3>1, <3>3, EndIsFine
  <2> QED BY <2>1, <2>2
<1>7. CASE DeleteLink(r)
  <2>1. Ends(r) /\ Drops(db, db', "links", {req[r].id})
    BY <1>7, DeleteLinkIs
  <2>2. Sound(db') /\ Numbered(db', ids)
    BY <2>1, Known, DropLeaf, DropNumbered DEF TableNames
  <2> QED BY <2>1, <2>2, EndIsFine
<1> QED BY <1>1, <1>2, <1>3, <1>4, <1>5, <1>6, <1>7 DEF ModifiersStep

\* What takes one call leaves the requests alone, and what it leaves is sound.
LEMMA DirectFine ==
  ASSUME TypeInv, Direct
  PROVE  /\ req' = req /\ Sound(db') /\ Numbered(db', ids')
         /\ ids' \in Nat /\ ids <= ids' /\ ids' <= MaxIds
<1>1. ASSUME NEW t \in TableNames, NEW row, Creates(t, row)
      PROVE  /\ req' = req /\ Numbered(db', ids')
             /\ ids' \in Nat /\ ids <= ids' /\ ids' <= MaxIds
  <2>1. ids + 1 \in Ids /\ ids' = ids + 1 /\ Puts(db, db', t, ids + 1, row)
    BY <1>1 DEF Creates
  <2>2. ids' \in Nat /\ ids <= ids' /\ ids' <= MaxIds
    BY <2>1, Known, IdsAreNumbers DEF Ids
  <2>3. \A k \in Ids : k <= ids => k <= ids'
    BY <2>2, Known, Further
  <2>4. Numbered(db, ids')
    BY <2>3, Known, NumbersAre
  <2>5. Numbered(db', ids')
    BY <2>1, <2>2, <2>4, PutNumbered
  <2> QED BY <1>1, <2>2, <2>5 DEF Creates
<1>2. CASE \E s \in Settings : Creates("stores", [pin |-> None, settings |-> s])
  BY <1>1, <1>2, Known, PutStore DEF Creates, StoreRow, TableNames
<1>3. CASE \E s \in DOMAIN db.stores, name \in Settings :
             Creates("categories", [store |-> s, name |-> name, active |-> TRUE])
  BY <1>1, <1>3, Known, PutCategory DEF Creates, CategoryRow, TableNames
<1>4. CASE \E s \in DOMAIN db.stores : Creates("stations", [store |-> s])
  BY <1>1, <1>4, Known, PutStation DEF Creates, StationRow, TableNames
<1>5. CASE /\ req' = req /\ scene' = scene /\ ids' = ids
           /\ history' = history \cup {{"moved"}}
           /\ \E st \in DOMAIN db.stations, s \in DOMAIN db.stores :
                Puts(db, db', "stations", st, [store |-> s])
  BY <1>5, Known, PutStation, PutNumbered DEF StationRow, TableNames
<1>6. CASE /\ req' = req /\ scene' = scene /\ history' = history
           /\ ids + 1 \in Ids /\ ids' = ids + 1
           /\ Keeps(db, db', {"files"}) /\ db'.files = db.files \cup {ids + 1}
  <2>1. ids' \in Nat /\ ids <= ids' /\ ids' <= MaxIds
    BY <1>6, Known, IdsAreNumbers DEF Ids
  <2>2. \A k \in Ids : k <= ids => k <= ids'
    BY <2>1, Known, Further
  <2>3. Numbered(db', ids')
    BY <1>6, <2>2, Known, NumbersAre DEF Keeps, TableNames
  <2>4. TablesOK(db')
    BY <1>6, Known DEF Sound, TablesOK, Keeps, TableNames
  <2>5. RefsHold(db')
    BY <1>6, Known, RefsAre DEF Sound, Keeps, TableNames
  <2> QED BY <1>6, <2>1, <2>3, <2>4, <2>5 DEF Sound
<1>7. CASE \E p \in DOMAIN db.products :
             Creates("items", [product |-> p, station |-> db.products[p].station])
  <2>1. PICK p \in DOMAIN db.products :
          Creates("items", [product |-> p, station |-> db.products[p].station])
    BY <1>7
  <2>2. db.products[p].station \in DOMAIN db.stations
    BY Known, RefsAre DEF Sound
  <2>3. Sound(db')
    BY <2>1, <2>2, Known, PutItem DEF Creates, ItemRow
  <2> QED BY <1>1, <2>1, <2>3 DEF TableNames
<1>8. CASE /\ req' = req /\ scene' = scene /\ history' = history /\ ids' = ids
           /\ Keeps(db, db', {"items"}) /\ db'.items = NoRows
  <2>1. Table(db'.items, Ids, ItemRow) /\ DOMAIN db'.items = {}
    BY <1>8 DEF NoRows, Table
  <2>2. TablesOK(db')
    BY <1>8, <2>1, Known DEF Sound, TablesOK, Keeps, TableNames
  <2>3. RefsHold(db')
    BY <1>8, <2>1, Known, RefsAre DEF Sound, Keeps, TableNames
  <2>4. Numbered(db', ids')
    BY <1>8, <2>1, Known, NumbersAre DEF Keeps, TableNames
  <2> QED BY <1>8, <2>2, <2>3, <2>4, Known DEF Sound
<1> QED BY <1>2, <1>3, <1>4, <1>5, <1>6, <1>7, <1>8, DirectIs

\* A restart forgets every handler.
LEMMA RestartIs ==
  ASSUME TypeInv, Restart
  PROVE  /\ db' = db /\ ids' = ids /\ scene' = scene /\ history \subseteq history'
         /\ DOMAIN req' = Requests /\ \A r \in Requests : req'[r] = Idle
BY DEF Restart

LEMMA RequestBegins ==
  ASSUME TypeInv, NEW r \in Requests, Request(r)
  PROVE  Begun(r)
BY StoresRequestOK, NotesRequestOK, AccountsRequestOK, CategoriesRequestOK, StationsRequestOK,
   ProductsRequestOK, ModifiersRequestOK DEF Request

LEMMA StepFine ==
  ASSUME TypeInv, NEW r \in Requests, Step(r)
  PROVE  Fine(r)
BY StoresStepFine, NotesStepFine, AccountsStepFine, CategoriesStepFine, StationsStepFine,
   ProductsStepFine, ModifiersStepFine DEF Step

LEMMA TypeInvInit == Init => TypeInv
<1> SUFFICES ASSUME Init PROVE TypeInv
  OBVIOUS
<1>1. PICK s \in Scenes : db = s.db /\ ids = s.ids /\ req = [r \in Requests |-> Idle]
  BY DEF Init
<1>2. TablesOK(db) /\ ids \in 0..MaxIds
  BY <1>1, ShopTablesAssumption
<1>3. RefsHold(db) /\ Numbered(db, ids)
  BY <1>1, ScenesAssumption
<1>4. ids \in Nat
  BY <1>2
<1>5. \A r \in Requests :
        DOMAIN req[r] = DOMAIN Idle /\ req[r].new \subseteq 1..ids /\ StageOK(req[r], ids)
  BY <1>1, <1>4, IdleOK
<1> QED BY <1>1, <1>2, <1>3, <1>5 DEF TypeInv, TypeOK

LEMMA TypeInvNext == TypeInv /\ [Next]_vars => TypeInv'
<1> SUFFICES ASSUME TypeInv, [Next]_vars PROVE TypeInv'
  OBVIOUS
<1>1. ASSUME NEW r \in Requests, Step(r) PROVE TypeInv'
  BY <1>1, StepFine, FineIsTyped
<1>2. ASSUME NEW r \in Requests, Request(r) PROVE TypeInv'
  BY <1>2, RequestBegins, BegunIsFine, FineIsTyped
<1>3. CASE Direct
  <2>1. /\ req' = req /\ Sound(db') /\ Numbered(db', ids')
        /\ ids' \in Nat /\ ids <= ids' /\ ids' <= MaxIds
    BY <1>3, DirectFine
  <2>2. ids' \in 0..MaxIds
    BY <2>1, IdsAreNumbers
  <2>3. \A r \in Requests : StageOK(req'[r], ids')
    BY <2>1, StageGrows, Known DEF TypeInv
  <2>4. \A r \in Requests : DOMAIN req'[r] = DOMAIN Idle /\ req'[r].new \subseteq 1..ids'
    BY <2>1, Known DEF TypeInv, TypeOK
  <2> QED BY <2>1, <2>2, <2>3, <2>4, Known DEF TypeInv, TypeOK, Sound
<1>4. CASE Restart
  <2>1. /\ db' = db /\ ids' = ids
        /\ DOMAIN req' = Requests /\ \A r \in Requests : req'[r] = Idle
    BY <1>4, RestartIs
  <2>2. \A r \in Requests :
          DOMAIN req'[r] = DOMAIN Idle /\ req'[r].new \subseteq 1..ids' /\ StageOK(req'[r], ids')
    BY <2>1, IdleOK, Known
  <2> QED BY <2>1, <2>2 DEF TypeInv, TypeOK
<1>5. CASE UNCHANGED vars
  BY <1>5 DEF vars, TypeInv, TypeOK
<1> QED BY <1>1, <1>2, <1>3, <1>4, <1>5 DEF Next

\* Whatever requests do with the tables at once, and wherever the process is
\* stopped, every table keeps rows of its type under ids that were handed out,
\* and every foreign key finds its row: a handler that saves a copy of a row
\* whose parent is gone is refused, and a deletion takes with it what refers to
\* the row it deletes.
THEOREM ShopTypeCorrect == Spec => []TypeOK
<1>1. TypeInv => TypeOK
  BY DEF TypeInv
<1> QED BY <1>1, TypeInvInit, TypeInvNext, PTL DEF Spec
=============================================================================
