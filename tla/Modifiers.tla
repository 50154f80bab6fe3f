------------------------------- MODULE Modifiers -------------------------------
(***************************************************************************)
(* ModifiersService: groups of options a guest chooses from, and the       *)
(* products they are offered with.                                         *)
(***************************************************************************)
EXTENDS ShopTables

CONSTANTS GroupPatches      \* bodies of POST and PATCH of groups
ASSUME ModifiersAssumption == GroupPatches \subseteq GroupPatch

\* validateSelectionBounds.
ValidBounds(kind, min, max) == 0 <= min /\ min <= max /\ (kind = "SINGLE" => max <= 1)

Valid(g) == ValidBounds(g.kind, g.min, g.max)

OptionsOf(g) == Of(db.options, "group", g)
Available(g) == {o \in OptionsOf(g) : db.options[o].on}

\* createGroup: exactly one of a SINGLE group and none of a MULTIPLE one,
\* unless the body says otherwise.
NewGroup(s, patch) ==
  LET kind == Over(patch.kind, "SINGLE")
      usual == IF kind = "SINGLE" THEN 1 ELSE 0
  IN  [store |-> s, kind |-> kind, min |-> Over(patch.min, usual), max |-> Over(patch.max, usual)]

CreateGroup(r) ==
  \E s \in DOMAIN db.stores, patch \in GroupPatches :
    /\ Valid(NewGroup(s, patch))
    /\ AcceptInsert(r, "createGroup", [Idle EXCEPT !.pc = "insertGroup",
                                                   !.row = NewGroup(s, patch)], 1, {})

InsertGroup(r) ==
  LET q == req[r] IN
    /\ At(r, "insertGroup")
    /\ IF q.row.store \in DOMAIN db.stores
       THEN Commit(r, Saved("groups", NewId(q), q.row)) ELSE Abort(r)

\* updateGroup: the group is loaded with its options.
LoadGroup(r) ==
  \E g \in DOMAIN db.groups, patch \in GroupPatches :
    LET row == Assign(db.groups[g], patch) IN
      /\ Valid(row)
      /\ Accept(r, "updateGroup",
                [Idle EXCEPT !.pc = "saveGroup", !.id = g, !.asked = Asked(patch), !.row = row,
                             !.held = [o \in OptionsOf(g) |-> db.options[o]]])

\* Mutation: only the columns the body sets are written.
GroupPatched(q) ==
  IF q.id \in DOMAIN db.groups
  THEN [db EXCEPT !.groups[q.id] =
          [c \in DOMAIN @ |-> IF c \in q.asked THEN q.row[c] ELSE @[c]]]
  ELSE db

\* save: the copy replaces the row, and the options it holds replace theirs
\* (cascade: true).
GroupSaved(q) ==
  [Saved("groups", q.id, q.row) EXCEPT !.options = Put(q.held, @)]

\* An option made meanwhile would lose its group, which its column forbids.
SaveGroup(r) ==
  LET q == req[r] IN
    /\ At(r, "saveGroup")
    /\ IF q.row.store \in DOMAIN db.stores /\ OptionsOf(q.id) \subseteq DOMAIN q.held
       THEN Commit(r, GroupSaved(q)) ELSE Abort(r)

\* deleteGroup: load, then remove; options and links go with the group.
LoadForDeleteGroup(r) ==
  \E g \in DOMAIN db.groups :
    Accept(r, "deleteGroup", [Idle EXCEPT !.pc = "deleteGroup", !.id = g])

DeleteGroup(r) == At(r, "deleteGroup") /\ Commit(r, WithoutGroups(db, {req[r].id}))

CreateOption(r) ==
  \E g \in DOMAIN db.groups, on \in BOOLEAN :
    AcceptInsert(r, "createOption", [Idle EXCEPT !.pc = "insertOption",
                                                 !.row = [group |-> g, on |-> on]], 1, {})

\* Mutation: the option itself is counted.
SpareWith(g, o) == Cardinality(Available(g)) >= db.groups[g].min

\* The options that stay available without o are enough.
Spare(g, o) == Cardinality(Available(g) \ {o}) >= db.groups[g].min

\* updateOption: the option is loaded with its group and all options of it.
LoadOption(r) ==
  \E o \in DOMAIN db.options, on \in BOOLEAN \cup {Same} :
    LET own == db.options[o] IN
      /\ on = FALSE => Spare(own.group, o)
      /\ Accept(r, "updateOption",
                [Idle EXCEPT !.pc = "saveOption", !.id = o,
                             !.asked = Asked([on |-> on]),
                             !.row = [own EXCEPT !.on = Over(on, @)]])

\* Inserts and updates of an option need its group; an option that is gone
\* is inserted again.
SaveOption(r) ==
  LET q == req[r] IN
    /\ q.pc \in {"insertOption", "saveOption"}
    /\ IF q.row.group \in DOMAIN db.groups
       THEN Commit(r, Saved("options", IF q.pc = "saveOption" THEN q.id ELSE NewId(q), q.row))
       ELSE Abort(r)

\* deleteOption: an option that is not available may always go.
LoadForDeleteOption(r) ==
  \E o \in DOMAIN db.options :
    /\ db.options[o].on => Spare(db.options[o].group, o)
    /\ Accept(r, "deleteOption", [Idle EXCEPT !.pc = "deleteOption", !.id = o])

DeleteOption(r) ==
  /\ At(r, "deleteOption")
  /\ Commit(r, [db EXCEPT !.options = Without(@, {req[r].id})])

Linked(p, g) == \E l \in DOMAIN db.links : db.links[l] = [product |-> p, group |-> g]

\* Modifier group #... does not belong to the product's store.
SameShop(p, g) == db.products[p].store = db.groups[g].store

\* assignGroupToProduct, up to the save of the link.
AssignGroup(r) ==
  \E p \in DOMAIN db.products, g \in DOMAIN db.groups :
    /\ ~db.products[p].deleted
    /\ SameShop(p, g)
    /\ ~Linked(p, g)
    /\ AcceptInsert(r, "assign", [Idle EXCEPT !.pc = "insertLink",
                                              !.row = [product |-> p, group |-> g]], 1, {})

\* The unique key of product and group, and the foreign keys.
InsertLink(r) ==
  LET q == req[r] IN
    /\ At(r, "insertLink")
    /\ IF /\ q.row.product \in DOMAIN db.products /\ q.row.group \in DOMAIN db.groups
          /\ ~Linked(q.row.product, q.row.group)
       THEN Commit(r, Saved("links", NewId(q), q.row)) ELSE Abort(r)

\* removeGroupFromProduct.
LoadForUnassign(r) ==
  \E l \in DOMAIN db.links :
    Accept(r, "unassign", [Idle EXCEPT !.pc = "deleteLink", !.id = l])

DeleteLink(r) ==
  /\ At(r, "deleteLink")
  /\ Commit(r, [db EXCEPT !.links = Without(@, {req[r].id})])

ModifiersRequest(r) ==
  \/ CreateGroup(r)
  \/ LoadGroup(r)
  \/ LoadForDeleteGroup(r)
  \/ CreateOption(r)
  \/ LoadOption(r)
  \/ LoadForDeleteOption(r)
  \/ AssignGroup(r)
  \/ LoadForUnassign(r)

ModifiersStep(r) ==
  \/ InsertGroup(r)
  \/ SaveGroup(r)
  \/ DeleteGroup(r)
  \/ SaveOption(r)
  \/ DeleteOption(r)
  \/ InsertLink(r)
  \/ DeleteLink(r)
=============================================================================
