---------------------------- MODULE ModifierSelection --------------------------
(***************************************************************************)
(* ModifierSelectionService.validateAndCalculate: whether the options that *)
(* were chosen with a product may be ordered, one group of the request per *)
(* step; and what the menu offers of the same groups.                      *)
(***************************************************************************)
EXTENDS Sequences, Sums

CONSTANTS
  Groups, Options,
  Menus,        \* the groups linked to a product: id -> [kind, min, max, active,
                \* options: id -> [on, price]]
  Selections    \* request bodies: [group, options: a list], in a list

VARIABLES
  menu,         \* the groups of the product as they were loaded
  chosen,       \* the body
  at,           \* the index of the entry that is looked at next
  seen,         \* the groups the entries before it named
  taken,        \* the options that were noted, with their groups
  verdict       \* "open", "accepted" or "refused"

selection == <<menu, chosen, at, seen, taken, verdict>>

IsGroup(group) ==
  /\ group.kind \in {"SINGLE", "MULTIPLE"} /\ group.min \in Nat /\ group.max \in Nat
  /\ group.active \in BOOLEAN
  /\ DOMAIN group.options \subseteq Options
  /\ group.options \in [DOMAIN group.options -> [on : BOOLEAN, price : Int]]
Entry == [group : Groups, options : Seq(Options)]

ASSUME ModifierSelectionAssumption ==
  /\ \A some \in Menus : DOMAIN some \subseteq Groups /\ \A g \in DOMAIN some : IsGroup(some[g])
  /\ Selections \subseteq Seq(Entry)

-----------------------------------------------------------------------------
(* toModifierGroupsView: what a till may offer with the product. *)

OfferedGroups == {g \in DOMAIN menu : menu[g].active}
OfferedOptions(g) == {o \in DOMAIN menu[g].options : menu[g].options[o].on}

-----------------------------------------------------------------------------

SelectionInit ==
  /\ menu \in Menus /\ chosen \in Selections
  /\ at = 1 /\ seen = {} /\ taken = <<>> /\ verdict = "open"

Named(list) == {list[i] : i \in DOMAIN list}

\* Mutation: an option may be named as often as the group takes options.
AnyNames(list) == TRUE

Distinct(list) == \A i, j \in DOMAIN list : list[i] = list[j] => i = j

Bounded(group, list) ==
  /\ group.kind = "SINGLE" => Len(list) <= 1
  /\ group.min <= Len(list) /\ Len(list) <= group.max

\* The checks of one entry; the first that fails throws.
Passes(entry) ==
  /\ entry.group \notin seen
  /\ entry.group \in DOMAIN menu /\ menu[entry.group].active
  /\ Distinct(entry.options)
  /\ Bounded(menu[entry.group], entry.options)
  /\ \A o \in Named(entry.options) :
       o \in DOMAIN menu[entry.group].options /\ menu[entry.group].options[o].on

TakeEntry ==
  LET entry == chosen[at] IN
    /\ verdict = "open" /\ at <= Len(chosen)
    /\ Passes(entry)
    /\ at' = at + 1
    /\ seen' = seen \cup {entry.group}
    /\ taken' = taken \o [i \in DOMAIN entry.options |-> <<entry.group, entry.options[i]>>]
    /\ UNCHANGED <<menu, chosen, verdict>>

RefuseEntry ==
  /\ verdict = "open" /\ at <= Len(chosen)
  /\ ~Passes(chosen[at])
  /\ verdict' = "refused"
  /\ UNCHANGED <<menu, chosen, at, seen, taken>>

\* Mutation: groups that require something may be left out.
NothingMissing == TRUE

\* Required groups must be present in the selection.
RequiredSeen == \A g \in DOMAIN menu : menu[g].active /\ menu[g].min > 0 => g \in seen

Conclude ==
  /\ verdict = "open" /\ at = Len(chosen) + 1
  /\ verdict' = IF RequiredSeen THEN "accepted" ELSE "refused"
  /\ UNCHANGED <<menu, chosen, at, seen, taken>>

SelectionNext == TakeEntry \/ RefuseEntry \/ Conclude

SelectionSpec == SelectionInit /\ [][SelectionNext]_selection

-----------------------------------------------------------------------------

\* A choice a till can put together from what the menu offers: for some of the
\* groups offered, among them those that require something, a set of options
\* offered, of a size the group allows.
OnOffer ==
  /\ \A i, j \in DOMAIN chosen : chosen[i].group = chosen[j].group => i = j
  /\ \A i \in DOMAIN chosen :
       /\ chosen[i].group \in OfferedGroups
       /\ Named(chosen[i].options) \subseteq OfferedOptions(chosen[i].group)
       /\ Distinct(chosen[i].options) /\ Bounded(menu[chosen[i].group], chosen[i].options)
  /\ \A g \in OfferedGroups :
       menu[g].min > 0 => \E i \in DOMAIN chosen : chosen[i].group = g

\* validateAndCalculate accepts exactly the choices toModifierGroupsView lets
\* a till put together, although each of the two decides for itself which
\* groups and options count.
OfferedIsAccepted ==
  /\ verdict = "accepted" => OnOffer
  /\ verdict = "refused" => ~OnOffer

\* modifierTotal.
Price(pair) == menu[pair[1]].options[pair[2]].price
ModifierTotal == SumOf([i \in DOMAIN taken |-> Price(taken[i])])

\* An accepted choice costs what its options cost, each of them once, however
\* the request names them.
ChargedOnce ==
  verdict = "accepted" =>
    LET pairs == {c \in Groups \X Options :
                    \E i \in DOMAIN chosen :
                      c[1] = chosen[i].group /\ c[2] \in Named(chosen[i].options)}
    IN  ModifierTotal = SumOf([c \in pairs |-> Price(c)])
=============================================================================
