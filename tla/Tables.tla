-------------------------------- MODULE Tables --------------------------------
(***************************************************************************)
(* Tables as the modules of this project model them: functions from the    *)
(* primary keys of the rows that exist to those rows.                      *)
(***************************************************************************)
LOCAL INSTANCE Functions

NoRows == [k \in {} |-> k]

Table(t, keys, rows) == DOMAIN t \subseteq keys /\ t \in [DOMAIN t -> rows]

Without(t, gone) == Restrict(t, DOMAIN t \ gone)

\* The table t with the given rows inserted, or put in place of its own.
Put(rows, t) ==
  [k \in DOMAIN rows \cup DOMAIN t |-> IF k \in DOMAIN rows THEN rows[k] ELSE t[k]]
Row(k, value) == [x \in {k} |-> value]
=============================================================================
