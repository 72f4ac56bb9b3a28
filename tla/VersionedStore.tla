--------------------------- MODULE VersionedStore ---------------------------
(***************************************************************************)
(* What the management store promises to its writers, however many control *)
(* API processes share its database: there is one copy of the data, every  *)
(* write is applied to everything written before it, as a whole, and gives *)
(* the data the next version.                                              *)
(***************************************************************************)
EXTENDS Naturals

CONSTANTS
  Tables,  \* the tables of the management data
  Kinds,   \* the kinds of writes
  Touches  \* the tables that a kind of write changes

VARIABLES version, applied \* how often each kind of write was applied to a table

store_vars == <<version, applied>>

NothingApplied == [t \in Tables |-> [w \in Kinds |-> 0]]

\* The data after one more write.
Apply(tables, w) ==
  [t \in Tables |-> IF t \in Touches[w] THEN [tables[t] EXCEPT ![w] = @ + 1]
                                        ELSE tables[t]]

StoreInit ==
  /\ version = 1
  /\ applied = NothingApplied

Write(w) ==
  /\ version' = version + 1
  /\ applied' = Apply(applied, w)

StoreSpec == StoreInit /\ [][\E w \in Kinds : Write(w)]_store_vars

=============================================================================
