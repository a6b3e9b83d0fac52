--------------------------- MODULE OperationTypes ---------------------------
(***************************************************************************)
(* The vocabulary of the operations ledger: the status taxonomy of the     *)
(* `operations` table and the identity of a row.  An operation id is a     *)
(* number that grows in the order the rows are stamped, which is the order *)
(* (submitted_at, id) by which the store's queries sort.                   *)
(*                                                                         *)
(* A key stands for (kind, canonical_params_hash, input_version), the      *)
(* columns of the partial unique index.                                    *)
(***************************************************************************)
EXTENDS Naturals

CONSTANTS
  Kind,     \* operation kinds, one worker task each
  Key,      \* idempotency keys
  KindOf,   \* the kind a key belongs to
  MaxOps    \* bound: how many ids are ever stamped

ASSUME KeyAssumption == Key # {} /\ KindOf \in [Key -> Kind]
ASSUME MaxOpsAssumption == MaxOps \in Nat

OpId == 1 .. MaxOps

\* No row, and the id of no operation.
NoOp == 0

Terminal == {"succeeded", "failed", "cancelled", "interrupted"}

\* Rows a booting backend finds mid-flight (reconcile_interrupted).
InFlight == {"running", "cancel_requested"}

NonTerminal == {"queued"} \union InFlight

\* Rows that answer a resubmission of their key: the predicate of the
\* partial unique index and of find_by_idempotency_key.
Reserved == NonTerminal \union {"succeeded"}

\* "absent" is the id with no row.
RowStatus == {"absent"} \union NonTerminal \union Terminal

=============================================================================
