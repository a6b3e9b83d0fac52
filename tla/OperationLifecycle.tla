------------------------- MODULE OperationLifecycle -------------------------
(***************************************************************************)
(* What the operations ledger promises about its rows, with no workers,    *)
(* requests, crashes or events: rows are created under a free idempotency  *)
(* key, started oldest first within their kind, may be asked to cancel     *)
(* until they are finished, reach exactly one terminal status, and are     *)
(* interrupted together when the backend boots.                            *)
(*                                                                         *)
(* Operations implements this specification.                               *)
(***************************************************************************)
EXTENDS OperationTypes

VARIABLES
  status,    \* status of every row
  keyOf,     \* idempotency key of every row; meaningless while "absent"
  started    \* rows whose started_at is set

lifecycleVars == <<status, keyOf, started>>

HeldBy(k) == {o \in OpId : status[o] \in Reserved /\ keyOf[o] = k}

LifecycleInit ==
  /\ status = [o \in OpId |-> "absent"]
  /\ keyOf \in [OpId -> Key]
  /\ started = {}

\* A row is created only while no row holds its key.
Create(o, k) ==
  /\ status[o] = "absent"
  /\ HeldBy(k) = {}
  /\ status' = [status EXCEPT ![o] = "queued"]
  /\ keyOf' = [keyOf EXCEPT ![o] = k]
  /\ UNCHANGED started

\* Rows of one kind start in the order they were stamped.
Begin(o) ==
  /\ status[o] = "queued"
  /\ \A p \in OpId : /\ status[p] = "queued"
                     /\ KindOf[keyOf[p]] = KindOf[keyOf[o]]
                     => o <= p
  /\ status' = [status EXCEPT ![o] = "running"]
  /\ started' = started \union {o}
  /\ UNCHANGED keyOf

AskCancel(o) ==
  /\ status[o] \in {"queued", "running"}
  /\ status' = [status EXCEPT ![o] = "cancel_requested"]
  /\ UNCHANGED <<keyOf, started>>

\* A cancelled row was asked to; any other outcome needs a started row.
Finish(o, outcome) ==
  /\ status[o] \in InFlight
  /\ IF outcome = "cancelled" THEN status[o] = "cancel_requested"
                              ELSE o \in started
  /\ status' = [status EXCEPT ![o] = outcome]
  /\ UNCHANGED <<keyOf, started>>

Interrupt ==
  /\ status' = [o \in OpId |-> IF status[o] \in InFlight THEN "interrupted"
                                                         ELSE status[o]]
  /\ UNCHANGED <<keyOf, started>>

LifecycleNext ==
  \/ \E o \in OpId : \/ \E k \in Key : Create(o, k)
                     \/ Begin(o)
                     \/ AskCancel(o)
                     \/ \E t \in Terminal \ {"interrupted"} : Finish(o, t)
  \/ Interrupt

LifecycleSpec == LifecycleInit /\ [][LifecycleNext]_lifecycleVars

=============================================================================
