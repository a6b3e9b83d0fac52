----------------------------- MODULE Operations -----------------------------
(***************************************************************************)
(* The operations ledger at work: HTTP requests that submit and cancel     *)
(* operations, one worker task per kind that claims and executes them, the *)
(* broadcaster every one of them publishes to, and crashes of the process. *)
(*                                                                         *)
(* Every store method holds the connection mutex for one transaction, so   *)
(* it is one step.  Between two store calls, and between a commit and the  *)
(* publish that follows it, any other task may run.                        *)
(***************************************************************************)
EXTENDS OperationTypes, FiniteSets

CONSTANTS
  Client,       \* concurrent HTTP requests
  MaxCrashes,   \* bound: process crashes
  MaxFaults     \* bound: store calls that return an error

ASSUME BoundsAssumption == MaxCrashes \in Nat /\ MaxFaults \in Nat

VARIABLES
  status, keyOf, started,   \* the persisted rows, see OperationLifecycle
  cancelAsked,  \* rows whose cancel_requested_at is set
  nextId,       \* the next id to stamp
  req,          \* what each HTTP request is doing
  wk,           \* what the worker of each kind is doing
  view,         \* a subscriber since boot: its snapshot, then every
                \* published event written over it, last write wins
  up,           \* the process runs
  crashes, faults,
  executed,     \* history: rows whose handler was entered
  stranded,     \* history: started rows whose terminal write failed
  shown         \* history: rows of which a terminal status was ever in view

rowVars   == <<status, keyOf, started, cancelAsked>>
bounds    == <<crashes, faults>>
history   == <<executed, stranded, shown>>
vars      == <<rowVars, nextId, req, wk, view, up, bounds, history>>

\* The ledger's rows are what a lifecycle is about; the rest is how they get
\* there.
Lifecycle == INSTANCE OperationLifecycle WITH status <- status, keyOf <- keyOf, started <- started

HeldBy(k) == Lifecycle!HeldBy(k)

-----------------------------------------------------------------------------
(* Types *)

\* Between requests; "error" after a request that was answered with one.
Resting == {"idle", "error"}
RequestPc == Resting \union {"insert", "reread", "refind", "publish"}

\* The worker owns row `op` while its pc is in Owning.
Owning == {"announceStart", "check", "handler", "recheck", "write"}
WorkerPc == Owning \union {"scan", "claim", "idle", "announceEnd"}

Outcome == {"succeeded", "failed", "cancelled"}

AnyKey == CHOOSE k \in Key : TRUE
IdleRequest == [pc |-> "idle", op |-> NoOp, key |-> AnyKey, seen |-> "absent"]
FreshWorker == [pc |-> "scan", op |-> NoOp, outcome |-> "failed"]

RequestState == [pc : RequestPc, op : OpId \union {NoOp}, key : Key, seen : RowStatus]
WorkerState == [pc : WorkerPc, op : OpId \union {NoOp}, outcome : Outcome]

TypeOK ==
  /\ status \in [OpId -> RowStatus]
  /\ keyOf \in [OpId -> Key]
  /\ started \subseteq OpId
  /\ cancelAsked \subseteq OpId
  /\ nextId \in 1 .. MaxOps + 1
  /\ req \in [Client -> RequestState]
  /\ wk \in [Kind -> WorkerState]
  /\ view \in [OpId -> RowStatus]
  /\ up \in BOOLEAN
  /\ crashes \in 0 .. MaxCrashes
  /\ faults \in 0 .. MaxFaults
  /\ executed \subseteq OpId
  /\ stranded \subseteq OpId
  /\ shown \subseteq OpId

Init ==
  /\ status = [o \in OpId |-> "absent"]
  /\ keyOf = [o \in OpId |-> AnyKey]
  /\ started = {}
  /\ cancelAsked = {}
  /\ nextId = 1
  /\ req = [c \in Client |-> IdleRequest]
  /\ wk = [k \in Kind |-> FreshWorker]
  /\ view = [o \in OpId |-> "absent"]
  /\ up = TRUE
  /\ crashes = 0
  /\ faults = 0
  /\ executed = {}
  /\ stranded = {}
  /\ shown = {}

\* Every event published reaches the view.
Publish(o, seen) ==
  /\ view' = [view EXCEPT ![o] = seen]
  /\ shown' = IF seen \in Terminal THEN shown \union {o} ELSE shown
  /\ UNCHANGED <<executed, stranded>>

\* A store call fails: the database is locked, full or unreadable.
Fault == faults < MaxFaults /\ faults' = faults + 1
NoFault == UNCHANGED faults

-----------------------------------------------------------------------------
(* POST /api/v1/import and POST /api/v1/rescan: submit_operation *)

RequestAt(c, pc) == up /\ req[c].pc = pc

\* The dedupe lookup.  A row that holds the key answers the request and
\* nothing changes; otherwise the new row's id and submitted_at are stamped.
Submit(c, k) ==
  /\ up
  /\ req[c].pc \in Resting
  /\ HeldBy(k) = {}
  /\ nextId \in OpId
  /\ req' = [req EXCEPT ![c] = [pc |-> "insert", op |-> nextId, key |-> k, seen |-> "absent"]]
  /\ nextId' = nextId + 1
  /\ UNCHANGED <<rowVars, wk, view, up, bounds, history>>

\* Variant without the unique index.
InsertWithoutIndex(c) ==
  /\ RequestAt(c, "insert")
  /\ LET o == req[c].op IN
       /\ status' = [status EXCEPT ![o] = "queued"]
       /\ keyOf' = [keyOf EXCEPT ![o] = req[c].key]
  /\ req' = [req EXCEPT ![c].pc = "reread"]
  /\ UNCHANGED <<started, cancelAsked, nextId, wk, view, up, bounds, history>>

\* INSERT, rejected by the unique index when the key has been taken since.
InsertRow(c) ==
  \/ HeldBy(req[c].key) = {} /\ InsertWithoutIndex(c)
  \/ /\ RequestAt(c, "insert")
     /\ \/ HeldBy(req[c].key) # {} /\ NoFault
        \/ Fault
     /\ req' = [req EXCEPT ![c].pc = "refind"]
     /\ UNCHANGED <<rowVars, nextId, wk, view, up, crashes, history>>

\* insert drops the connection lock and reads the row back: what it
\* returns, and what will be published, is the row of that moment.
RereadRow(c) ==
  /\ RequestAt(c, "reread")
  /\ \/ /\ NoFault
        /\ req' = [req EXCEPT ![c].pc = "publish", ![c].seen = status[req[c].op]]
     \/ /\ Fault
        /\ req' = [req EXCEPT ![c].pc = "refind"]
  /\ UNCHANGED <<rowVars, nextId, wk, view, up, crashes, history>>

\* The insert failed: a row that holds the key answers, unpublished;
\* without one the request fails.
RefindRow(c) ==
  /\ RequestAt(c, "refind")
  /\ req' = [req EXCEPT ![c] =
               [IdleRequest EXCEPT !.pc = IF HeldBy(req[c].key) = {} THEN "error" ELSE "idle"]]
  /\ UNCHANGED <<rowVars, nextId, wk, view, up, bounds, history>>

\* The publish of a submit or of a cancel request, after its commit.
PublishRequest(c) ==
  /\ RequestAt(c, "publish")
  /\ Publish(req[c].op, req[c].seen)
  /\ req' = [req EXCEPT ![c] = IdleRequest]
  /\ UNCHANGED <<rowVars, nextId, wk, up, bounds>>

-----------------------------------------------------------------------------
(* DELETE /api/v1/operations/{id}: request_operation_cancel *)

AskCancel(c, o, next) ==
  /\ up
  /\ req[c].pc \in Resting
  /\ status' = [status EXCEPT ![o] = next]
  /\ cancelAsked' = cancelAsked \union {o}
  /\ req' = [req EXCEPT ![c] = [pc |-> "publish", op |-> o, key |-> AnyKey, seen |-> next]]
  /\ UNCHANGED <<keyOf, started, nextId, wk, view, up, bounds, history>>

\* Variant that finishes the row without its worker.
CancelAtOnce(c, o) == status[o] \in {"queued", "running"} /\ AskCancel(c, o, "cancelled")

\* Not found and 409 Conflict change nothing.  The worker's wake-up that
\* follows the publish is one of the causes of Wake.
RequestCancel(c, o) ==
  /\ status[o] \in {"queued", "running"}
  /\ AskCancel(c, o, "cancel_requested")

-----------------------------------------------------------------------------
(* The worker of kind k: OperationWorker::run *)

WorkerAt(k, pc) == up /\ wk[k].pc = pc

\* The row a worker's query returns: the oldest of its kind in S.
IsOldest(k, S, o) ==
  /\ o \in S /\ KindOf[keyOf[o]] = k
  /\ \A p \in S : KindOf[keyOf[p]] = k => o <= p

Queued == {o \in OpId : status[o] = "queued"}
CancelledInQueue == {o \in OpId : status[o] = "cancel_requested" /\ o \notin started}

NoneOf(k, S) == \A o \in S : KindOf[keyOf[o]] # k

Goto(k, pc) == wk' = [wk EXCEPT ![k].pc = pc]

AnnounceCancelled(k, o) ==
  wk' = [wk EXCEPT ![k] = [pc |-> "announceEnd", op |-> o, outcome |-> "cancelled"]]

\* Variant that leaves rows cancelled in the queue to nobody.
SkipQueuedCancellation(k) ==
  /\ WorkerAt(k, "scan")
  /\ Goto(k, "claim")
  /\ UNCHANGED <<rowVars, nextId, req, view, up, bounds, history>>

\* complete_next_queued_cancellation: a row cancelled before any worker
\* claimed it is finished here; an error only goes on to the claim.
CompleteQueuedCancellation(k) ==
  /\ WorkerAt(k, "scan")
  /\ \/ /\ NoFault
        /\ \E o \in CancelledInQueue :
             /\ IsOldest(k, CancelledInQueue, o)
             /\ status' = [status EXCEPT ![o] = "cancelled"]
             /\ AnnounceCancelled(k, o)
     \/ /\ \/ NoneOf(k, CancelledInQueue) /\ NoFault
           \/ Fault
        /\ Goto(k, "claim")
        /\ UNCHANGED status
  /\ UNCHANGED <<keyOf, started, cancelAsked, nextId, req, view, up, crashes, history>>

ClaimRow(k, o) ==
  /\ status' = [status EXCEPT ![o] = "running"]
  /\ started' = started \union {o}
  /\ wk' = [wk EXCEPT ![k].pc = "announceStart", ![k].op = o]

\* Variant that claims in any order.
ClaimAnyQueued(k) ==
  /\ WorkerAt(k, "claim")
  /\ \E o \in Queued : KindOf[keyOf[o]] = k /\ ClaimRow(k, o)
  /\ UNCHANGED <<keyOf, cancelAsked, nextId, req, view, up, bounds, history>>

\* claim_next_queued: FIFO; nothing to claim, or an error, ends in a pause.
Claim(k) ==
  /\ WorkerAt(k, "claim")
  /\ \/ /\ NoFault
        /\ \E o \in Queued : IsOldest(k, Queued, o) /\ ClaimRow(k, o)
     \/ /\ \/ NoneOf(k, Queued) /\ NoFault
           \/ Fault
        /\ Goto(k, "idle")
        /\ UNCHANGED <<status, started>>
  /\ UNCHANGED <<keyOf, cancelAsked, nextId, req, view, up, crashes, history>>

\* The idle timer or a cancel notification.
Wake(k) ==
  /\ WorkerAt(k, "idle")
  /\ Goto(k, "scan")
  /\ UNCHANGED <<rowVars, nextId, req, view, up, bounds, history>>

EndTurn(k) == wk' = [wk EXCEPT ![k] = FreshWorker]

\* The publishes that follow a claim and a terminal write: the row as the
\* transaction returned it.
PublishStart(k) ==
  /\ WorkerAt(k, "announceStart")
  /\ Publish(wk[k].op, "running")
  /\ Goto(k, "check")
  /\ UNCHANGED <<rowVars, nextId, req, up, bounds>>

PublishEnd(k) ==
  /\ WorkerAt(k, "announceEnd")
  /\ Publish(wk[k].op, wk[k].outcome)
  /\ EndTurn(k)
  /\ UNCHANGED <<rowVars, nextId, req, up, bounds>>

DecideWrite(k, outcome) ==
  wk' = [wk EXCEPT ![k] = [@ EXCEPT !.pc = "write", !.outcome = outcome]]

CancelSeen(k) == status[wk[k].op] = "cancel_requested"

EnterHandler(k) ==
  /\ Goto(k, "handler")
  /\ executed' = executed \union {wk[k].op}

\* Variant that executes whatever was claimed.
CheckNothing(k) ==
  /\ WorkerAt(k, "check")
  /\ EnterHandler(k)
  /\ UNCHANGED <<rowVars, nextId, req, view, up, bounds, stranded, shown>>

\* handle_checkpoint_before_execution
CheckBeforeExecution(k) ==
  /\ WorkerAt(k, "check")
  /\ \/ NoFault /\ CancelSeen(k) /\ DecideWrite(k, "cancelled") /\ UNCHANGED executed
     \/ NoFault /\ ~CancelSeen(k) /\ EnterHandler(k)
     \/ Fault /\ DecideWrite(k, "failed") /\ UNCHANGED executed
  /\ UNCHANGED <<rowVars, nextId, req, view, up, crashes, stranded, shown>>

\* The handler comes back.  It reports a cancellation only after one of its
\* checkpoints saw the request.
HandlerReturns(k) ==
  /\ WorkerAt(k, "handler")
  /\ \/ Goto(k, "recheck")
     \/ DecideWrite(k, "failed")
     \/ CancelSeen(k) /\ DecideWrite(k, "cancelled")
  /\ UNCHANGED <<rowVars, nextId, req, view, up, bounds, history>>

\* Variant that records every success as one.
RecheckNothing(k) ==
  /\ WorkerAt(k, "recheck")
  /\ DecideWrite(k, "succeeded")
  /\ UNCHANGED <<rowVars, nextId, req, view, up, bounds, history>>

\* Variant whose error path leaves the status a boot would.
RecheckInterrupts(k) ==
  /\ WorkerAt(k, "recheck")
  /\ \/ NoFault /\ DecideWrite(k, IF CancelSeen(k) THEN "cancelled" ELSE "succeeded")
     \/ Fault /\ DecideWrite(k, "interrupted")
  /\ UNCHANGED <<rowVars, nextId, req, view, up, crashes, history>>

\* complete_operation after a success: one more checkpoint.
RecheckAfterSuccess(k) ==
  /\ WorkerAt(k, "recheck")
  /\ \/ NoFault /\ DecideWrite(k, IF CancelSeen(k) THEN "cancelled" ELSE "succeeded")
     \/ Fault /\ DecideWrite(k, "failed")
  /\ UNCHANGED <<rowVars, nextId, req, view, up, crashes, history>>

\* The WHERE clause of the guarded terminal writes.
WriteApplies(k) ==
  IF wk[k].outcome = "cancelled" THEN CancelSeen(k) ELSE status[wk[k].op] \in InFlight

\* Variant that commits without publishing.
WriteUnpublished(k) ==
  /\ WorkerAt(k, "write")
  /\ status' = [status EXCEPT ![wk[k].op] = wk[k].outcome]
  /\ EndTurn(k)
  /\ UNCHANGED <<keyOf, started, cancelAsked, nextId, req, view, up, bounds, history>>

\* complete_success, complete_failure, complete_cancelled: a write that
\* matches no row publishes nothing; one that fails is logged and forgotten.
WriteTerminal(k) ==
  /\ WorkerAt(k, "write")
  /\ \/ /\ NoFault
        /\ WriteApplies(k)
        /\ status' = [status EXCEPT ![wk[k].op] = wk[k].outcome]
        /\ Goto(k, "announceEnd")
        /\ UNCHANGED stranded
     \/ /\ NoFault
        /\ ~WriteApplies(k)
        /\ EndTurn(k)
        /\ UNCHANGED <<status, stranded>>
     \/ /\ Fault
        /\ EndTurn(k)
        /\ stranded' = stranded \union {wk[k].op}
        /\ UNCHANGED status
  /\ UNCHANGED <<keyOf, started, cancelAsked, nextId, req, view, up, crashes, executed, shown>>

-----------------------------------------------------------------------------
(* The process *)

\* A crash, a kill or a shutdown that aborts the workers: what is in memory
\* is gone, the rows stay.
Crash ==
  /\ up
  /\ crashes < MaxCrashes
  /\ crashes' = crashes + 1
  /\ up' = FALSE
  /\ req' = [c \in Client |-> IdleRequest]
  /\ wk' = [k \in Kind |-> FreshWorker]
  /\ UNCHANGED <<rowVars, nextId, view, faults, history>>

BootInto(newStatus) ==
  /\ ~up
  /\ up' = TRUE
  /\ status' = newStatus
  /\ view' = newStatus
  /\ stranded' = {}
  /\ shown' = shown \union {o \in OpId : newStatus[o] \in Terminal}
  /\ UNCHANGED <<keyOf, started, cancelAsked, nextId, req, wk, bounds, executed>>

\* Variants: put interrupted work back in the queue; recover nothing.
BootRequeues ==
  BootInto([o \in OpId |-> IF status[o] = "running" THEN "queued" ELSE status[o]])
BootForgets == BootInto(status)

\* Bootstrap reconciles the rows before workers and requests exist; the
\* subscribers of the new process start from its snapshot.
Boot ==
  BootInto([o \in OpId |-> IF status[o] \in InFlight THEN "interrupted" ELSE status[o]])

-----------------------------------------------------------------------------

RequestStep(c) == InsertRow(c) \/ RereadRow(c) \/ RefindRow(c) \/ PublishRequest(c)

WorkerStep(k) ==
  \/ CompleteQueuedCancellation(k) \/ Claim(k) \/ Wake(k)
  \/ PublishStart(k) \/ PublishEnd(k)
  \/ CheckBeforeExecution(k) \/ HandlerReturns(k) \/ RecheckAfterSuccess(k)
  \/ WriteTerminal(k)

Next ==
  \/ \E c \in Client : \/ \E k \in Key : Submit(c, k)
                       \/ \E o \in OpId : RequestCancel(c, o)
                       \/ RequestStep(c)
  \/ \E k \in Kind : WorkerStep(k)
  \/ Crash
  \/ Boot

Spec == Init /\ [][Next]_vars

\* A request handler and a worker that can take a step eventually take one:
\* they are tasks of a running process whose only waits are the connection
\* mutex, a timer and the handler, which scans finitely many files.  A
\* process that went down is booted again.  Nobody has to submit, to cancel
\* or to crash.
FairSpec ==
  /\ Spec
  /\ \A c \in Client : WF_vars(RequestStep(c))
  /\ \A k \in Kind : WF_vars(WorkerStep(k))
  /\ WF_vars(Boot)

-----------------------------------------------------------------------------
(* Properties *)

\* Two rows that answer resubmissions never share an idempotency key,
\* however submits, workers, cancels and boots interleave (the partial
\* unique index over every path that changes a status).
UniqueReservation ==
  \A o, p \in OpId :
    status[o] \in Reserved /\ status[p] \in Reserved /\ keyOf[o] = keyOf[p] => o = p

\* A started row that is not finished is in the hands of the worker of its
\* kind, unless that worker's terminal write failed: nothing else can leave
\* a row "running" with nobody to finish it.
InHands(o) ==
  \/ o \in stranded
  \/ LET w == wk[KindOf[keyOf[o]]] IN w.op = o /\ w.pc \in Owning
OwnedOrStranded ==
  up => \A o \in started : status[o] \in InFlight => InHands(o)

\* When a worker writes its outcome, the guarded UPDATE matches: the
\* Ok(None) branches of complete_operation are never taken, so no outcome
\* is silently dropped.
WriteLands == \A k \in Kind : wk[k].pc = "write" => WriteApplies(k)

\* A terminal row never changes again.
TerminalIsFinal ==
  [][\A o \in OpId : status[o] \in Terminal => status'[o] = status[o]]_vars

\* Once a cancel request is committed, a handler that has not begun never
\* begins, whether the row was queued or already claimed.
NoStartAfterCancel ==
  [][\A o \in cancelAsked : o \in executed' => o \in executed]_vars

\* No handler runs twice for one row, across crashes and boots too.
RunsAtMostOnce ==
  [][\A k \in Kind : wk'[k].pc = "handler" /\ wk[k].pc # "handler"
                        => wk'[k].op \notin executed]_vars

\* A cancel committed before the worker's last checkpoint is honoured or
\* outrun by a failure or a boot; the row never ends "succeeded".
PastLastCheckpoint(o) ==
  \E k \in Kind : wk[k].op = o /\ wk[k].pc = "write" /\ wk[k].outcome = "succeeded"
MustNotSucceed(o) == status[o] = "cancel_requested" /\ ~PastLastCheckpoint(o)
CancelHonoured ==
  [][\A o \in OpId : MustNotSucceed(o) =>
       MustNotSucceed(o)' \/ status'[o] \in {"cancelled", "failed", "interrupted"}]_vars

\* The rows go through the life the abstract ledger promises.
Lives == Lifecycle!LifecycleSpec

\* Every submitted row reaches a terminal status, if the store never fails.
Settles == \A o \in OpId : status[o] \in NonTerminal ~> status[o] \in Terminal

\* A subscriber is shown every outcome, though maybe not for long.
OutcomeShown ==
  \A o \in OpId : status[o] \in Terminal ~> o \in shown

-----------------------------------------------------------------------------
(* The inductive invariant behind the safety properties *)

\* An id is stamped once, and has no row before its insert.
IdsFresh ==
  /\ \A o \in OpId : o >= nextId => status[o] = "absent"
  /\ \A c \in Client : req[c].pc = "insert" =>
       req[c].op \in OpId /\ req[c].op < nextId /\ status[req[c].op] = "absent"
  /\ \A c, d \in Client :
       req[c].pc = "insert" /\ req[d].pc = "insert" /\ req[c].op = req[d].op => c = d
  /\ \A c \in Client : req[c].pc \in {"reread", "publish"} => req[c].op \in OpId

\* What started_at, cancel_requested_at and the history say of the status.
RowHistory ==
  /\ \A o \in OpId : status[o] = "running" => o \in started
  /\ \A o \in started : status[o] \notin {"absent", "queued"}
  /\ executed \subseteq started
  /\ \A o \in cancelAsked : status[o] \in {"cancel_requested"} \union Terminal

\* What a worker may rely on about the row it holds.
Holds(k) ==
  /\ wk[k].op \in started
  /\ KindOf[keyOf[wk[k].op]] = k
  /\ status[wk[k].op] \in InFlight
  /\ wk[k].pc = "write" /\ wk[k].outcome = "cancelled" => CancelSeen(k)
  /\ wk[k].pc \in {"announceStart", "check"} => wk[k].op \notin executed

WorkerHolds(k) ==
  /\ wk[k].pc \in Owning => Holds(k)
  /\ wk[k].pc = "announceEnd" => wk[k].op \in OpId

WorkersHold == \A k \in Kind : WorkerHolds(k)

DownIsEmpty ==
  ~up => /\ \A c \in Client : req[c] = IdleRequest
         /\ \A k \in Kind : wk[k] = FreshWorker

IInv == IdsFresh /\ RowHistory /\ WorkersHold /\ DownIsEmpty

=============================================================================
