-------------------------- MODULE OperationsProofs --------------------------
(***************************************************************************)
(* Proofs about Operations for any kinds, keys, requests and bounds.       *)
(***************************************************************************)
EXTENDS Operations, TLAPS

\* Where the constants of the taxonomy belong.  The sets stay unexpanded in
\* the type proofs, which cite these facts instead.
LEMMA Members ==
  /\ \A s \in {"absent", "queued", "running", "cancel_requested", "succeeded",
              "failed", "cancelled", "interrupted"} : s \in RowStatus
  /\ \A pc \in {"idle", "error", "insert", "reread", "refind", "publish"} : pc \in RequestPc
  /\ \A pc \in {"announceStart", "check", "handler", "recheck", "write", "scan", "claim",
               "idle", "announceEnd"} : pc \in WorkerPc
  /\ \A t \in {"succeeded", "failed", "cancelled"} : t \in Outcome
  /\ Outcome \subseteq RowStatus
  /\ NoOp \notin OpId
  BY DEF RowStatus, NonTerminal, InFlight, Terminal, RequestPc, Resting,
         WorkerPc, Owning, Outcome, NoOp, OpId

\* The key a resting request carries.
LEMMA AnyKeyType == AnyKey \in Key
  BY KeyAssumption DEF AnyKey

\* A request and a worker at rest.
LEMMA RestStates == IdleRequest \in RequestState /\ FreshWorker \in WorkerState
  BY Members, AnyKeyType DEF IdleRequest, RequestState, FreshWorker, WorkerState

\* The initial state is well typed.
LEMMA InitTypeOK == Init => TypeOK
  BY AnyKeyType, Members, RestStates, MaxOpsAssumption, BoundsAssumption
  DEF Init, TypeOK, OpId

\* A worker's next state is a worker state, for each way a step sets it.
LEMMA WorkerTyped ==
  ASSUME TypeOK, NEW k \in Kind
  PROVE  /\ \A pc \in WorkerPc : Goto(k, pc) => wk' \in [Kind -> WorkerState]
         /\ \A t \in Outcome : DecideWrite(k, t) => wk' \in [Kind -> WorkerState]
         /\ EndTurn(k) => wk' \in [Kind -> WorkerState]
         /\ \A o \in OpId : ClaimRow(k, o) \/ AnnounceCancelled(k, o)
                           => wk' \in [Kind -> WorkerState]
<1> USE Members, RestStates DEF TypeOK, WorkerState
<1>1. ASSUME NEW pc \in WorkerPc, Goto(k, pc) PROVE wk' \in [Kind -> WorkerState]
  BY <1>1 DEF Goto
<1>2. ASSUME NEW t \in Outcome, DecideWrite(k, t) PROVE wk' \in [Kind -> WorkerState]
  BY <1>2 DEF DecideWrite
<1>3. ASSUME EndTurn(k) PROVE wk' \in [Kind -> WorkerState]
  BY <1>3 DEF EndTurn
<1>4. ASSUME NEW o \in OpId, ClaimRow(k, o) PROVE wk' \in [Kind -> WorkerState]
  BY <1>4 DEF ClaimRow
<1>5. ASSUME NEW o \in OpId, AnnounceCancelled(k, o) PROVE wk' \in [Kind -> WorkerState]
  BY <1>5 DEF AnnounceCancelled
<1> QED
  BY <1>1, <1>2, <1>3, <1>4, <1>5

\* Every step keeps the types, given the inductive invariant: which row a
\* worker or a publish names is known to exist only by it.
LEMMA StepTypeOK == TypeOK /\ IInv /\ [Next]_vars => TypeOK'
<1> SUFFICES ASSUME TypeOK, IInv, [Next]_vars PROVE TypeOK'
  OBVIOUS
<1> USE AnyKeyType, RestStates, Members, MaxOpsAssumption, BoundsAssumption
        DEF TypeOK, IInv, rowVars, bounds, history
<1>1. ASSUME NEW c \in Client, NEW k \in Key, Submit(c, k)
      PROVE  TypeOK'
  <2>1. req' \in [Client -> RequestState]
    BY <1>1 DEF Submit, RequestState
  <2>2. nextId' \in 1 .. MaxOps + 1
    BY <1>1 DEF Submit, OpId
  <2> QED
    BY <1>1, <2>1, <2>2 DEF Submit
<1>2. ASSUME NEW c \in Client, NEW o \in OpId, RequestCancel(c, o)
      PROVE  TypeOK'
  <2>1. req' \in [Client -> RequestState]
    BY <1>2 DEF RequestCancel, AskCancel, RequestState
  <2>2. status' \in [OpId -> RowStatus]
    BY <1>2 DEF RequestCancel, AskCancel
  <2> QED
    BY <1>2, <2>1, <2>2 DEF RequestCancel, AskCancel
<1>3. ASSUME NEW c \in Client, InsertRow(c)
      PROVE  TypeOK'
  <2>1. req' \in [Client -> RequestState]
    BY <1>3 DEF InsertRow, InsertWithoutIndex, RequestState
  <2>2. keyOf' \in [OpId -> Key]
    BY <1>3 DEF InsertRow, InsertWithoutIndex, RequestState
  <2>3. status' \in [OpId -> RowStatus]
    BY <1>3 DEF InsertRow, InsertWithoutIndex
  <2>4. faults' \in 0 .. MaxFaults
    BY <1>3 DEF InsertRow, InsertWithoutIndex, Fault, NoFault
  <2> QED
    BY <1>3, <2>1, <2>2, <2>3, <2>4 DEF InsertRow, InsertWithoutIndex
<1>4. ASSUME NEW c \in Client, RereadRow(c)
      PROVE  TypeOK'
  <2>1. req' \in [Client -> RequestState]
    BY <1>4 DEF RereadRow, RequestAt, IdsFresh, RequestState
  <2>2. faults' \in 0 .. MaxFaults
    BY <1>4 DEF RereadRow, Fault, NoFault
  <2> QED
    BY <1>4, <2>1, <2>2 DEF RereadRow
<1>5. ASSUME NEW c \in Client, RefindRow(c)
      PROVE  TypeOK'
  <2>1. req' \in [Client -> RequestState]
    BY <1>5 DEF RefindRow, IdleRequest, RequestState
  <2> QED
    BY <1>5, <2>1 DEF RefindRow
<1>6. ASSUME NEW c \in Client, PublishRequest(c)
      PROVE  TypeOK'
  <2>1. req' \in [Client -> RequestState]
    BY <1>6 DEF PublishRequest
  <2>2. req[c].seen \in RowStatus
    BY <1>6 DEF PublishRequest, RequestState
  <2>3. view' \in [OpId -> RowStatus]
    BY <2>2, <1>6 DEF PublishRequest, Publish
  <2>4. shown' \subseteq OpId
    BY <1>6 DEF PublishRequest, Publish, RequestAt, IdsFresh
  <2> QED
    BY <1>6, <2>1, <2>2, <2>3, <2>4 DEF PublishRequest, Publish
<1>7. ASSUME NEW k \in Kind, CompleteQueuedCancellation(k)
      PROVE  TypeOK'
  <2>1. wk' \in [Kind -> WorkerState]
    BY <1>7, WorkerTyped DEF CompleteQueuedCancellation, CancelledInQueue
  <2>2. status' \in [OpId -> RowStatus]
    BY <1>7 DEF CompleteQueuedCancellation
  <2>3. faults' \in 0 .. MaxFaults
    BY <1>7 DEF CompleteQueuedCancellation, Fault, NoFault
  <2> QED
    BY <1>7, <2>1, <2>2, <2>3 DEF CompleteQueuedCancellation
<1>8. ASSUME NEW k \in Kind, Claim(k)
      PROVE  TypeOK'
  <2>1. wk' \in [Kind -> WorkerState]
    BY <1>8, WorkerTyped DEF Claim, Queued
  <2>2. status' \in [OpId -> RowStatus]
    BY <1>8 DEF Claim, ClaimRow
  <2>3. started' \subseteq OpId
    BY <1>8 DEF Claim, ClaimRow, Queued
  <2>4. faults' \in 0 .. MaxFaults
    BY <1>8 DEF Claim, Fault, NoFault
  <2> QED
    BY <1>8, <2>1, <2>2, <2>3, <2>4 DEF Claim
<1>9. ASSUME NEW k \in Kind, Wake(k)
      PROVE  TypeOK'
  <2>1. wk' \in [Kind -> WorkerState]
    BY <1>9, WorkerTyped DEF Wake
  <2> QED
    BY <1>9, <2>1 DEF Wake
<1>10. ASSUME NEW k \in Kind, PublishStart(k)
      PROVE  TypeOK'
  <2>1. wk' \in [Kind -> WorkerState]
    BY <1>10, WorkerTyped DEF PublishStart
  <2>2. view' \in [OpId -> RowStatus]
    BY <1>10 DEF PublishStart, Publish
  <2>3. shown' \subseteq OpId
    BY <1>10 DEF PublishStart, Publish, Terminal
  <2> QED
    BY <1>10, <2>1, <2>2, <2>3 DEF PublishStart, Publish
<1>11. ASSUME NEW k \in Kind, PublishEnd(k)
      PROVE  TypeOK'
  <2>1. wk' \in [Kind -> WorkerState]
    BY <1>11, WorkerTyped DEF PublishEnd
  <2>2. wk[k].outcome \in RowStatus
    BY <1>11 DEF PublishEnd, WorkerState
  <2>3. view' \in [OpId -> RowStatus]
    BY <2>2, <1>11 DEF PublishEnd, Publish
  <2>4. wk[k].op \in OpId
    BY <1>11 DEF PublishEnd, WorkerAt, WorkersHold, WorkerHolds
  <2>5. shown' \subseteq OpId
    BY <2>4, <1>11 DEF PublishEnd, Publish
  <2> QED
    BY <1>11, <2>1, <2>2, <2>3, <2>4, <2>5 DEF PublishEnd, Publish
<1>12. ASSUME NEW k \in Kind, CheckBeforeExecution(k)
      PROVE  TypeOK'
  <2>1. wk' \in [Kind -> WorkerState]
    BY <1>12, WorkerTyped DEF CheckBeforeExecution, EnterHandler
  <2>2. faults' \in 0 .. MaxFaults
    BY <1>12 DEF CheckBeforeExecution, Fault, NoFault
  <2>3. executed' \subseteq OpId
    BY <1>12 DEF CheckBeforeExecution, EnterHandler, WorkerAt, WorkersHold, WorkerHolds, Holds, Owning
  <2> QED
    BY <1>12, <2>1, <2>2, <2>3 DEF CheckBeforeExecution
<1>13. ASSUME NEW k \in Kind, HandlerReturns(k)
      PROVE  TypeOK'
  <2>1. wk' \in [Kind -> WorkerState]
    BY <1>13, WorkerTyped DEF HandlerReturns
  <2> QED
    BY <1>13, <2>1 DEF HandlerReturns
<1>14. ASSUME NEW k \in Kind, RecheckAfterSuccess(k)
      PROVE  TypeOK'
  <2>1. wk' \in [Kind -> WorkerState]
    BY <1>14, WorkerTyped DEF RecheckAfterSuccess
  <2>2. faults' \in 0 .. MaxFaults
    BY <1>14 DEF RecheckAfterSuccess, Fault, NoFault
  <2> QED
    BY <1>14, <2>1, <2>2 DEF RecheckAfterSuccess
<1>15. ASSUME NEW k \in Kind, WriteTerminal(k)
      PROVE  TypeOK'
  <2>1. wk' \in [Kind -> WorkerState]
    BY <1>15, WorkerTyped DEF WriteTerminal
  <2>2. wk[k].outcome \in RowStatus
    BY <1>15 DEF WriteTerminal, WorkerState
  <2>3. status' \in [OpId -> RowStatus]
    BY <2>2, <1>15 DEF WriteTerminal
  <2>4. faults' \in 0 .. MaxFaults
    BY <1>15 DEF WriteTerminal, Fault, NoFault
  <2>5. stranded' \subseteq OpId
    BY <1>15 DEF WriteTerminal, WorkerAt, WorkersHold, WorkerHolds, Holds, Owning
  <2> QED
    BY <1>15, <2>1, <2>2, <2>3, <2>4, <2>5 DEF WriteTerminal
<1>16. CASE Crash
  <2>1. wk' \in [Kind -> WorkerState]
    BY <1>16 DEF Crash
  <2>2. req' \in [Client -> RequestState]
    BY <1>16 DEF Crash
  <2>3. crashes' \in 0 .. MaxCrashes
    BY <1>16 DEF Crash
  <2> QED
    BY <1>16, <2>1, <2>2, <2>3 DEF Crash
<1>17. CASE Boot
  <2>1. status' \in [OpId -> RowStatus]
    BY <1>17 DEF Boot, BootInto
  <2> QED
    BY <1>17, <2>1 DEF Boot, BootInto
<1>18. CASE UNCHANGED vars
  BY <1>18 DEF vars
<1> QED
  BY <1>1, <1>2, <1>3, <1>4, <1>5, <1>6, <1>7, <1>8, <1>9, <1>10, <1>11, <1>12, <1>13, <1>14, <1>15, <1>16, <1>17, <1>18 DEF Next, RequestStep, WorkerStep

-----------------------------------------------------------------------------
(* The inductive invariant, one part at a time *)

\* No step changes a row of an id that is not stamped yet.
LEMMA StepIdsFresh == TypeOK /\ IInv /\ [Next]_vars => IdsFresh'
<1> SUFFICES ASSUME TypeOK, IInv, [Next]_vars PROVE IdsFresh'
  OBVIOUS
<1> USE DEF TypeOK, IInv, IdsFresh, rowVars, bounds, history, RequestState
<1>1. ASSUME NEW c \in Client, NEW k \in Key, Submit(c, k) PROVE IdsFresh'
  BY <1>1 DEF Submit, OpId
<1>2. ASSUME NEW c \in Client, NEW o \in OpId, RequestCancel(c, o) PROVE IdsFresh'
  BY <1>2 DEF RequestCancel, AskCancel, OpId
<1>3. ASSUME NEW c \in Client, InsertRow(c) PROVE IdsFresh'
  <2>1. CASE InsertWithoutIndex(c)
    <3> DEFINE i == req[c].op
    <3>1. /\ req[c].pc = "insert" /\ i \in OpId /\ i < nextId
          /\ status' = [status EXCEPT ![i] = "queued"]
          /\ req' = [req EXCEPT ![c].pc = "reread"]
          /\ nextId' = nextId
      BY <2>1 DEF InsertWithoutIndex, RequestAt
    <3>2. \A o \in OpId : o >= nextId' => status'[o] = "absent"
      BY <3>1 DEF OpId
    <3>3. \A d \in Client : req'[d].pc = "insert" => d # c /\ req'[d] = req[d]
      BY <3>1
    <3>4. \A d \in Client : req'[d].op = req[d].op
      BY <3>1
    <3>5. \A d \in Client : req'[d].pc = "insert" => status'[req[d].op] = "absent"
      BY <3>1, <3>3
    <3>6. \A d \in Client : req'[d].pc \in {"reread", "publish"} => req'[d].op \in OpId
      BY <3>1, <3>4
    <3> QED
      BY <3>1, <3>2, <3>3, <3>4, <3>5, <3>6
  <2>2. CASE UNCHANGED <<status, nextId>> /\ req' = [req EXCEPT ![c].pc = "refind"]
    BY <2>2
  <2> QED
    BY <1>3, <2>1, <2>2 DEF InsertRow
<1>4. ASSUME NEW c \in Client, RereadRow(c) PROVE IdsFresh'
  <2>1. /\ UNCHANGED <<status, nextId>>
        /\ req[c].op \in OpId
        /\ \E s : req' = [req EXCEPT ![c].pc = "publish", ![c].seen = s]
           \/ req' = [req EXCEPT ![c].pc = "refind"]
    BY <1>4 DEF RereadRow, RequestAt
  <2>2. \A d \in Client : req'[d].op = req[d].op /\ (d # c => req'[d] = req[d])
    BY <2>1
  <2>3. req'[c].pc # "insert"
    BY <2>1
  <2> QED
    BY <2>1, <2>2, <2>3
<1>5. ASSUME NEW c \in Client, RefindRow(c) PROVE IdsFresh'
  BY <1>5 DEF RefindRow, RequestAt, IdleRequest
<1>6. ASSUME NEW c \in Client, PublishRequest(c) PROVE IdsFresh'
  BY <1>6 DEF PublishRequest, RequestAt, IdleRequest
<1>7. ASSUME NEW k \in Kind, WorkerStep(k) PROVE IdsFresh'
  <2>1. UNCHANGED <<nextId, req>>
    BY <1>7 DEF WorkerStep, CompleteQueuedCancellation, Claim, Wake, PublishStart, PublishEnd,
               CheckBeforeExecution, HandlerReturns, RecheckAfterSuccess, WriteTerminal
  <2>2. \A o \in OpId : status[o] = "absent" => status'[o] = "absent"
    <3>1. CASE CompleteQueuedCancellation(k)
      BY <3>1 DEF CompleteQueuedCancellation, IsOldest, CancelledInQueue
    <3>2. CASE Claim(k)
      BY <3>2 DEF Claim, ClaimRow, IsOldest, Queued
    <3>3. CASE WriteTerminal(k)
      BY <3>3 DEF WriteTerminal, WorkerAt, WorkersHold, WorkerHolds, Holds, Owning, InFlight
    <3> QED
      BY <1>7, <3>1, <3>2, <3>3
      DEF WorkerStep, Wake, PublishStart, PublishEnd, CheckBeforeExecution, HandlerReturns,
          RecheckAfterSuccess
  <2> QED
    BY <2>1, <2>2
<1>8. CASE Crash
  BY <1>8 DEF Crash, IdleRequest
<1>9. CASE Boot
  <2>1. \A o \in OpId : status[o] = "absent" => status'[o] = "absent"
    BY <1>9 DEF Boot, BootInto, InFlight
  <2> QED
    BY <1>9, <2>1 DEF Boot, BootInto
<1>10. CASE UNCHANGED vars
  BY <1>10 DEF vars
<1> QED
  BY <1>1, <1>2, <1>3, <1>4, <1>5, <1>6, <1>7, <1>8, <1>9, <1>10 DEF Next, RequestStep

\* Every step but Crash happens in, or leads to, a running process.
LEMMA StepDownIsEmpty == TypeOK /\ IInv /\ [Next]_vars => DownIsEmpty'
<1> SUFFICES ASSUME TypeOK, IInv, [Next]_vars PROVE DownIsEmpty'
  OBVIOUS
<1> USE DEF DownIsEmpty
<1>1. ASSUME NEW c \in Client, NEW k \in Key, Submit(c, k) PROVE DownIsEmpty'
  BY <1>1 DEF Submit
<1>2. ASSUME NEW c \in Client, NEW o \in OpId, RequestCancel(c, o) PROVE DownIsEmpty'
  BY <1>2 DEF RequestCancel, AskCancel
<1>3. ASSUME NEW c \in Client, RequestStep(c) PROVE DownIsEmpty'
  BY <1>3 DEF RequestStep, InsertRow, InsertWithoutIndex, RereadRow, RefindRow, PublishRequest,
             RequestAt
<1>4. ASSUME NEW k \in Kind, WorkerStep(k) PROVE DownIsEmpty'
  BY <1>4 DEF WorkerStep, WorkerAt, CompleteQueuedCancellation, Claim, Wake, PublishStart,
             PublishEnd, CheckBeforeExecution, HandlerReturns, RecheckAfterSuccess, WriteTerminal
<1>5. CASE Crash
  BY <1>5 DEF Crash
<1>6. CASE Boot
  BY <1>6 DEF Boot, BootInto
<1>7. CASE UNCHANGED vars
  BY <1>7 DEF vars, IInv
<1> QED
  BY <1>1, <1>2, <1>3, <1>4, <1>5, <1>6, <1>7 DEF Next

\* The steps that change a row's status, and the one that enters a handler.
LEMMA StepRowHistory == TypeOK /\ IInv /\ [Next]_vars => RowHistory'
<1> SUFFICES ASSUME TypeOK, IInv, [Next]_vars PROVE RowHistory'
  OBVIOUS
<1> USE DEF TypeOK, IInv, RowHistory, rowVars, bounds, history
<1>1. ASSUME NEW c \in Client, NEW o \in OpId, RequestCancel(c, o) PROVE RowHistory'
  BY <1>1 DEF RequestCancel, AskCancel
<1>2. ASSUME NEW c \in Client, InsertWithoutIndex(c) PROVE RowHistory'
  <2>1. /\ req[c].op \in OpId /\ status[req[c].op] = "absent"
        /\ status' = [status EXCEPT ![req[c].op] = "queued"]
        /\ UNCHANGED <<started, cancelAsked, executed>>
    BY <1>2 DEF InsertWithoutIndex, RequestAt, IdsFresh
  <2>2. req[c].op \notin cancelAsked
    BY <2>1 DEF Terminal
  <2> QED
    BY <2>1, <2>2
<1>3. ASSUME NEW k \in Kind, CompleteQueuedCancellation(k) PROVE RowHistory'
  BY <1>3 DEF CompleteQueuedCancellation, IsOldest, CancelledInQueue, Terminal
<1>4. ASSUME NEW k \in Kind, Claim(k) PROVE RowHistory'
  BY <1>4 DEF Claim, ClaimRow, IsOldest, Queued, Terminal
<1>5. ASSUME NEW k \in Kind, CheckBeforeExecution(k) PROVE RowHistory'
  BY <1>5 DEF CheckBeforeExecution, EnterHandler, WorkerAt, WorkersHold, WorkerHolds, Holds, Owning
<1>6. ASSUME NEW k \in Kind, WriteTerminal(k) PROVE RowHistory'
  <2>1. wk[k].op \in started /\ wk[k].outcome \in Outcome
    BY <1>6 DEF WriteTerminal, WorkerAt, WorkersHold, WorkerHolds, Holds, Owning, WorkerState
  <2> QED
    BY <1>6, <2>1 DEF WriteTerminal, Outcome, Terminal
<1>7. CASE Boot
  BY <1>7 DEF Boot, BootInto, InFlight, Terminal
<1>8. CASE UNCHANGED <<status, started, executed, cancelAsked>>
  BY <1>8
<1> QED
  BY <1>1, <1>2, <1>3, <1>4, <1>5, <1>6, <1>7, <1>8
  DEF Next, RequestStep, WorkerStep, Submit, InsertRow, RereadRow, RefindRow, PublishRequest,
      Publish, Wake, PublishStart, PublishEnd, HandlerReturns, RecheckAfterSuccess, Crash, vars

\* A step that changes neither a worker nor its row, except to record a
\* cancel request, leaves it with what it holds.
Undisturbed(j) ==
  /\ wk'[j] = wk[j]
  /\ wk[j].pc \in Owning =>
       LET o == wk[j].op IN
         /\ o \in started'
         /\ keyOf'[o] = keyOf[o]
         /\ status'[o] = status[o] \/ status'[o] = "cancel_requested"
         /\ o \in executed' => o \in executed

\* Such a worker holds what it held.
LEMMA UndisturbedHolds ==
  ASSUME NEW j \in Kind, WorkersHold, Undisturbed(j)
  PROVE  WorkerHolds(j)'
<1>1. WorkerHolds(j)
  BY DEF WorkersHold
<1>2. ASSUME wk[j].pc \in Owning PROVE Holds(j)'
  BY <1>1, <1>2 DEF WorkerHolds, Holds, Undisturbed, CancelSeen, InFlight
<1> QED
  BY <1>1, <1>2 DEF WorkerHolds, Undisturbed

\* Workers of different kinds hold different rows.
LEMMA HeldApart ==
  ASSUME WorkersHold, NEW j \in Kind, wk[j].pc \in Owning
  PROVE  /\ wk[j].op \in started
         /\ status[wk[j].op] \in InFlight
         /\ KindOf[keyOf[wk[j].op]] = j
  BY DEF WorkersHold, WorkerHolds, Holds

\* No request touches a row a worker holds, but to ask for its cancellation.
LEMMA RequestKeepsWorkers ==
  ASSUME TypeOK, IInv, NEW c \in Client,
         (\E k \in Key : Submit(c, k)) \/ (\E o \in OpId : RequestCancel(c, o)) \/ RequestStep(c),
         NEW j \in Kind
  PROVE  Undisturbed(j)
<1> USE HeldApart DEF IInv, Undisturbed, rowVars, history, bounds
<1>1. ASSUME NEW k \in Key, Submit(c, k) PROVE Undisturbed(j)
  BY <1>1 DEF Submit
<1>2. ASSUME NEW o \in OpId, RequestCancel(c, o) PROVE Undisturbed(j)
  BY <1>2 DEF RequestCancel, AskCancel, TypeOK
<1>3. CASE InsertWithoutIndex(c)
  BY <1>3 DEF InsertWithoutIndex, RequestAt, IdsFresh, TypeOK, InFlight
<1>4. CASE UNCHANGED <<rowVars, wk, executed>>
  BY <1>4
<1> QED
  BY <1>1, <1>2, <1>3, <1>4
  DEF RequestStep, InsertRow, RereadRow, RefindRow, PublishRequest, Publish

\* A worker's step leaves the other workers alone.
LEMMA WorkerKeepsOthers ==
  ASSUME TypeOK, IInv, NEW k \in Kind, WorkerStep(k), NEW j \in Kind, j # k
  PROVE  Undisturbed(j)
<1> USE HeldApart DEF IInv, TypeOK, Undisturbed, rowVars, history, bounds,
                      Goto, EndTurn, DecideWrite, AnnounceCancelled
<1>1. CASE CompleteQueuedCancellation(k)
  BY <1>1 DEF CompleteQueuedCancellation, IsOldest, CancelledInQueue
<1>2. CASE Claim(k)
  <2>1. CASE Goto(k, "idle") /\ UNCHANGED <<status, started, keyOf, executed>>
    BY <2>1
  <2>2. ASSUME NEW o \in Queued, ClaimRow(k, o), UNCHANGED <<keyOf, executed>>
        PROVE  Undisturbed(j)
    BY <2>2 DEF ClaimRow, Queued, InFlight
  <2> QED
    BY <1>2, <2>1, <2>2 DEF Claim, IsOldest
<1>3. CASE CheckBeforeExecution(k)
  <2>1. k \in Kind /\ wk[k].pc \in Owning
    BY <1>3 DEF CheckBeforeExecution, WorkerAt, Owning
  <2>2. wk[j].pc \in Owning => wk[j].op # wk[k].op
    BY <2>1
  <2> QED
    BY <1>3, <2>2 DEF CheckBeforeExecution, EnterHandler
<1>4. CASE WriteTerminal(k)
  <2>1. k \in Kind /\ wk[k].pc \in Owning
    BY <1>4 DEF WriteTerminal, WorkerAt, Owning
  <2>2. wk[j].pc \in Owning => wk[j].op # wk[k].op
    BY <2>1
  <2> QED
    BY <1>4, <2>2 DEF WriteTerminal
<1>5. CASE Wake(k) \/ PublishStart(k) \/ PublishEnd(k) \/ HandlerReturns(k) \/ RecheckAfterSuccess(k)
  <2>1. UNCHANGED <<rowVars, executed>> /\ wk'[j] = wk[j]
    BY <1>5 DEF Wake, PublishStart, PublishEnd, Publish, HandlerReturns, RecheckAfterSuccess
  <2> QED
    BY <2>1
<1> QED
  BY <1>1, <1>2, <1>3, <1>4, <1>5 DEF WorkerStep

\* What each way of setting a worker's state leaves in its fields.
LEMMA WorkerMoves ==
  ASSUME TypeOK, NEW k \in Kind
  PROVE  /\ \A pc \in WorkerPc : Goto(k, pc) =>
               wk'[k].pc = pc /\ wk'[k].op = wk[k].op /\ wk'[k].outcome = wk[k].outcome
         /\ \A t \in Outcome : DecideWrite(k, t) =>
               wk'[k].pc = "write" /\ wk'[k].op = wk[k].op /\ wk'[k].outcome = t
         /\ EndTurn(k) => wk'[k].pc = "scan"
         /\ \A o \in OpId : AnnounceCancelled(k, o) => wk'[k].pc = "announceEnd" /\ wk'[k].op = o
<1> USE DEF TypeOK, WorkerState
<1>1. ASSUME NEW pc \in WorkerPc, Goto(k, pc)
      PROVE  wk'[k].pc = pc /\ wk'[k].op = wk[k].op /\ wk'[k].outcome = wk[k].outcome
  BY <1>1 DEF Goto
<1>2. ASSUME NEW t \in Outcome, DecideWrite(k, t)
      PROVE  wk'[k].pc = "write" /\ wk'[k].op = wk[k].op /\ wk'[k].outcome = t
  BY <1>2 DEF DecideWrite
<1>3. ASSUME EndTurn(k) PROVE wk'[k].pc = "scan"
  BY <1>3 DEF EndTurn, FreshWorker
<1>4. ASSUME NEW o \in OpId, AnnounceCancelled(k, o)
      PROVE  wk'[k].pc = "announceEnd" /\ wk'[k].op = o
  BY <1>4 DEF AnnounceCancelled
<1> QED
  BY <1>1, <1>2, <1>3, <1>4

\* What a worker holds after a step of its own.
LEMMA WorkerKeepsItsRow ==
  ASSUME TypeOK, IInv, NEW k \in Kind, WorkerStep(k)
  PROVE  WorkerHolds(k)'
<1> USE DEF IInv, TypeOK, rowVars, history, bounds
<1>0. WorkerHolds(k)
  BY DEF WorkersHold
<1>1. CASE CompleteQueuedCancellation(k)
  <2>1. \/ Goto(k, "claim")
        \/ \E o \in OpId : AnnounceCancelled(k, o)
    BY <1>1 DEF CompleteQueuedCancellation, CancelledInQueue
  <2> QED
    BY <2>1, WorkerMoves, Members DEF WorkerHolds, Owning
<1>2. CASE Claim(k)
  <2>1. CASE Goto(k, "idle")
    BY <2>1 DEF Goto, WorkerHolds, Owning
  <2>2. ASSUME NEW o \in Queued, KindOf[keyOf[o]] = k, ClaimRow(k, o), UNCHANGED <<keyOf, executed>>
        PROVE  WorkerHolds(k)'
    BY <2>2 DEF ClaimRow, Queued, WorkerHolds, Holds, InFlight, RowHistory
  <2> QED
    BY <1>2, <2>1, <2>2 DEF Claim, IsOldest
<1>3. CASE Wake(k) \/ PublishEnd(k)
  <2>1. Goto(k, "scan") \/ EndTurn(k)
    BY <1>3 DEF Wake, PublishEnd
  <2> QED
    BY <2>1, WorkerMoves, Members DEF WorkerHolds, Owning
<1>4. CASE WriteTerminal(k)
  <2>1. Goto(k, "announceEnd") \/ EndTurn(k)
    BY <1>4 DEF WriteTerminal
  <2>2. wk[k].op \in OpId
    BY <1>0, <1>4 DEF WriteTerminal, WorkerAt, WorkerHolds, Holds, Owning
  <2> QED
    BY <2>1, <2>2, WorkerMoves, Members DEF WorkerHolds, Owning
<1>5. CASE PublishStart(k) \/ CheckBeforeExecution(k) \/ HandlerReturns(k) \/ RecheckAfterSuccess(k)
  <2>1. wk[k].pc \in {"announceStart", "check", "handler", "recheck"}
    BY <1>5 DEF PublishStart, CheckBeforeExecution, HandlerReturns, RecheckAfterSuccess, WorkerAt
  <2>2. Holds(k)
    BY <1>0, <2>1 DEF WorkerHolds, Owning
  <2>3. UNCHANGED rowVars
    BY <1>5 DEF PublishStart, CheckBeforeExecution, HandlerReturns, RecheckAfterSuccess
  <2>4. \/ PublishStart(k) /\ Goto(k, "check") /\ UNCHANGED executed
        \/ Goto(k, "handler")
        \/ Goto(k, "recheck")
        \/ CancelSeen(k) /\ DecideWrite(k, "cancelled")
        \/ \E t \in {"failed", "succeeded"} : DecideWrite(k, t)
    BY <1>5 DEF PublishStart, Publish, CheckBeforeExecution, EnterHandler, HandlerReturns,
               RecheckAfterSuccess
  <2>5. /\ wk'[k].op = wk[k].op
        /\ wk'[k].pc \in Owning
        /\ wk'[k].pc = "write" /\ wk'[k].outcome = "cancelled" => CancelSeen(k)
        /\ wk'[k].pc \in {"announceStart", "check"} => PublishStart(k) /\ UNCHANGED executed
    BY <2>4, WorkerMoves, Members DEF Owning
  <2>6. wk'[k].pc \in {"announceStart", "check"} => wk'[k].op \notin executed'
    BY <2>2, <2>5 DEF PublishStart, WorkerAt, Holds
  <2> QED
    BY <2>2, <2>3, <2>5, <2>6 DEF Holds, WorkerHolds, CancelSeen, Owning
<1> QED
  BY <1>1, <1>2, <1>3, <1>4, <1>5 DEF WorkerStep

\* Every worker holds its row after every step.
LEMMA StepWorkersHold == TypeOK /\ IInv /\ [Next]_vars => WorkersHold'
<1> SUFFICES ASSUME TypeOK, IInv, [Next]_vars, NEW j \in Kind PROVE WorkerHolds(j)'
  BY DEF WorkersHold
<1>1. ASSUME NEW c \in Client, NEW k \in Key, Submit(c, k) PROVE WorkerHolds(j)'
  BY <1>1, RequestKeepsWorkers, UndisturbedHolds DEF IInv
<1>2. ASSUME NEW c \in Client, NEW o \in OpId, RequestCancel(c, o) PROVE WorkerHolds(j)'
  BY <1>2, RequestKeepsWorkers, UndisturbedHolds DEF IInv
<1>3. ASSUME NEW c \in Client, RequestStep(c) PROVE WorkerHolds(j)'
  BY <1>3, RequestKeepsWorkers, UndisturbedHolds DEF IInv
<1>4. ASSUME NEW k \in Kind, WorkerStep(k) PROVE WorkerHolds(j)'
  BY <1>4, WorkerKeepsOthers, WorkerKeepsItsRow, UndisturbedHolds DEF IInv
<1>5. CASE Crash
  BY <1>5 DEF Crash, FreshWorker, WorkerHolds, Owning
<1>6. CASE Boot
  BY <1>6 DEF IInv, Boot, BootInto, DownIsEmpty, FreshWorker, WorkerHolds, Owning
<1>7. CASE UNCHANGED vars
  BY <1>7, UndisturbedHolds DEF IInv, vars, rowVars, history, Undisturbed, WorkersHold, WorkerHolds, Holds
<1> QED
  BY <1>1, <1>2, <1>3, <1>4, <1>5, <1>6, <1>7 DEF Next

-----------------------------------------------------------------------------
(* The invariant, and the life of a row *)

\* The inductive invariant.
Inv == TypeOK /\ IInv

\* The ledger starts empty, with every task at rest.
LEMMA InitInv == Init => Inv
<1> SUFFICES ASSUME Init PROVE IInv
  BY InitTypeOK DEF Inv
<1>1. IdsFresh /\ DownIsEmpty
  BY DEF Init, IdsFresh, DownIsEmpty, IdleRequest
<1>2. RowHistory
  BY DEF Init, RowHistory
<1>3. WorkersHold
  BY DEF Init, WorkersHold, WorkerHolds, FreshWorker, Owning
<1> QED
  BY <1>1, <1>2, <1>3 DEF IInv

\* No step of a request, a worker or the process breaks the invariant.
LEMMA StepInv == Inv /\ [Next]_vars => Inv'
  BY StepTypeOK, StepIdsFresh, StepRowHistory, StepWorkersHold, StepDownIsEmpty DEF Inv, IInv

\* Every reachable state satisfies the inductive invariant.
THEOREM Invariance == Spec => []Inv
<1>1. Init => Inv
  BY InitInv
<1>2. Inv /\ [Next]_vars => Inv'
  BY StepInv
<1> QED
  BY <1>1, <1>2, PTL DEF Spec

\* Type correctness.
THEOREM TypeCorrect == Spec => []TypeOK
<1>1. Inv => TypeOK
  BY DEF Inv
<1> QED
  BY <1>1, Invariance, PTL

\* The guarded UPDATE of complete_success, complete_failure and
\* complete_cancelled matches its row whenever a worker issues it.
THEOREM WritesLand == Spec => []WriteLands
<1>1. Inv => WriteLands
  BY DEF Inv, IInv, WriteLands, WriteApplies, WorkersHold, WorkerHolds, Holds, Owning
<1> QED
  BY <1>1, Invariance, PTL


\* The abstract ledger speaks of the same ids and statuses.
LEMMA SameWords ==
  /\ Lifecycle!OpId = OpId
  /\ Lifecycle!Terminal = Terminal
  /\ Lifecycle!InFlight = InFlight
  BY DEF OpId, Terminal, InFlight, Lifecycle!OpId, Lifecycle!Terminal, Lifecycle!InFlight

\* The abstract actions on one row are abstract steps.
LEMMA AbstractSteps ==
  ASSUME NEW o \in OpId
  PROVE  /\ \A k \in Key : Lifecycle!Create(o, k) => Lifecycle!LifecycleNext
         /\ Lifecycle!Begin(o) => Lifecycle!LifecycleNext
         /\ Lifecycle!AskCancel(o) => Lifecycle!LifecycleNext
         /\ \A t \in Terminal \ {"interrupted"} : Lifecycle!Finish(o, t) => Lifecycle!LifecycleNext
  BY SameWords DEF Lifecycle!LifecycleNext

\* Every step of the ledger is a step of the abstract one, or a stutter.
LEMMA StepLives == Inv /\ [Next]_vars => [Lifecycle!LifecycleNext]_(Lifecycle!lifecycleVars)
<1> SUFFICES ASSUME Inv, [Next]_vars
             PROVE  Lifecycle!LifecycleNext \/ UNCHANGED <<status, keyOf, started>>
  BY DEF Lifecycle!lifecycleVars
<1> USE SameWords, AbstractSteps DEF Inv, TypeOK, IInv, rowVars, bounds, history
<1>1. ASSUME NEW c \in Client, NEW o \in OpId, RequestCancel(c, o)
      PROVE  Lifecycle!LifecycleNext
  <2>1. Lifecycle!AskCancel(o)
    BY <1>1 DEF RequestCancel, AskCancel, Lifecycle!AskCancel
  <2> QED
    BY <2>1
<1>2. ASSUME NEW c \in Client, HeldBy(req[c].key) = {}, InsertWithoutIndex(c)
      PROVE  Lifecycle!LifecycleNext
  <2>1. req[c].op \in OpId /\ status[req[c].op] = "absent" /\ req[c].key \in Key
    BY <1>2 DEF InsertWithoutIndex, RequestAt, IdsFresh, RequestState
  <2>2. Lifecycle!Create(req[c].op, req[c].key)
    BY <1>2, <2>1 DEF InsertWithoutIndex, Lifecycle!Create, HeldBy
  <2> QED
    BY <2>1, <2>2
<1>3. ASSUME NEW k \in Kind, NEW o \in CancelledInQueue, UNCHANGED <<keyOf, started>>,
             status' = [status EXCEPT ![o] = "cancelled"]
      PROVE  Lifecycle!LifecycleNext
  <2>1. Lifecycle!Finish(o, "cancelled") /\ "cancelled" \in Terminal \ {"interrupted"}
    BY <1>3 DEF CancelledInQueue, Lifecycle!Finish, InFlight, Terminal
  <2> QED
    BY <1>3, <2>1 DEF CancelledInQueue
<1>4. ASSUME NEW k \in Kind, NEW o \in Queued, IsOldest(k, Queued, o), ClaimRow(k, o), UNCHANGED keyOf
      PROVE  Lifecycle!LifecycleNext
  <2>1. Lifecycle!Begin(o)
    BY <1>4 DEF IsOldest, Queued, ClaimRow, Lifecycle!Begin
  <2> QED
    BY <1>4, <2>1 DEF Queued
<1>5. ASSUME NEW k \in Kind, WorkerAt(k, "write"), WriteApplies(k), UNCHANGED <<keyOf, started>>,
             status' = [status EXCEPT ![wk[k].op] = wk[k].outcome]
      PROVE  Lifecycle!LifecycleNext
  <2>1. wk[k].op \in started /\ status[wk[k].op] \in InFlight
    BY <1>5 DEF WorkerAt, WorkersHold, WorkerHolds, Holds, Owning
  <2>2. wk[k].outcome \in Terminal \ {"interrupted"}
    BY <1>5 DEF WorkerState, Outcome, Terminal
  <2>3. Lifecycle!Finish(wk[k].op, wk[k].outcome)
    BY <1>5, <2>1 DEF WriteApplies, CancelSeen, Lifecycle!Finish
  <2> QED
    BY <2>1, <2>2, <2>3
<1>6. CASE Boot
  BY <1>6 DEF Boot, BootInto, Lifecycle!LifecycleNext, Lifecycle!Interrupt
<1>7. ASSUME NEW c \in Client, RequestStep(c)
      PROVE  Lifecycle!LifecycleNext \/ UNCHANGED <<status, keyOf, started>>
  BY <1>2, <1>7 DEF RequestStep, InsertRow, RereadRow, RefindRow, PublishRequest
<1>8. ASSUME NEW k \in Kind, CompleteQueuedCancellation(k)
      PROVE  Lifecycle!LifecycleNext \/ UNCHANGED <<status, keyOf, started>>
  BY <1>3, <1>8 DEF CompleteQueuedCancellation
<1>9. ASSUME NEW k \in Kind, Claim(k)
      PROVE  Lifecycle!LifecycleNext \/ UNCHANGED <<status, keyOf, started>>
  BY <1>4, <1>9 DEF Claim, IsOldest
<1>10. ASSUME NEW k \in Kind, WriteTerminal(k)
      PROVE  Lifecycle!LifecycleNext \/ UNCHANGED <<status, keyOf, started>>
  BY <1>5, <1>10 DEF WriteTerminal
<1>11. ASSUME NEW k \in Kind, Wake(k) \/ PublishStart(k) \/ PublishEnd(k) \/ CheckBeforeExecution(k)
                             \/ HandlerReturns(k) \/ RecheckAfterSuccess(k)
      PROVE  UNCHANGED <<status, keyOf, started>>
  BY <1>11 DEF Wake, PublishStart, PublishEnd, CheckBeforeExecution, HandlerReturns,
               RecheckAfterSuccess
<1>12. ASSUME NEW c \in Client, NEW k \in Key, Submit(c, k)
      PROVE  UNCHANGED <<status, keyOf, started>>
  BY <1>12 DEF Submit
<1>13. CASE Crash \/ UNCHANGED vars
  BY <1>13 DEF Crash, vars
<1> QED
  BY <1>1, <1>6, <1>7, <1>8, <1>9, <1>10, <1>11, <1>12, <1>13 DEF Next, WorkerStep

\* The ledger, with its requests, workers, crashes and store errors,
\* implements the life of a row that OperationLifecycle promises.
THEOREM Implementation == Spec => Lives
<1>1. Init => Lifecycle!LifecycleInit
  BY AnyKeyType, SameWords DEF Init, Lifecycle!LifecycleInit
<1>2. Inv /\ [Next]_vars => [Lifecycle!LifecycleNext]_(Lifecycle!lifecycleVars)
  BY StepLives
<1> QED
  BY <1>1, <1>2, Invariance, PTL DEF Spec, Lives, Lifecycle!LifecycleSpec

-----------------------------------------------------------------------------
(* The other properties *)

\* What the abstract ledger never does to a row.
LEMMA AbstractStepRows ==
  ASSUME TypeOK, Lifecycle!LifecycleNext
  PROVE  /\ \A o \in OpId : status[o] \in Terminal => status'[o] = status[o]
         /\ UniqueReservation => UniqueReservation'
<1> USE SameWords DEF TypeOK
<1> DEFINE Goal == /\ \A o \in OpId : status[o] \in Terminal => status'[o] = status[o]
                   /\ UniqueReservation => UniqueReservation'
<1>1. ASSUME NEW o \in OpId, NEW k \in Key, Lifecycle!Create(o, k) PROVE Goal
  <2>1. /\ status[o] = "absent" /\ HeldBy(k) = {}
        /\ status' = [status EXCEPT ![o] = "queued"] /\ keyOf' = [keyOf EXCEPT ![o] = k]
    BY <1>1 DEF Lifecycle!Create, HeldBy
  <2>2. \A p \in OpId : status[p] \in Reserved => keyOf[p] # k
    BY <2>1 DEF HeldBy, Lifecycle!HeldBy, Reserved, Lifecycle!Reserved, NonTerminal, InFlight,
                Lifecycle!NonTerminal
  <2> QED
    BY <2>1, <2>2 DEF UniqueReservation, Terminal
<1>2. ASSUME NEW o \in OpId, status[o] \in NonTerminal, NEW s,
             status' = [status EXCEPT ![o] = s], UNCHANGED keyOf
      PROVE  Goal
  <2>1. status[o] \in Reserved /\ status[o] \notin Terminal
    BY <1>2 DEF Reserved, NonTerminal, InFlight, Terminal
  <2> QED
    BY <1>2, <2>1 DEF UniqueReservation
<1>3. ASSUME NEW o \in OpId, Lifecycle!Begin(o) PROVE Goal
  BY <1>2, <1>3 DEF Lifecycle!Begin, NonTerminal
<1>4. ASSUME NEW o \in OpId, Lifecycle!AskCancel(o) PROVE Goal
  BY <1>2, <1>4 DEF Lifecycle!AskCancel, NonTerminal, InFlight
<1>5. ASSUME NEW o \in OpId, NEW t, Lifecycle!Finish(o, t) PROVE Goal
  BY <1>2, <1>5 DEF Lifecycle!Finish, NonTerminal
<1>6. CASE Lifecycle!Interrupt
  <2>1. /\ \A o \in OpId : status[o] \in InFlight \/ status'[o] = status[o]
        /\ \A o \in OpId : status[o] \in InFlight => status'[o] = "interrupted"
        /\ UNCHANGED keyOf
    BY <1>6 DEF Lifecycle!Interrupt
  <2>2. /\ "interrupted" \notin Reserved
        /\ \A o \in OpId : status[o] \in InFlight => status[o] \notin Terminal
    BY DEF Reserved, NonTerminal, InFlight, Terminal
  <2> QED
    BY <2>1, <2>2 DEF UniqueReservation
<1> QED
  BY <1>1, <1>3, <1>4, <1>5, <1>6 DEF Lifecycle!LifecycleNext

\* Two rows that answer resubmissions never share an idempotency key.
THEOREM ReservationsUnique == Spec => []UniqueReservation
<1>1. Init => UniqueReservation
  BY DEF Init, UniqueReservation, Reserved, NonTerminal, InFlight
<1>2. Inv /\ UniqueReservation /\ [Next]_vars => UniqueReservation'
  BY StepLives, AbstractStepRows DEF Inv, Lifecycle!lifecycleVars, UniqueReservation
<1> QED
  BY <1>1, <1>2, Invariance, PTL DEF Spec

\* A terminal row never changes again.
THEOREM TerminalStays == Spec => TerminalIsFinal
<1>1. Inv /\ [Next]_vars => [\A o \in OpId : status[o] \in Terminal => status'[o] = status[o]]_vars
  BY StepLives, AbstractStepRows DEF Inv, Lifecycle!lifecycleVars
<1> QED
  BY <1>1, Invariance, PTL DEF Spec, TerminalIsFinal

\* A handler is entered only by the worker that passed the checkpoint, for
\* the running row it holds.
LEMMA HandlerEntry ==
  ASSUME Inv, [Next]_vars
  PROVE  \/ UNCHANGED executed /\ \A k \in Kind : wk'[k].pc = "handler" => wk[k].pc = "handler"
         \/ \E k \in Kind :
              /\ WorkerAt(k, "check") /\ Holds(k) /\ ~CancelSeen(k)
              /\ executed' = executed \union {wk[k].op}
              /\ wk' = [wk EXCEPT ![k].pc = "handler"]
<1> DEFINE Quiet == UNCHANGED executed /\ \A k \in Kind : wk'[k].pc = "handler" => wk[k].pc = "handler"
<1> USE DEF Inv, TypeOK, history
<1>1. ASSUME NEW k \in Kind, CheckBeforeExecution(k), ~CancelSeen(k), EnterHandler(k)
      PROVE  \E j \in Kind :
              /\ WorkerAt(j, "check") /\ Holds(j) /\ ~CancelSeen(j)
              /\ executed' = executed \union {wk[j].op}
              /\ wk' = [wk EXCEPT ![j].pc = "handler"]
  BY <1>1 DEF CheckBeforeExecution, EnterHandler, Goto, WorkerAt, IInv, WorkersHold, WorkerHolds, Owning
<1>2. ASSUME NEW k \in Kind, UNCHANGED executed, NEW pc \in WorkerPc, pc # "handler", Goto(k, pc)
      PROVE  Quiet
  BY <1>2 DEF Goto, WorkerState
<1>3. ASSUME NEW k \in Kind, UNCHANGED executed, NEW t \in Outcome, DecideWrite(k, t) PROVE Quiet
  BY <1>3 DEF DecideWrite, WorkerState
<1>4. ASSUME NEW k \in Kind, UNCHANGED executed, EndTurn(k) PROVE Quiet
  BY <1>4 DEF EndTurn, FreshWorker
<1>5. ASSUME NEW k \in Kind, UNCHANGED executed, NEW o \in OpId, AnnounceCancelled(k, o) \/ ClaimRow(k, o)
      PROVE  Quiet
  <2>1. \A j \in Kind : wk'[j] = wk[j] \/ wk'[j].pc \in {"announceEnd", "announceStart"}
    BY <1>5 DEF AnnounceCancelled, ClaimRow, WorkerState
  <2> QED
    BY <1>5, <2>1
<1>6. CASE UNCHANGED <<executed, wk>>
  BY <1>6
<1>7. ASSUME NEW k \in Kind, WorkerStep(k)
      PROVE  Quiet \/ (CheckBeforeExecution(k) /\ ~CancelSeen(k) /\ EnterHandler(k))
  BY <1>7, <1>2, <1>3, <1>4, <1>5, Members
  DEF WorkerStep, CompleteQueuedCancellation, CancelledInQueue, Claim, Queued, Wake, PublishStart,
      PublishEnd, Publish, CheckBeforeExecution, HandlerReturns, RecheckAfterSuccess, WriteTerminal
<1>8. CASE Crash
  BY <1>8 DEF Crash, FreshWorker
<1> QED
  BY <1>1, <1>6, <1>7, <1>8
  DEF Next, Submit, RequestCancel, AskCancel, RequestStep, InsertRow, InsertWithoutIndex, RereadRow,
      RefindRow, PublishRequest, Publish, Boot, BootInto, vars

\* A handler that has not begun when a cancel request commits never begins.
THEOREM NoLateStart == Spec => NoStartAfterCancel
<1>1. Inv /\ [Next]_vars => [\A o \in cancelAsked : o \in executed' => o \in executed]_vars
  <2> SUFFICES ASSUME Inv, [Next]_vars, NEW o \in cancelAsked, o \in executed'
               PROVE  o \in executed
    OBVIOUS
  <2>1. status[o] \in {"cancel_requested"} \union Terminal
    BY DEF Inv, IInv, RowHistory, TypeOK
  <2> QED
    BY <2>1, HandlerEntry DEF Holds, CancelSeen, InFlight, Terminal
<1> QED
  BY <1>1, Invariance, PTL DEF Spec, NoStartAfterCancel

\* No handler runs twice for one row, across crashes and boots.
THEOREM HandlersRunOnce == Spec => RunsAtMostOnce
<1>1. Inv /\ [Next]_vars => [\A k \in Kind : wk'[k].pc = "handler" /\ wk[k].pc # "handler"
                                             => wk'[k].op \notin executed]_vars
  <2> SUFFICES ASSUME Inv, [Next]_vars, NEW j \in Kind, wk'[j].pc = "handler", wk[j].pc # "handler"
               PROVE  wk'[j].op \notin executed
    OBVIOUS
  <2>1. PICK k \in Kind : /\ WorkerAt(k, "check") /\ Holds(k)
                          /\ wk' = [wk EXCEPT ![k].pc = "handler"]
    BY HandlerEntry
  <2>2. wk'[j].op = wk[k].op
    BY <2>1 DEF Inv, TypeOK, WorkerState
  <2> QED
    BY <2>1, <2>2 DEF Holds, WorkerAt
<1> QED
  BY <1>1, Invariance, PTL DEF Spec, RunsAtMostOnce

\* No step but a claim puts a row in flight: a started row in flight after
\* it was one before it.
LEMMA StayedInFlight ==
  ASSUME Inv, [Next]_vars, NEW o \in started, status'[o] \in InFlight
  PROVE  status[o] \in InFlight /\ keyOf'[o] = keyOf[o]
<1> USE SameWords DEF Inv, TypeOK, IInv
<1>1. status[o] \notin {"absent", "queued"} /\ o \in OpId
  BY DEF RowHistory
<1>2. CASE UNCHANGED <<status, keyOf, started>>
  BY <1>2
<1>3. ASSUME NEW p \in OpId, status'[o] = status[o] \/ o = p, keyOf'[o] = keyOf[o] \/ o = p,
             status[p] \in {"absent", "queued"}
      PROVE  status[o] \in InFlight /\ keyOf'[o] = keyOf[o]
  BY <1>1, <1>3
<1>4. ASSUME NEW p \in OpId, NEW k \in Key, Lifecycle!Create(p, k)
      PROVE  status[o] \in InFlight /\ keyOf'[o] = keyOf[o]
  BY <1>1, <1>4 DEF Lifecycle!Create
<1>5. ASSUME NEW p \in OpId, Lifecycle!Begin(p)
      PROVE  status[o] \in InFlight /\ keyOf'[o] = keyOf[o]
  BY <1>1, <1>5 DEF Lifecycle!Begin
<1>6. ASSUME NEW p \in OpId, Lifecycle!AskCancel(p)
      PROVE  status[o] \in InFlight /\ keyOf'[o] = keyOf[o]
  BY <1>1, <1>6 DEF Lifecycle!AskCancel, InFlight
<1>7. ASSUME NEW p \in OpId, NEW t, Lifecycle!Finish(p, t)
      PROVE  status[o] \in InFlight /\ keyOf'[o] = keyOf[o]
  BY <1>1, <1>7 DEF Lifecycle!Finish
<1>8. CASE Lifecycle!Interrupt
  BY <1>1, <1>8 DEF Lifecycle!Interrupt, InFlight
<1> QED
  BY StepLives, <1>2, <1>4, <1>5, <1>6, <1>7, <1>8 DEF Lifecycle!LifecycleNext, Lifecycle!lifecycleVars

\* A worker's step keeps hold of its row until the row is finished or
\* stranded.
LEMMA WorkerKeepsHands ==
  ASSUME Inv, OwnedOrStranded, up, NEW k \in Kind, WorkerStep(k),
         NEW o \in started', status'[o] \in InFlight
  PROVE  InHands(o)'
<1> USE DEF Inv, TypeOK, IInv, rowVars, history
<1>1. [Next]_vars
  BY DEF Next
<1>2. UNCHANGED keyOf /\ o \in OpId /\ KindOf[keyOf[o]] \in Kind
  BY KeyAssumption, StepTypeOK, <1>1
  DEF WorkerStep, CompleteQueuedCancellation, Claim, Wake, PublishStart, PublishEnd,
      CheckBeforeExecution, HandlerReturns, RecheckAfterSuccess, WriteTerminal
<1>3. o \in started => status[o] \in InFlight /\ InHands(o)
  BY StayedInFlight, <1>1 DEF OwnedOrStranded, InHands
<1>4. stranded \subseteq stranded'
  BY DEF WorkerStep, CompleteQueuedCancellation, Claim, Wake, PublishStart, PublishEnd, Publish,
         CheckBeforeExecution, HandlerReturns, RecheckAfterSuccess, WriteTerminal
<1>5. CASE WriteTerminal(k)
  <2>1. /\ started' = started /\ WriteApplies(k) /\ wk[k].outcome \in Outcome
        /\ \A j \in Kind : j # k => wk'[j] = wk[j]
    BY <1>5 DEF WriteTerminal, WorkersHold, WorkerHolds, Holds, WriteApplies, WorkerAt, Owning,
                WorkerState, Goto, EndTurn
  <2>2. wk[k].op # o \/ o \in stranded'
    BY <1>2, <1>5, <2>1 DEF WriteTerminal, Outcome, InFlight
  <2> QED
    BY <1>2, <1>3, <1>4, <2>1, <2>2 DEF InHands
<1>6. CASE \E p \in OpId : ClaimRow(k, p) /\ KindOf[keyOf[p]] = k /\ wk[k].pc = "claim"
  <2>1. PICK p \in OpId : ClaimRow(k, p) /\ KindOf[keyOf[p]] = k /\ wk[k].pc = "claim"
    BY <1>6
  <2>2. /\ wk'[k].op = p /\ wk'[k].pc = "announceStart"
        /\ \A j \in Kind : j # k => wk'[j] = wk[j]
        /\ started' = started \union {p}
    BY <2>1 DEF ClaimRow, WorkerState
  <2> QED
    BY <1>2, <1>3, <1>4, <2>1, <2>2 DEF InHands, Owning
<1>7. ASSUME started' = started, \A j \in Kind : j # k => wk'[j] = wk[j],
             wk[k].pc \in Owning => wk'[k].pc \in Owning /\ wk'[k].op = wk[k].op
      PROVE  InHands(o)'
  BY <1>2, <1>3, <1>4, <1>7 DEF InHands
<1>8. CASE wk[k].pc \notin Owning /\ ~\E p \in OpId : ClaimRow(k, p) /\ KindOf[keyOf[p]] = k /\ wk[k].pc = "claim"
  <2>1. started' = started /\ \A j \in Kind : j # k => wk'[j] = wk[j]
    BY <1>8 DEF WorkerStep, WorkerAt, CompleteQueuedCancellation, AnnounceCancelled, Claim, Queued,
                IsOldest, Wake, PublishStart, PublishEnd, Goto, EndTurn, CheckBeforeExecution,
                HandlerReturns, RecheckAfterSuccess, WriteTerminal, Owning
  <2> QED
    BY <1>7, <1>8, <2>1
<1>9. CASE PublishStart(k) \/ CheckBeforeExecution(k) \/ HandlerReturns(k) \/ RecheckAfterSuccess(k)
  <2>1. \/ \E pc \in {"check", "handler", "recheck"} : Goto(k, pc)
        \/ \E t \in Outcome : DecideWrite(k, t)
    BY <1>9, Members DEF PublishStart, CheckBeforeExecution, EnterHandler, HandlerReturns, RecheckAfterSuccess
  <2>2. \A j \in Kind : j # k => wk'[j] = wk[j]
    BY <2>1 DEF Goto, DecideWrite
  <2>3. wk'[k].pc \in Owning /\ wk'[k].op = wk[k].op
    BY <2>1, WorkerMoves, Members DEF Owning
  <2>4. started' = started
    BY <1>9 DEF PublishStart, CheckBeforeExecution, HandlerReturns, RecheckAfterSuccess
  <2> QED
    BY <1>7, <2>2, <2>3, <2>4
<1>10. CASE CompleteQueuedCancellation(k) \/ Claim(k) \/ Wake(k) \/ PublishEnd(k)
  <2>1. wk[k].pc \notin Owning
    BY <1>10 DEF CompleteQueuedCancellation, Claim, Wake, PublishEnd, WorkerAt, Owning
  <2> QED
    BY <1>6, <1>8, <2>1
<1> QED
  BY <1>5, <1>9, <1>10 DEF WorkerStep

\* A started row that is not finished has a worker that will write its
\* outcome, unless that write already failed.
THEOREM RowsInHands == Spec => []OwnedOrStranded
<1>1. Init => OwnedOrStranded
  BY DEF Init, OwnedOrStranded
<1>2. Inv /\ OwnedOrStranded /\ [Next]_vars => OwnedOrStranded'
  <2> SUFFICES ASSUME Inv, OwnedOrStranded, [Next]_vars, up',
                      NEW o \in started', status'[o] \in InFlight
               PROVE  InHands(o)'
    BY DEF OwnedOrStranded, InHands
  <2> USE DEF rowVars, history
  <2>1. ASSUME UNCHANGED <<up, started, stranded, wk>> PROVE InHands(o)'
    BY <2>1, StayedInFlight DEF OwnedOrStranded, InHands
  <2>2. ASSUME NEW k \in Kind, WorkerStep(k) PROVE InHands(o)'
    <3>1. up
      BY <2>2 DEF WorkerStep, WorkerAt, CompleteQueuedCancellation, Claim, Wake, PublishStart,
                 PublishEnd, CheckBeforeExecution, HandlerReturns, RecheckAfterSuccess, WriteTerminal
    <3> QED
      BY <2>2, <3>1, WorkerKeepsHands
  <2>3. CASE Boot
    BY <2>3 DEF Boot, BootInto, Inv, TypeOK, InFlight
  <2> QED
    BY <2>1, <2>2, <2>3
    DEF Next, Submit, RequestCancel, AskCancel, RequestStep, InsertRow, InsertWithoutIndex,
        RereadRow, RefindRow, PublishRequest, Publish, Crash, vars
<1> QED
  BY <1>1, <1>2, Invariance, PTL DEF Spec

\* A worker decides for "succeeded" only when its last checkpoint saw no
\* cancel request.
LEMMA LastCheckpoint ==
  ASSUME Inv, [Next]_vars, NEW o \in OpId, status[o] = "cancel_requested", PastLastCheckpoint(o)'
  PROVE  PastLastCheckpoint(o)
<1> USE DEF Inv, TypeOK, history
<1>1. PICK j \in Kind : wk'[j].op = o /\ wk'[j].pc = "write" /\ wk'[j].outcome = "succeeded"
  BY DEF PastLastCheckpoint
<1>2. CASE wk'[j] = wk[j]
  BY <1>1, <1>2 DEF PastLastCheckpoint
<1>3. ASSUME NEW k \in Kind, NEW pc \in WorkerPc, pc # "write", Goto(k, pc) PROVE wk'[j] = wk[j]
  BY <1>1, <1>3 DEF Goto, WorkerState
<1>4. ASSUME NEW k \in Kind, NEW t \in {"failed", "cancelled"}, DecideWrite(k, t) PROVE wk'[j] = wk[j]
  BY <1>1, <1>4 DEF DecideWrite, WorkerState
<1>5. ASSUME NEW k \in Kind, EndTurn(k) PROVE wk'[j] = wk[j]
  BY <1>1, <1>5 DEF EndTurn, FreshWorker
<1>6. ASSUME NEW k \in Kind, NEW p \in OpId, AnnounceCancelled(k, p) PROVE wk'[j] = wk[j]
  BY <1>1, <1>6 DEF AnnounceCancelled
<1>7. ASSUME NEW k \in Kind, NEW p \in OpId, ClaimRow(k, p) PROVE wk'[j] = wk[j]
  BY <1>1, <1>7 DEF ClaimRow, WorkerState
<1>8. ASSUME NEW k \in Kind, ~CancelSeen(k), DecideWrite(k, "succeeded") PROVE wk'[j] = wk[j]
  <2>1. wk[k].op # o
    BY <1>8 DEF CancelSeen
  <2> QED
    BY <1>1, <1>8, <2>1 DEF DecideWrite, WorkerState
<1>9. ASSUME NEW k \in Kind, RecheckAfterSuccess(k) PROVE wk'[j] = wk[j]
  BY <1>4, <1>8, <1>9 DEF RecheckAfterSuccess
<1>10. ASSUME NEW k \in Kind, WorkerStep(k) PROVE wk'[j] = wk[j]
  BY <1>3, <1>4, <1>5, <1>6, <1>7, <1>9, <1>10, Members
  DEF WorkerStep, CompleteQueuedCancellation, CancelledInQueue, Claim, Queued, Wake, PublishStart,
      PublishEnd, CheckBeforeExecution, EnterHandler, HandlerReturns, WriteTerminal
<1>11. CASE Crash
  BY <1>1, <1>11 DEF Crash, FreshWorker
<1> QED
  BY <1>2, <1>10, <1>11
  DEF Next, Submit, RequestCancel, AskCancel, RequestStep, InsertRow, InsertWithoutIndex, RereadRow,
      RefindRow, PublishRequest, Boot, BootInto, vars

\* Only a worker past its last checkpoint turns a cancel request into a
\* success.
LEMMA SuccessNeedsCheckpoint ==
  ASSUME Inv, [Next]_vars, NEW o \in OpId, MustNotSucceed(o)
  PROVE  status'[o] \in {"cancel_requested", "cancelled", "failed", "interrupted"}
<1> USE DEF Inv, TypeOK, rowVars, MustNotSucceed
<1>1. ASSUME NEW c \in Client, RequestStep(c) PROVE status'[o] = status[o]
  BY <1>1 DEF RequestStep, InsertRow, InsertWithoutIndex, RereadRow, RefindRow, PublishRequest,
             RequestAt, IInv, IdsFresh
<1>2. ASSUME NEW c \in Client, NEW p \in OpId, RequestCancel(c, p) PROVE status'[o] = status[o]
  BY <1>2 DEF RequestCancel, AskCancel
<1>3. ASSUME NEW k \in Kind, WriteTerminal(k)
      PROVE  status'[o] \in {"cancel_requested", "cancelled", "failed"}
  BY <1>3 DEF WriteTerminal, WorkerAt, PastLastCheckpoint, WorkerState, Outcome
<1>4. ASSUME NEW k \in Kind, WorkerStep(k) PROVE status'[o] \in {"cancel_requested", "cancelled", "failed"}
  BY <1>3, <1>4
  DEF WorkerStep, CompleteQueuedCancellation, CancelledInQueue, Claim, ClaimRow, Queued, Wake,
      PublishStart, PublishEnd, CheckBeforeExecution, HandlerReturns, RecheckAfterSuccess
<1>5. CASE Boot
  BY <1>5 DEF Boot, BootInto, InFlight
<1> QED
  BY <1>1, <1>2, <1>4, <1>5 DEF Next, Submit, Crash, vars

\* A cancel request that precedes the worker's last checkpoint never ends
\* in a success.
THEOREM CancelsHonoured == Spec => CancelHonoured
<1>1. Inv /\ [Next]_vars =>
        [\A o \in OpId : MustNotSucceed(o) =>
           MustNotSucceed(o)' \/ status'[o] \in {"cancelled", "failed", "interrupted"}]_vars
  BY LastCheckpoint, SuccessNeedsCheckpoint DEF MustNotSucceed
<1> QED
  BY <1>1, Invariance, PTL DEF Spec, CancelHonoured

=============================================================================
