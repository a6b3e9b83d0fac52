------------------------------- MODULE PageFlows -------------------------------
(***************************************************************************)
(* The mutation flows of the page: handleRescan and handleImport of        *)
(* App.tsx with the poll of useOperationPoll, the button they hold, the    *)
(* toasts that offer to retry them, and the running-operations summary     *)
(* with its interval.  The lists a success fetches again are in PageLists. *)
(*                                                                         *)
(* A handler is an asynchronous function; an action is what runs between   *)
(* two of its awaits.                                                      *)
(***************************************************************************)
EXTENDS Naturals, FiniteSets

CONSTANTS
  Batch,       \* what an import can ship: the keys and their fingerprints
  MaxCalls,    \* bound: handler calls
  None, Asked, \* nothing; a count the server has not taken yet
  MaxOps, MaxFaults   \* bounds: operations created, requests that fail

Flow == 1 .. MaxCalls

\* A rescan has one idempotency key, whatever the sources hold.
Request == {"rescan"} \union Batch
Kind == {"rescan", "import"}
KindOf(r) == IF r = "rescan" THEN "rescan" ELSE "import"

ASSUME FlowsAssumption ==
  /\ MaxCalls \in Nat /\ MaxOps \in Nat /\ MaxFaults \in Nat
  /\ None \notin Request \union Kind

VARIABLES
  op,          \* server: the operations ledger
  pending,     \* the button that shows "Starting..."
  flow,        \* calls of handleRescan and handleImport under way
  poller,      \* controllersRef: the call that polls an operation
  running,     \* operationSummary.runningCount
  tick,        \* the summary request of the interval or the refresh button
  retryable,   \* handlers a toast on display offers to retry
  faults,      \* requests that failed so far
  told         \* history: operations a toast was pushed about

callVars == <<pending, flow, poller>>
summaryVars == <<running, tick>>
flowVars == <<op, callVars, summaryVars, retryable, faults, told>>

OpId == 1 .. MaxOps
NoOp == [req |-> None, status |-> "absent"]
Op == [req : Request \union {None}, status : {"absent", "active", "succeeded", "failed"}]

\* A summary request: Asked, or the count the server has answered.
Count == {None, Asked} \union (0 .. MaxOps)

Idle == [pc |-> "idle", req |-> None, op |-> 0, aborted |-> FALSE, count |-> None]
Done == [Idle EXCEPT !.pc = "done"]
Call == [pc : {"idle", "done", "submit", "count", "poll", "recount"}, req : Request \union {None},
         op : OpId \union {0}, aborted : BOOLEAN, count : Count]

FlowsTypeOK ==
  /\ op \in [OpId -> Op]
  /\ pending \in Kind \union {None}
  /\ flow \in [Flow -> Call] /\ poller \in [OpId -> {0} \union Flow]
  /\ running \in 0 .. MaxOps /\ tick \in Count
  /\ retryable \subseteq Kind
  /\ faults \in 0 .. MaxFaults /\ told \subseteq OpId

FlowsBegin(asked) ==
  /\ op = [o \in OpId |-> NoOp]
  /\ pending = None
  /\ flow = [f \in Flow |-> Idle] /\ poller = [o \in OpId |-> 0]
  /\ running = 0 /\ tick = asked
  /\ retryable = {}
  /\ faults = 0 /\ told = {}

\* The effect of the first render asks for the summary.
FlowsInit == FlowsBegin(Asked)

Fault == faults < MaxFaults /\ faults' = faults + 1

-----------------------------------------------------------------------------
(* The server *)

ActiveOps == {o \in OpId : op[o].status = "active"}

Answers(o, status) ==
  /\ op[o].status = "active"
  /\ op' = [op EXCEPT ![o].status = status]
  /\ UNCHANGED <<callVars, summaryVars, retryable, faults, told>>

OpEnds(o) == Answers(o, "succeeded") \/ Answers(o, "failed")

-----------------------------------------------------------------------------
(* handleRescan and handleImport *)

\* A toast with a Retry button.
Problem(f) == retryable' = retryable \union {KindOf(flow[f].req)}

\* An import ships what is selected, importable and shown at the moment; a
\* retry may find nothing of it left.
Start(r) ==
  \E f \in Flow :
    /\ flow[f] = Idle /\ \A e \in Flow : flow[e] = Idle => f <= e
    /\ flow' = [flow EXCEPT ![f] = [Idle EXCEPT !.pc = "submit", !.req = r]]
    /\ pending' = KindOf(r)
    /\ UNCHANGED <<op, poller, summaryVars, retryable, faults, told>>

Click(r) == pending = None /\ Start(r)

\* Retry calls the latest handler; it does not look at pending.
Retry(r) == KindOf(r) \in retryable /\ Start(r)

\* Dismissed by the user, or pushed out of the queue by newer toasts.
Dismiss(kind) ==
  /\ kind \in retryable
  /\ retryable' = retryable \ {kind}
  /\ UNCHANGED <<op, callVars, summaryVars, faults, told>>

\* The server answers with the operation that holds the idempotency key, or
\* with a new one.
Holding(r) == {o \in OpId : op[o].req = r /\ op[o].status \in {"active", "succeeded"}}
NextOp == {o \in OpId : op[o].status = "absent" /\ \A p \in OpId : op[p].status = "absent" => o <= p}

Submitted(f) ==
  /\ flow[f].pc = "submit"
  /\ \E o \in IF Holding(flow[f].req) = {} THEN NextOp ELSE Holding(flow[f].req) :
       /\ flow' = [flow EXCEPT ![f].pc = "count", ![f].op = o, ![f].count = Asked]
       /\ op' = IF op[o].status = "absent"
                   THEN [op EXCEPT ![o] = [req |-> flow[f].req, status |-> "active"]] ELSE op
  /\ UNCHANGED <<pending, poller, summaryVars, retryable, faults, told>>

SubmitFails(f) ==
  /\ flow[f].pc = "submit"
  \* a server whose ledger has reached the bound refuses
  /\ Fault \/ (NextOp = {} /\ Holding(flow[f].req) = {} /\ UNCHANGED faults)
  /\ flow' = [flow EXCEPT ![f] = Done]
  /\ pending' = None
  /\ Problem(f)
  /\ UNCHANGED <<op, poller, summaryVars, told>>

\* The server takes the count for a handler that waits for it.
Counted(f) ==
  /\ flow[f].count = Asked
  /\ flow' = [flow EXCEPT ![f].count = Cardinality(ActiveOps)]
  /\ UNCHANGED <<op, pending, poller, summaryVars, retryable, faults, told>>

\* refreshOperationsSummary returns: whichever answer lands last is shown;
\* a failure leaves the summary as it is.
SummaryReturns(f) ==
  \/ flow[f].count \in 0 .. MaxOps /\ running' = flow[f].count /\ UNCHANGED faults
  \/ flow[f].count = Asked /\ Fault /\ UNCHANGED running

\* Variant that registers before it aborts, and so aborts itself.
BeginPollSwapped(f) ==
  /\ flow[f].pc = "count" /\ SummaryReturns(f)
  /\ pending' = None
  /\ poller' = [poller EXCEPT ![flow[f].op] = f]
  /\ flow' = [flow EXCEPT ![f].pc = "poll", ![f].count = None, ![f].aborted = TRUE]
  /\ UNCHANGED <<op, tick, retryable, told>>

\* The button is released and the poll begins: it aborts an earlier poll of
\* the same operation.
BeginPoll(f) ==
  /\ flow[f].pc = "count" /\ SummaryReturns(f)
  /\ pending' = None
  /\ poller' = [poller EXCEPT ![flow[f].op] = f]
  /\ flow' = [e \in Flow |->
       IF e = f THEN [flow[f] EXCEPT !.pc = "poll", !.count = None]
       ELSE IF e = poller[flow[f].op] THEN [flow[e] EXCEPT !.aborted = TRUE] ELSE flow[e]]
  /\ UNCHANGED <<op, tick, retryable, told>>

\* Variant that forgets whichever poll is registered.
ReleaseAny(f) == poller' = [poller EXCEPT ![flow[f].op] = 0]

\* A poll that ends takes itself, and no later one, out of the controllers.
Release(f) == poller' = [poller EXCEPT ![flow[f].op] = IF @ = f THEN 0 ELSE @]

PollEnds(f) ==
  /\ flow[f].pc = "poll" /\ ~flow[f].aborted
  /\ op[flow[f].op].status # "active"
  /\ Release(f)
  /\ flow' = [flow EXCEPT ![f].pc = "recount", ![f].count = Asked]
  /\ UNCHANGED <<op, pending, summaryVars, retryable, faults, told>>

PollFails(f) ==
  /\ flow[f].pc = "poll" /\ ~flow[f].aborted
  /\ Fault
  /\ Release(f)
  /\ flow' = [flow EXCEPT ![f] = Done]
  /\ Problem(f)
  /\ told' = told \union {flow[f].op}
  /\ UNCHANGED <<op, pending, summaryVars>>

\* The newer call of the same operation will tell.
PollAborted(f) ==
  /\ flow[f].pc = "poll" /\ flow[f].aborted
  /\ Release(f)
  /\ flow' = [flow EXCEPT ![f] = Done]
  /\ UNCHANGED <<op, pending, summaryVars, retryable, faults, told>>

\* The toast; a success goes on to the caches and the lists.
Conclude(f) ==
  /\ flow[f].pc = "recount" /\ SummaryReturns(f)
  /\ flow' = [flow EXCEPT ![f] = Done]
  /\ told' = told \union {flow[f].op}
  /\ IF op[flow[f].op].status = "failed" THEN Problem(f) ELSE UNCHANGED retryable
  /\ UNCHANGED <<op, pending, poller, tick>>

-----------------------------------------------------------------------------
(* The running-operations summary *)

\* Variant whose interval follows the buttons.
TickWhilePending ==
  /\ tick = None /\ pending # None
  /\ tick' = Asked
  /\ UNCHANGED <<op, callVars, running, retryable, faults, told>>

\* The interval runs while the summary says that something does.
Tick ==
  /\ tick = None /\ running > 0
  /\ tick' = Asked
  /\ UNCHANGED <<op, callVars, running, retryable, faults, told>>

\* The refresh button is there while it says that nothing does.
ManualRefresh ==
  /\ tick = None /\ running = 0
  /\ tick' = Asked
  /\ UNCHANGED <<op, callVars, running, retryable, faults, told>>

TickCounted ==
  /\ tick = Asked
  /\ tick' = Cardinality(ActiveOps)
  /\ UNCHANGED <<op, callVars, running, retryable, faults, told>>

TickReturns ==
  /\ \/ tick \in 0 .. MaxOps /\ running' = tick /\ UNCHANGED faults
     \/ tick = Asked /\ Fault /\ UNCHANGED running
  /\ tick' = None
  /\ UNCHANGED <<op, callVars, retryable, told>>

-----------------------------------------------------------------------------

FlowStep(f) ==
  \/ Submitted(f) \/ SubmitFails(f) \/ Counted(f) \/ BeginPoll(f)
  \/ PollEnds(f) \/ PollFails(f) \/ PollAborted(f) \/ Conclude(f)
SummaryStep == Tick \/ TickCounted \/ TickReturns

FlowsNext ==
  \/ \E o \in OpId : OpEnds(o)
  \/ \E r \in Request : Click(r) \/ Retry(r)
  \/ \E kind \in Kind : Dismiss(kind)
  \/ \E f \in Flow : FlowStep(f)
  \/ SummaryStep \/ ManualRefresh

\* Requests are answered, timers fire and the server's workers run.
FlowsFairness ==
  /\ \A o \in OpId : WF_flowVars(OpEnds(o))
  /\ \A f \in Flow : WF_flowVars(FlowStep(f))
  /\ WF_flowVars(SummaryStep)

-----------------------------------------------------------------------------
(* Properties *)

\* However often an operation is submitted again, at most one handler polls
\* it, so its end is told once.
OnePollPerOperation ==
  \A e, f \in Flow :
    flow[e].pc = "poll" /\ flow[f].pc = "poll" /\ flow[e].op = flow[f].op
      /\ ~flow[e].aborted /\ ~flow[f].aborted => e = f

\* The outcome of every operation the page polls is told by a toast, though
\* calls abort each other's polls.
OutcomeIsTold ==
  \A f \in Flow, o \in OpId : flow[f].pc = "poll" /\ flow[f].op = o ~> o \in told

\* The badge of running operations goes out once nothing runs, though older
\* counts may land after newer ones.
SummarySettles == ActiveOps = {} ~> running = 0 \/ ActiveOps # {}

=============================================================================
