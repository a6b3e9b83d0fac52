--------------------------- MODULE SourceInventory ---------------------------
(***************************************************************************)
(* The inventory of source files the backend holds in memory, and the      *)
(* three tasks that change it or what it is compared with: the poll loop,  *)
(* the worker of rescans and the worker of imports.  Each holds scan_lock  *)
(* from its first look to its last write; users edit the files at any      *)
(* time, and submissions read the inventory without the lock.              *)
(*                                                                         *)
(* A fingerprint is the content it is made from.  Of a row of the store    *)
(* the model keeps its fingerprint, of the ledger the imports a submission *)
(* can be answered with; RawStore and Operations have the rest.            *)
(***************************************************************************)
EXTENDS Naturals, Sequences, FiniteSets

CONSTANTS
  Roots,       \* the paths below the roots of each adapter, as numbers in order
  KeyOf,       \* path -> source_key: the tool and the id in the file's name
  Task,        \* who scans: the poll loop, the rescan worker, the import worker
  Content,     \* what a session file can hold, by fingerprint
  Present,     \* the files there are at first
  Request,     \* what users ask to import: sets of keys
  None,
  MaxEdits, MaxFaults   \* bounds: changes of files, failing calls

File == UNION {Roots[i] : i \in DOMAIN Roots}
Session == {KeyOf[f] : f \in File}

\* A file that is not there, one without a complete line, one that does not
\* parse, and one that does.
FileState == {"missing", "partial", "broken"} \union Content

\* An import under way, or one that has succeeded: what was asked for, the
\* hash it is answered by and what it hashed; as history, whether the
\* inventory changed before it ran and whether a later one stored other bytes.
Import == [keys : SUBSET Session, version : [Session -> Nat] \X [Content -> Nat],
           pairs : SUBSET (File \X Content), drifted : BOOLEAN, overwritten : BOOLEAN]

ASSUME InventoryAssumption ==
  /\ Roots \in Seq(SUBSET Nat) /\ File \subseteq DOMAIN KeyOf /\ IsFiniteSet(File)
  /\ Present \subseteq File /\ Request \subseteq SUBSET Session
  /\ Task \subseteq {"poll", "rescan", "import"}
  /\ Content # {} /\ None \notin FileState /\ None \notin Import
  /\ {"missing", "partial", "broken"} \intersect Content = {}
  /\ MaxEdits \in Nat /\ MaxFaults \in Nat

VARIABLES
  files,       \* the source files
  rows,        \* sessions: the fingerprint of every key, or None
  errors,      \* scan_errors: the paths that have one
  inventory,   \* source_inventory: entries with the status they were given
  queue,       \* scan_lock: who waits, first come first served
  task,        \* the poll loop and the two workers
  job,         \* the import that is queued or runs
  succeeded,   \* imports that have succeeded
  halfDone,    \* history: rows changed since the inventory was made
  edits, faults

vars == <<files, rows, errors, inventory, queue, task, job, succeeded, halfDone, edits, faults>>
outside == <<files, edits>>

Rest == [pc |-> "idle", read |-> {}, later |-> <<>>, found |-> {}, bad |-> {}, entries |-> {}, cancelled |-> FALSE]
Holds(t) == task[t].pc \notin {"idle", "waiting"}

StatusOf(k, c) ==
  IF rows[k] = None THEN "not_stored" ELSE IF rows[k] = c THEN "up_to_date" ELSE "outdated"
Entry(f, c) == [file |-> f, content |-> c, status |-> StatusOf(KeyOf[f], c)]

\* The process has just scanned its roots.
Init ==
  /\ files = [f \in File |-> IF f \in Present THEN CHOOSE c \in Content : TRUE ELSE "missing"]
  /\ rows = [k \in Session |-> None]
  /\ errors = {}
  /\ inventory = {[file |-> f, content |-> files[f], status |-> "not_stored"] : f \in Present}
  /\ queue = <<>> /\ task = [t \in Task |-> Rest]
  /\ job = None /\ succeeded = {}
  /\ halfDone = FALSE /\ edits = 0 /\ faults = 0

\* Agents write, truncate, spoil and remove their files at any time.
Edit(f, s) ==
  /\ edits < MaxEdits /\ edits' = edits + 1
  /\ files[f] # s /\ files' = [files EXCEPT ![f] = s]
  /\ UNCHANGED <<rows, errors, inventory, queue, task, job, succeeded, halfDone, faults>>

-----------------------------------------------------------------------------
(* Submissions *)

Requested(inv, keys) == {e \in inv : KeyOf[e.file] \in keys}
Pairs(inv, keys) == {<<e.file, e.content>> : e \in Requested(inv, keys)}

\* Variant that leaves the fingerprints out of the hash.
VersionOfKeys(inv, keys) ==
  [k \in Session |-> Cardinality({e \in Requested(inv, keys) : KeyOf[e.file] = k})]

\* The keys and the fingerprints found are sorted apart and hashed together.
InputVersion(inv, keys) ==
  <<[k \in Session |-> Cardinality({e \in Requested(inv, keys) : KeyOf[e.file] = k})],
    [c \in Content |-> Cardinality({e \in Requested(inv, keys) : e.content = c})]>>

Answers(import, keys) == import.keys = keys /\ import.version = InputVersion(inventory, keys)

\* A submission that no earlier import answers is queued.  One is in flight
\* at a time here; Operations has the queue.
Submit(keys) ==
  /\ job = None /\ \A import \in succeeded : ~Answers(import, keys)
  /\ job' = [keys |-> keys, version |-> InputVersion(inventory, keys),
             pairs |-> Pairs(inventory, keys), drifted |-> FALSE, overwritten |-> FALSE]
  /\ UNCHANGED <<outside, rows, errors, inventory, queue, task, succeeded, halfDone, faults>>

\* A cancel request reaches a handler at its next checkpoint.
RequestCancel(t) ==
  /\ t # "poll" /\ task[t].pc # "idle" /\ ~task[t].cancelled
  /\ task' = [task EXCEPT ![t].cancelled = TRUE]
  /\ UNCHANGED <<outside, rows, errors, inventory, queue, job, succeeded, halfDone, faults>>

-----------------------------------------------------------------------------
(* scan_lock *)

Move(t, pc) == task' = [task EXCEPT ![t].pc = pc]

\* The interval ticks, or a worker claims an operation of its kind.
Begin(t) ==
  /\ task[t].pc = "idle" /\ (t = "import" => job # None)
  /\ Move(t, "waiting") /\ queue' = Append(queue, t)
  /\ UNCHANGED <<outside, rows, errors, inventory, job, succeeded, halfDone, faults>>

Scan(rest) == [rest EXCEPT !.pc = "scan", !.read = {}, !.later = Roots, !.found = {}]

\* Variant that does not wait for the lock.
LockShared(t) ==
  /\ task[t].pc = "waiting" /\ Head(queue) = t
  /\ queue' = Tail(queue)
  /\ task' = [task EXCEPT ![t] = IF t = "import"
                THEN [@ EXCEPT !.pc = "ingest", !.found = Pairs(inventory, job.keys)] ELSE Scan(@)]
  /\ UNCHANGED <<outside, rows, errors, inventory, job, succeeded, halfDone, faults>>

\* An import selects its sessions when it has the lock.
Lock(t) ==
  /\ task[t].pc = "waiting" /\ Head(queue) = t /\ ~\E u \in Task : Holds(u)
  /\ queue' = Tail(queue)
  /\ task' = [task EXCEPT ![t] = IF t = "import"
                THEN [@ EXCEPT !.pc = "ingest", !.found = Pairs(inventory, job.keys)] ELSE Scan(@)]
  /\ UNCHANGED <<outside, rows, errors, inventory, job, succeeded, halfDone, faults>>

\* The handler returns without success and the guard is dropped; the poll
\* loop logs the error and waits for its next tick.
Stop(t) ==
  /\ task' = [task EXCEPT ![t] = Rest]
  /\ job' = IF t = "import" THEN None ELSE job
  /\ UNCHANGED <<outside, inventory, queue>>

\* Any call can fail, a checkpoint's look at the ledger included.
Fault == faults < MaxFaults /\ faults' = faults + 1

Fails(t) ==
  /\ Holds(t) /\ Fault /\ Stop(t)
  /\ UNCHANGED <<rows, errors, succeeded, halfDone>>

Checkpoints(t) ==
  \/ task[t].pc = "ingest"
  \/ task[t].pc = "scan" /\ task[t].read # {}
  \/ task[t].pc = "match" /\ task[t].found # {}

Cancelled(t) ==
  /\ Checkpoints(t) /\ task[t].cancelled /\ Stop(t)
  /\ UNCHANGED <<rows, errors, succeeded, halfDone, faults>>

Free(t) == ~(Checkpoints(t) /\ task[t].cancelled)

-----------------------------------------------------------------------------
(* ingest_many_with_checkpoint *)

Overwrites(i, f, c) == \E p \in i.pairs : KeyOf[p[1]] = KeyOf[f] /\ p[2] # c

Stores(f, c) ==
  /\ rows' = [rows EXCEPT ![KeyOf[f]] = c]
  /\ halfDone' = (halfDone \/ rows[KeyOf[f]] # c)
  /\ succeeded' = {[i EXCEPT !.overwritten = @ \/ Overwrites(i, f, c)] : i \in succeeded}

\* Sessions are ingested in the order of the inventory, newest first; the
\* model leaves the times in the files open, and with them the order.
Ingest(t) ==
  /\ task[t].pc = "ingest" /\ Free(t)
  /\ \E p \in task[t].found :
       /\ Stores(p[1], p[2])
       /\ task' = [task EXCEPT ![t].found = @ \ {p}]
  /\ UNCHANGED <<outside, errors, inventory, queue, job, faults>>

\* The row is there, and its reading back fails.
IngestFails(t) ==
  /\ task[t].pc = "ingest" /\ Free(t) /\ Fault
  /\ \E p \in task[t].found : Stores(p[1], p[2])
  /\ Stop(t) /\ UNCHANGED errors

\* What was ingested is found up to date by a scan of its own.
Ingested(t) ==
  /\ task[t].pc = "ingest" /\ task[t].found = {} /\ Free(t)
  /\ task' = [task EXCEPT ![t] = Scan(@)]
  /\ UNCHANGED <<outside, rows, errors, inventory, queue, job, succeeded, halfDone, faults>>

-----------------------------------------------------------------------------
(* rescan_blocking_with_checkpoint *)

\* One adapter after the other lists its roots.
Discover(t) ==
  /\ task[t].pc = "scan" /\ task[t].read = {} /\ task[t].later # <<>>
  /\ task' = [task EXCEPT ![t].read = {f \in Head(task[t].later) : files[f] # "missing"},
                          ![t].later = Tail(@)]
  /\ UNCHANGED <<outside, rows, errors, inventory, queue, job, succeeded, halfDone, faults>>

Least(n, S) == n \in S /\ \A i \in S : n <= i

\* Variant that gives up at the first file that does not parse.
ReadFileOrStop(t) ==
  /\ task[t].pc = "scan" /\ Free(t)
  /\ \E f \in task[t].read :
       /\ Least(f, task[t].read)
       /\ IF files[f] \in {"broken", "missing"} THEN Stop(t)
          ELSE /\ task' = [task EXCEPT
                     ![t].read = @ \ {f},
                     ![t].found = IF files[f] \in Content THEN @ \union {<<f, files[f]>>} ELSE @]
               /\ UNCHANGED <<outside, inventory, queue, job>>
  /\ UNCHANGED <<rows, errors, succeeded, halfDone, faults>>

\* A file that is gone by now is an I/O error.
ReadFile(t) ==
  /\ task[t].pc = "scan" /\ Free(t)
  /\ \E f \in task[t].read :
       /\ Least(f, task[t].read)
       /\ task' = [task EXCEPT
             ![t].read = @ \ {f},
             ![t].found = IF files[f] \in Content THEN @ \union {<<f, files[f]>>} ELSE @,
             ![t].bad = IF files[f] \in {"broken", "missing"} THEN @ \union {f} ELSE @]
  /\ UNCHANGED <<outside, rows, errors, inventory, queue, job, succeeded, halfDone, faults>>

Scanned(t) == task[t].pc = "scan" /\ task[t].read = {} /\ task[t].later = <<>>

RecordScanError(t) ==
  /\ Scanned(t)
  /\ \/ task[t].bad = {} /\ Move(t, "match") /\ UNCHANGED errors
     \/ \E f \in task[t].bad :
          /\ Least(f, task[t].bad)
          /\ errors' = errors \union {f}
          /\ task' = [task EXCEPT ![t].bad = @ \ {f}]
  /\ UNCHANGED <<outside, rows, inventory, queue, job, succeeded, halfDone, faults>>

\* The error of a file that parses is cleared, and the row of its key decides
\* the entry's status.
Match(t) ==
  /\ task[t].pc = "match" /\ Free(t)
  /\ \E p \in task[t].found :
       /\ Least(p[1], {q[1] : q \in task[t].found})
       /\ errors' = errors \ {p[1]}
       /\ task' = [task EXCEPT ![t].found = @ \ {p}, ![t].entries = @ \union {Entry(p[1], p[2])}]
  /\ UNCHANGED <<outside, rows, inventory, queue, job, succeeded, halfDone, faults>>

\* The error is cleared, and the look at the row fails.
MatchFails(t) ==
  /\ task[t].pc = "match" /\ Free(t) /\ Fault
  /\ \E f \in {p[1] : p \in task[t].found} :
       Least(f, {p[1] : p \in task[t].found}) /\ errors' = errors \ {f}
  /\ Stop(t) /\ UNCHANGED <<rows, succeeded, halfDone>>

\* The inventory is replaced as a whole and the lock is released.  A cancel
\* the worker sees after the handler's return takes the success away.
Swap(t) ==
  /\ task[t].pc = "match" /\ task[t].found = {}
  /\ inventory' = task[t].entries /\ halfDone' = FALSE
  /\ succeeded' = IF t = "import" /\ ~task[t].cancelled THEN succeeded \union {job} ELSE succeeded
  /\ job' = IF t = "import" THEN None
            ELSE IF job = None THEN None
            ELSE [job EXCEPT !.drifted = @ \/ Pairs(task[t].entries, job.keys) # job.pairs]
  /\ task' = [task EXCEPT ![t] = Rest]
  /\ UNCHANGED <<outside, rows, errors, queue, faults>>

-----------------------------------------------------------------------------

Step(t) ==
  \/ Lock(t) \/ Cancelled(t)
  \/ Ingest(t) \/ Ingested(t)
  \/ Discover(t) \/ ReadFile(t) \/ RecordScanError(t) \/ Match(t) \/ Swap(t)

Next ==
  \/ \E f \in File, s \in FileState : Edit(f, s)
  \/ \E keys \in Request : Submit(keys)
  \/ \E t \in Task : Begin(t) \/ RequestCancel(t) \/ Step(t)
  \/ \E t \in Task : Fails(t) \/ IngestFails(t) \/ MatchFails(t)

Spec == Init /\ [][Next]_vars

\* The interval ticks and tasks on a running runtime go on; nobody has to
\* submit, cancel or edit, and a worker need not be given an operation.
FairSpec == Spec /\ WF_vars(Begin("poll")) /\ \A t \in Task : WF_vars(Step(t))

-----------------------------------------------------------------------------
(* Properties *)

\* The status a session is listed with is the one the store gives it, as
\* long as no import has changed a row since the inventory was made: a scan
\* never looks at rows that an import is about to change.
StatusesAreOfTheStore ==
  halfDone \/ \A e \in inventory : e.status = StatusOf(KeyOf[e.file], e.content)

\* The same contents, under other keys.
Exchanged(i) ==
  /\ Pairs(inventory, i.keys) # i.pairs
  /\ \A c \in Content : Cardinality({p \in Pairs(inventory, i.keys) : p[2] = c}) =
                         Cardinality({p \in i.pairs : p[2] = c})

\* Two files of one session.
Twins(keys) ==
  \E e, g \in Requested(inventory, keys) : e # g /\ KeyOf[e.file] = KeyOf[g.file]

\* A submission that is answered with an import that succeeded earlier finds
\* its sessions stored as they are listed.  It does not if the inventory
\* changed before the import ran, if a later import stored other bytes, if
\* contents moved between its keys, or if one of them has two files.
ImportedIsStored ==
  \A i \in succeeded : Answers(i, i.keys) =>
    \/ i.drifted \/ i.overwritten \/ Exchanged(i) \/ Twins(i.keys)
    \/ \A e \in Requested(inventory, i.keys) : rows[KeyOf[e.file]] = e.content

\* The inventory lists the files as they are and the store as it is, and
\* the errors are of no file that parses and of all that do not.
Accurate ==
  /\ {<<e.file, e.content>> : e \in inventory} = {<<f, files[f]>> : f \in {g \in File : files[g] \in Content}}
  /\ \A e \in inventory : e.status = StatusOf(KeyOf[e.file], e.content)
  /\ \A f \in File : /\ files[f] \in Content => f \notin errors
                    /\ files[f] = "broken" => f \in errors

\* When the files are left alone, the inventory and the errors become right
\* again and again, whatever was cancelled or failed half way.
CatchesUp == []<>Accurate

=============================================================================
