------------------------ MODULE SourceInventoryProofs ------------------------
(***************************************************************************)
(* Theorems about SourceInventory: whatever fails, is cancelled or edited,  *)
(* the statuses listed are the store's, and an import that answers a       *)
(* submission has stored what is listed.                                   *)
(*                                                                         *)
(* The invariants say why: one task holds scan_lock, rows change only in   *)
(* the ingest of the holder, and only a scan, which comes after it, has    *)
(* entries; an import has stored what its version counts.                  *)
(***************************************************************************)
EXTENDS SourceInventory, FiniteSetTheorems, TLAPS

Listed == [file : File, content : Content, status : {"not_stored", "up_to_date", "outdated"}]
TaskPc == {"idle", "waiting", "ingest", "scan", "match"}
TaskState == [pc : TaskPc, read : SUBSET File, later : Seq(SUBSET File),
              found : SUBSET (File \X Content), bad : SUBSET File,
              entries : SUBSET Listed, cancelled : BOOLEAN]

\* The types of the variables the proofs speak of.
Typed ==
  /\ files \in [File -> FileState]
  /\ rows \in [Session -> Content \union {None}]
  /\ errors \subseteq File
  /\ inventory \subseteq Listed
  /\ task \in [Task -> TaskState]

OneHolder == \A t, u \in Task : Holds(t) /\ Holds(u) => t = u

OnlyScansHaveEntries == \A t \in Task : task[t].pc # "match" => task[t].entries = {}

EntriesAreOfTheStore ==
  \A t \in Task : \A e \in task[t].entries : e.status = StatusOf(KeyOf[e.file], e.content)

Inv == Typed /\ OneHolder /\ OnlyScansHaveEntries /\ EntriesAreOfTheStore /\ StatusesAreOfTheStore

-----------------------------------------------------------------------------
(* Facts about the definitions *)

LEMMA KeysAreSessions == \A f \in File : KeyOf[f] \in Session
BY DEF Session

LEMMA RootsAreFiles == Roots \in Seq(SUBSET File)
BY InventoryAssumption DEF File

LEMMA RestIsTyped == Rest \in TaskState
BY DEF Rest, TaskState, TaskPc

LEMMA EntryFacts ==
  ASSUME NEW f \in File, NEW c \in Content
  PROVE  /\ Entry(f, c) \in Listed
         /\ Entry(f, c).status = StatusOf(KeyOf[Entry(f, c).file], Entry(f, c).content)
BY DEF Entry, Listed, StatusOf

LEMMA PairsAreTyped ==
  ASSUME Typed, NEW keys PROVE Pairs(inventory, keys) \subseteq File \X Content
BY DEF Typed, Pairs, Requested, Listed

\* What a task that begins a scan becomes.
LEMMA ScanIsTyped ==
  ASSUME NEW r \in TaskState
  PROVE  Scan(r) \in TaskState /\ Scan(r).entries = r.entries /\ Scan(r).pc = "scan"
BY RootsAreFiles DEF Scan, TaskState, TaskPc

\* A task of which nothing but the state of one task changes: what has to be
\* shown of that state.
LEMMA OneMoves ==
  ASSUME Inv, NEW t \in Task, NEW r \in TaskState, task' = [task EXCEPT ![t] = r],
         UNCHANGED rows,
         Holds(t) \/ r.pc \in {"idle", "waiting"} \/ ~\E u \in Task : Holds(u),
         r.pc # "match" => r.entries = {},
         \A e \in r.entries : e.status = StatusOf(KeyOf[e.file], e.content)
  PROVE  /\ task' \in [Task -> TaskState]
         /\ OneHolder' /\ OnlyScansHaveEntries' /\ EntriesAreOfTheStore'
<1>1. task \in [Task -> TaskState]
  BY DEF Inv, Typed
<1>2. task'[t] = r /\ \A u \in Task \ {t} : task'[u] = task[u]
  BY <1>1
<1>3. task' \in [Task -> TaskState]
  BY <1>1
<1>4. OneHolder'
  BY <1>2 DEF Inv, OneHolder, Holds
<1>5. OnlyScansHaveEntries'
  BY <1>2 DEF Inv, OnlyScansHaveEntries
<1>6. EntriesAreOfTheStore'
  BY <1>2 DEF Inv, EntriesAreOfTheStore, StatusOf
<1>. QED BY <1>3, <1>4, <1>5, <1>6

\* Nothing is listed differently if neither the rows nor the inventory change.
LEMMA SameListing ==
  ASSUME Inv, UNCHANGED <<rows, inventory, halfDone>> PROVE StatusesAreOfTheStore'
BY DEF Inv, StatusesAreOfTheStore, StatusOf

-----------------------------------------------------------------------------
(* The steps *)

LEMMA Start == Init => Inv
<1>. SUFFICES ASSUME Init PROVE Inv
  OBVIOUS
<1>1. (CHOOSE c \in Content : TRUE) \in Content
  BY InventoryAssumption
<1>2. files \in [File -> FileState] /\ \A f \in Present : files[f] \in Content
  BY <1>1, InventoryAssumption DEF Init, FileState
<1>3. inventory \subseteq Listed
  <2>1. \A f \in Present : [file |-> f, content |-> files[f], status |-> "not_stored"] \in Listed
    BY <1>2, InventoryAssumption DEF Listed
  <2>. QED BY <2>1 DEF Init
<1>4. Typed
  BY <1>2, <1>3, RestIsTyped DEF Init, Typed
<1>5. OneHolder /\ OnlyScansHaveEntries /\ EntriesAreOfTheStore
  BY DEF Init, OneHolder, Holds, Rest, OnlyScansHaveEntries, EntriesAreOfTheStore
<1>6. StatusesAreOfTheStore
  BY KeysAreSessions, InventoryAssumption DEF Init, StatusesAreOfTheStore, StatusOf
<1>. QED BY <1>4, <1>5, <1>6 DEF Inv

LEMMA OutsideKeeps ==
  ASSUME Inv, \/ \E f \in File, s \in FileState : Edit(f, s)
              \/ \E keys \in Request : Submit(keys)
              \/ UNCHANGED vars
  PROVE  Inv'
<1>1. UNCHANGED <<rows, errors, inventory, task, halfDone>>
  BY DEF Edit, Submit, vars
<1>2. files' \in [File -> FileState]
  BY DEF Inv, Typed, Edit, Submit, outside, vars
<1>3. Typed' /\ OneHolder' /\ OnlyScansHaveEntries' /\ EntriesAreOfTheStore'
  BY <1>1, <1>2 DEF Inv, Typed, OneHolder, Holds, OnlyScansHaveEntries, EntriesAreOfTheStore, StatusOf
<1>. QED BY <1>1, <1>3, SameListing DEF Inv

\* The steps by which a task waits for the lock, takes it, gives it back
\* without success, or goes on to its scan.
LEMMA LockingKeeps ==
  ASSUME Inv, NEW t \in Task,
         \/ Begin(t) \/ RequestCancel(t) \/ Lock(t) \/ Ingested(t)
         \/ Cancelled(t) \/ Fails(t) \/ MatchFails(t)
  PROVE  Inv'
<1>. DEFINE r == task[t]
<1>1. r \in TaskState /\ task \in [Task -> TaskState]
  BY DEF Inv, Typed
<1>2. CASE Begin(t)
  <2>1. [r EXCEPT !.pc = "waiting"] \in TaskState
    BY <1>1 DEF TaskState, TaskPc
  <2>2. task' = [task EXCEPT ![t] = [r EXCEPT !.pc = "waiting"]]
    BY <1>2 DEF Begin, Move
  <2>3. r.entries = {}
    BY <1>2 DEF Begin, Inv, OnlyScansHaveEntries
  <2>4. UNCHANGED <<files, rows, errors, inventory, halfDone>>
    BY <1>2 DEF Begin, outside
  <2>5. [r EXCEPT !.pc = "waiting"].pc = "waiting" /\ [r EXCEPT !.pc = "waiting"].entries = {}
    BY <1>1, <2>3 DEF TaskState
  <2>. QED BY <2>1, <2>2, <2>4, <2>5, OneMoves, SameListing DEF Inv, Typed
<1>3. CASE RequestCancel(t)
  <2>. DEFINE r1 == [r EXCEPT !.cancelled = TRUE]
  <2>1. r1 \in TaskState /\ r1.pc = r.pc /\ r1.entries = r.entries
    BY <1>1 DEF TaskState
  <2>2. task' = [task EXCEPT ![t] = r1]
    BY <1>3 DEF RequestCancel
  <2>3. UNCHANGED <<files, rows, errors, inventory, halfDone>>
    BY <1>3 DEF RequestCancel, outside
  <2>4. Holds(t) \/ r1.pc \in {"idle", "waiting"}
    BY <2>1 DEF Holds
  <2>5. /\ r1.pc # "match" => r1.entries = {}
        /\ \A e \in r1.entries : e.status = StatusOf(KeyOf[e.file], e.content)
    BY <2>1 DEF Inv, OnlyScansHaveEntries, EntriesAreOfTheStore
  <2>. HIDE DEF r1
  <2>. QED BY <2>1, <2>2, <2>3, <2>4, <2>5, OneMoves, SameListing DEF Inv, Typed
<1>4. CASE Lock(t)
  <2>. DEFINE r1 == IF t = "import"
                    THEN [r EXCEPT !.pc = "ingest", !.found = Pairs(inventory, job.keys)] ELSE Scan(r)
  <2>1. r.pc = "waiting" /\ r.entries = {}
    BY <1>4 DEF Lock, Inv, OnlyScansHaveEntries
  <2>2. r1 \in TaskState /\ r1.entries = {} /\ r1.pc \in TaskPc
    <3>1. CASE t = "import"
      BY <3>1, <1>1, <2>1, PairsAreTyped DEF Inv, TaskState, TaskPc
    <3>2. CASE t # "import"
      BY <3>2, <1>1, <2>1, ScanIsTyped DEF TaskPc
    <3>. QED BY <3>1, <3>2
  <2>3. task' = [task EXCEPT ![t] = r1]
    BY <1>4 DEF Lock
  <2>4. UNCHANGED <<files, rows, errors, inventory, halfDone>> /\ ~\E u \in Task : Holds(u)
    BY <1>4 DEF Lock, outside
  <2>. HIDE DEF r1
  <2>. QED BY <2>2, <2>3, <2>4, OneMoves, SameListing DEF Inv, Typed
<1>5. CASE Ingested(t)
  <2>1. r.pc = "ingest" /\ r.entries = {} /\ Holds(t)
    BY <1>5 DEF Ingested, Inv, OnlyScansHaveEntries, Holds
  <2>2. task' = [task EXCEPT ![t] = Scan(r)]
    BY <1>5 DEF Ingested
  <2>3. UNCHANGED <<files, rows, errors, inventory, halfDone>>
    BY <1>5 DEF Ingested, outside
  <2>. QED BY <1>1, <2>1, <2>2, <2>3, ScanIsTyped, OneMoves, SameListing DEF Inv, Typed
<1>6. CASE Cancelled(t) \/ Fails(t) \/ MatchFails(t)
  <2>1. task' = [task EXCEPT ![t] = Rest]
    BY <1>6 DEF Cancelled, Fails, MatchFails, Stop
  <2>2. UNCHANGED <<files, rows, inventory, halfDone>> /\ errors' \subseteq errors
    BY <1>6 DEF Cancelled, Fails, MatchFails, Stop, outside
  <2>3. Rest.pc = "idle" /\ Rest.entries = {}
    BY DEF Rest
  <2>. QED BY <2>1, <2>2, <2>3, RestIsTyped, OneMoves, SameListing DEF Inv, Typed
<1>. QED BY <1>2, <1>3, <1>4, <1>5, <1>6

LEMMA ScanKeeps ==
  ASSUME Inv, NEW t \in Task,
         Discover(t) \/ ReadFile(t) \/ RecordScanError(t) \/ Match(t)
  PROVE  Inv'
<1>. DEFINE r == task[t]
<1>1. r \in TaskState /\ task \in [Task -> TaskState]
  BY DEF Inv, Typed
<1>2. /\ r.pc # "match" => r.entries = {}
      /\ \A e \in r.entries : e.status = StatusOf(KeyOf[e.file], e.content)
  BY DEF Inv, OnlyScansHaveEntries, EntriesAreOfTheStore
<1>3. Holds(t) /\ UNCHANGED <<files, rows, inventory, halfDone>>
  <2>1. r.pc \in {"scan", "match"}
    BY DEF Discover, ReadFile, RecordScanError, Scanned, Match
  <2>2. UNCHANGED <<files, rows, inventory, halfDone>>
    BY DEF Discover, ReadFile, RecordScanError, Match, outside
  <2>. QED BY <2>1, <2>2 DEF Holds
<1>4. StatusesAreOfTheStore'
  BY <1>3, SameListing
<1>5. CASE Discover(t)
  <2>. DEFINE r1 == [r EXCEPT !.read = {f \in Head(r.later) : files[f] # "missing"}, !.later = Tail(@)]
  <2>1. r.later \in Seq(SUBSET File) /\ r.later # <<>>
    BY <1>1, <1>5 DEF Discover, TaskState
  <2>2. Head(r.later) \in SUBSET File /\ Tail(r.later) \in Seq(SUBSET File)
    BY <2>1
  <2>3. r1 \in TaskState /\ r1.pc = r.pc /\ r1.entries = r.entries
    BY <1>1, <2>2 DEF TaskState
  <2>4. task' = [task EXCEPT ![t] = r1]
    BY <1>1, <1>5 DEF Discover
  <2>5. UNCHANGED errors
    BY <1>5 DEF Discover
  <2>. HIDE DEF r1
  <2>. QED BY <1>2, <1>3, <1>4, <2>3, <2>4, <2>5, OneMoves DEF Inv, Typed
<1>6. CASE ReadFile(t)
  <2>1. PICK f \in r.read :
          task' = [task EXCEPT
             ![t].read = @ \ {f},
             ![t].found = IF files[f] \in Content THEN @ \union {<<f, files[f]>>} ELSE @,
             ![t].bad = IF files[f] \in {"broken", "missing"} THEN @ \union {f} ELSE @]
    BY <1>6 DEF ReadFile
  <2>. DEFINE r1 == [r EXCEPT
             !.read = @ \ {f},
             !.found = IF files[f] \in Content THEN @ \union {<<f, files[f]>>} ELSE @,
             !.bad = IF files[f] \in {"broken", "missing"} THEN @ \union {f} ELSE @]
  <2>2. f \in File
    BY <1>1 DEF TaskState
  <2>3. r1 \in TaskState /\ r1.pc = r.pc /\ r1.entries = r.entries
    <3>. DEFINE found == IF files[f] \in Content THEN r.found \union {<<f, files[f]>>} ELSE r.found
                bad == IF files[f] \in {"broken", "missing"} THEN r.bad \union {f} ELSE r.bad
    <3>1. found \in SUBSET (File \X Content)
      BY <1>1, <2>2 DEF TaskState
    <3>2. bad \in SUBSET File
      BY <1>1, <2>2 DEF TaskState
    <3>3. r1 = [r EXCEPT !.read = @ \ {f}, !.found = found, !.bad = bad]
      BY <1>1 DEF TaskState
    <3>. HIDE DEF found, bad, r1
    <3>. QED BY <1>1, <3>1, <3>2, <3>3 DEF TaskState
  <2>4. task' = [task EXCEPT ![t] = r1]
    BY <1>1, <2>1
  <2>5. UNCHANGED errors
    BY <1>6 DEF ReadFile
  <2>. HIDE DEF r1
  <2>. QED BY <1>2, <1>3, <1>4, <2>3, <2>4, <2>5, OneMoves DEF Inv, Typed
<1>7. CASE RecordScanError(t)
  <2>1. r.pc = "scan" /\ r.entries = {}
    BY <1>2, <1>7 DEF RecordScanError, Scanned
  <2>2. CASE r.bad = {} /\ Move(t, "match") /\ UNCHANGED errors
    <3>. DEFINE r1 == [r EXCEPT !.pc = "match"]
    <3>1. r1 \in TaskState /\ r1.entries = {}
      BY <1>1, <2>1 DEF TaskState, TaskPc
    <3>2. task' = [task EXCEPT ![t] = r1]
      BY <2>2 DEF Move
    <3>. HIDE DEF r1
    <3>. QED BY <1>3, <1>4, <2>2, <3>1, <3>2, OneMoves DEF Inv, Typed
  <2>3. CASE \E f \in r.bad : errors' = errors \union {f} /\ task' = [task EXCEPT ![t].bad = @ \ {f}]
    <3>1. PICK f \in r.bad : errors' = errors \union {f} /\ task' = [task EXCEPT ![t].bad = @ \ {f}]
      BY <2>3
    <3>. DEFINE r1 == [r EXCEPT !.bad = @ \ {f}]
    <3>2. f \in File
      BY <1>1 DEF TaskState
    <3>3. r1 \in TaskState /\ r1.entries = {}
      BY <1>1, <2>1 DEF TaskState
    <3>4. task' = [task EXCEPT ![t] = r1]
      BY <1>1, <3>1
    <3>. HIDE DEF r1
    <3>. QED BY <1>3, <1>4, <3>1, <3>2, <3>3, <3>4, OneMoves DEF Inv, Typed
  <2>. QED BY <1>7, <2>2, <2>3 DEF RecordScanError
<1>8. CASE Match(t)
  <2>1. PICK p \in r.found :
          /\ errors' = errors \ {p[1]}
          /\ task' = [task EXCEPT ![t].found = @ \ {p}, ![t].entries = @ \union {Entry(p[1], p[2])}]
    BY <1>8 DEF Match
  <2>. DEFINE e == Entry(p[1], p[2])
              r1 == [r EXCEPT !.found = @ \ {p}, !.entries = @ \union {e}]
  <2>2. p[1] \in File /\ p[2] \in Content
    BY <1>1 DEF TaskState
  <2>3. e \in Listed /\ e.status = StatusOf(KeyOf[e.file], e.content)
    BY <2>2, EntryFacts
  <2>. HIDE DEF e
  <2>4. r1 \in TaskState /\ r1.pc = "match" /\ r1.entries = r.entries \union {e}
    BY <1>1, <1>8, <2>3 DEF TaskState, Match
  <2>5. task' = [task EXCEPT ![t] = r1]
    BY <1>1, <2>1 DEF e
  <2>6. \A g \in r1.entries : g.status = StatusOf(KeyOf[g.file], g.content)
    BY <1>2, <2>3, <2>4
  <2>. HIDE DEF r1
  <2>. QED BY <1>3, <1>4, <2>1, <2>4, <2>5, <2>6, OneMoves DEF Inv, Typed
<1>. QED BY <1>5, <1>6, <1>7, <1>8

LEMMA SwapKeeps == ASSUME Inv, NEW t \in Task, Swap(t) PROVE Inv'
<1>1. task' = [task EXCEPT ![t] = Rest]
  BY DEF Swap
<1>2. Rest.pc = "idle" /\ Rest.entries = {}
  BY DEF Rest
<1>3. UNCHANGED <<files, rows, errors>> /\ inventory' = task[t].entries
  BY DEF Swap, outside
<1>4. inventory' \subseteq Listed
  BY <1>3 DEF Inv, Typed, TaskState
<1>5. StatusesAreOfTheStore'
  BY <1>3 DEF Inv, EntriesAreOfTheStore, StatusesAreOfTheStore, StatusOf
<1>. QED BY <1>1, <1>2, <1>3, <1>4, <1>5, RestIsTyped, OneMoves DEF Inv, Typed

\* Rows change only under a holder that ingests, when no task has entries, and
\* with them either no row or halfDone changes.
LEMMA IngestKeeps == ASSUME Inv, NEW t \in Task, Ingest(t) \/ IngestFails(t) PROVE Inv'
<1>. DEFINE r == task[t]
<1>1. r \in TaskState /\ task \in [Task -> TaskState] /\ rows \in [Session -> Content \union {None}]
  BY DEF Inv, Typed
<1>2. r.pc = "ingest" /\ r.entries = {} /\ Holds(t)
  BY DEF Ingest, IngestFails, Inv, OnlyScansHaveEntries, Holds
<1>3. PICK p \in r.found : Stores(p[1], p[2])
  BY DEF Ingest, IngestFails
<1>4. p[1] \in File /\ p[2] \in Content /\ KeyOf[p[1]] \in Session
  BY <1>1, KeysAreSessions DEF TaskState
<1>5. rows' \in [Session -> Content \union {None}]
  BY <1>1, <1>3, <1>4 DEF Stores
<1>6. UNCHANGED <<files, errors, inventory>>
  BY DEF Ingest, IngestFails, Stop, outside
<1>7. \E r1 \in TaskState : r1.entries = {} /\ r1.pc \in {"ingest", "idle"} /\ task' = [task EXCEPT ![t] = r1]
  <2>1. CASE IngestFails(t)
    <3>1. Rest \in TaskState /\ Rest.entries = {} /\ Rest.pc = "idle"
      BY RestIsTyped DEF Rest
    <3>. QED BY <2>1, <3>1 DEF IngestFails, Stop
  <2>2. CASE Ingest(t)
    <3>1. PICK q \in r.found : task' = [task EXCEPT ![t].found = @ \ {q}]
      BY <2>2 DEF Ingest
    <3>. DEFINE r1 == [r EXCEPT !.found = @ \ {q}]
    <3>2. r1 \in TaskState /\ r1.entries = {} /\ r1.pc = "ingest"
      BY <1>1, <1>2 DEF TaskState
    <3>3. task' = [task EXCEPT ![t] = r1]
      BY <1>1, <3>1
    <3>. HIDE DEF r1
    <3>. QED BY <3>2, <3>3
  <2>. QED BY <2>1, <2>2
<1>8. PICK r1 \in TaskState :
        r1.entries = {} /\ r1.pc \in {"ingest", "idle"} /\ task' = [task EXCEPT ![t] = r1]
  BY <1>7
<1>9. task' \in [Task -> TaskState] /\ task'[t] = r1 /\ \A u \in Task \ {t} : task'[u] = task[u]
  BY <1>1, <1>8
<1>10. OneHolder' /\ OnlyScansHaveEntries'
  BY <1>2, <1>8, <1>9 DEF Inv, OneHolder, Holds, OnlyScansHaveEntries
<1>11. \A u \in Task : task'[u].entries = {}
  <2>1. \A u \in Task \ {t} : task[u].pc # "match"
    BY <1>2 DEF Inv, OneHolder, Holds
  <2>. QED BY <1>8, <1>9, <2>1 DEF Inv, OnlyScansHaveEntries
<1>12. StatusesAreOfTheStore'
  <2>1. CASE rows[KeyOf[p[1]]] # p[2]
    BY <1>3, <2>1 DEF Stores, StatusesAreOfTheStore
  <2>2. CASE rows[KeyOf[p[1]]] = p[2]
    <3>1. rows' = rows
      BY <1>1, <1>3, <1>4, <2>2 DEF Stores
    <3>2. halfDone' = (halfDone \/ rows[KeyOf[p[1]]] # p[2])
      BY <1>3 DEF Stores
    <3>. QED BY <1>6, <2>2, <3>1, <3>2 DEF Inv, StatusesAreOfTheStore, StatusOf
  <2>. QED BY <2>1, <2>2
<1>13. EntriesAreOfTheStore'
  BY <1>11 DEF EntriesAreOfTheStore
<1>. QED BY <1>5, <1>6, <1>9, <1>10, <1>12, <1>13 DEF Inv, Typed

LEMMA Keep == Inv /\ [Next]_vars => Inv'
<1>. SUFFICES ASSUME Inv, [Next]_vars PROVE Inv'
  OBVIOUS
<1>1. CASE \E t \in Task : Begin(t) \/ RequestCancel(t) \/ Step(t) \/ Fails(t) \/ IngestFails(t) \/ MatchFails(t)
  BY <1>1, LockingKeeps, ScanKeeps, SwapKeeps, IngestKeeps DEF Step
<1>. QED BY <1>1, OutsideKeeps DEF Next

-----------------------------------------------------------------------------
(* What an import that has succeeded says *)

Stored(p) == rows[KeyOf[p[1]]] = p[2]

\* Another of the pairs is of the same session.
HasTwin(i, p) == \E q \in i.pairs : q # p /\ KeyOf[q[1]] = KeyOf[p[1]]

ImportsTyped == (job # None => job \in Import) /\ succeeded \subseteq Import

\* The entries an import hashed, counted by content.
CountsPairs(i) == \A c \in Content : i.version[2][c] = Cardinality({p \in i.pairs : p[2] = c})
VersionsCount == (job # None => CountsPairs(job)) /\ \A i \in succeeded : CountsPairs(i)

\* A file is listed with one content once.
ListedOnce(S) == \A e, g \in S : e.file = g.file /\ e.content = g.content => e = g
FiniteListing == IsFiniteSet(inventory) /\ \A t \in Task : IsFiniteSet(task[t].entries)

\* Imports are ingested by their worker, which has one.
WorkerHasImport ==
  \A t \in Task : /\ task[t].pc = "ingest" => t = "import"
                  /\ t = "import" /\ task[t].pc # "idle" => job # None

\* An import selects what it hashed, or has been told that it drifted.
SelectsWhatItHashed == job # None => job.drifted \/ Pairs(inventory, job.keys) = job.pairs

\* What the import has selected is stored or about to be.
ImportsAll ==
  \A t \in Task : t = "import" /\ Holds(t) /\ ~job.drifted =>
    /\ task[t].pc = "ingest" => task[t].found \subseteq job.pairs
    /\ \A p \in job.pairs : \/ task[t].pc = "ingest" /\ p \in task[t].found
                            \/ Stored(p) \/ HasTwin(job, p)

\* What an import has stored is there, unless a later one has replaced it.
StaysStored ==
  \A i \in succeeded : i.drifted \/ i.overwritten \/ \A p \in i.pairs : Stored(p) \/ HasTwin(i, p)

ImportInv == /\ ImportsTyped /\ VersionsCount /\ ListedOnce(inventory) /\ FiniteListing
             /\ WorkerHasImport /\ SelectsWhatItHashed /\ ImportsAll /\ StaysStored

\* Entries and their pairs are as many of each content.
LEMMA PairCount ==
  ASSUME NEW S, S \subseteq Listed, IsFiniteSet(S), ListedOnce(S), NEW keys, NEW c
  PROVE  /\ Cardinality({e \in Requested(S, keys) : e.content = c})
              = Cardinality({p \in Pairs(S, keys) : p[2] = c})
         /\ Cardinality({e \in Requested(S, keys) : e.content = c}) \in Nat
<1>. DEFINE A == {e \in Requested(S, keys) : e.content = c}
            B == {p \in Pairs(S, keys) : p[2] = c}
            pair == [e \in A |-> <<e.file, e.content>>]
<1>1. A \subseteq S
  BY DEF Requested
<1>2. IsFiniteSet(A)
  BY <1>1, FS_Subset
<1>3. \A e \in A : pair[e] = <<e.file, e.content>> /\ pair[e] \in B
  BY DEF Pairs
<1>4. pair \in [A -> B]
  BY <1>3
<1>5. \A e, g \in A : pair[e] = pair[g] => e = g
  BY <1>1, <1>3 DEF ListedOnce
<1>6. \A p \in B : \E e \in A : pair[e] = p
  <2>. TAKE p \in B
  <2>1. PICK e \in Requested(S, keys) : p = <<e.file, e.content>>
    BY DEF Pairs
  <2>. QED BY <2>1, <1>3
<1>. HIDE DEF A, B, pair
<1>7. pair \in Bijection(A, B)
  BY <1>4, <1>5, <1>6 DEF Bijection, Injection, Surjection, IsInjective
<1>8. Cardinality(B) = Cardinality(A)
  BY <1>2, <1>7, FS_Bijection DEF ExistsBijection
<1>9. Cardinality(A) \in Nat
  BY <1>2, FS_CardinalityType
<1>. QED BY <1>8, <1>9 DEF A, B

LEMMA VersionFacts ==
  ASSUME Inv, ImportInv, NEW keys
  PROVE  /\ InputVersion(inventory, keys) \in [Session -> Nat] \X [Content -> Nat]
         /\ \A c \in Content : InputVersion(inventory, keys)[2][c]
                                 = Cardinality({p \in Pairs(inventory, keys) : p[2] = c})
<1>1. inventory \subseteq Listed /\ IsFiniteSet(inventory) /\ ListedOnce(inventory)
  BY DEF Inv, Typed, ImportInv, FiniteListing
<1>2. \A k \in Session : Cardinality({e \in Requested(inventory, keys) : KeyOf[e.file] = k}) \in Nat
  <2>. TAKE k \in Session
  <2>1. {e \in Requested(inventory, keys) : KeyOf[e.file] = k} \in SUBSET inventory
    BY DEF Requested
  <2>2. IsFiniteSet({e \in Requested(inventory, keys) : KeyOf[e.file] = k})
    BY <1>1, <2>1, FS_Subset
  <2>. QED BY <2>2, FS_CardinalityType
<1>3. \A c \in Content : /\ Cardinality({e \in Requested(inventory, keys) : e.content = c})
                              = Cardinality({p \in Pairs(inventory, keys) : p[2] = c})
                         /\ Cardinality({e \in Requested(inventory, keys) : e.content = c}) \in Nat
  BY <1>1, PairCount
<1>. QED BY <1>2, <1>3 DEF InputVersion

\* A step that leaves rows, inventory and imports alone, and takes the worker
\* of imports no further than its scan.
LEMMA QuietKeeps ==
  ASSUME Inv, ImportInv, UNCHANGED <<rows, inventory, job, succeeded>>,
         NEW t \in Task, NEW r \in TaskState, task' = [task EXCEPT ![t] = r],
         IsFiniteSet(r.entries),
         r.pc # "idle" => task[t].pc # "idle" \/ t # "import" \/ job # None,
         r.pc = "ingest" => task[t].pc = "ingest" /\ r.found = task[t].found,
         r.pc \notin {"idle", "waiting"} => Holds(t),
         task[t].pc = "ingest" /\ r.pc # "ingest" => task[t].found = {}
  PROVE  ImportInv'
<1>1. task \in [Task -> TaskState]
  BY DEF Inv, Typed
<1>2. task'[t] = r /\ \A u \in Task \ {t} : task'[u] = task[u]
  BY <1>1
<1>3. ImportsTyped' /\ VersionsCount' /\ ListedOnce(inventory)' /\ SelectsWhatItHashed'
  BY DEF ImportInv, ImportsTyped, VersionsCount, CountsPairs, ListedOnce, SelectsWhatItHashed, Pairs, Requested
<1>4. FiniteListing'
  BY <1>2 DEF ImportInv, FiniteListing
<1>5. WorkerHasImport'
  BY <1>2 DEF ImportInv, WorkerHasImport
<1>6. ImportsAll'
  BY <1>2 DEF ImportInv, ImportsAll, Holds, Stored, HasTwin
<1>7. StaysStored'
  BY DEF ImportInv, StaysStored, Stored, HasTwin
<1>. QED BY <1>3, <1>4, <1>5, <1>6, <1>7 DEF ImportInv

LEMMA ImportStart == Init => ImportInv
<1>. SUFFICES ASSUME Init PROVE ImportInv
  OBVIOUS
<1>1. ImportsTyped /\ VersionsCount /\ ListedOnce(inventory) /\ SelectsWhatItHashed /\ StaysStored
  BY DEF Init, ImportsTyped, VersionsCount, ListedOnce, SelectsWhatItHashed, StaysStored
<1>2. WorkerHasImport /\ ImportsAll
  BY DEF Init, Rest, WorkerHasImport, ImportsAll, Holds
<1>3. IsFiniteSet(inventory)
  <2>. DEFINE first == [f \in Present |-> [file |-> f, content |-> files[f], status |-> "not_stored"]]
  <2>1. IsFiniteSet(Present)
    BY InventoryAssumption, FS_Subset
  <2>2. first \in [Present -> inventory] /\ \A e \in inventory : \E f \in Present : first[f] = e
    BY DEF Init
  <2>3. first \in Surjection(Present, inventory)
    BY <2>2 DEF Surjection
  <2>. QED BY <2>1, <2>3, FS_Surjection
<1>4. \A t \in Task : IsFiniteSet(task[t].entries)
  BY FS_EmptySet DEF Init, Rest
<1>. QED BY <1>1, <1>2, <1>3, <1>4 DEF ImportInv, FiniteListing

\* The steps that leave the imports as they are.
LEMMA QuietSteps ==
  ASSUME Inv, ImportInv, NEW t \in Task,
         \/ Begin(t) \/ RequestCancel(t) \/ Ingested(t)
         \/ Discover(t) \/ ReadFile(t) \/ RecordScanError(t) \/ Match(t)
  PROVE  ImportInv'
<1>. DEFINE r == task[t]
<1>1. r \in TaskState /\ task \in [Task -> TaskState] /\ IsFiniteSet(r.entries)
  BY DEF Inv, Typed, ImportInv, FiniteListing
<1>2. UNCHANGED <<rows, inventory, job, succeeded>>
  BY DEF Begin, RequestCancel, Ingested, Discover, ReadFile, RecordScanError, Match
<1>3. Inv'
  BY LockingKeeps, ScanKeeps
<1>4. task' = [task EXCEPT ![t] = task'[t]] /\ task'[t] \in TaskState
  <2>1. task'[t] \in TaskState
    BY <1>3 DEF Inv, Typed
  <2>2. \E f : task' = [task EXCEPT ![t] = f]
    BY DEF Begin, Move, RequestCancel, Ingested, Discover, ReadFile, RecordScanError, Match
  <2>. QED BY <2>1, <2>2, <1>1
<1>5. CASE Begin(t)
  <2>1. task'[t].pc = "waiting" /\ task'[t].entries = r.entries /\ r.pc = "idle" /\ (t = "import" => job # None)
    BY <1>1, <1>5 DEF Begin, Move, TaskState
  <2>. QED BY <1>1, <1>2, <1>4, <2>1, QuietKeeps
<1>6. CASE RequestCancel(t)
  <2>1. task'[t].pc = r.pc /\ task'[t].entries = r.entries /\ task'[t].found = r.found /\ r.pc # "idle"
    BY <1>1, <1>6 DEF RequestCancel, TaskState
  <2>. QED BY <1>1, <1>2, <1>4, <2>1, QuietKeeps DEF Holds
<1>7. CASE Ingested(t)
  <2>1. task'[t].pc = "scan" /\ task'[t].entries = r.entries /\ r.pc = "ingest" /\ r.found = {}
    BY <1>1, <1>7, ScanIsTyped DEF Ingested
  <2>. QED BY <1>1, <1>2, <1>4, <2>1, QuietKeeps DEF Holds
<1>8. CASE Discover(t)
  <2>1. task'[t].pc = "scan" /\ task'[t].entries = r.entries /\ r.pc = "scan"
    BY <1>1, <1>8 DEF Discover, TaskState
  <2>. QED BY <1>1, <1>2, <1>4, <2>1, QuietKeeps DEF Holds
<1>9. CASE ReadFile(t)
  <2>1. PICK f \in r.read :
          task' = [task EXCEPT
             ![t].read = @ \ {f},
             ![t].found = IF files[f] \in Content THEN @ \union {<<f, files[f]>>} ELSE @,
             ![t].bad = IF files[f] \in {"broken", "missing"} THEN @ \union {f} ELSE @]
    BY <1>9 DEF ReadFile
  <2>2. r.pc = "scan" /\ task'[t].pc = "scan" /\ task'[t].entries = r.entries
    <3>1. r.pc = "scan"
      BY <1>9 DEF ReadFile
    <3>. QED BY <1>1, <2>1, <3>1 DEF TaskState
  <2>. QED BY <1>1, <1>2, <1>4, <2>2, QuietKeeps DEF Holds
<1>10. CASE RecordScanError(t)
  <2>1. task'[t].pc \in {"scan", "match"} /\ task'[t].entries = r.entries /\ r.pc = "scan"
    BY <1>1, <1>10 DEF RecordScanError, Scanned, Move, TaskState
  <2>. QED BY <1>1, <1>2, <1>4, <2>1, QuietKeeps DEF Holds
<1>11. CASE Match(t)
  <2>1. PICK p \in r.found :
          task' = [task EXCEPT ![t].found = @ \ {p}, ![t].entries = @ \union {Entry(p[1], p[2])}]
    BY <1>11 DEF Match
  <2>. DEFINE e == Entry(p[1], p[2])
  <2>2. task'[t] = [r EXCEPT !.found = @ \ {p}, !.entries = @ \union {e}]
    BY <1>1, <2>1
  <2>. HIDE DEF e
  <2>3. task'[t].pc = "match" /\ r.pc = "match" /\ task'[t].entries = r.entries \union {e}
    BY <1>1, <1>11, <2>2 DEF Match, TaskState
  <2>4. IsFiniteSet(task'[t].entries)
    BY <1>1, <2>3, FS_AddElement
  <2>. QED BY <1>2, <1>4, <2>3, <2>4, QuietKeeps DEF Holds
<1>. QED BY <1>5, <1>6, <1>7, <1>8, <1>9, <1>10, <1>11

\* A submission hashes what is listed.
LEMMA SubmitKeeps ==
  ASSUME Inv, ImportInv, NEW keys \in Request, Submit(keys)
  PROVE  ImportInv'
<1>1. UNCHANGED <<rows, inventory, task, succeeded>> /\ job = None
  BY DEF Submit
<1>2. job' = [keys |-> keys, version |-> InputVersion(inventory, keys),
              pairs |-> Pairs(inventory, keys), drifted |-> FALSE, overwritten |-> FALSE]
  BY DEF Submit
<1>3. job' \in Import
  BY <1>2, VersionFacts, PairsAreTyped, InventoryAssumption DEF Import, Inv
<1>4. CountsPairs(job')
  BY <1>2, VersionFacts DEF CountsPairs
<1>5. ImportsTyped' /\ VersionsCount' /\ ListedOnce(inventory)' /\ FiniteListing'
  BY <1>1, <1>3, <1>4 DEF ImportInv, ImportsTyped, VersionsCount, CountsPairs, ListedOnce, FiniteListing
<1>6. WorkerHasImport'
  BY <1>1 DEF ImportInv, WorkerHasImport
<1>7. ImportsAll'
  BY <1>1 DEF ImportInv, ImportsAll, WorkerHasImport, Holds
<1>8. SelectsWhatItHashed'
  BY <1>1, <1>2 DEF SelectsWhatItHashed, Pairs, Requested
<1>9. StaysStored'
  BY <1>1 DEF ImportInv, StaysStored, Stored, HasTwin
<1>. QED BY <1>5, <1>6, <1>7, <1>8, <1>9 DEF ImportInv

\* An import that has the lock selects what it hashed, unless it drifted.
LEMMA LockKeeps ==
  ASSUME Inv, ImportInv, NEW t \in Task, Lock(t)
  PROVE  ImportInv'
<1>. DEFINE r == task'[t]
<1>1. UNCHANGED <<rows, inventory, job, succeeded>> /\ task[t].pc = "waiting"
  BY DEF Lock
<1>2. task \in [Task -> TaskState] /\ task[t] \in TaskState /\ task' \in [Task -> TaskState]
  BY LockingKeeps DEF Inv, Typed
<1>3. task' = [task EXCEPT ![t] = r] /\ \A u \in Task \ {t} : task'[u] = task[u]
  BY <1>2 DEF Lock
<1>4. r.entries = task[t].entries
  BY <1>2, ScanIsTyped DEF Lock, TaskState
<1>5. t = "import" => r.pc = "ingest" /\ r.found = Pairs(inventory, job.keys)
  BY <1>2 DEF Lock, TaskState
<1>6. t # "import" => r.pc = "scan"
  BY <1>2, ScanIsTyped DEF Lock
<1>7. ImportsTyped' /\ VersionsCount' /\ ListedOnce(inventory)' /\ SelectsWhatItHashed'
  BY <1>1 DEF ImportInv, ImportsTyped, VersionsCount, CountsPairs, ListedOnce, SelectsWhatItHashed, Pairs, Requested
<1>8. FiniteListing'
  BY <1>1, <1>3, <1>4 DEF ImportInv, FiniteListing
<1>9. WorkerHasImport'
  BY <1>1, <1>3, <1>5, <1>6 DEF ImportInv, WorkerHasImport
<1>10. ImportsAll'
  <2>. SUFFICES ASSUME NEW u \in Task, u = "import", Holds(u)', ~job'.drifted
                PROVE  /\ task'[u].pc = "ingest" => task'[u].found \subseteq job.pairs
                       /\ \A p \in job.pairs : \/ task'[u].pc = "ingest" /\ p \in task'[u].found
                                               \/ Stored(p) \/ HasTwin(job, p)
    BY <1>1 DEF ImportsAll, Stored, HasTwin
  <2>1. CASE u = t
    BY <2>1, <1>1, <1>5 DEF ImportInv, SelectsWhatItHashed, WorkerHasImport
  <2>2. CASE u # t
    BY <2>2, <1>1, <1>3 DEF ImportInv, ImportsAll, Holds
  <2>. QED BY <2>1, <2>2
<1>11. StaysStored'
  BY <1>1 DEF ImportInv, StaysStored, Stored, HasTwin
<1>. QED BY <1>7, <1>8, <1>9, <1>10, <1>11 DEF ImportInv

\* A task that stops takes its import with it.
LEMMA StopKeeps ==
  ASSUME Inv, ImportInv, NEW t \in Task, Stop(t), UNCHANGED <<rows, succeeded>>
  PROVE  ImportInv'
<1>1. task' = [task EXCEPT ![t] = Rest] /\ Rest.pc = "idle" /\ Rest.entries = {}
  BY DEF Stop, Rest
<1>2. task \in [Task -> TaskState] /\ UNCHANGED inventory /\ job' = IF t = "import" THEN None ELSE job
  BY DEF Inv, Typed, Stop
<1>3. task'[t] = Rest /\ \A u \in Task \ {t} : task'[u] = task[u]
  BY <1>1, <1>2
<1>4. ImportsTyped' /\ VersionsCount' /\ ListedOnce(inventory)' /\ SelectsWhatItHashed'
  BY <1>2 DEF ImportInv, ImportsTyped, VersionsCount, CountsPairs, ListedOnce, SelectsWhatItHashed, Pairs, Requested
<1>5. FiniteListing'
  BY <1>1, <1>2, <1>3, FS_EmptySet DEF ImportInv, FiniteListing
<1>6. WorkerHasImport' /\ ImportsAll'
  BY <1>1, <1>2, <1>3 DEF ImportInv, WorkerHasImport, ImportsAll, Holds, Stored, HasTwin
<1>7. StaysStored'
  BY DEF ImportInv, StaysStored, Stored, HasTwin
<1>. QED BY <1>4, <1>5, <1>6, <1>7 DEF ImportInv

\* What a session that is stored does to the imports that have succeeded: it
\* keeps what they say, or marks them.
LEMMA StoresFacts ==
  ASSUME Inv, ImportInv, NEW t \in Task, NEW p \in task[t].found, Stores(p[1], p[2])
  PROVE  /\ \A k \in Session : rows'[k] = IF k = KeyOf[p[1]] THEN p[2] ELSE rows[k]
         /\ \A i \in succeeded' : i \in Import /\ CountsPairs(i)
         /\ StaysStored'
<1>. DEFINE mark(i) == [i EXCEPT !.overwritten = @ \/ Overwrites(i, p[1], p[2])]
<1>1. /\ rows \in [Session -> Content \union {None}] /\ task[t] \in TaskState
      /\ \A i \in succeeded : i \in Import /\ CountsPairs(i)
  BY DEF Inv, Typed, ImportInv, ImportsTyped, VersionsCount
<1>2. p[1] \in File /\ p[2] \in Content /\ KeyOf[p[1]] \in Session
  BY <1>1, KeysAreSessions DEF TaskState
<1>3. \A k \in Session : rows'[k] = IF k = KeyOf[p[1]] THEN p[2] ELSE rows[k]
  BY <1>1 DEF Stores
<1>4. \A i \in Import : /\ mark(i) \in Import /\ mark(i).version = i.version /\ mark(i).pairs = i.pairs
                        /\ mark(i).drifted = i.drifted
                        /\ mark(i).overwritten = (i.overwritten \/ Overwrites(i, p[1], p[2]))
  <2>. TAKE i \in Import
  <2>1. (i.overwritten \/ Overwrites(i, p[1], p[2])) \in BOOLEAN
    OBVIOUS
  <2>. QED BY <2>1 DEF Import
<1>5. \A j \in succeeded' : \E i \in succeeded : j = mark(i)
  BY DEF Stores
<1>. HIDE DEF mark
<1>6. \A j \in succeeded' : j \in Import /\ CountsPairs(j)
  BY <1>1, <1>4, <1>5 DEF CountsPairs
<1>7. StaysStored'
  <2>. SUFFICES ASSUME NEW j \in succeeded', ~j.drifted, ~j.overwritten, NEW q \in j.pairs
                PROVE  Stored(q)' \/ HasTwin(j, q)
    BY DEF StaysStored, HasTwin
  <2>1. PICK i \in succeeded : j = mark(i)
    BY <1>5
  <2>2. i \in Import /\ ~i.drifted /\ ~i.overwritten /\ ~Overwrites(i, p[1], p[2]) /\ j.pairs = i.pairs
    BY <1>1, <1>4, <2>1
  <2>3. Stored(q) \/ HasTwin(i, q)
    BY <2>2 DEF ImportInv, StaysStored
  <2>4. KeyOf[q[1]] \in Session
    BY <2>2, KeysAreSessions DEF Import
  <2>5. CASE KeyOf[q[1]] = KeyOf[p[1]]
    BY <1>2, <1>3, <2>2, <2>5 DEF Overwrites, Stored
  <2>6. CASE KeyOf[q[1]] # KeyOf[p[1]]
    BY <1>3, <2>2, <2>3, <2>4, <2>6 DEF Stored, HasTwin
  <2>. QED BY <2>5, <2>6
<1>. QED BY <1>3, <1>6, <1>7

\* A session of the running import is stored.
LEMMA IngestOneKeeps ==
  ASSUME Inv, ImportInv, NEW t \in Task, Ingest(t)
  PROVE  ImportInv'
<1>1. PICK p \in task[t].found : Stores(p[1], p[2]) /\ task' = [task EXCEPT ![t].found = @ \ {p}]
  BY DEF Ingest
<1>2. task \in [Task -> TaskState] /\ task[t] \in TaskState /\ task[t].pc = "ingest"
      /\ UNCHANGED <<inventory, job>>
  BY DEF Inv, Typed, Ingest
<1>3. /\ task'[t].pc = "ingest" /\ task'[t].entries = task[t].entries
      /\ task'[t].found = task[t].found \ {p} /\ \A u \in Task \ {t} : task'[u] = task[u]
  BY <1>1, <1>2 DEF TaskState
<1>4. t = "import" /\ job # None /\ job \in Import /\ \A u \in Task : Holds(u) => u = t
  BY <1>2 DEF ImportInv, WorkerHasImport, ImportsTyped, Inv, OneHolder, Holds
<1>5. ImportsTyped' /\ VersionsCount' /\ StaysStored'
  BY <1>1, <1>2, StoresFacts DEF ImportInv, ImportsTyped, VersionsCount, CountsPairs
<1>6. ListedOnce(inventory)' /\ SelectsWhatItHashed'
  BY <1>2 DEF ImportInv, ListedOnce, SelectsWhatItHashed, Pairs, Requested
<1>7. FiniteListing' /\ WorkerHasImport'
  BY <1>2, <1>3, <1>4 DEF ImportInv, FiniteListing, WorkerHasImport
<1>8. ImportsAll'
  <2>. SUFFICES ASSUME ~job.drifted, Holds(t)
                PROVE  /\ task'[t].found \subseteq job.pairs
                       /\ \A q \in job.pairs : q \in task'[t].found \/ Stored(q)' \/ HasTwin(job, q)
    BY <1>2, <1>3, <1>4 DEF ImportsAll, HasTwin, Holds
  <2>1. task[t].found \subseteq job.pairs
    BY <1>2, <1>4 DEF ImportInv, ImportsAll
  <2>2. ASSUME NEW q \in job.pairs PROVE q \in task'[t].found \/ Stored(q)' \/ HasTwin(job, q)
    <3>1. q \in task[t].found \/ Stored(q) \/ HasTwin(job, q)
      BY <1>2, <1>4 DEF ImportInv, ImportsAll
    <3>2. KeyOf[q[1]] \in Session /\ KeyOf[p[1]] \in Session
      BY <1>2, <1>4, KeysAreSessions DEF Import, TaskState
    <3>3. CASE q = p
      BY <1>1, <3>2, <3>3, StoresFacts DEF Stored
    <3>4. CASE q # p /\ KeyOf[q[1]] = KeyOf[p[1]]
      BY <2>1, <3>4 DEF HasTwin
    <3>5. CASE q # p /\ KeyOf[q[1]] # KeyOf[p[1]]
      BY <1>1, <1>3, <3>1, <3>2, <3>5, StoresFacts DEF Stored
    <3>. QED BY <3>3, <3>4, <3>5
  <2>. QED BY <1>3, <2>1, <2>2
<1>. QED BY <1>5, <1>6, <1>7, <1>8 DEF ImportInv

\* A session is stored, and its reading back ends the import.
LEMMA IngestFailsKeeps ==
  ASSUME Inv, ImportInv, NEW t \in Task, IngestFails(t)
  PROVE  ImportInv'
<1>1. PICK p \in task[t].found : Stores(p[1], p[2])
  BY DEF IngestFails
<1>2. task \in [Task -> TaskState] /\ task[t].pc = "ingest" /\ UNCHANGED inventory
      /\ task' = [task EXCEPT ![t] = Rest] /\ job' = IF t = "import" THEN None ELSE job
  BY DEF Inv, Typed, IngestFails, Stop
<1>3. task'[t] = Rest /\ Rest.pc = "idle" /\ Rest.entries = {} /\ \A u \in Task \ {t} : task'[u] = task[u]
  BY <1>2 DEF Rest
<1>4. t = "import" /\ job' = None /\ \A u \in Task : Holds(u) => u = t
  BY <1>2 DEF ImportInv, WorkerHasImport, Inv, OneHolder, Holds
<1>5. ImportsTyped' /\ VersionsCount' /\ StaysStored'
  BY <1>1, <1>4, StoresFacts DEF ImportsTyped, VersionsCount, CountsPairs
<1>6. ListedOnce(inventory)' /\ SelectsWhatItHashed'
  BY <1>2, <1>4 DEF ImportInv, ListedOnce, SelectsWhatItHashed
<1>7. FiniteListing' /\ WorkerHasImport' /\ ImportsAll'
  BY <1>2, <1>3, <1>4, FS_EmptySet DEF ImportInv, FiniteListing, WorkerHasImport, ImportsAll, Holds
<1>. QED BY <1>5, <1>6, <1>7 DEF ImportInv

\* A new inventory tells the import that waits whether it still selects what
\* it hashed; the import that ends has stored what it selected.
LEMMA SwapKeepsImports ==
  ASSUME Inv, ImportInv, NEW t \in Task, Swap(t)
  PROVE  ImportInv'
<1>1. /\ task \in [Task -> TaskState] /\ task[t].pc = "match" /\ UNCHANGED rows
      /\ inventory' = task[t].entries /\ task' = [task EXCEPT ![t] = Rest]
  BY DEF Inv, Typed, Swap
<1>2. task'[t] = Rest /\ Rest.pc = "idle" /\ Rest.entries = {} /\ \A u \in Task \ {t} : task'[u] = task[u]
  BY <1>1 DEF Rest
<1>3. ListedOnce(inventory)'
  <2>1. task[t].entries \subseteq Listed
    BY <1>1 DEF TaskState
  <2>2. \A e \in task[t].entries : e.status = StatusOf(KeyOf[e.file], e.content)
    BY DEF Inv, EntriesAreOfTheStore
  <2>. QED BY <1>1, <2>1, <2>2 DEF ListedOnce, Listed
<1>4. FiniteListing'
  BY <1>1, <1>2, FS_EmptySet DEF ImportInv, FiniteListing
<1>5. \A u \in Task : Holds(u) => u = t
  BY <1>1 DEF Inv, OneHolder, Holds
<1>6. CASE t = "import"
  <2>1. job' = None /\ job # None /\ job \in Import /\ succeeded' \subseteq succeeded \union {job}
    BY <1>1, <1>6 DEF Swap, ImportInv, WorkerHasImport, ImportsTyped
  <2>2. job.drifted \/ \A p \in job.pairs : Stored(p) \/ HasTwin(job, p)
    BY <1>1, <1>6 DEF ImportInv, ImportsAll, Holds
  <2>3. ImportsTyped' /\ VersionsCount' /\ SelectsWhatItHashed'
    BY <2>1 DEF ImportInv, ImportsTyped, VersionsCount, CountsPairs, SelectsWhatItHashed
  <2>4. StaysStored'
    BY <1>1, <2>1, <2>2 DEF ImportInv, StaysStored, Stored, HasTwin
  <2>5. WorkerHasImport' /\ ImportsAll'
    BY <1>2, <1>5, <1>6 DEF ImportInv, WorkerHasImport, ImportsAll, Holds
  <2>. QED BY <1>3, <1>4, <2>3, <2>4, <2>5 DEF ImportInv
<1>7. CASE t # "import" /\ job = None
  <2>1. job' = None /\ succeeded' = succeeded
    BY <1>7 DEF Swap
  <2>2. ImportsTyped' /\ VersionsCount' /\ SelectsWhatItHashed'
    BY <2>1 DEF ImportInv, ImportsTyped, VersionsCount, CountsPairs, SelectsWhatItHashed
  <2>3. StaysStored'
    BY <1>1, <2>1 DEF ImportInv, StaysStored, Stored, HasTwin
  <2>4. WorkerHasImport' /\ ImportsAll'
    BY <1>2, <1>5, <1>7 DEF ImportInv, WorkerHasImport, ImportsAll, Holds
  <2>. QED BY <1>3, <1>4, <2>2, <2>3, <2>4 DEF ImportInv
<1>8. CASE t # "import" /\ job # None
  <2>. DEFINE drifts == job.drifted \/ Pairs(inventory', job.keys) # job.pairs
  <2>1. job' = [job EXCEPT !.drifted = drifts] /\ succeeded' = succeeded /\ job \in Import
    BY <1>1, <1>8 DEF Swap, ImportInv, ImportsTyped
  <2>2. /\ job' \in Import /\ job'.keys = job.keys /\ job'.version = job.version /\ job'.pairs = job.pairs
        /\ job'.drifted = drifts
    <3>1. drifts \in BOOLEAN
      OBVIOUS
    <3>. HIDE DEF drifts
    <3>. QED BY <2>1, <3>1 DEF Import
  <2>3. job' # None
    BY <2>2, InventoryAssumption
  <2>4. ImportsTyped' /\ VersionsCount'
    BY <1>8, <2>1, <2>2 DEF ImportInv, ImportsTyped, VersionsCount, CountsPairs
  <2>5. SelectsWhatItHashed'
    BY <2>2 DEF SelectsWhatItHashed, Pairs, Requested
  <2>6. StaysStored'
    BY <1>1, <2>1 DEF ImportInv, StaysStored, Stored, HasTwin
  <2>7. WorkerHasImport' /\ ImportsAll'
    BY <1>2, <1>5, <1>8, <2>3 DEF ImportInv, WorkerHasImport, ImportsAll, Holds
  <2>. QED BY <1>3, <1>4, <2>4, <2>5, <2>6, <2>7 DEF ImportInv
<1>. QED BY <1>6, <1>7, <1>8

LEMMA ImportKeep == Inv /\ ImportInv /\ [Next]_vars => ImportInv'
<1>. SUFFICES ASSUME Inv, ImportInv, [Next]_vars PROVE ImportInv'
  OBVIOUS
<1>1. CASE (\E f \in File, s \in FileState : Edit(f, s)) \/ UNCHANGED vars
  <2>1. UNCHANGED <<rows, inventory, job, succeeded, task>>
    BY <1>1 DEF Edit, vars
  <2>2. /\ ImportsTyped' /\ VersionsCount' /\ ListedOnce(inventory)' /\ FiniteListing'
        /\ WorkerHasImport' /\ SelectsWhatItHashed'
    BY <2>1 DEF ImportInv, ImportsTyped, VersionsCount, CountsPairs, ListedOnce, FiniteListing,
                WorkerHasImport, SelectsWhatItHashed, Pairs, Requested
  <2>3. ImportsAll' /\ StaysStored'
    BY <2>1 DEF ImportInv, ImportsAll, StaysStored, Holds, Stored, HasTwin
  <2>. QED BY <2>2, <2>3 DEF ImportInv
<1>2. ASSUME NEW t \in Task, Cancelled(t) \/ Fails(t) \/ MatchFails(t) PROVE ImportInv'
  BY <1>2, StopKeeps DEF Cancelled, Fails, MatchFails
<1>3. CASE \E t \in Task : Begin(t) \/ RequestCancel(t) \/ Step(t) \/ Fails(t) \/ IngestFails(t) \/ MatchFails(t)
  BY <1>2, <1>3, QuietSteps, LockKeeps, IngestOneKeeps, IngestFailsKeeps, SwapKeepsImports DEF Step
<1>. QED BY <1>1, <1>3, SubmitKeeps DEF Next

\* From the invariant to what a submission is told.
LEMMA ImportsAnswer == Inv /\ ImportInv => ImportedIsStored
<1>. SUFFICES ASSUME Inv, ImportInv, NEW i \in succeeded, Answers(i, i.keys),
                     ~i.drifted, ~i.overwritten, ~Exchanged(i), ~Twins(i.keys),
                     NEW e \in Requested(inventory, i.keys)
              PROVE  rows[KeyOf[e.file]] = e.content
  BY DEF ImportedIsStored
<1>1. \A c \in Content : Cardinality({p \in Pairs(inventory, i.keys) : p[2] = c})
                           = Cardinality({p \in i.pairs : p[2] = c})
  BY VersionFacts DEF ImportInv, VersionsCount, CountsPairs, Answers
<1>2. Pairs(inventory, i.keys) = i.pairs
  BY <1>1 DEF Exchanged
<1>. DEFINE p == <<e.file, e.content>>
<1>3. p \in i.pairs
  BY <1>2 DEF Pairs
<1>4. ~HasTwin(i, p)
  <2>. SUFFICES ASSUME NEW q \in i.pairs, q # p, KeyOf[q[1]] = KeyOf[p[1]] PROVE FALSE
    BY DEF HasTwin
  <2>1. PICK g \in Requested(inventory, i.keys) : q = <<g.file, g.content>>
    BY <1>2 DEF Pairs
  <2>2. g # e /\ KeyOf[g.file] = KeyOf[e.file]
    BY <2>1
  <2>. QED BY <2>2 DEF Twins
<1>5. Stored(p)
  BY <1>3, <1>4 DEF ImportInv, StaysStored
<1>. QED BY <1>5 DEF Stored

-----------------------------------------------------------------------------
(* Theorems *)

\* A session is listed with the status the store gives it, however imports,
\* rescans and the poll loop meet and wherever they stop: scan_lock and the
\* swap of the whole inventory (rescan_blocking_with_checkpoint of app.rs).
THEOREM ListedAsStored == Spec => []StatusesAreOfTheStore
<1>1. Inv => StatusesAreOfTheStore
  BY DEF Inv
<1>. QED BY Start, Keep, <1>1, PTL DEF Spec

\* The variables keep their types, and one task at most holds scan_lock
\* (run_rescan_operation, run_import_operation and rescan of app.rs).
THEOREM LockIsExclusive == Spec => [](Typed /\ OneHolder)
<1>1. Inv => Typed /\ OneHolder
  BY DEF Inv
<1>. QED BY Start, Keep, <1>1, PTL DEF Spec

\* A submission that is answered with an earlier import finds its sessions
\* stored as they are listed, unless the inventory changed before the import
\* ran, a later import stored other bytes, contents moved between its keys or
\* a session has two files (import_input_version of idempotency.rs, which is
\* made at submission, and ingest_many_with_checkpoint of app.rs, which runs later).
THEOREM AnsweredAsStored == Spec => []ImportedIsStored
<1>1. Init => Inv /\ ImportInv
  BY Start, ImportStart
<1>2. Inv /\ ImportInv /\ [Next]_vars => Inv' /\ ImportInv'
  BY Keep, ImportKeep
<1>. QED BY <1>1, <1>2, ImportsAnswer, PTL DEF Spec

=============================================================================
