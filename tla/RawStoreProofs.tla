--------------------------- MODULE RawStoreProofs ---------------------------
(***************************************************************************)
(* Theorems about RawStore: no stored session loses its raw bytes, the     *)
(* refcounts count the rows, and a boot leaves nothing behind, for every   *)
(* set of keys, every set of contents and any number of crashes and        *)
(* failures.                                                               *)
(***************************************************************************)
EXTENDS RawStore, FiniteSetTheorems, TLAPS

\* What an ingest under way has established.
IngestFits ==
  /\ writer.pc \in Putting => /\ writer.key \in Key /\ writer.blob \in Blob
                              /\ writer.old = rows[writer.key] /\ writer.old # writer.blob
  /\ writer.pc = "record" => writer.blob \in files
  /\ writer.pc = "delete" => writer.old \in Blob /\ refs[writer.old] = 0

\* What maintenance under way has established.
BootFits ==
  /\ writer.pc \in {"referenced", "orphans"} => temps = {}
  /\ writer.pc = "orphans" => writer.keep = Referenced

\* The inductive invariant.
IInv == TypeOK /\ RefsAreCounts /\ NoDanglingRef /\ IngestFits /\ BootFits

-----------------------------------------------------------------------------

\* The rows that reference a blob are finitely many.
LEMMA HoldersFinite ==
  ASSUME NEW b
  PROVE  IsFiniteSet(Holders(b)) /\ IsFiniteSet(Holders(b)')
<1>1. Holders(b) \subseteq Key /\ Holders(b)' \subseteq Key
  BY DEF Holders
<1>. QED BY <1>1, FS_Subset, StoreAssumption

\* A blob that some row references has a positive count, and the other way
\* round.
LEMMA HeldIsCounted ==
  ASSUME RefsAreCounts, TypeOK, NEW b \in Blob
  PROVE  refs[b] > 0 <=> \E k \in Key : rows[k] = b
<1>1. refs[b] = Cardinality(Holders(b)) /\ refs[b] \in Nat
  BY DEF RefsAreCounts, TypeOK
<1>2. Cardinality(Holders(b)) = 0 <=> Holders(b) = {}
  BY HoldersFinite, FS_EmptySet
<1>3. Holders(b) = {} <=> ~ \E k \in Key : rows[k] = b
  BY DEF Holders
<1>. QED BY <1>1, <1>2, <1>3

\* Invariant at the start: nothing is stored.
LEMMA InitEstablishes == Init => IInv
<1>. SUFFICES ASSUME Init PROVE IInv
  OBVIOUS
<1>1. TypeOK
  BY StoreAssumption DEF Init, TypeOK, Idle, NoRead
<1>2. \A b \in Blob : Holders(b) = {}
  BY StoreAssumption DEF Init, Holders
<1>3. RefsAreCounts
  BY <1>2, FS_EmptySet DEF Init, RefsAreCounts
<1>4. NoDanglingRef
  BY DEF Init, NoDanglingRef
<1>5. IngestFits /\ BootFits
  BY DEF Init, Idle, IngestFits, BootFits, Putting
<1>. QED BY <1>1, <1>3, <1>4, <1>5 DEF IInv

\* The transaction of insert_session and replace_session keeps the counts:
\* the new content gains the row, the old one loses it.
LEMMA RecordCounts ==
  ASSUME IInv, Record
  PROVE  RefsAreCounts'
<1>. DEFINE k == writer.key
            new == writer.blob
            old == writer.old
<1>1. k \in Key /\ new \in Blob /\ old = rows[k] /\ old # new /\ old \in Blob \union {None}
  BY DEF IInv, IngestFits, Record, Putting, TypeOK
<1>2. rows \in [Key -> Blob \union {None}] /\ refs \in [Blob -> Nat]
  BY DEF IInv, TypeOK
<1>3. rows' = [rows EXCEPT ![k] = new]
  BY DEF Record
<1>4. refs' = Released([refs EXCEPT ![new] = @ + 1], old)
  BY DEF Record, Counted
<1>. SUFFICES ASSUME NEW b \in Blob PROVE refs'[b] = Cardinality(Holders(b)')
  BY DEF RefsAreCounts
<1>5. refs[b] = Cardinality(Holders(b)) /\ refs[b] \in Nat /\ IsFiniteSet(Holders(b))
  BY <1>2, HoldersFinite DEF IInv, RefsAreCounts
<1>6. CASE b = new
  <2>1. Holders(b)' = Holders(b) \union {k} /\ k \notin Holders(b)
    BY <1>1, <1>2, <1>3, <1>6 DEF Holders
  <2>2. refs'[b] = refs[b] + 1
    BY <1>1, <1>2, <1>4, <1>6 DEF Released
  <2>. QED BY <2>1, <2>2, <1>5, FS_AddElement
<1>7. CASE b = old
  <2>1. Holders(b)' = Holders(b) \ {k} /\ k \in Holders(b)
    BY <1>1, <1>2, <1>3, <1>7 DEF Holders
  <2>2. refs'[b] = refs[b] - 1
    BY <1>1, <1>2, <1>4, <1>7, StoreAssumption DEF Released
  <2>. QED BY <2>1, <2>2, <1>5, FS_RemoveElement
<1>8. CASE b # new /\ b # old
  <2>1. Holders(b)' = Holders(b)
    BY <1>1, <1>2, <1>3, <1>8 DEF Holders
  <2>2. refs'[b] = refs[b]
    BY <1>1, <1>2, <1>4, <1>8 DEF Released
  <2>. QED BY <2>1, <2>2, <1>5
<1>. QED BY <1>6, <1>7, <1>8

\* The transaction keeps the invariant.
LEMMA RecordKeeps ==
  ASSUME IInv, Record
  PROVE  IInv'
<1>1. /\ writer.key \in Key /\ writer.blob \in Blob /\ writer.blob \in files
      /\ writer.old = rows[writer.key] /\ writer.old # writer.blob
      /\ writer.old \in Blob \union {None}
  BY DEF IInv, IngestFits, Record, Putting, TypeOK
<1>2. rows' \in [Key -> Blob \union {None}]
  BY <1>1 DEF IInv, TypeOK, Record
<1>3. refs' \in [Blob -> Nat]
  <2>1. CASE writer.old = None
    BY <1>1, <2>1 DEF IInv, TypeOK, Record, Counted, Released
  <2>2. CASE writer.old # None
    <3>1. refs[writer.old] > 0
      BY <1>1, <2>2, HeldIsCounted DEF IInv
    <3>2. writer.old \in Blob /\ refs \in [Blob -> Nat]
      BY <1>1, <2>2 DEF IInv, TypeOK
    <3>3. [refs EXCEPT ![writer.blob] = @ + 1] \in [Blob -> Nat]
      BY <1>1, <3>2
    <3>. QED BY <1>1, <2>2, <3>1, <3>2, <3>3 DEF Record, Counted, Released
  <2>. QED BY <2>1, <2>2
<1>4. writer'.pc = "reread"
  BY DEF IInv, TypeOK, Record, Goto
<1>5. TypeOK'
  BY <1>2, <1>3 DEF IInv, TypeOK, Record, Goto, Recorded
<1>6. NoDanglingRef'
  BY <1>1 DEF IInv, TypeOK, NoDanglingRef, Record
<1>7. IngestFits' /\ BootFits'
  BY <1>4 DEF IngestFits, BootFits, Putting
<1>. QED BY <1>5, <1>6, <1>7, RecordCounts DEF IInv

\* Nothing but the transaction touches the counts.
LEMMA UntouchedCounts ==
  ASSUME RefsAreCounts, rows' = rows, refs' = refs
  PROVE  RefsAreCounts' /\ (Referenced' = Referenced)
BY DEF RefsAreCounts, Holders, Referenced

\* Looking up a key, and the read back, only change the writer.
LEMMA LookupsKeep ==
  ASSUME IInv,
         \/ \E k \in Key, b \in Blob : Ingest(k, b)
         \/ Reread \/ RecordFails \/ RereadFails \/ DeleteFails
  PROVE  IInv'
<1>1. CASE \E k \in Key, b \in Blob : Ingest(k, b)
  <2>1. PICK k \in Key, b \in Blob : Ingest(k, b)
    BY <1>1
  <2>2. TypeOK'
    BY <2>1 DEF IInv, TypeOK, Ingest, Idle, Putting
  <2>3. IngestFits' /\ BootFits' /\ NoDanglingRef'
    BY <2>1 DEF IInv, TypeOK, IngestFits, BootFits, NoDanglingRef, Ingest, Idle, Putting
  <2>. QED BY <2>1, <2>2, <2>3, UntouchedCounts DEF IInv, Ingest
<1>2. CASE Reread
  <2>1. TypeOK'
    BY <1>2 DEF IInv, TypeOK, Reread, Idle, Goto, Recorded
  <2>2. IngestFits' /\ BootFits' /\ NoDanglingRef'
    BY <1>2 DEF IInv, TypeOK, IngestFits, BootFits, NoDanglingRef, Reread, Idle, Goto, Putting
  <2>. QED BY <1>2, <2>1, <2>2, UntouchedCounts DEF IInv, Reread
<1>3. CASE RecordFails \/ RereadFails \/ DeleteFails
  <2>1. TypeOK'
    BY <1>3, StoreAssumption DEF IInv, TypeOK, RecordFails, RereadFails, DeleteFails, GiveUp, Fault, Idle
  <2>2. IngestFits' /\ BootFits' /\ NoDanglingRef'
    BY <1>3 DEF IInv, IngestFits, BootFits, NoDanglingRef, RecordFails, RereadFails, DeleteFails,
                GiveUp, Idle, Putting
  <2>. QED BY <1>3, <2>1, <2>2, UntouchedCounts DEF IInv, RecordFails, RereadFails, DeleteFails, GiveUp
<1>. QED BY <1>1, <1>2, <1>3

\* put adds a file and removes none.
LEMMA PutsKeep ==
  ASSUME IInv, Put \/ PutFails \/ Rename \/ RenameFails
  PROVE  IInv'
<1>0. writer.pc \in Putting /\ writer.blob \in Blob
  BY DEF IInv, IngestFits, Put, PutFails, Rename, RenameFails, Putting
<1>1. CASE Put
  <2>1. TypeOK'
    BY <1>0, <1>1 DEF IInv, TypeOK, Put, Goto, Putting
  <2>2. IngestFits' /\ BootFits' /\ NoDanglingRef'
    BY <1>0, <1>1 DEF IInv, TypeOK, IngestFits, BootFits, NoDanglingRef, Put, Goto, Putting
  <2>. QED BY <1>1, <2>1, <2>2, UntouchedCounts DEF IInv, Put
<1>2. CASE Rename
  <2>1. TypeOK'
    BY <1>0, <1>2 DEF IInv, TypeOK, Rename, Goto, Putting
  <2>2. IngestFits' /\ BootFits' /\ NoDanglingRef'
    BY <1>0, <1>2 DEF IInv, TypeOK, IngestFits, BootFits, NoDanglingRef, Rename, Goto, Putting
  <2>. QED BY <1>2, <2>1, <2>2, UntouchedCounts DEF IInv, Rename
<1>3. CASE PutFails \/ RenameFails
  <2>1. /\ writer' = Idle /\ rows' = rows /\ refs' = refs
        /\ files \subseteq files' /\ files' \subseteq files \union {writer.blob}
        /\ temps' \subseteq temps \union {writer.blob}
    BY <1>3 DEF PutFails, RenameFails, GiveUp
  <2>2. TypeOK'
    BY <1>0, <1>3, <2>1, StoreAssumption DEF IInv, TypeOK, PutFails, RenameFails, GiveUp, Fault, Idle
  <2>3. IngestFits' /\ BootFits' /\ NoDanglingRef'
    BY <2>1 DEF IInv, IngestFits, BootFits, NoDanglingRef, Idle, Putting
  <2>. QED BY <2>1, <2>2, <2>3, UntouchedCounts DEF IInv
<1>. QED BY <1>1, <1>2, <1>3

\* Deleting the obsolete blob removes no file a row references: its count
\* is zero.
LEMMA DeleteKeeps ==
  ASSUME IInv, DeleteObsolete
  PROVE  IInv'
<1>1. writer.old \in Blob /\ refs[writer.old] = 0
  BY DEF IInv, IngestFits, DeleteObsolete
<1>2. \A k \in Key : rows[k] # writer.old
  BY <1>1, HeldIsCounted DEF IInv
<1>3. TypeOK'
  BY DEF IInv, TypeOK, DeleteObsolete, Idle
<1>4. NoDanglingRef'
  BY <1>2 DEF IInv, NoDanglingRef, DeleteObsolete
<1>5. IngestFits' /\ BootFits'
  BY DEF IngestFits, BootFits, DeleteObsolete, Idle, Putting
<1>. QED BY <1>3, <1>4, <1>5, UntouchedCounts DEF IInv, DeleteObsolete

\* A crash, and each step of the boot but the last, keep the invariant.
LEMMA CrashesKeep ==
  ASSUME IInv, Crash \/ Start \/ SweepTemps \/ ReadReferenced \/ BootFails
  PROVE  IInv'
<1>1. rows' = rows /\ refs' = refs /\ files' = files
  BY DEF Crash, Start, SweepTemps, ReadReferenced, BootFails
<1>2. TypeOK'
  <2>1. CASE Crash
    BY <2>1, StoreAssumption DEF IInv, TypeOK, Crash, Down, Idle, NoRead, Booting
  <2>2. CASE Start
    BY <2>2 DEF IInv, TypeOK, Start, Goto, Booting
  <2>3. CASE SweepTemps
    BY <2>3 DEF IInv, TypeOK, SweepTemps, Goto, Booting
  <2>4. CASE ReadReferenced
    BY <2>4 DEF IInv, TypeOK, ReadReferenced, Referenced, Booting
  <2>5. CASE BootFails
    BY <2>5, StoreAssumption DEF IInv, TypeOK, BootFails, Fault, Down, Idle, Booting
  <2>. QED BY <2>1, <2>2, <2>3, <2>4, <2>5
<1>3. NoDanglingRef'
  BY <1>1 DEF IInv, NoDanglingRef
<1>4. IngestFits'
  BY DEF IInv, TypeOK, IngestFits, Crash, Start, SweepTemps, ReadReferenced, BootFails,
         Down, Idle, Goto, Putting, Booting
<1>5. BootFits'
  <2>1. CASE Crash \/ BootFails
    BY <2>1 DEF BootFits, Crash, BootFails, Down, Idle
  <2>2. CASE Start
    BY <2>2 DEF IInv, TypeOK, BootFits, Start, Goto
  <2>3. CASE SweepTemps
    BY <2>3 DEF IInv, TypeOK, BootFits, SweepTemps, Goto
  <2>4. CASE ReadReferenced
    BY <2>4, <1>1, UntouchedCounts DEF IInv, TypeOK, BootFits, ReadReferenced
  <2>. QED BY <2>1, <2>2, <2>3, <2>4
<1>. QED BY <1>1, <1>2, <1>3, <1>4, <1>5, UntouchedCounts DEF IInv

\* delete_orphan_blobs removes no file a row references.
LEMMA OrphansKeep ==
  ASSUME IInv, DeleteOrphans
  PROVE  IInv'
<1>1. /\ writer.pc = "orphans" /\ writer.keep = Referenced /\ temps' = {}
      /\ rows' = rows /\ refs' = refs /\ Referenced' = Referenced
  BY UntouchedCounts DEF IInv, BootFits, DeleteOrphans
<1>2. \A k \in Key : rows[k] # None => rows[k] \in Referenced
  BY HeldIsCounted DEF IInv, TypeOK, Referenced
<1>3. TypeOK'
  BY DEF IInv, TypeOK, DeleteOrphans, Idle
<1>4. NoDanglingRef'
  BY <1>1, <1>2 DEF IInv, NoDanglingRef, DeleteOrphans
<1>5. IngestFits' /\ BootFits'
  BY <1>1 DEF IngestFits, BootFits, DeleteOrphans, Idle, Putting
<1>. QED BY <1>1, <1>3, <1>4, <1>5, UntouchedCounts DEF IInv

\* A reader changes nothing but itself.
LEMMA ReadsKeep ==
  ASSUME IInv, (\E k \in Key : FindRow(k)) \/ ReadBlob
  PROVE  IInv'
<1>1. UNCHANGED <<rows, refs, files, temps, writer, crashes, faults>>
  BY DEF FindRow, ReadBlob
<1>2. reader' \in [pc : {"idle", "found", "served", "missing"}, ref : Blob \union {None}]
  <2>1. CASE \E k \in Key : FindRow(k)
    BY <2>1 DEF IInv, TypeOK, FindRow
  <2>2. CASE ReadBlob
    BY <2>2 DEF IInv, TypeOK, ReadBlob
  <2>. QED BY <2>1, <2>2
<1>3. TypeOK' /\ NoDanglingRef' /\ IngestFits' /\ BootFits'
  BY <1>1, <1>2, UntouchedCounts DEF IInv, TypeOK, NoDanglingRef, IngestFits, BootFits
<1>. QED BY <1>1, <1>3, UntouchedCounts DEF IInv

\* Every step keeps the invariant.
LEMMA StepKeeps == IInv /\ [Next]_vars => IInv'
<1>. SUFFICES ASSUME IInv, [Next]_vars PROVE IInv'
  OBVIOUS
<1>1. CASE Next
  BY <1>1, LookupsKeep, PutsKeep, RecordKeeps, DeleteKeeps, CrashesKeep, OrphansKeep, ReadsKeep
  DEF Next
<1>2. CASE UNCHANGED vars
  BY <1>2, UntouchedCounts
  DEF vars, IInv, TypeOK, NoDanglingRef, IngestFits, BootFits
<1>. QED BY <1>1, <1>2

-----------------------------------------------------------------------------

\* The inductive invariant holds in every reachable state.
THEOREM StoreInvariance == Spec => []IInv
BY InitEstablishes, StepKeeps, PTL DEF Spec

\* Every variable of the store stays in its type; in particular no count
\* becomes negative.
THEOREM StoreTypeCorrect == Spec => []TypeOK
<1>1. IInv => TypeOK
  BY DEF IInv
<1>. QED BY <1>1, StoreInvariance, PTL

\* No stored session loses its raw bytes: ingest writes the file before the
\* row, deletes it only when no row counts on it, and the boot sweep keeps
\* every referenced file.
THEOREM NothingDangles == Spec => []NoDanglingRef
<1>1. IInv => NoDanglingRef
  BY DEF IInv
<1>. QED BY <1>1, StoreInvariance, PTL

\* raw_blobs.refcount is the number of the sessions with that raw_ref.
THEOREM CountsAreRight == Spec => []RefsAreCounts
<1>1. IInv => RefsAreCounts
  BY DEF IInv
<1>. QED BY <1>1, StoreInvariance, PTL

\* When a boot completes, every file left is some session's, and no
\* temporary file is.
THEOREM BootLeavesNothing == Spec => BootCleans
<1>1. ASSUME IInv, [Next]_vars, writer.pc \in Booting, writer'.pc = "idle"
      PROVE  temps' = {} /\ \A b \in files' : \E k \in Key : rows'[k] = b
  <2>1. DeleteOrphans /\ files \subseteq writer.keep /\ files' = files
    BY <1>1 DEF Next, vars, Booting, IInv, TypeOK, Ingest, Put, PutFails, Rename, RenameFails,
       Record, RecordFails, Reread, RereadFails, DeleteObsolete, DeleteFails, Crash, Start,
       SweepTemps, ReadReferenced, DeleteOrphans, BootFails, FindRow, ReadBlob, Goto, Down, Idle
  <2>2. temps' = {} /\ writer.keep = Referenced /\ rows' = rows
    BY <1>1, <2>1 DEF IInv, BootFits, DeleteOrphans
  <2>3. \A b \in files : b \in Blob /\ refs[b] > 0
    BY <2>1, <2>2 DEF Referenced
  <2>. QED BY <1>1, <2>1, <2>2, <2>3, HeldIsCounted DEF IInv
<1>2. ASSUME IInv, [Next]_vars
      PROVE  [writer.pc \in Booting /\ writer'.pc = "idle"
                => temps' = {} /\ \A b \in files' : \E k \in Key : rows'[k] = b]_vars
  BY <1>1, <1>2
<1>. QED BY <1>2, StoreInvariance, PTL DEF Spec, BootCleans

=============================================================================
