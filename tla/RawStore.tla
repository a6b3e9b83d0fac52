------------------------------ MODULE RawStore ------------------------------
(***************************************************************************)
(* The raw session store and the ingest service on top of it: session rows *)
(* and blob reference counts in SQLite, blobs as files named after their   *)
(* content, and the two-store commit that keeps them together without a    *)
(* transaction over both.                                                  *)
(*                                                                         *)
(* There is one writer: an import holds scan_lock while it ingests, and    *)
(* startup maintenance ends before the workers start.  Readers take no     *)
(* lock.  A session's fingerprint is the address of its blob, so a row is  *)
(* what it references.                                                     *)
(***************************************************************************)
EXTENDS Naturals, FiniteSets

CONSTANTS
  Key,         \* source keys: tool and source_session_id
  Blob,        \* contents, by address
  None,
  MaxCrashes, MaxFaults   \* bounds: crashes of the process, failing calls

ASSUME StoreAssumption ==
  /\ IsFiniteSet(Key)
  /\ None \notin Blob
  /\ MaxCrashes \in Nat /\ MaxFaults \in Nat

VARIABLES
  rows,     \* sessions: the raw_ref of every key, or None
  refs,     \* raw_blobs: the refcount of every address, 0 for no row
  files,    \* blobs in place
  temps,    \* blobs whose temporary file exists
  writer,   \* the ingest, or the maintenance, under way
  reader,   \* a GET of a session's raw bytes
  crashes, faults

vars == <<rows, refs, files, temps, writer, reader, crashes, faults>>

Putting == {"put", "synced", "record"}
Recorded == {"reread", "delete"}
Booting == {"down", "sweep", "referenced", "orphans"}

Idle == [pc |-> "idle", key |-> None, blob |-> None, old |-> None, keep |-> {}]
Down == [Idle EXCEPT !.pc = "down"]
NoRead == [pc |-> "idle", ref |-> None]

TypeOK ==
  /\ rows \in [Key -> Blob \union {None}]
  /\ refs \in [Blob -> Nat]
  /\ files \subseteq Blob /\ temps \subseteq Blob
  /\ writer \in [pc : {"idle"} \union Putting \union Recorded \union Booting,
                 key : Key \union {None}, blob : Blob \union {None},
                 old : Blob \union {None}, keep : SUBSET Blob]
  /\ reader \in [pc : {"idle", "found", "served", "missing"}, ref : Blob \union {None}]
  /\ crashes \in 0 .. MaxCrashes /\ faults \in 0 .. MaxFaults

Init ==
  /\ rows = [k \in Key |-> None]
  /\ refs = [b \in Blob |-> 0]
  /\ files = {} /\ temps = {}
  /\ writer = Idle
  /\ reader = NoRead
  /\ crashes = 0 /\ faults = 0

Goto(pc) == writer' = [writer EXCEPT !.pc = pc]

Fault == faults < MaxFaults /\ faults' = faults + 1

\* Every call can fail; the ingest gives up and the import with it.
GiveUp == Fault /\ writer' = Idle /\ UNCHANGED <<reader, crashes>>

-----------------------------------------------------------------------------
(* IngestService::ingest *)

\* The key is looked up; content that is stored already is left alone.
Ingest(k, b) ==
  /\ writer.pc = "idle" /\ rows[k] # b
  /\ writer' = [Idle EXCEPT !.pc = "put", !.key = k, !.blob = b, !.old = rows[k]]
  /\ UNCHANGED <<rows, refs, files, temps, reader, crashes, faults>>

\* LocalFsBlobStore::put: the file is there, or a temporary one is written
\* and synced.
Put ==
  /\ writer.pc = "put"
  /\ \/ writer.blob \in files /\ Goto("record") /\ UNCHANGED temps
     \/ writer.blob \notin files /\ Goto("synced") /\ temps' = temps \union {writer.blob}
  /\ UNCHANGED <<rows, refs, files, reader, crashes, faults>>

\* A failed write may leave its temporary file.
PutFails ==
  /\ writer.pc = "put" /\ writer.blob \notin files
  /\ temps' \in {temps, temps \union {writer.blob}}
  /\ GiveUp
  /\ UNCHANGED <<rows, refs, files>>

Rename ==
  /\ writer.pc = "synced"
  /\ files' = files \union {writer.blob}
  /\ temps' = temps \ {writer.blob}
  /\ Goto("record")
  /\ UNCHANGED <<rows, refs, reader, crashes, faults>>

\* The rename fails, or it is done and setting the permissions fails.
RenameFails ==
  /\ writer.pc = "synced"
  /\ \/ UNCHANGED <<files, temps>>
     \/ files' = files \union {writer.blob} /\ temps' = temps \ {writer.blob}
  /\ GiveUp
  /\ UNCHANGED <<rows, refs>>

\* increment_blob_ref
Counted(b) == [refs EXCEPT ![b] = @ + 1]

\* Variant that leaves the replaced row's reference.
KeepCount(counts, b) == counts

\* decrement_blob_ref; a count that reaches zero loses its row.
Released(counts, b) == IF b = None THEN counts ELSE [counts EXCEPT ![b] = @ - 1]

\* insert_session or replace_session: one transaction.
Record ==
  /\ writer.pc = "record"
  /\ rows' = [rows EXCEPT ![writer.key] = writer.blob]
  /\ refs' = Released(Counted(writer.blob), writer.old)
  /\ Goto("reread")
  /\ UNCHANGED <<files, temps, reader, crashes, faults>>

RecordFails == writer.pc = "record" /\ GiveUp /\ UNCHANGED <<rows, refs, files, temps>>

\* Variant that does not ask whether the blob is shared.
DeleteShared ==
  /\ writer.pc = "reread"
  /\ IF writer.old # None THEN Goto("delete") ELSE writer' = Idle
  /\ UNCHANGED <<rows, refs, files, temps, reader, crashes, faults>>

\* The row is read back.  A replaced blob that lost its last reference is
\* deleted next.
Reread ==
  /\ writer.pc = "reread"
  /\ IF writer.old # None /\ refs[writer.old] = 0 THEN Goto("delete") ELSE writer' = Idle
  /\ UNCHANGED <<rows, refs, files, temps, reader, crashes, faults>>

RereadFails == writer.pc = "reread" /\ GiveUp /\ UNCHANGED <<rows, refs, files, temps>>

DeleteObsolete ==
  /\ writer.pc = "delete"
  /\ files' = files \ {writer.old}
  /\ writer' = Idle
  /\ UNCHANGED <<rows, refs, temps, reader, crashes, faults>>

DeleteFails == writer.pc = "delete" /\ GiveUp /\ UNCHANGED <<rows, refs, files, temps>>

-----------------------------------------------------------------------------
(* App::bootstrap: startup_maintenance *)

Crash ==
  /\ crashes < MaxCrashes
  /\ crashes' = crashes + 1
  /\ writer' = Down
  /\ reader' = NoRead
  /\ UNCHANGED <<rows, refs, files, temps, faults>>

Start ==
  /\ writer.pc = "down"
  /\ Goto("sweep")
  /\ UNCHANGED <<rows, refs, files, temps, reader, crashes, faults>>

\* Variant that forgets the temporary files.
SkipSweep ==
  /\ writer.pc = "sweep" /\ Goto("referenced")
  /\ UNCHANGED <<rows, refs, files, temps, reader, crashes, faults>>

\* sweep_temp_files, a file at a time.
SweepTemps ==
  /\ writer.pc = "sweep"
  /\ \/ temps = {} /\ Goto("referenced") /\ UNCHANGED temps
     \/ \E b \in temps : temps' = temps \ {b} /\ UNCHANGED writer
  /\ UNCHANGED <<rows, refs, files, reader, crashes, faults>>

\* referenced_blobs
Referenced == {b \in Blob : refs[b] > 0}

ReadReferenced ==
  /\ writer.pc = "referenced"
  /\ writer' = [writer EXCEPT !.pc = "orphans", !.keep = Referenced]
  /\ UNCHANGED <<rows, refs, files, temps, reader, crashes, faults>>

\* delete_orphan_blobs, a file at a time; then the workers start.
DeleteOrphans ==
  /\ writer.pc = "orphans"
  /\ \/ files \subseteq writer.keep /\ writer' = Idle /\ UNCHANGED files
     \/ \E b \in files \ writer.keep : files' = files \ {b} /\ UNCHANGED writer
  /\ UNCHANGED <<rows, refs, temps, reader, crashes, faults>>

\* A failing step fails the bootstrap.
BootFails ==
  /\ writer.pc \in Booting \ {"down"}
  /\ Fault
  /\ writer' = Down
  /\ UNCHANGED <<rows, refs, files, temps, reader, crashes>>

-----------------------------------------------------------------------------
(* AppState::get_raw *)

FindRow(k) ==
  /\ writer.pc \notin Booting
  /\ reader.pc # "found" /\ rows[k] # None
  /\ reader' = [pc |-> "found", ref |-> rows[k]]
  /\ UNCHANGED <<rows, refs, files, temps, writer, crashes, faults>>

ReadBlob ==
  /\ reader.pc = "found"
  /\ reader' = [reader EXCEPT !.pc = IF reader.ref \in files THEN "served" ELSE "missing"]
  /\ UNCHANGED <<rows, refs, files, temps, writer, crashes, faults>>

-----------------------------------------------------------------------------

Next ==
  \/ \E k \in Key, b \in Blob : Ingest(k, b)
  \/ Put \/ PutFails \/ Rename \/ RenameFails
  \/ Record \/ RecordFails \/ Reread \/ RereadFails \/ DeleteObsolete \/ DeleteFails
  \/ Crash \/ Start \/ SweepTemps \/ ReadReferenced \/ DeleteOrphans \/ BootFails
  \/ \E k \in Key : FindRow(k)
  \/ ReadBlob

Spec == Init /\ [][Next]_vars

-----------------------------------------------------------------------------
(* Properties *)

Holders(b) == {k \in Key : rows[k] = b}

\* Every stored session has its raw bytes on disk, whatever step a crash or
\* a failure cut short, and though sessions with the same content share a
\* file.
NoDanglingRef == \A k \in Key : rows[k] # None => rows[k] \in files

\* A refcount is the number of the rows that reference the blob.
RefsAreCounts == \A b \in Blob : refs[b] = Cardinality(Holders(b))

\* What a crash or a failure left behind is gone when the server is up.
BootCleans ==
  [][writer.pc \in Booting /\ writer'.pc = "idle"
       => temps' = {} /\ \A b \in files' : \E k \in Key : rows'[k] = b]_vars

\* ARCHITECTURE.md: a reader sees the session before an update or after it,
\* and never finds its bytes gone.
ReadersSeeBytes == reader.pc # "missing"

=============================================================================
