------------------------------- MODULE HotCache -------------------------------
(***************************************************************************)
(* SQLiteProductStore of src/product/persistence.py: the bounded hot cache *)
(* that the forwarder writes, cleans and, above its cap, rotates: the most *)
(* recent rows are copied to a new file that takes the old one's place.    *)
(* Writers, the storage monitor and the cleanup share one lock; a rotation *)
(* runs under it, and any of its file operations may raise or be its last. *)
(* A row counts as one unit of size; the WAL is part of the file.          *)
(***************************************************************************)
EXTENDS Integers, FiniteSets

CONSTANTS
    FoundRows,      \* the rows 1 .. FoundRows are in the file that the process opens
    LastRow,        \* bound: more are offered up to LastRow, in order of their time
    HighRows,       \* the rows of priority "high", kept in a table of their own
    DbMax,          \* db_max_bytes
    EmergencyAt,    \* storage_emergency_threshold, as a size
    CleanTo,        \* adaptive_retention_target_ratio, as a size
    RotateTo,       \* rotation_target_ratio, as a size
    CopyBatch,      \* rotation_copy_batch_rows
    RotationSpan,   \* rotation_retention_hours, in rows
    MinSpan,        \* adaptive_retention_min_hours, in rows
    CleanupBudget,  \* rows that one cleanup may delete for size
    HealAt,         \* _SQLITE_STARTUP_RECLAIM_THRESHOLD_BYTES
    FileFaults,     \* bound: copies and file operations that raise
    CacheLives      \* bound: restarts

ASSUME CacheAssumption ==
    /\ {DbMax, EmergencyAt, CleanTo, RotateTo, CopyBatch, HealAt} \subseteq Nat \ {0}
    /\ FoundRows \in 0 .. LastRow
    /\ {LastRow, RotationSpan, MinSpan, CleanupBudget, FileFaults, CacheLives} \subseteq Nat
    /\ EmergencyAt <= DbMax /\ HighRows \subseteq 1 .. LastRow

CacheRows == 1 .. LastRow
Absent == [rows |-> {}, there |-> FALSE]
FileOf(S) == [rows |-> S, there |-> TRUE]

VARIABLES
    db,             \* the file at db_path
    dbSize,         \* what _storage_bytes says: its size, free pages included, or the
                    \* last one known while there is no file
    newFile,        \* the file at new_path
    oldFile,        \* the file at old_path
    conn,           \* _conn is open
    degraded,       \* storage_degraded
    rotation,       \* where the rotation is, "none" while the lock is free
    pending,        \* the row a writer has in hand and where it is with it
    offered,        \* the last row offered: the time
    faultsOfFiles, livesOfCache,
    owed,           \* ghost: the rows the cache has and has not dropped on purpose
    leftovers       \* ghost: rows in files that nothing reads again

cacheVars == <<db, dbSize, newFile, oldFile, conn, degraded, rotation, pending, offered,
               faultsOfFiles, livesOfCache, owed, leftovers>>

NoRow == [at |-> "idle"]

CacheTypeOK ==
    /\ \A f \in {db, newFile, oldFile} : f.rows \subseteq CacheRows /\ f.there \in BOOLEAN
    /\ Cardinality(db.rows) <= dbSize
    /\ {conn, degraded} \subseteq BOOLEAN
    /\ rotation \in {"none", "copying", "copied", "closed", "swappedOut", "swappedIn"}
    /\ pending # NoRow => pending.at \in {"checking", "waiting", "deciding", "writing"}
    /\ owed \subseteq CacheRows /\ leftovers \subseteq CacheRows

CacheInit ==
    /\ db = FileOf(1 .. FoundRows) /\ dbSize = FoundRows
    /\ newFile = Absent /\ oldFile = Absent
    /\ conn = TRUE
    /\ degraded = FALSE
    /\ rotation = "none"
    /\ pending = NoRow
    /\ offered = FoundRows
    /\ faultsOfFiles = FileFaults
    /\ livesOfCache = CacheLives
    /\ owed = 1 .. FoundRows /\ leftovers = {}

LockFree == rotation = "none"
onDisk == <<db, dbSize, newFile, oldFile>>
ghosts == <<owed, leftovers>>

-----------------------------------------------------------------------------
(* Writes: persist_enriched_event, persist_high_risk_event, persist_alert, ... *)

Offer ==
    /\ pending = NoRow /\ offered < LastRow
    /\ offered' = offered + 1
    /\ pending' = [at |-> "checking", row |-> offered + 1]
    /\ UNCHANGED <<onDisk, conn, degraded, rotation, faultsOfFiles, livesOfCache, ghosts>>

\* _drop_write_if_emergency: the size is looked at once in 5 seconds.
CheckSize(due) ==
    /\ pending # NoRow /\ pending.at = "checking"
    /\ LockFree
    /\ IF due /\ dbSize > DbMax
       THEN rotation' = "copying" /\ pending' = [pending EXCEPT !.at = "waiting"]
       ELSE pending' = [pending EXCEPT !.at = "deciding"] /\ UNCHANGED rotation
    /\ UNCHANGED <<onDisk, conn, degraded, offered, faultsOfFiles, livesOfCache, ghosts>>

\* Out of the lock: "high" passes always, "low" only while there is room.
DecideWrite ==
    /\ pending # NoRow
    /\ pending.at = "deciding" \/ (pending.at = "waiting" /\ LockFree)
    /\ pending' = IF pending.row \in HighRows \/ (dbSize < EmergencyAt /\ ~degraded)
                  THEN [pending EXCEPT !.at = "writing"] ELSE NoRow
    /\ UNCHANGED <<onDisk, conn, degraded, rotation, offered, faultsOfFiles, livesOfCache,
                   ghosts>>

\* _write, under the lock once more: a free page is used first.  Without a
\* connection it raises, and the caller reports the row as not persisted.
WriteRow ==
    /\ pending # NoRow /\ pending.at = "writing"
    /\ LockFree
    /\ IF conn
       THEN /\ db' = FileOf(db.rows \cup {pending.row})
            /\ dbSize' = IF Cardinality(db.rows) < dbSize THEN dbSize ELSE dbSize + 1
            /\ owed' = owed \cup {pending.row}
       ELSE UNCHANGED <<db, dbSize, owed>>
    /\ pending' = NoRow
    /\ UNCHANGED <<newFile, oldFile, conn, degraded, rotation, offered, faultsOfFiles,
                   livesOfCache, leftovers>>

-----------------------------------------------------------------------------
(* Maintenance *)

\* enforce_storage_bounds: at startup and by the storage monitor
EnforceBounds ==
    /\ LockFree /\ conn
    /\ dbSize > DbMax
    /\ rotation' = "copying"
    /\ UNCHANGED <<onDisk, conn, degraded, pending, offered, faultsOfFiles, livesOfCache,
                   ghosts>>

\* The n most recent rows of a set, and its n oldest
NewestOf(S, n) == {r \in S : Cardinality({q \in S : q > r}) < n}
OldestOf(S, n) == {r \in S : Cardinality({q \in S : q < r}) < n}

\* cleanup_expired above its target: the oldest rows go, table by table, never the
\* last MinSpan.  Deleting frees pages inside the file, whose size stays: the
\* deletions go on to the end of the budget.  A file above the cap is then rotated.
CleanUp ==
    /\ LockFree /\ conn
    /\ dbSize > CleanTo
    /\ LET old   == {r \in db.rows : r <= offered - MinSpan}
           low   == OldestOf(old \ HighRows, CleanupBudget)
           high  == OldestOf(old \cap HighRows, CleanupBudget - Cardinality(low))
           rest  == db.rows \ (low \cup high)
       IN  /\ db' = FileOf(rest)
           /\ owed' = owed \ (low \cup high)
           /\ IF dbSize > DbMax
              THEN rotation' = "copying" /\ UNCHANGED dbSize
              ELSE dbSize' \in Cardinality(rest) .. dbSize /\ UNCHANGED rotation
    /\ UNCHANGED <<newFile, oldFile, conn, degraded, pending, offered, faultsOfFiles, livesOfCache,
                   leftovers>>

\* POST /admin/vacuum: incremental_vacuum, bounded
Vacuum ==
    /\ LockFree /\ conn
    /\ dbSize' \in Cardinality(db.rows) .. dbSize
    /\ UNCHANGED <<db, newFile, oldFile, conn, degraded, rotation, pending, offered, faultsOfFiles,
                   livesOfCache, ghosts>>

-----------------------------------------------------------------------------
(* _rotate_hot_cache_unlocked *)

\* The copied rows reach the new file, and its size, batch by batch: the target is
\* overshot by less than a batch.
Batches(room) ==
    IF room <= 0 THEN 0 ELSE CopyBatch * ((room + CopyBatch - 1) \div CopyBatch)

\* The high-risk table comes first.
CopyOf(S) ==
    LET high == NewestOf(S \cap HighRows, Batches(RotateTo))
    IN  high \cup NewestOf(S \ HighRows, Batches(RotateTo - Cardinality(high)))

RecentRows == {r \in db.rows : r > offered - RotationSpan}
ToCopy == IF CopyOf(RecentRows) # {} THEN CopyOf(RecentRows) ELSE CopyOf(db.rows)

CopyRows ==
    /\ rotation = "copying"
    /\ Cardinality(ToCopy) <= DbMax
    /\ newFile' = FileOf(ToCopy)
    /\ rotation' = "copied"
    /\ UNCHANGED <<db, dbSize, oldFile, conn, degraded, pending, offered, faultsOfFiles,
                   livesOfCache, ghosts>>

CloseConnection ==
    /\ rotation = "copied"
    /\ conn' = FALSE
    /\ rotation' = "closed"
    /\ UNCHANGED <<onDisk, degraded, pending, offered, faultsOfFiles, livesOfCache,
                   ghosts>>

\* Mutated: the old file is removed to make room, before the new one is in place.
SwapOut_Removed ==
    /\ rotation = "closed"
    /\ oldFile' = Absent /\ db' = Absent
    /\ rotation' = "swappedOut"
    /\ UNCHANGED <<dbSize, newFile, conn, degraded, pending, offered, faultsOfFiles,
                   livesOfCache, ghosts>>

\* os.replace(db_path, old_path)
SwapOut ==
    /\ rotation = "closed"
    /\ oldFile' = db /\ db' = Absent
    /\ rotation' = "swappedOut"
    /\ UNCHANGED <<dbSize, newFile, conn, degraded, pending, offered, faultsOfFiles,
                   livesOfCache, ghosts>>

\* os.replace(new_path, db_path): from here on the rows not copied are dropped.
SwapIn ==
    /\ rotation = "swappedOut"
    /\ db' = newFile /\ dbSize' = Cardinality(newFile.rows)
    /\ newFile' = Absent
    /\ owed' = newFile.rows
    /\ rotation' = "swappedIn"
    /\ UNCHANGED <<oldFile, conn, degraded, pending, offered, faultsOfFiles, livesOfCache,
                   leftovers>>

\* The old file is removed and the new one opened.
CompleteRotation ==
    /\ rotation = "swappedIn"
    /\ oldFile' = Absent
    /\ conn' = TRUE
    /\ degraded' = FALSE
    /\ rotation' = "none"
    /\ UNCHANGED <<db, dbSize, newFile, pending, offered, faultsOfFiles, livesOfCache,
                   ghosts>>

\* A step raises, a copy above the cap among them.  The except branch opens the
\* file if there is one at db_path, removes the new one and sets the write guard;
\* what stands at old_path stays there.
RotationFails ==
    /\ rotation # "none"
    /\ IF rotation = "copying" /\ Cardinality(ToCopy) > DbMax
       THEN UNCHANGED faultsOfFiles
       ELSE faultsOfFiles > 0 /\ faultsOfFiles' = faultsOfFiles - 1
    /\ conn' = db.there
    /\ dbSize' = IF db.there THEN dbSize ELSE 0
    /\ newFile' = Absent
    /\ leftovers' = leftovers \cup oldFile.rows
    /\ oldFile' = Absent
    /\ degraded' = TRUE
    /\ rotation' = "none"
    /\ UNCHANGED <<db, pending, offered, livesOfCache, owed>>

-----------------------------------------------------------------------------
(* Restart: heal_sqlite_on_startup, initialize *)

\* The new process knows nothing of a rotation's files.  A file with many free
\* pages is vacuumed, or deleted when the vacuum brings nothing; a missing one is
\* created empty.
RestartCache ==
    /\ livesOfCache > 0
    /\ livesOfCache' = livesOfCache - 1
    /\ LET size == IF db.there THEN dbSize ELSE 0
           free == size - Cardinality(db.rows)
       IN  \/ db' = FileOf(db.rows) /\ dbSize' = size /\ UNCHANGED owed
           \/ /\ free >= HealAt
              /\ db' = db /\ dbSize' \in Cardinality(db.rows) .. size - 1 /\ UNCHANGED owed
           \/ free >= HealAt /\ db' = FileOf({}) /\ dbSize' = 0 /\ owed' = owed \ db.rows
    /\ leftovers' = leftovers \cup oldFile.rows \cup newFile.rows
    /\ newFile' = Absent /\ oldFile' = Absent
    /\ conn' = TRUE
    /\ degraded' = FALSE
    /\ rotation' = "none"
    /\ pending' = NoRow
    /\ UNCHANGED <<offered, faultsOfFiles>>

RotationStep ==
    \/ CopyRows
    \/ CloseConnection
    \/ SwapOut
    \/ SwapIn
    \/ CompleteRotation
    \/ RotationFails

CacheNext ==
    \/ Offer
    \/ \E due \in BOOLEAN : CheckSize(due)
    \/ DecideWrite
    \/ WriteRow
    \/ EnforceBounds
    \/ CleanUp
    \/ Vacuum
    \/ RotationStep
    \/ RestartCache

CacheSpec == CacheInit /\ [][CacheNext]_cacheVars

-----------------------------------------------------------------------------
(* Properties *)

\* Wherever a rotation fails or the process dies in it, each row that was neither
\* cleaned away nor left out of the copy is still in a file: the cache's, or the
\* old one that nobody removed.  And once the lock is free again no half-built
\* file is around, the cache is open unless its file could not be put back, and
\* low-priority writes are refused until a rotation works.
RotationRecovers ==
    /\ owed \subseteq db.rows \cup oldFile.rows \cup leftovers
    /\ LockFree => /\ ~newFile.there /\ ~oldFile.there
                   /\ ~conn => ~db.there /\ degraded /\ owed \subseteq leftovers
=============================================================================
