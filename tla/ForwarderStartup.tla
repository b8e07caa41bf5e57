--------------------------- MODULE ForwarderStartup ---------------------------
(***************************************************************************)
(* main() up to the subscription and after it, for what the start leaves   *)
(* behind: the optional parts that came up, the database writer that may   *)
(* be opened later by any of the writers' threads, and the thread that     *)
(* repairs the display names of the rows already stored.                   *)
(***************************************************************************)
EXTENDS Integers, FiniteSets, Sequences

CONSTANTS
    Problems,       \* what validate_startup_config may find
    WriterLanes,    \* the threads that write once records come
    OldNames,       \* the names of the rows stored before, one set of rows each
    KnownRows,      \* those of the principal the identity service knows
    RepairBatch,    \* _BACKFILL_BATCH_SIZE
    LongestWait,    \* 60 s, at most, between two attempts to open the database
    LastStartSecond, \* bound on the time
    MaxTrouble      \* bound on outages, missing topics, locks and file changes

ASSUME StartupAssumption ==
    /\ \A names \in OldNames : names \in [DOMAIN names -> {"raw", "json", "prefixed"}]
    /\ RepairBatch \in Nat \ {0}
    /\ {LongestWait, LastStartSecond, MaxTrouble} \subseteq Nat
    /\ "main" \notin WriterLanes /\ WriterLanes # {} /\ IsFiniteSet(WriterLanes)

Callers == {"main"} \cup WriterLanes
NoWriter == 0

VARIABLES
    startStage, problems,
    hotStore,       \* product_store: off, or wanted and then open
    seconds, databaseUp,
    dbWriter,       \* the engine in use
    engines,        \* how many connected
    opening,        \* the callers inside AuditEventDbWriter()
    nextAttempt, failedInRow,
    destinations,   \* the notifier has some
    inFile,         \* notifications.yml has some
    watching,       \* the burst detector and the watchdog run
    repair,         \* the thread: its step, or how it ended
    rowName, rowLocked,
    everLocked,     \* ghost: the rows locked while the repair looked for them
    iamWarm,        \* the identity service's answers are there when it runs
    troublesMet
databaseVars == <<dbWriter, engines, opening, nextAttempt, failedInRow>>
partVars == <<hotStore, destinations, inFile, watching>>
repairVars == <<repair, rowName, rowLocked, everLocked, iamWarm>>
outsideVars == <<seconds, databaseUp, troublesMet>>
startupVars == <<startStage, problems, partVars, databaseVars, repairVars, outsideVars>>

OldRows == DOMAIN rowName
Fixes == {"identities", "blobs", "prefixes"}
NextStep == [identities |-> "blobs", blobs |-> "prefixes", prefixes |-> "complete"]
Ended == {"skipped", "raised", "complete"}

StartupTypeOK ==
    /\ startStage \in {"config", "store", "writer", "parts", "source", "topics", "serving", "left", "exit1"}
    /\ problems \subseteq Problems /\ hotStore \in {"off", "wanted", "open"}
    /\ {destinations, inFile, watching, databaseUp, iamWarm} \subseteq BOOLEAN
    /\ seconds \in 0 .. LastStartSecond /\ dbWriter \in 0 .. engines /\ engines \in Nat
    /\ opening \subseteq Callers /\ {nextAttempt, failedInRow} \subseteq Nat
    /\ repair \in {"none", "started"} \cup Ended \cup Fixes
    /\ rowName \in [OldRows -> {"raw", "json", "prefixed", "named", "internal"}]
    /\ rowLocked \subseteq OldRows /\ everLocked \subseteq OldRows /\ troublesMet \in 0 .. MaxTrouble

StartupInit ==
    /\ startStage = "config" /\ problems \in SUBSET Problems /\ hotStore \in {"off", "wanted"}
    /\ seconds = 0 /\ databaseUp \in BOOLEAN /\ troublesMet = 0
    /\ dbWriter = NoWriter /\ engines = 0 /\ opening = {} /\ nextAttempt = 0 /\ failedInRow = 0
    /\ destinations = FALSE /\ inFile \in BOOLEAN /\ watching = FALSE
    /\ repair = "none" /\ rowName \in OldNames /\ rowLocked = {} /\ everLocked = {}
    /\ iamWarm \in BOOLEAN

Meet == troublesMet < MaxTrouble /\ troublesMet' = troublesMet + 1

-----------------------------------------------------------------------------
(* The database writer *)

\* initialize_db_writer_if_enabled begins: no lock keeps two callers out.
MayOpen(c) == dbWriter = NoWriter /\ seconds >= nextAttempt /\ c \notin opening

Open(c) ==
    /\ c = "main" => startStage = "writer"
    /\ c # "main" => startStage = "serving"
    /\ MayOpen(c) /\ opening' = opening \cup {c}
    /\ UNCHANGED <<startStage, problems, partVars, dbWriter, engines, nextAttempt, failedInRow,
                   repairVars, outsideVars>>

AfterMain(c) == startStage' = IF c = "main" THEN "parts" ELSE startStage

\* The display names are repaired by a thread that main starts once it has tried; without a
\* writer at that moment it ends at once.
StartRepair(c, writer) ==
    repair' = IF c # "main" THEN repair ELSE IF writer = NoWriter THEN "skipped" ELSE "started"

\* The tables are there: the last caller's engine is the one in use.
Opened(c) ==
    /\ c \in opening /\ databaseUp
    /\ opening' = opening \ {c} /\ engines' = engines + 1 /\ dbWriter' = engines + 1
    /\ nextAttempt' = 0
    /\ AfterMain(c) /\ StartRepair(c, dbWriter')
    /\ UNCHANGED <<problems, partVars, failedInRow, rowName, rowLocked, everLocked,
                   iamWarm, outsideVars>>

OpenFails(c) ==
    /\ c \in opening /\ ~databaseUp
    /\ opening' = opening \ {c}
    /\ \E wait \in 0 .. LongestWait :
          /\ wait = IF 2 ^ failedInRow < LongestWait THEN 2 ^ failedInRow ELSE LongestWait
          /\ nextAttempt' = seconds + wait
    /\ failedInRow' = failedInRow + 1
    /\ AfterMain(c) /\ StartRepair(c, dbWriter)
    /\ UNCHANGED <<problems, partVars, dbWriter, engines, rowName, rowLocked, everLocked,
                   iamWarm, outsideVars>>

-----------------------------------------------------------------------------
(* main *)

CheckConfig ==
    /\ startStage = "config"
    /\ startStage' = IF problems = {} THEN "store" ELSE "exit1"
    /\ UNCHANGED <<problems, partVars, databaseVars, repairVars, outsideVars>>

\* initialize_product_store_or_exit
OpenStore ==
    /\ startStage = "store"
    /\ \/ hotStore = "off" /\ startStage' = "writer" /\ UNCHANGED <<hotStore,
                                                                    troublesMet>>
       \/ hotStore = "wanted" /\ hotStore' = "open" /\ startStage' = "writer" /\ UNCHANGED troublesMet
       \/ hotStore = "wanted" /\ Meet /\ startStage' = "exit1" /\ UNCHANGED hotStore
    /\ UNCHANGED <<problems, destinations, inFile, watching, databaseVars, repairVars,
                   seconds, databaseUp>>

\* The notifier and, for one with destinations, the burst detector and the watchdog.
StartParts ==
    /\ startStage = "parts" /\ startStage' = "source"
    /\ destinations' = inFile /\ watching' = inFile
    /\ UNCHANGED <<problems, hotStore, inFile, databaseVars, repairVars, outsideVars>>

\* The source topic is there, then all the others.
TopicsFound ==
    /\ startStage \in {"source", "topics"}
    /\ startStage' = IF startStage = "source" THEN "topics" ELSE "serving"
    /\ UNCHANGED <<problems, partVars, databaseVars, repairVars, outsideVars>>

\* A shutdown ends the waiting for a topic, and main returns.
LeaveEarly ==
    /\ startStage \in {"source", "topics"} /\ Meet /\ startStage' = "left"
    /\ UNCHANGED <<problems, partVars, databaseVars, repairVars, seconds, databaseUp>>

\* An event for the notifier, which may read its file again first.
NotifyEvent ==
    /\ startStage = "serving" /\ destinations /\ destinations' = inFile
    /\ UNCHANGED <<startStage, problems, hotStore, inFile, watching, databaseVars,
                   repairVars, outsideVars>>

-----------------------------------------------------------------------------
(* _run_startup_display_name_backfill *)

\* What one fix looks for, and what it makes of a row
Broken(r, fix) ==
    CASE fix = "identities" -> iamWarm /\ r \in KnownRows /\ rowName[r] # "named"
      [] fix = "blobs" -> rowName[r] = "json"
      [] fix = "prefixes" -> rowName[r] = "prefixed"
FixedName == [identities |-> "named", blobs |-> "internal", prefixes |-> "raw"]

\* Mutant: one batch for each fix.
Short_Once(n) == TRUE

\* n < _BACKFILL_BATCH_SIZE
Short(n) == n < RepairBatch

\* The cache is warm or a minute has passed, and there is something to fix.
BeginRepair ==
    /\ repair = "started" /\ repair' = IF databaseUp THEN "identities" ELSE "raised"
    /\ UNCHANGED <<startStage, problems, partVars, databaseVars, rowName, rowLocked,
                   everLocked, iamWarm, outsideVars>>

\* _backfill_batched: as many rows as a batch holds of those nobody has locked
RepairRows ==
    /\ repair \in Fixes /\ databaseUp
    /\ LET broken == {r \in OldRows : Broken(r, repair)}
           free == broken \ rowLocked
       IN \E batch \in SUBSET free :
            /\ Cardinality(batch) = RepairBatch \/ (batch = free /\ Cardinality(batch) < RepairBatch)
            /\ rowName' = [r \in OldRows |-> IF r \in batch THEN FixedName[repair] ELSE rowName[r]]
            /\ everLocked' = everLocked \cup (broken \cap rowLocked)
            /\ repair' = IF ~Short(Cardinality(batch)) THEN repair
                         ELSE NextStep[repair]
    /\ UNCHANGED <<startStage, problems, partVars, databaseVars, rowLocked, iamWarm,
                   outsideVars>>

RepairFails ==
    /\ repair \in Fixes /\ ~databaseUp /\ repair' = "raised"
    /\ UNCHANGED <<startStage, problems, partVars, databaseVars, rowName, rowLocked,
                   everLocked, iamWarm, outsideVars>>

-----------------------------------------------------------------------------
(* Outside *)

DatabaseTurns ==
    /\ Meet /\ databaseUp' = ~databaseUp
    /\ UNCHANGED <<startStage, problems, partVars, databaseVars, repairVars, seconds>>

FileChanges ==
    /\ Meet /\ inFile' = ~inFile
    /\ UNCHANGED <<startStage, problems, hotStore, destinations, watching, databaseVars,
                   repairVars, seconds, databaseUp>>

\* The live writer takes a row's lock, or lets go of it.
LockRow(r) ==
    /\ repair \in Fixes
    /\ \/ r \notin rowLocked /\ Meet /\ rowLocked' = rowLocked \cup {r}
       \/ r \in rowLocked /\ rowLocked' = rowLocked \ {r} /\ UNCHANGED troublesMet
    /\ UNCHANGED <<startStage, problems, partVars, databaseVars, repair, rowName,
                   everLocked, iamWarm, seconds, databaseUp>>

StartupTicks ==
    /\ seconds < LastStartSecond /\ seconds' = seconds + 1
    /\ UNCHANGED <<startStage, problems, partVars, databaseVars, repairVars, databaseUp,
                   troublesMet>>

StartupNext ==
    \/ \E c \in Callers : Open(c) \/ Opened(c) \/ OpenFails(c)
    \/ CheckConfig \/ OpenStore \/ StartParts \/ TopicsFound \/ LeaveEarly \/ NotifyEvent
    \/ BeginRepair \/ RepairRows \/ RepairFails
    \/ DatabaseTurns \/ FileChanges \/ StartupTicks
    \/ \E r \in OldRows : LockRow(r)

StartupSpec == StartupInit /\ [][StartupNext]_startupVars

-----------------------------------------------------------------------------
(* What the start promises *)

\* A repair that says it is complete has left no blob and no prefix, nor the name of a known
\* principal if the identities were there, except in a row locked while it was looked for.
\* However many writers find the database closed at once, each opens it once at most, and none
\* does after main has; and whoever watches the failures tells a notifier that had
\* destinations when it started.
StartupIsSound ==
    /\ repair = "complete" => \A r \in OldRows \ everLocked :
           rowName[r] \notin {"json", "prefixed"} /\ (iamWarm /\ r \in KnownRows => rowName[r] = "named")
    /\ engines <= Cardinality(WriterLanes)
    /\ startStage = "serving" => problems = {} /\ hotStore # "wanted" /\ (destinations => watching)
=============================================================================
