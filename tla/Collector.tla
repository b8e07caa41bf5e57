------------------------------- MODULE Collector -------------------------------
(***************************************************************************)
(* AuditLogCollector of src/collector.py: one loop polls the audit topic,  *)
(* gathers events in memory and writes them out as files, while the Kafka  *)
(* client commits on its own what poll has returned.  A file is named by   *)
(* the second it was written in and its number of events, nothing else.    *)
(***************************************************************************)
EXTENDS Naturals, FiniteSets

CONSTANTS
    TopicEnd,       \* bound: messages of the topic are 1 .. TopicEnd
    Malformed,      \* the messages that do not parse
    BufferSize,     \* BATCH_SIZE
    FlushInterval,  \* FLUSH_INTERVAL, in seconds
    LastSecond,     \* bound: the clock's last value
    UploadFaults,   \* bound: writes and uploads that raise
    MaxDeaths       \* bound: kills of the process

ASSUME CollectorAssumption ==
    /\ {BufferSize, FlushInterval} \subseteq Nat \ {0}
    /\ {TopicEnd, LastSecond, UploadFaults, MaxDeaths} \subseteq Nat
    /\ Malformed \subseteq 1 .. TopicEnd

Messages == 1 .. TopicEnd
Names == (0 .. LastSecond) \X (0 .. TopicEnd)

VARIABLES
    second,
    running,        \* self.running, or "leaving" in the finally branch, or "down"
    position,       \* the last message poll returned to this process
    committed,      \* the group's committed position
    inHand,         \* the message that poll returned and the loop has not taken in, or 0
    buffer,
    lastFlush,
    files,          \* the files of the bucket, or of OUTPUT_DIR without one
    uploadFaultsLeft, deathsLeft,
    overwritten,    \* ghost: events of a file that another of its name replaced
    lostAtDeath     \* ghost: events in the buffer when the process ended

collectorVars == <<second, running, position, committed, inHand, buffer, lastFlush, files,
                   uploadFaultsLeft, deathsLeft, overwritten, lostAtDeath>>

CollectorTypeOK ==
    /\ second \in 0 .. LastSecond /\ lastFlush \in 0 .. second
    /\ running \in {"yes", "leaving", "down"}
    /\ {position, committed, inHand} \subseteq 0 .. TopicEnd
    /\ {buffer, overwritten, lostAtDeath} \subseteq SUBSET Messages
    /\ files \in [Names -> SUBSET Messages]
    /\ uploadFaultsLeft \in 0 .. UploadFaults /\ deathsLeft \in 0 .. MaxDeaths

CollectorInit ==
    /\ second = 0
    /\ running = "yes"
    /\ position = 0 /\ committed = 0
    /\ inHand = 0
    /\ buffer = {}
    /\ lastFlush = 0
    /\ files = [n \in Names |-> {}]
    /\ uploadFaultsLeft = UploadFaults
    /\ deathsLeft = MaxDeaths
    /\ overwritten = {} /\ lostAtDeath = {}

Full == Cardinality(buffer) >= BufferSize
ShouldFlush ==
    \/ Full
    \/ buffer # {} /\ second - lastFlush >= FlushInterval

\* poll returns a message.  A full buffer is flushed before that; a flush that time
\* makes due waits for the next message taken in or the next empty poll.
Poll ==
    /\ running = "yes" /\ inHand = 0 /\ ~Full
    /\ position < TopicEnd
    /\ position' = position + 1
    /\ inHand' = position + 1
    /\ UNCHANGED <<second, running, committed, buffer, lastFlush, files, uploadFaultsLeft,
                   deathsLeft, overwritten, lostAtDeath>>

\* It is parsed and appended, or skipped.
TakeIn ==
    /\ inHand # 0
    /\ buffer' = IF inHand \in Malformed THEN buffer ELSE buffer \cup {inHand}
    /\ inHand' = 0
    /\ UNCHANGED <<second, running, position, committed, lastFlush, files, uploadFaultsLeft,
                   deathsLeft, overwritten, lostAtDeath>>

\* enable.auto.commit: every 5 seconds, whatever became of the messages
AutoCommit ==
    /\ running # "down"
    /\ committed' = position
    /\ UNCHANGED <<second, running, position, inHand, buffer, lastFlush, files,
                   uploadFaultsLeft, deathsLeft, overwritten, lostAtDeath>>

FlushDue == running = "yes" /\ inHand = 0 /\ ShouldFlush
FinalFlushDue == running = "leaving" /\ buffer # {}

\* The file, under a name that may be taken
WriteFile ==
    LET name == <<second, Cardinality(buffer)>>
    IN  /\ files' = [files EXCEPT ![name] = buffer]
        /\ overwritten' = overwritten \cup (files[name] \ buffer)

\* _flush succeeds.
Flush ==
    /\ FlushDue \/ FinalFlushDue
    /\ WriteFile
    /\ buffer' = {}
    /\ lastFlush' = second
    /\ UNCHANGED <<second, running, position, committed, inHand, uploadFaultsLeft, deathsLeft,
                   lostAtDeath>>

\* Mutated: the buffer is emptied before it is written.
FlushFails_Cleared ==
    /\ FlushDue \/ FinalFlushDue
    /\ uploadFaultsLeft > 0
    /\ uploadFaultsLeft' = uploadFaultsLeft - 1
    /\ running' = IF running = "yes" THEN "leaving" ELSE "down"
    /\ buffer' = {}
    /\ UNCHANGED <<second, position, committed, inHand, lastFlush, files, deathsLeft,
                   overwritten, lostAtDeath>>

\* _flush raises, before the file is in its place or after.  Out of the loop, the
\* finally branch flushes once more; out of the finally branch, the process ends
\* without consumer.close().
FlushFails ==
    /\ FlushDue \/ FinalFlushDue
    /\ uploadFaultsLeft > 0
    /\ uploadFaultsLeft' = uploadFaultsLeft - 1
    /\ IF running = "yes"
       THEN running' = "leaving" /\ UNCHANGED <<buffer, lostAtDeath>>
       ELSE running' = "down" /\ buffer' = {} /\ lostAtDeath' = lostAtDeath \cup buffer
    /\ WriteFile \/ UNCHANGED <<files, overwritten>>
    /\ UNCHANGED <<second, position, committed, inHand, lastFlush, deathsLeft>>

\* The end of the finally branch: consumer.close() commits what poll returned.
Close ==
    /\ running = "leaving" /\ buffer = {}
    /\ committed' = position
    /\ running' = "down"
    /\ UNCHANGED <<second, position, inHand, buffer, lastFlush, files, uploadFaultsLeft, deathsLeft,
                   overwritten, lostAtDeath>>

\* SIGINT or SIGTERM, seen by the loop's test
StopCollector ==
    /\ running = "yes" /\ inHand = 0 /\ ~Full
    /\ running' = "leaving"
    /\ UNCHANGED <<second, position, committed, inHand, buffer, lastFlush, files,
                   uploadFaultsLeft, deathsLeft, overwritten, lostAtDeath>>

Killed ==
    /\ running # "down"
    /\ deathsLeft > 0
    /\ deathsLeft' = deathsLeft - 1
    /\ running' = "down"
    /\ inHand' = 0 /\ buffer' = {}
    /\ lostAtDeath' = lostAtDeath \cup buffer \cup ({inHand} \cap Messages)
    /\ UNCHANGED <<second, position, committed, lastFlush, files, uploadFaultsLeft,
                   overwritten>>

\* A new process goes on from the committed position.
RestartCollector ==
    /\ running = "down"
    /\ running' = "yes"
    /\ position' = committed
    /\ lastFlush' = second
    /\ UNCHANGED <<second, committed, inHand, buffer, files, uploadFaultsLeft, deathsLeft,
                   overwritten, lostAtDeath>>

SecondPasses ==
    /\ second < LastSecond
    /\ second' = second + 1
    /\ UNCHANGED <<running, position, committed, inHand, buffer, lastFlush, files,
                   uploadFaultsLeft, deathsLeft, overwritten, lostAtDeath>>

CollectorNext ==
    \/ Poll
    \/ TakeIn
    \/ AutoCommit
    \/ Flush
    \/ FlushFails
    \/ Close
    \/ StopCollector
    \/ Killed
    \/ RestartCollector
    \/ SecondPasses

CollectorSpec == CollectorInit /\ [][CollectorNext]_collectorVars

-----------------------------------------------------------------------------
(* Properties *)

\* What the group will not read again is in a file or in the buffer of the live
\* process; the only events lost are those a process held when it ended without
\* writing them, and those of a file whose name was used twice.  A failed flush
\* that is followed by a good one loses nothing.
CommittedIsCollected ==
    \A e \in Messages \ Malformed :
        e <= committed =>
            \/ e \in buffer \cup {inHand}
            \/ \E n \in Names : e \in files[n]
            \/ e \in overwritten \cup lostAtDeath
=============================================================================
