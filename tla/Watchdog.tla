-------------------------------- MODULE Watchdog --------------------------------
(***************************************************************************)
(* _pipeline_watchdog_loop of audit_forwarder.py: a thread that looks at   *)
(* the newest stored event every CheckEvery time units and raises one      *)
(* system alert when it is too old, one more when events are back.         *)
(***************************************************************************)
EXTENDS Naturals

CONSTANTS
    CheckEvery,         \* check_interval_seconds
    SilenceThreshold    \* threshold_minutes, in the same unit

ASSUME WatchdogAssumption == {CheckEvery, SilenceThreshold} \subseteq Nat \ {0}

VARIABLES
    stored,         \* whether audit_events has any row
    silence,        \* age of its newest event, up to Longest
    database,       \* "absent" (db_writer is None), "failing" or "up"
    sinceCheck,     \* time since the last look
    alerted,        \* alerted
    stopRequested,  \* _shutdown_requested
    watching,       \* the thread's loop runs
    lookable,       \* ghost: how long the database has answered
    steady          \* ghost: how long TooSilent has had its value

watchdogVars == <<stored, silence, database, sinceCheck, alerted, stopRequested,
                  watching, lookable, steady>>

Longest == SilenceThreshold + 1

WatchdogTypeOK ==
    /\ {stored, alerted, stopRequested, watching} \subseteq BOOLEAN
    /\ silence \in 0 .. Longest
    /\ database \in {"absent", "failing", "up"}
    /\ sinceCheck \in 0 .. CheckEvery
    /\ lookable \in 0 .. CheckEvery
    /\ steady \in 0 .. CheckEvery

WatchdogInit ==
    /\ stored = FALSE
    /\ silence = 0
    /\ database = "absent"
    /\ sinceCheck = 0
    /\ alerted = FALSE
    /\ stopRequested = FALSE
    /\ watching = TRUE
    /\ lookable = 0
    /\ steady = 0

TooSilent == silence > SilenceThreshold

\* The forwarder stores an event as old as age; the table's newest is its
\* maximum, so a late event does not end a silence.
EventStored(age) ==
    /\ database = "up"
    /\ stored' = TRUE
    /\ silence' = IF stored /\ silence <= age THEN silence ELSE age
    /\ steady' = IF stored /\ TooSilent' = TooSilent THEN steady ELSE 0
    /\ UNCHANGED <<database, sinceCheck, alerted, stopRequested, watching, lookable>>

DatabaseChanges(state) ==
    /\ state # database
    /\ database' = state
    /\ lookable' = 0
    /\ UNCHANGED <<stored, silence, sinceCheck, alerted, stopRequested, watching, steady>>

\* A second passes: the inner loop of the watchdog and the rest of the world.
WatchTick ==
    /\ sinceCheck < CheckEvery
    /\ sinceCheck' = IF watching THEN sinceCheck + 1 ELSE sinceCheck
    /\ silence' = IF stored /\ silence < Longest THEN silence + 1 ELSE silence
    /\ lookable' = IF database = "up" /\ lookable < CheckEvery
                   THEN lookable + 1 ELSE lookable
    /\ steady' = IF TooSilent' # TooSilent THEN 0
                 ELSE IF steady < CheckEvery THEN steady + 1 ELSE steady
    /\ UNCHANGED <<stored, database, alerted, stopRequested, watching>>

\* Mutated: the flag is not reset on recovery.
Look_NoRecovery ==
    /\ watching
    /\ sinceCheck = CheckEvery
    /\ sinceCheck' = 0
    /\ \/ /\ database # "up" \/ ~stored
          /\ UNCHANGED alerted
       \/ /\ database = "up" /\ stored
          /\ TooSilent /\ ~alerted
          /\ alerted' = TRUE
       \/ /\ database = "up" /\ stored
          /\ ~TooSilent /\ alerted
          /\ UNCHANGED alerted
       \/ /\ database = "up" /\ stored
          /\ TooSilent = alerted
          /\ UNCHANGED alerted
    /\ UNCHANGED <<stored, silence, database, stopRequested, watching, lookable, steady>>

\* One turn of the loop after its sleep.  alerted follows the decision, not the
\* delivery: send_system_alert may reach no destination or raise.
Look ==
    /\ watching
    /\ sinceCheck = CheckEvery
    /\ sinceCheck' = 0
    /\ \/ /\ database # "up" \/ ~stored
          /\ UNCHANGED alerted
       \/ /\ database = "up" /\ stored
          /\ TooSilent /\ ~alerted
          /\ alerted' = TRUE
       \/ /\ database = "up" /\ stored
          /\ ~TooSilent /\ alerted
          /\ alerted' = FALSE
       \/ /\ database = "up" /\ stored
          /\ TooSilent = alerted
          /\ UNCHANGED alerted
    /\ UNCHANGED <<stored, silence, database, stopRequested, watching, lookable, steady>>

RequestStop ==
    /\ ~stopRequested
    /\ stopRequested' = TRUE
    /\ UNCHANGED <<stored, silence, database, sinceCheck, alerted, watching, lookable, steady>>

StopWatching ==
    /\ stopRequested /\ watching
    /\ watching' = FALSE
    /\ sinceCheck' = 0
    /\ UNCHANGED <<stored, silence, database, alerted, stopRequested, lookable, steady>>

WatchdogNext ==
    \/ \E age \in 0 .. Longest : EventStored(age)
    \/ \E state \in {"failing", "up"} : DatabaseChanges(state)
    \/ WatchTick
    \/ Look
    \/ RequestStop
    \/ StopWatching

WatchdogSpec == WatchdogInit /\ [][WatchdogNext]_watchdogVars

-----------------------------------------------------------------------------
(* Properties *)

\* With a database that has answered for a whole interval, and a verdict that has
\* stood as long, the flag tells the truth: an alert was attempted for a silence,
\* and withdrawn once events were back.  A query that fails, an empty table or an
\* event stored late leaves nothing stuck.
SilenceNoticed ==
    /\ watching /\ stored /\ sinceCheck < CheckEvery
    /\ lookable = CheckEvery /\ steady = CheckEvery
    => alerted = TooSilent
=============================================================================
