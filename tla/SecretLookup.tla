----------------------------- MODULE SecretLookup -----------------------------
(***************************************************************************)
(* core/secrets.py: a secret is looked up in AWS Secrets Manager, behind a *)
(* cache of one payload per group of secrets, and in the environment when  *)
(* that fails; forwarder/config.py, which reads its credentials one after  *)
(* the other as the process starts and keeps them; and the notifier's      *)
(* threads, which resolve the references of notifications.yml later.       *)
(*                                                                         *)
(* One group is modelled; the groups share nothing.                        *)
(***************************************************************************)
EXTENDS Integers, Sequences

CONSTANTS
    Settings,       \* the names that config.py reads, in its order
    References,     \* "asm:group#key" references: the environment has none of them
    InEnv,          \* the names that the environment has
    HeldBy,         \* the names that each version of the group's payload holds
    LastPayload,    \* bound: rotations, one version each
    Resolvers,      \* the threads that resolve references
    SecretTtl,      \* _CACHE_TTL_SECONDS
    FetchSpan,      \* the longest time from a payload's reading to its storing
    LastBeat,       \* bound on the time
    Outages         \* bound on lookups that raise

ASSUME SecretAssumption ==
    /\ Settings \in Seq(STRING) /\ References \subseteq STRING
    /\ InEnv \cap References = {}
    /\ HeldBy \in [0 .. LastPayload -> SUBSET STRING]
    /\ SecretTtl \in Nat \ {0} /\ {LastPayload, FetchSpan, LastBeat, Outages} \subseteq Nat
    /\ "main" \notin Resolvers

SecretUsers == {"main"} \cup Resolvers
Empty == [version |-> -1]
NoQuestion == [at |-> "idle"]

VARIABLES
    asmEnabled,     \* AWS_SECRETS_MANAGER_ENABLED
    current,        \* the version that Secrets Manager holds
    cached,         \* _secret_cache: a version and when it was stored
    requesting,     \* what each asker waits for
    settings,       \* the constants of config.py, as far as they are read, and then the
                    \* answers that validate_secrets gets to the same names
    resolved,       \* ghost: the last answer of each resolver
    currentUntil,   \* ghost: when each version was last the current one
    beat, outages

secretVars == <<asmEnabled, current, cached, requesting, settings, resolved, currentUntil,
                beat, outages>>

\* From where a name was answered, when, and whether its own lookup failed
FoundSecret == [from : {"asm", "env", "nowhere"}, version : -1 .. LastPayload, when : Nat,
          failed : BOOLEAN]

SecretTypeOK ==
    /\ asmEnabled \in BOOLEAN /\ current \in 0 .. LastPayload /\ cached.version \in -1 .. current
    /\ Len(settings) <= 2 * Len(Settings) /\ \A i \in DOMAIN settings : settings[i] \in FoundSecret
    /\ beat \in 0 .. LastBeat /\ outages \in 0 .. Outages

SecretInit ==
    /\ asmEnabled \in BOOLEAN
    /\ current = 0 /\ cached = Empty
    /\ requesting = [a \in SecretUsers |-> NoQuestion]
    /\ settings = <<>>
    /\ resolved = [r \in Resolvers |-> NoQuestion]
    /\ currentUntil = [v \in 0 .. LastPayload |-> 0]
    /\ beat = 0 /\ outages = 0

-----------------------------------------------------------------------------
(* get_secret *)

\* Mutated: a cache without a time to live.
CacheHolds_Forever == cached # Empty

CacheHolds == cached # Empty /\ beat - cached.at < SecretTtl

\* What a payload answers, and without one the environment
FromEnv(name, failed) ==
    [from |-> IF name \in InEnv THEN "env" ELSE "nowhere", version |-> -1, when |-> beat,
     failed |-> failed]

FromPayload(name, v) ==
    IF name \in HeldBy[v] THEN [from |-> "asm", version |-> v, when |-> beat, failed |-> FALSE]
    ELSE FromEnv(name, FALSE)

\* The constants are read twice: by config.py and by validate_secrets.
Configured == Len(settings) = 2 * Len(Settings)
NextName == Settings[(Len(settings) % Len(Settings)) + 1]

\* Resolvers are started after that.
MayAsk(a, name) ==
    /\ requesting[a] = NoQuestion
    /\ IF a = "main" THEN ~Configured /\ name = NextName ELSE Configured /\ name \in References

Receives(a, name, found) ==
    IF a = "main"
    THEN settings' = Append(settings, found) /\ UNCHANGED resolved
    ELSE resolved' = [resolved EXCEPT ![a] = [at |-> "answered", name |-> name, found |-> found]]
         /\ UNCHANGED settings

\* Secrets Manager is off, or the cache has the payload.
AnswerAtOnce(a, name) ==
    /\ MayAsk(a, name)
    /\ ~asmEnabled \/ CacheHolds
    /\ Receives(a, name, IF asmEnabled THEN FromPayload(name, cached.version)
                         ELSE FromEnv(name, FALSE))
    /\ UNCHANGED <<asmEnabled, current, cached, requesting, currentUntil, beat, outages>>

\* A miss: the lock is let go before the lookup.
Miss(a, name) ==
    /\ MayAsk(a, name)
    /\ asmEnabled /\ ~CacheHolds
    /\ requesting' = [requesting EXCEPT ![a] = [at |-> "fetching", name |-> name]]
    /\ UNCHANGED <<asmEnabled, current, cached, settings, resolved, currentUntil, beat,
                   outages>>

\* _fetch_from_asm returns the payload
FetchPayload(a) ==
    /\ requesting[a].at = "fetching"
    /\ requesting' = [requesting EXCEPT ![a] =
                    [at |-> "storing", name |-> @.name, version |-> current, since |-> beat]]
    /\ UNCHANGED <<asmEnabled, current, cached, settings, resolved, currentUntil, beat,
                   outages>>

Store(a) ==
    /\ requesting[a].at = "storing"
    /\ cached' = [version |-> requesting[a].version, at |-> beat]
    /\ Receives(a, requesting[a].name, FromPayload(requesting[a].name, requesting[a].version))
    /\ requesting' = [requesting EXCEPT ![a] = NoQuestion]
    /\ UNCHANGED <<asmEnabled, current, currentUntil, beat, outages>>

\* boto3 is missing or raises: nothing is cached.
FetchFails(a) ==
    /\ requesting[a].at = "fetching"
    /\ outages < Outages /\ outages' = outages + 1
    /\ Receives(a, requesting[a].name, FromEnv(requesting[a].name, TRUE))
    /\ requesting' = [requesting EXCEPT ![a] = NoQuestion]
    /\ UNCHANGED <<asmEnabled, current, cached, currentUntil, beat>>

-----------------------------------------------------------------------------
(* Outside *)

Rotate ==
    /\ current < LastPayload
    /\ current' = current + 1
    /\ currentUntil' = [currentUntil EXCEPT ![current'] = beat]
    /\ UNCHANGED <<asmEnabled, cached, requesting, settings, resolved, beat, outages>>

\* Nobody holds a payload for longer than FetchSpan before it is stored.
Beat ==
    /\ beat < LastBeat
    /\ \A a \in SecretUsers : requesting[a].at = "storing" => beat - requesting[a].since < FetchSpan
    /\ beat' = beat + 1
    /\ currentUntil' = [currentUntil EXCEPT ![current] = beat']
    /\ UNCHANGED <<asmEnabled, current, cached, requesting, settings, resolved, outages>>

SecretNames == {Settings[i] : i \in DOMAIN Settings} \cup References

SecretNext ==
    \/ \E a \in SecretUsers : \/ \E name \in SecretNames : AnswerAtOnce(a, name) \/ Miss(a, name)
                        \/ FetchPayload(a) \/ Store(a) \/ FetchFails(a)
    \/ Rotate
    \/ Beat

SecretSpec == SecretInit /\ [][SecretNext]_secretVars

-----------------------------------------------------------------------------
(* Properties *)

\* Whoever stores what in which order, a payload that answers was still current at
\* most one time to live, and the time a lookup takes, before.
SecretsAreRecent ==
    \A found \in {settings[i] : i \in DOMAIN settings}
                 \cup {resolved[r].found : r \in {q \in Resolvers : resolved[q] # NoQuestion}} :
        found.from = "asm" => found.when - currentUntil[found.version] <= SecretTtl + FetchSpan - 1

\* The credentials that a start reads one after the other come from two payloads
\* only if reading them took longer than the cache keeps the first: since the read that
\* fetched it, which may itself have been answered by the environment.
CredentialsMatch ==
    \A i, j \in DOMAIN settings :
        /\ i < j
        /\ settings[i].from = "asm" /\ settings[j].from = "asm"
        /\ settings[i].version # settings[j].version
        => \E k \in 1 .. i : /\ settings[k].version \in {settings[i].version, -1}
                            /\ settings[j].when - settings[k].when >= SecretTtl

\* A name that every payload holds is answered by the environment, or not at all,
\* only in a call whose own lookup failed: no failure is remembered.
FallbackIsEarned ==
    asmEnabled =>
        /\ \A i \in DOMAIN settings :
              LET name == Settings[((i - 1) % Len(Settings)) + 1]
              IN  (\A v \in 0 .. LastPayload : name \in HeldBy[v])
                    => settings[i].from = "asm" \/ settings[i].failed
        /\ \A r \in Resolvers : resolved[r] # NoQuestion =>
              ((\A v \in 0 .. LastPayload : resolved[r].name \in HeldBy[v])
                 => resolved[r].found.from = "asm" \/ resolved[r].found.failed)

SecretsHold == SecretsAreRecent /\ CredentialsMatch /\ FallbackIsEarned
=============================================================================
