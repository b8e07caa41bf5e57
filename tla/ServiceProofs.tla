---------------------------- MODULE ServiceProofs ----------------------------
(***************************************************************************)
(* Theorems about the services around the pipeline, for every value of     *)
(* their constants: the installer, the watcher and the registration of     *)
(* schemas, the forwarder's start, the topic router and the review of      *)
(* patterns.                                                               *)
(***************************************************************************)
EXTENDS Installer, SchemaWatcher, SchemaRegistration, ForwarderStartup, TopicRouting,
        PatternReview, FiniteSetTheorems, FunctionTheorems, SequenceTheorems, TLAPS

-----------------------------------------------------------------------------
(* The installer *)

WizardInputs == [password : Nat, mode : {"disabled", "generate", "existing"}, token : Nat, create : BOOLEAN]

\* What a run works with: numbers, and a token that is the one it shows or none.
AnswersKept ==
    /\ generated \in Nat /\ inputs \in WizardInputs /\ tokenFile \in Nat
    /\ checkpoint # NoCheckpoint => checkpoint.inputs \in WizardInputs
    /\ tokenJson \in {None, inputs.token}

\* The password of the volume is in the secret file, or the host is one that was upgraded:
\* then it is still in .env alone, or in a backup.
VolumeKept ==
    /\ ~ upgraded => volume \in {None, secretFile}
    /\ upgraded =>
          /\ volume # None
          /\ \/ volume \in backups
             \/ secretFile = None /\ envFile = volume /\ stage \in {"off", "phases", "moveEnv"}
    /\ containers # Down => volume # None

\* How far the writing of the files has come.
FilesWritten ==
    /\ stage \in {"moveToken", "moveAdmin", "writeEnv"} => envFile = None
    /\ stage \in {"writeToken", "writeAdmin", "tokenCheck", "secret", "compose"} =>
          (secretFile # None => envFile = secretFile)
    /\ stage \in {"moveAdmin", "writeEnv", "writeToken"} => tokenFile = None
    /\ stage \in {"writeAdmin", "tokenCheck", "secret", "compose"} => tokenFile = tokenJson
    /\ stage \in {"tokenCheck", "secret", "compose"} /\ inputs.token # None =>
          adminFile = inputs.token
    /\ stage \in {"secret", "compose"} /\ inputs.mode # "disabled" => tokenFile # None

InstallInv == AnswersKept /\ VolumeKept /\ FilesWritten /\ ApiOpensDatabase /\ TokensAgree /\ ValidatedFirst

LEMMA InstallStep == InstallInv /\ [InstallNext]_installVars => InstallInv'
<1> SUFFICES ASSUME InstallInv, [InstallNext]_installVars PROVE InstallInv'
    OBVIOUS
<1> USE DEF InstallInv
\* A run begins, and the phases up to the second validation leave the files alone.
<1>1. CASE StartFresh
    <2>1. /\ generated' = generated + 1 /\ checkpoint' = NoCheckpoint /\ tokenJson' = None
          /\ inputs' = [Blank EXCEPT !.password = generated'] /\ stage = "off" /\ stage' = "phases"
          /\ UNCHANGED <<filesVars, volume, topics, containers, upgraded>>
        BY <1>1 DEF StartFresh
    <2>2. inputs' \in WizardInputs
        <3>1. generated' \in Nat /\ Blank \in WizardInputs
            BY <2>1 DEF Blank, WizardInputs, AnswersKept, None
        <3> QED  BY <2>1, <3>1 DEF WizardInputs
    <2> QED  BY <2>1, <2>2 DEF filesVars, AnswersKept, VolumeKept, FilesWritten, ApiOpensDatabase,
            TokensAgree, ValidatedFirst
<1>2. CASE Resume
    <2>1. AnswersKept'
        BY <1>2 DEF Resume, Reconstructed, AnswersKept, WizardInputs, None, filesVars
    <2> QED  BY <1>2, <2>1 DEF Resume, filesVars, VolumeKept, FilesWritten, ApiOpensDatabase,
            TokensAgree, ValidatedFirst
<1>3. CASE StartFromConfig
    <2>1. AnswersKept'
        BY <1>3 DEF StartFromConfig, TokenChoices, AnswersKept, WizardInputs, None, Prepared, filesVars
    <2> QED  BY <1>3, <2>1 DEF StartFromConfig, filesVars, VolumeKept, FilesWritten,
            ApiOpensDatabase, TokensAgree, ValidatedFirst
<1>4. CASE LocalPrerequisites \/ SourceCluster \/ SchemaRegistry \/ Persistence
    <2>1. /\ stage = "phases" /\ UNCHANGED <<filesVars, volume, topics, containers, stage, tokenJson,
                                             upgraded, generated, inputs>>
          /\ checkpoint'.inputs = inputs'
        BY <1>4 DEF LocalPrerequisites, SourceCluster, SchemaRegistry, Persistence, PlainPhase, Save
    <2> QED  BY <2>1 DEF filesVars, AnswersKept, VolumeKept, FilesWritten, ApiOpensDatabase,
            TokensAgree, ValidatedFirst
<1>5. CASE DestinationCluster
    <2>1. /\ stage = "phases" /\ stage' \in {"phases", "off"}
          /\ UNCHANGED <<filesVars, volume, containers, tokenJson, upgraded, generated>>
        BY <1>5 DEF DestinationCluster, Stop
    <2>2. /\ inputs' \in WizardInputs /\ inputs'.token = inputs.token
          /\ checkpoint'.inputs = inputs' \/ checkpoint' = checkpoint
        BY <1>5 DEF DestinationCluster, Stop, Save, AnswersKept, WizardInputs
    <2> QED  BY <2>1, <2>2 DEF filesVars, AnswersKept, VolumeKept, FilesWritten, ApiOpensDatabase,
            TokensAgree, ValidatedFirst
<1>6. CASE ProductSettings
    <2>1. AnswersKept'
        <3>1. PICK choice \in TokenChoices : 
                  /\ ChooseToken(choice, inputs.password)
                  /\ generated' = IF choice.mode = "generate" THEN generated + 1 ELSE generated
            BY <1>6 DEF ProductSettings
        <3>2. choice.token \in Nat /\ choice.mode \in {"disabled", "generate", "existing"}
            BY DEF TokenChoices, AnswersKept, None, Prepared
        <3>3. inputs' \in WizardInputs /\ tokenJson' = inputs'.token
            BY <3>1, <3>2 DEF ChooseToken, WizardInputs, AnswersKept
        <3>4. /\ generated' \in Nat /\ tokenFile' = tokenFile /\ checkpoint'.inputs = inputs'
            BY <1>6, <3>1 DEF ProductSettings, Save, AnswersKept, filesVars
        <3> QED  BY <3>3, <3>4 DEF AnswersKept
    <2> QED  BY <1>6, <2>1 DEF ProductSettings, filesVars, VolumeKept, FilesWritten,
            ApiOpensDatabase, TokensAgree, ValidatedFirst
<1>7. CASE PhaseRefused \/ ValidateAgain
    <2>1. /\ stage = "phases" /\ stage' \in {"off", "moveEnv"} /\ (stage' # "off" => topics' = Topics)
          /\ UNCHANGED <<checkpoint, filesVars, volume, containers, inputs, tokenJson, upgraded,
                         generated>>
        BY <1>7 DEF PhaseRefused, ValidateAgain, Stop
    <2> QED  BY <2>1 DEF filesVars, AnswersKept, VolumeKept, FilesWritten, ApiOpensDatabase,
            TokensAgree, ValidatedFirst
\* The files are moved aside and written, one after the other.
<1>8. CASE MoveEnv
    <2>1. upgraded => volume \in backups'
        BY <1>8 DEF MoveEnv, MovedAside, Advance, VolumeKept
    <2> QED  BY <1>8, <2>1 DEF MoveEnv, MovedAside, Advance, Keep, AnswersKept, VolumeKept,
            FilesWritten, ApiOpensDatabase, TokensAgree, ValidatedFirst
<1>9. CASE MoveToken \/ MoveAdmin
    BY <1>9 DEF MoveToken, MoveAdmin, MovedAside, Advance, Keep, AnswersKept, VolumeKept,
        FilesWritten, ApiOpensDatabase, TokensAgree, ValidatedFirst, None
<1>10. CASE WriteEnv
    BY <1>10 DEF WriteEnv, Advance, Keep, AnswersKept, VolumeKept,
        FilesWritten, ApiOpensDatabase, TokensAgree, ValidatedFirst
<1>11. CASE WriteToken
    BY <1>11 DEF WriteToken, Advance, Keep, AnswersKept, WizardInputs, VolumeKept,
        FilesWritten, ApiOpensDatabase, TokensAgree, ValidatedFirst, None
<1>12. CASE WriteAdmin
    BY <1>12 DEF WriteAdmin, Advance, Keep, AnswersKept, VolumeKept,
        FilesWritten, ApiOpensDatabase, TokensAgree, ValidatedFirst
<1>13. CASE TokenCheck
    BY <1>13 DEF TokenCheck, filesVars, Keep, AnswersKept, VolumeKept,
        FilesWritten, ApiOpensDatabase, TokensAgree, ValidatedFirst
<1>14. CASE EnsureSecretFile
    BY <1>14 DEF EnsureSecretFile, PasswordToKeep, Advance, Keep, AnswersKept, VolumeKept,
        FilesWritten, ApiOpensDatabase, TokensAgree, ValidatedFirst
\* The containers start with what the files say.
<1>15. CASE DeployDocker
    <2>1. /\ stage = "compose" /\ stage' \in {"runtime", "off"}
          /\ UNCHANGED <<checkpoint, filesVars, topics, inputs, tokenJson, upgraded, generated>>
        BY <1>15 DEF DeployDocker
    <2>2. AnswersKept' /\ FilesWritten' /\ ValidatedFirst'
        BY <2>1 DEF filesVars, AnswersKept, FilesWritten, ValidatedFirst
    <2>3. CASE UNCHANGED <<volume, containers>>
        BY <2>1, <2>2, <2>3 DEF filesVars, VolumeKept, ApiOpensDatabase, TokensAgree
    <2>4. CASE secretFile # None /\ InitDb
        <3>1. /\ volume' # None /\ (~ upgraded' => volume' = secretFile)
              /\ (upgraded' => volume' = volume)
            BY <2>1, <2>4 DEF InitDb, VolumeKept, filesVars
        <3>2. VolumeKept'
            BY <2>1, <3>1 DEF VolumeKept, filesVars
        <3>3. CASE Up(inputs.mode)
            <4>1. /\ containers'.password = envFile /\ containers'.mode = inputs.mode
                  /\ containers'.token = tokenFile /\ containers'.admin = adminFile
                BY <2>1, <3>3 DEF Up, filesVars
            <4>2. ApiOpensDatabase'
                BY <2>1, <2>4, <3>1, <4>1 DEF ApiOpensDatabase, FilesWritten
            <4>3. TokensAgree'
                BY <2>1, <4>1 DEF TokensAgree, FilesWritten, AnswersKept
            <4> QED  BY <2>2, <3>2, <4>2, <4>3
        <3>4. CASE containers' = Down
            BY <2>2, <3>2, <3>4 DEF ApiOpensDatabase, TokensAgree
        <3> QED  BY <1>15, <2>3, <3>3, <3>4 DEF DeployDocker
    <2> QED  BY <1>15, <2>3, <2>4 DEF DeployDocker, Up
<1>16. CASE ValidateRuntime \/ FinishInstall \/ InstallKilled
    <2>1. /\ stage' \in {"flow", "off"} /\ (stage' = "flow" => stage = "runtime")
          /\ UNCHANGED <<filesVars, volume, topics, containers, inputs, tokenJson, upgraded, generated>>
          /\ checkpoint' \in {checkpoint, NoCheckpoint}
        BY <1>16 DEF ValidateRuntime, FinishInstall, InstallKilled, Advance, Keep
    <2>2. AnswersKept'
        BY <2>1 DEF filesVars, AnswersKept
    <2>3. VolumeKept' /\ FilesWritten'
        BY <2>1 DEF filesVars, VolumeKept, FilesWritten
    <2> QED  BY <2>1, <2>2, <2>3 DEF ApiOpensDatabase, TokensAgree, ValidatedFirst
\* A repair copies the password that is there, or makes one.
<1>17. CASE Repair
    <2>1. /\ stage = "off" /\ UNCHANGED <<checkpoint, tokenFile, adminFile, backups, topics, wizardVars>>
          /\ secretFile' = (IF PasswordToKeep # None THEN PasswordToKeep ELSE generated')
          /\ envFile' = secretFile' /\ generated' = generated + 1 /\ generated' \in Nat
          /\ upgraded' = (upgraded /\ ~ (secretFile = None /\ envFile = volume))
          /\ volume' = (IF volume = None THEN secretFile' ELSE volume)
          /\ containers'.password = envFile' /\ containers'.mode = "disabled"
        BY <1>17 DEF Repair, Up, InitDb, AnswersKept
    <2>2. secretFile' # None
        BY <2>1 DEF AnswersKept, None
    <2>3. ~ upgraded' => volume' = secretFile'
        BY <2>1, <2>2 DEF VolumeKept, PasswordToKeep
    <2>4. AnswersKept' /\ FilesWritten' /\ ValidatedFirst' /\ TokensAgree'
        BY <2>1 DEF wizardVars, AnswersKept, FilesWritten, ValidatedFirst, TokensAgree
    <2>5. upgraded' => volume' # None /\ volume' \in backups'
        BY <2>1 DEF VolumeKept
    <2> QED  BY <2>1, <2>2, <2>3, <2>4, <2>5 DEF VolumeKept, ApiOpensDatabase
<1>18. CASE UNCHANGED installVars
    BY <1>18 DEF installVars, filesVars, wizardVars, AnswersKept, VolumeKept, FilesWritten,
        ApiOpensDatabase, TokensAgree, ValidatedFirst
<1> QED
    BY <1>1, <1>2, <1>3, <1>4, <1>5, <1>6, <1>7, <1>8, <1>9, <1>10, <1>11, <1>12, <1>13, <1>14,
       <1>15, <1>16, <1>17, <1>18 DEF InstallNext

\* Only the validation of the services leads to the last check, and whatever else changes the
\* containers or the volume is done before it or after the run.
LEMMA LastCheckKeeps == FinishedOpens /\ [InstallNext]_installVars => FinishedOpens'
<1> SUFFICES ASSUME FinishedOpens, [InstallNext]_installVars, stage' = "flow"
             PROVE  DatabaseOpens'
    BY DEF FinishedOpens
<1>1. CASE ValidateRuntime
    <2>1. DatabaseOpens /\ UNCHANGED <<containers, volume>>
        BY <1>1 DEF ValidateRuntime, Keep
    <2> QED  BY <2>1 DEF DatabaseOpens
<1>2. CASE UNCHANGED installVars
    <2>1. DatabaseOpens /\ UNCHANGED <<containers, volume>>
        BY <1>2 DEF installVars, wizardVars, FinishedOpens
    <2> QED  BY <2>1 DEF DatabaseOpens
<1>3. CASE StartFresh \/ Resume \/ StartFromConfig
    BY <1>3 DEF StartFresh, Resume, StartFromConfig
<1>4. CASE LocalPrerequisites \/ SourceCluster \/ SchemaRegistry \/ Persistence \/ ProductSettings
    BY <1>4 DEF LocalPrerequisites, SourceCluster, SchemaRegistry, Persistence, ProductSettings, PlainPhase
<1>5. CASE DestinationCluster \/ PhaseRefused \/ ValidateAgain
    BY <1>5 DEF DestinationCluster, PhaseRefused, ValidateAgain, Stop
<1>6. CASE MoveEnv \/ MoveToken \/ MoveAdmin \/ WriteEnv \/ WriteToken \/ WriteAdmin
    BY <1>6 DEF MoveEnv, MoveToken, MoveAdmin, WriteEnv, WriteToken, WriteAdmin, Advance
<1>7. CASE TokenCheck \/ EnsureSecretFile \/ DeployDocker
    BY <1>7 DEF TokenCheck, EnsureSecretFile, DeployDocker, Advance
<1>8. CASE FinishInstall \/ InstallKilled \/ Repair
    BY <1>8 DEF FinishInstall, InstallKilled, Repair, Advance, wizardVars
<1> QED  BY <1>1, <1>2, <1>3, <1>4, <1>5, <1>6, <1>7, <1>8 DEF InstallNext

\* Whatever run is killed, resumed, begun afresh or followed by a repair: the API opens the
\* database, the password of the data is kept, and the tokens in use are the ones shown.
THEOREM InstallationStaysConsistent == InstallSpec => []InstallConsistent
<1>1. InstallInit => InstallInv /\ FinishedOpens
    BY DEF InstallInit, InstallInv, AnswersKept, VolumeKept, FilesWritten, ApiOpensDatabase,
        TokensAgree, ValidatedFirst, FinishedOpens, Blank, WizardInputs, None, Prepared, NoCheckpoint
<1>2. InstallInv /\ FinishedOpens => InstallConsistent
    BY DEF InstallInv, InstallConsistent, VolumeKept, PasswordKept
<1> QED  BY <1>1, <1>2, InstallStep, LastCheckKeeps, PTL DEF InstallSpec

-----------------------------------------------------------------------------
(* The schema watcher *)

\* Past the data file's turn, a check works with methods that are in it.
WatcherInv ==
    /\ BookedIsRecorded
    /\ checking \in {"alerting", "saving", "snapshot"} => fetched \subseteq dataFile

LEMMA WatcherStep == WatcherInv /\ [WatcherNext]_watcherVars => WatcherInv'
<1> SUFFICES ASSUME WatcherInv, [WatcherNext]_watcherVars PROVE WatcherInv'
    OBVIOUS
<1> USE DEF WatcherInv, BookedIsRecorded, filesOfWatcher, bounds
<1>1. CASE Publish BY <1>1 DEF Publish
<1>2. CASE FetchSchema BY <1>2 DEF FetchSchema
<1>3. CASE LoadSnapshot BY <1>3 DEF LoadSnapshot
<1>4. CASE UpdateDataFile BY <1>4 DEF UpdateDataFile
<1>5. CASE UpdateFails BY <1>5 DEF UpdateFails
<1>6. CASE SendSlackAlert BY <1>6 DEF SendSlackAlert
<1>7. CASE SaveVersion BY <1>7 DEF SaveVersion
<1>8. CASE SaveSnapshot BY <1>8 DEF SaveSnapshot
<1>9. CASE WatcherKilled BY <1>9 DEF WatcherKilled
<1>10. CASE UNCHANGED watcherVars BY <1>10 DEF watcherVars
<1> QED
    BY <1>1, <1>2, <1>3, <1>4, <1>5, <1>6, <1>7, <1>8, <1>9, <1>10 DEF WatcherNext

\* What a version records or Slack was told is in the data file, after any kills and failures.
THEOREM BookedStaysRecorded == WatcherSpec => []BookedIsRecorded
<1>1. WatcherInit => WatcherInv
    BY DEF WatcherInit, WatcherInv, BookedIsRecorded
<1>2. WatcherInv => BookedIsRecorded
    BY DEF WatcherInv
<1> QED  BY <1>1, <1>2, WatcherStep, PTL DEF WatcherSpec

-----------------------------------------------------------------------------
(* The schema registry *)

Reached == {"skipped", "registered", "updated"}

RegistryTypes ==
    /\ registered \in [Subjects -> Seq(Nat)]
    /\ compatibility \in [Subjects -> {"BACKWARD", "FORWARD"}]
    /\ step \in [Registrars -> {"probe", "post", "reread", "compatibility", "done", "dead"}]
    /\ subject \in [Registrars -> Subjects]
    /\ reported \in [Registrars -> [Subjects -> Reached \cup {"nothing", "error"}]]

\* What a registrar says of a subject is so whatever step it is at; that the
\* enriched subject is compatible, once it has left that subject behind.
Truthful(c) ==
    /\ \A s \in Subjects : reported[c][s] \in Reached => Known(s, SchemaOf[c])
    /\ step[c] = "done" => subject[c] = "others"
    /\ subject[c] = "others" /\ reported[c]["enriched"] \in Reached
          => compatibility["enriched"] = "FORWARD"

RegistryInv == RegistryTypes /\ (\A c \in Registrars : Truthful(c)) /\ ~refused

LEMMA RegistryNumbers ==
    SchemaOf \in [Registrars -> Nat \ {0}] /\ JsonSchema \in Nat
BY SchemaRegistrationAssumption DEF Registrars, JsonSchema

\* A registration takes nothing away.
LEMMA RegisteredGrows ==
    ASSUME registered \in [Subjects -> Seq(Nat)], NEW s \in Subjects, NEW schema \in Nat
    PROVE  /\ Registered(s, schema) \in [Subjects -> Seq(Nat)]
           /\ schema \in Range(Registered(s, schema)[s])
           /\ \A t \in Subjects : Range(registered[t]) \subseteq Range(Registered(s, schema)[t])
<1>1. CASE Known(s, schema)
    BY <1>1 DEF Registered, Known
<1>2. CASE ~ Known(s, schema)
    <2> DEFINE longer == Append(registered[s], schema)
    <2>1. Registered(s, schema) = [registered EXCEPT ![s] = longer]
        BY <1>2 DEF Registered
    <2>2. registered[s] \in Seq(Nat)
        OBVIOUS
    <2>3. /\ longer \in Seq(Nat) /\ Len(registered[s]) \in Nat
          /\ DOMAIN registered[s] = 1 .. Len(registered[s])
          /\ DOMAIN longer = 1 .. Len(registered[s]) + 1
          /\ longer[Len(registered[s]) + 1] = schema
          /\ \A i \in 1 .. Len(registered[s]) : longer[i] = registered[s][i]
        BY <2>2
    <2> HIDE DEF longer
    <2>4. schema \in Range(longer)
        <3>1. Len(registered[s]) + 1 \in DOMAIN longer
            BY <2>3
        <3> QED  BY <2>3, <3>1 DEF Range
    <2>5. Range(registered[s]) \subseteq Range(longer)
        <3>1. \A i \in 1 .. Len(registered[s]) : i \in 1 .. Len(registered[s]) + 1
            BY <2>3
        <3> QED  BY <2>3, <3>1 DEF Range
    <2> QED  BY <2>1, <2>3, <2>4, <2>5
<1> QED  BY <1>1, <1>2

\* What the latest version is, is known.
LEMMA LatestIsKnown ==
    ASSUME registered \in [Subjects -> Seq(Nat)], NEW s \in Subjects,
           LatestVersion(s) # Unregistered
    PROVE  Known(s, LatestVersion(s))
<1>1. registered[s] # << >> /\ LatestVersion(s) = registered[s][Len(registered[s])]
    BY DEF LatestVersion, Last
<1>2. Len(registered[s]) \in DOMAIN registered[s]
    BY <1>1
<1> QED  BY <1>1, <1>2 DEF Known, Range

\* Another registrar's step, the forwarder's or the Tableflow page's.
LEMMA OthersStayTruthful ==
    ASSUME NEW c \in Registrars, Truthful(c),
           \A s \in Subjects : Range(registered[s]) \subseteq Range(registered'[s]),
           compatibility["enriched"] = "FORWARD" => compatibility'["enriched"] = "FORWARD",
           step'[c] = step[c] \/ step'[c] = "dead",
           subject'[c] = subject[c], reported'[c] = reported[c]
    PROVE  Truthful(c)'
BY DEF Truthful, Known

\* A registrar notes a result, and goes on with the next subject ...
LEMMA BookKeeps ==
    ASSUME RegistryTypes, NEW c \in Registrars, Truthful(c),
           NEW result \in Reached \cup {"nothing", "error"}, Book(c, result),
           \A s \in Subjects : Range(registered[s]) \subseteq Range(registered'[s]),
           compatibility["enriched"] = "FORWARD" => compatibility'["enriched"] = "FORWARD",
           result \in Reached => /\ SchemaOf[c] \in Range(registered'[subject[c]])
                                 /\ subject[c] = "enriched" => compatibility'["enriched"] = "FORWARD"
    PROVE  Truthful(c)'
<1>1. /\ subject'[c] = "others"
      /\ \A s \in Subjects : reported'[c][s] = IF s = subject[c] THEN result ELSE reported[c][s]
    BY DEF Book, RegistryTypes
<1>2. subject[c] = "enriched" \/ subject[c] = "others"
    BY DEF RegistryTypes, Subjects
<1> QED  BY <1>1, <1>2 DEF Truthful, Known, Subjects

\* ... or stays with the enriched subject until its compatibility is set.
LEMMA ContinueKeeps ==
    ASSUME RegistryTypes, NEW c \in Registrars, Truthful(c),
           NEW result \in Reached \cup {"nothing", "error"}, Continue(c, result),
           \A s \in Subjects : Range(registered[s]) \subseteq Range(registered'[s]),
           UNCHANGED compatibility,
           result \in Reached => SchemaOf[c] \in Range(registered'[subject[c]])
    PROVE  Truthful(c)'
<1>1. CASE subject[c] = "enriched"
    <2>1. /\ subject'[c] = "enriched" /\ step'[c] = "compatibility"
          /\ \A s \in Subjects : reported'[c][s] = IF s = "enriched" THEN result ELSE reported[c][s]
        BY <1>1 DEF Continue, RegistryTypes
    <2> QED  BY <1>1, <2>1 DEF Truthful, Known
<1>2. CASE subject[c] # "enriched"
    BY <1>2, BookKeeps DEF Continue
<1> QED  BY <1>1, <1>2

LEMMA TypesOfARegistrar ==
    ASSUME RegistryTypes, NEW c \in Registrars, NEW result \in Reached \cup {"nothing", "error"},
           Book(c, result) \/ Continue(c, result)
    PROVE  /\ step' \in [Registrars -> {"probe", "post", "reread", "compatibility", "done", "dead"}]
           /\ subject' \in [Registrars -> Subjects]
           /\ reported' \in [Registrars -> [Subjects -> Reached \cup {"nothing", "error"}]]
           /\ \A d \in Registrars \ {c} :
                 step'[d] = step[d] /\ subject'[d] = subject[d] /\ reported'[d] = reported[d]
<1>1. subject[c] \in Subjects /\ "others" \in Subjects
    BY DEF RegistryTypes, Subjects
<1>2. reported' = [reported EXCEPT ![c][subject[c]] = result]
    BY DEF Book, Continue
<1>3. /\ reported' \in [Registrars -> [Subjects -> Reached \cup {"nothing", "error"}]]
      /\ \A d \in Registrars \ {c} : reported'[d] = reported[d]
    BY <1>1, <1>2 DEF RegistryTypes
<1>4. \E s \in {"probe", "compatibility", "done"} : step' = [step EXCEPT ![c] = s]
    BY DEF Book, Continue
<1>5. \E s \in Subjects : subject' = [subject EXCEPT ![c] = s]
    <2>1. subject = [subject EXCEPT ![c] = subject[c]]
        BY DEF RegistryTypes
    <2> QED  BY <1>1, <2>1 DEF Book, Continue
<1>6. /\ step' \in [Registrars -> {"probe", "post", "reread", "compatibility", "done", "dead"}]
      /\ \A d \in Registrars \ {c} : step'[d] = step[d]
    BY <1>4 DEF RegistryTypes
<1>7. subject' \in [Registrars -> Subjects] /\ \A d \in Registrars \ {c} : subject'[d] = subject[d]
    BY <1>5 DEF RegistryTypes
<1> QED  BY <1>3, <1>6, <1>7

LEMMA RegistrarKeeps ==
    ASSUME RegistryInv, NEW c \in Registrars,
           Inspect(c) \/ Register(c) \/ Reread(c) \/ SetCompatibility(c) \/ CallFails(c)
              \/ RegistrarDies(c)
    PROVE  RegistryInv'
<1> DEFINE Grows == \A s \in Subjects : Range(registered[s]) \subseteq Range(registered'[s])
<1>1. /\ RegistryTypes /\ Truthful(c) /\ subject[c] \in Subjects /\ SchemaOf[c] \in Nat
      /\ reported[c][subject[c]] \in Reached \cup {"nothing", "error"}
    BY RegistryNumbers DEF RegistryInv, RegistryTypes
\* Four facts make the invariant.
<1>2. ASSUME registered' \in [Subjects -> Seq(Nat)], Grows,
             compatibility' \in [Subjects -> {"BACKWARD", "FORWARD"}],
             compatibility["enriched"] = "FORWARD" => compatibility'["enriched"] = "FORWARD",
             UNCHANGED refused, Truthful(c)',
             NEW result \in Reached \cup {"nothing", "error"}, Book(c, result) \/ Continue(c, result)
      PROVE  RegistryInv'
    <2>1. RegistryTypes'
        BY <1>1, <1>2, TypesOfARegistrar DEF RegistryTypes
    <2>2. \A d \in Registrars \ {c} : Truthful(d)'
        BY <1>1, <1>2, TypesOfARegistrar, OthersStayTruthful DEF RegistryInv
    <2> QED  BY <1>2, <2>1, <2>2 DEF RegistryInv
<1>3. CASE Inspect(c)
    <2>1. UNCHANGED <<registered, compatibility, refused>>
        BY <1>3 DEF Inspect, topicVars
    <2>2. registered' \in [Subjects -> Seq(Nat)] /\ Grows
            /\ compatibility' \in [Subjects -> {"BACKWARD", "FORWARD"}]
        BY <1>1, <2>1 DEF RegistryTypes
    <2>3. CASE c \in Clicks /\ LatestVersion(subject[c]) = SchemaOf[c]
        <3>1. Continue(c, "skipped")
            BY <1>3, <2>3 DEF Inspect, Skip
        <3>2. SchemaOf[c] \in Range(registered[subject[c]])
            BY <1>1, <2>3, LatestIsKnown, RegistryNumbers DEF RegistryTypes, Known, Unregistered
        <3>3. Truthful(c)'
            BY <1>1, <2>1, <2>2, <3>1, <3>2, ContinueKeeps DEF Reached
        <3> QED  BY <1>2, <2>1, <2>2, <3>1, <3>3 DEF Reached
    <2>4. CASE ~ (c \in Clicks /\ LatestVersion(subject[c]) = SchemaOf[c])
        <3>1. step' = [step EXCEPT ![c] = "post"] /\ UNCHANGED <<subject, reported>>
            BY <1>3, <2>4 DEF Inspect
        <3>2. Truthful(c)'
            BY <1>1, <2>1, <3>1 DEF Truthful, RegistryTypes, Known
        <3>3. \A d \in Registrars \ {c} : Truthful(d)'
            BY <2>1, <2>2, <3>1, OthersStayTruthful DEF RegistryInv, RegistryTypes
        <3> QED  BY <2>1, <3>1, <3>2, <3>3 DEF RegistryInv, RegistryTypes
    <2> QED  BY <2>3, <2>4
<1>4. CASE Register(c)
    <2>1. UNCHANGED <<compatibility, refused>>
        BY <1>4 DEF Register, topicVars
    <2>2. compatibility' \in [Subjects -> {"BACKWARD", "FORWARD"}]
        BY <1>1, <2>1 DEF RegistryTypes
    <2>3. CASE ~ Accepts(subject[c], SchemaOf[c])
        <3>1. UNCHANGED registered /\ Book(c, "error")
            BY <1>4, <2>3 DEF Register
        <3>2. registered' \in [Subjects -> Seq(Nat)] /\ Grows
            BY <1>1, <3>1 DEF RegistryTypes
        <3>3. Truthful(c)'
            BY <1>1, <2>1, <3>1, <3>2, BookKeeps DEF Reached
        <3> QED  BY <1>2, <2>1, <2>2, <3>1, <3>2, <3>3
    <2>4. CASE Accepts(subject[c], SchemaOf[c])
        <3>1. registered' = Registered(subject[c], SchemaOf[c])
            BY <1>4, <2>4 DEF Register
        <3>2. /\ registered' \in [Subjects -> Seq(Nat)] /\ Grows
              /\ SchemaOf[c] \in Range(registered'[subject[c]])
            BY <1>1, <3>1, RegisteredGrows DEF RegistryTypes
        <3>3. Result(c) \in Reached
            BY DEF Result, Reached
        <3>4. CASE c \in Clicks
            <4>1. Continue(c, Result(c))
                BY <1>4, <2>4, <3>4 DEF Register
            <4>2. Truthful(c)'
                BY <1>1, <2>1, <3>2, <3>3, <4>1, ContinueKeeps
            <4> QED  BY <1>2, <2>1, <2>2, <3>2, <3>3, <4>1, <4>2
        <3>5. CASE c \notin Clicks
            <4>1. /\ step' = [step EXCEPT ![c] = "reread"]
                  /\ reported' = [reported EXCEPT ![c][subject[c]] = Result(c)]
                  /\ UNCHANGED subject
                BY <1>4, <2>4, <3>5 DEF Register
            <4>2. RegistryTypes'
                BY <1>1, <2>1, <3>2, <3>3, <4>1 DEF RegistryTypes
            <4>3. /\ step'[c] = "reread"
                  /\ \A s \in Subjects :
                        reported'[c][s] = IF s = subject[c] THEN Result(c) ELSE reported[c][s]
                BY <1>1, <4>1 DEF RegistryTypes
            <4>4. subject[c] = "others" => reported'[c]["enriched"] = reported[c]["enriched"]
                BY <4>3 DEF Subjects
            <4>5. Truthful(c)'
                BY <1>1, <2>1, <3>2, <4>1, <4>3, <4>4 DEF Truthful, Known
            <4>6. \A d \in Registrars \ {c} : Truthful(d)'
                BY <1>1, <2>1, <3>2, <4>1, OthersStayTruthful DEF RegistryInv, RegistryTypes
            <4> QED  BY <2>1, <4>2, <4>5, <4>6 DEF RegistryInv
        <3> QED  BY <3>4, <3>5
    <2> QED  BY <2>3, <2>4
<1>5. CASE Reread(c)
    <2> DEFINE result == reported[c][subject[c]]
    <2>1. UNCHANGED <<registered, compatibility, refused>> /\ Continue(c, result)
        BY <1>5 DEF Reread, topicVars
    <2>2. registered' \in [Subjects -> Seq(Nat)] /\ Grows
            /\ compatibility' \in [Subjects -> {"BACKWARD", "FORWARD"}]
        BY <1>1, <2>1 DEF RegistryTypes
    <2>3. result \in Reached => SchemaOf[c] \in Range(registered'[subject[c]])
        BY <1>1, <2>1 DEF Truthful, Known
    <2>4. Truthful(c)'
        BY <1>1, <2>1, <2>2, <2>3, ContinueKeeps
    <2> QED  BY <1>1, <1>2, <2>1, <2>2, <2>4
<1>6. CASE SetCompatibility(c)
    <2> DEFINE result == reported[c][subject[c]]
    <2>1. /\ compatibility' = [compatibility EXCEPT ![subject[c]] = "FORWARD"]
          /\ UNCHANGED <<registered, refused>> /\ Book(c, result)
        BY <1>6 DEF SetCompatibility, topicVars
    <2>2. /\ registered' \in [Subjects -> Seq(Nat)] /\ Grows
          /\ compatibility' \in [Subjects -> {"BACKWARD", "FORWARD"}]
          /\ compatibility["enriched"] = "FORWARD" => compatibility'["enriched"] = "FORWARD"
          /\ subject[c] = "enriched" => compatibility'["enriched"] = "FORWARD"
        BY <1>1, <2>1 DEF RegistryTypes, Subjects
    <2>3. result \in Reached => SchemaOf[c] \in Range(registered'[subject[c]])
        BY <1>1, <2>1 DEF Truthful, Known
    <2>4. Truthful(c)'
        BY <1>1, <2>1, <2>2, <2>3, BookKeeps
    <2> QED  BY <1>1, <1>2, <2>1, <2>2, <2>4
<1>7. CASE CallFails(c)
    <2>1. /\ registered' = registered \/ registered' = Registered(subject[c], SchemaOf[c])
          /\ \/ UNCHANGED compatibility
             \/ compatibility' = [compatibility EXCEPT ![subject[c]] = "FORWARD"]
          /\ UNCHANGED refused /\ Book(c, "error")
        BY <1>7 DEF CallFails, topicVars
    <2>2. registered' \in [Subjects -> Seq(Nat)] /\ Grows
        <3>1. CASE registered' = registered
            BY <1>1, <3>1 DEF RegistryTypes
        <3>2. CASE registered' = Registered(subject[c], SchemaOf[c])
            BY <1>1, <3>2, RegisteredGrows DEF RegistryTypes
        <3> QED  BY <2>1, <3>1, <3>2
    <2>3. /\ compatibility' \in [Subjects -> {"BACKWARD", "FORWARD"}]
          /\ compatibility["enriched"] = "FORWARD" => compatibility'["enriched"] = "FORWARD"
        BY <1>1, <2>1 DEF RegistryTypes, Subjects
    <2>4. Truthful(c)'
        BY <1>1, <2>1, <2>2, <2>3, BookKeeps DEF Reached
    <2> QED  BY <1>2, <2>1, <2>2, <2>3, <2>4
<1>8. CASE RegistrarDies(c)
    <2>1. /\ step' = [step EXCEPT ![c] = "dead"]
          /\ UNCHANGED <<registered, compatibility, subject, reported, refused>>
        BY <1>8 DEF RegistrarDies, topicVars
    <2>2. \A d \in Registrars : Truthful(d)'
        BY <2>1, OthersStayTruthful DEF RegistryInv, RegistryTypes
    <2> QED  BY <2>1, <2>2 DEF RegistryInv, RegistryTypes
<1> QED  BY <1>3, <1>4, <1>5, <1>6, <1>7, <1>8

LEMMA RegistryStep == RegistryInv /\ [RegistryNext]_registryVars => RegistryInv'
<1> SUFFICES ASSUME RegistryInv, [RegistryNext]_registryVars PROVE RegistryInv'
    OBVIOUS
<1>1. ASSUME NEW c \in Registrars,
             Inspect(c) \/ Register(c) \/ Reread(c) \/ SetCompatibility(c) \/ CallFails(c)
                \/ RegistrarDies(c)
      PROVE  RegistryInv'
    BY <1>1, RegistrarKeeps
<1>2. CASE PostForTableflow
    <2>1. /\ registered' = registered \/ registered' = Registered("enriched", JsonSchema)
          /\ UNCHANGED <<compatibility, step, subject, reported, refused>>
        BY <1>2 DEF PostForTableflow, registrarVars
    <2>2. /\ registered' \in [Subjects -> Seq(Nat)]
          /\ \A s \in Subjects : Range(registered[s]) \subseteq Range(registered'[s])
        <3>1. CASE registered' = registered
            BY <3>1 DEF RegistryInv, RegistryTypes
        <3>2. CASE registered' = Registered("enriched", JsonSchema)
            <4>1. /\ registered \in [Subjects -> Seq(Nat)]
                  /\ "enriched" \in Subjects /\ JsonSchema \in Nat
                BY RegistryNumbers DEF RegistryInv, RegistryTypes, Subjects
            <4> QED  BY <3>2, <4>1, RegisteredGrows
        <3> QED  BY <2>1, <3>1, <3>2
    <2>3. \A c \in Registrars : Truthful(c)'
        BY <2>1, <2>2, OthersStayTruthful DEF RegistryInv
    <2> QED  BY <2>1, <2>2, <2>3 DEF RegistryInv, RegistryTypes
<1>3. CASE EnableTableflow \/ DisableTableflow \/ UNCHANGED registryVars
    <2>1. UNCHANGED <<registered, compatibility, step, subject, reported, refused>>
        BY <1>3 DEF EnableTableflow, DisableTableflow, registryVars, registrarVars
    <2> QED  BY <2>1 DEF RegistryInv, RegistryTypes, Truthful, Known
<1>4. CASE Serialize
    <2>1. UNCHANGED <<registered, compatibility, step, subject, reported>>
        BY <1>4 DEF Serialize, registrarVars
    <2>2. ~ refused'
        <3>1. CASE Known("enriched", ForwarderSchema)
            BY <1>4, <3>1 DEF Serialize, RegistryInv
        <3>2. CASE ~ Known("enriched", ForwarderSchema)
            <4>1. ~ \E c \in Registrars : SchemaOf[c] = ForwarderSchema /\ Succeeded(c, "enriched")
                BY <3>2 DEF RegistryInv, Truthful, Succeeded, Reached, Subjects
            <4> QED  BY <1>4, <3>2, <4>1 DEF Serialize, RegistryInv
        <3> QED  BY <3>1, <3>2
    <2> QED  BY <2>1, <2>2 DEF RegistryInv, RegistryTypes, Truthful, Known
<1> QED  BY <1>1, <1>2, <1>3, <1>4 DEF RegistryNext

\* What a registrar reports without an error stays registered and readable, and no event of
\* that release is refused from then on: for any number of parties, in any order of their calls.
THEOREM RegisteredStaysUsable == RegistrySpec => []RegisteredIsUsable
<1>1. RegistryInit => RegistryInv
    BY DEF RegistryInit, RegistryInv, RegistryTypes, Truthful, Reached, Subjects
<1>2. RegistryInv => RegisteredIsUsable
    BY DEF RegistryInv, RegisteredIsUsable, Truthful, Succeeded, Reached, Subjects
<1> QED  BY <1>1, <1>2, RegistryStep, PTL DEF RegistrySpec

-----------------------------------------------------------------------------
(* The start of the forwarder *)

\* What the repair has behind it stays done: each fix leaves alone what an earlier one made.
RepairDone ==
    /\ repair \in {"blobs", "prefixes", "complete"} =>
          \A r \in OldRows \ everLocked : iamWarm /\ r \in KnownRows => rowName[r] = "named"
    /\ repair \in {"prefixes", "complete"} => \A r \in OldRows \ everLocked : rowName[r] # "json"
    /\ repair = "complete" => \A r \in OldRows \ everLocked : rowName[r] # "prefixed"

\* The callers inside the constructor are main alone, then writers alone; each of
\* them may still connect, and nobody comes in once somebody has.
EnginesBounded ==
    /\ engines \in Nat /\ IsFiniteSet(opening)
    /\ dbWriter = NoWriter => engines = 0
    /\ opening \subseteq (IF startStage = "writer" THEN {"main"}
                          ELSE IF startStage = "serving" THEN WriterLanes ELSE {})
    /\ engines + Cardinality(opening) <= Cardinality(WriterLanes)

\* What main has checked before a stage holds from then on.
PartsReady ==
    /\ startStage \notin {"config", "exit1"} => problems = {}
    /\ startStage \in {"writer", "parts", "source", "topics", "serving"} => hotStore # "wanted"
    /\ startStage \in {"source", "topics", "serving"} => (destinations = TRUE => watching = TRUE)

StartupInv == RepairDone /\ EnginesBounded /\ PartsReady

LEMMA StartupNumbers ==
    /\ IsFiniteSet(WriterLanes) /\ Cardinality(WriterLanes) \in Nat /\ Cardinality(WriterLanes) >= 1
    /\ "main" \notin WriterLanes
<1>1. IsFiniteSet(WriterLanes) /\ WriterLanes # {} /\ "main" \notin WriterLanes
    BY StartupAssumption
<1>2. Cardinality(WriterLanes) \in Nat /\ Cardinality(WriterLanes) # 0
    BY <1>1, FS_CardinalityType, FS_EmptySet
<1> QED  BY <1>1, <1>2

-----------------------------------------------------------------------------

\* A batch that is short holds every row that was free.
LEMMA RepairKeeps ==
    ASSUME RepairDone, RepairRows
    PROVE  RepairDone'
<1> DEFINE broken == {r \in OldRows : Broken(r, repair)}
           free   == broken \ rowLocked
<1>1. PICK fixed \in SUBSET free :
          /\ Cardinality(fixed) = RepairBatch \/ (fixed = free /\ Cardinality(fixed) < RepairBatch)
          /\ rowName' = [r \in OldRows |-> IF r \in fixed THEN FixedName[repair] ELSE rowName[r]]
          /\ everLocked' = everLocked \cup (broken \cap rowLocked)
          /\ repair' = IF ~Short(Cardinality(fixed)) THEN repair ELSE NextStep[repair]
    BY DEF RepairRows
<1>2. repair \in Fixes /\ iamWarm' = iamWarm
    BY DEF RepairRows
<1>3. /\ OldRows' = OldRows /\ everLocked \subseteq everLocked'
      /\ \A r \in OldRows : rowName'[r] = IF r \in fixed THEN FixedName[repair] ELSE rowName[r]
      /\ \A r \in fixed : r \in OldRows /\ Broken(r, repair)
    BY <1>1 DEF OldRows
\* The fix goes on, or every row it looks for has been fixed or was locked.
<1>4. \/ repair' = repair
      \/ /\ repair' = NextStep[repair]
         /\ \A r \in OldRows \ everLocked' : Broken(r, repair) => r \in fixed
    <2>1. CASE Short(Cardinality(fixed))
        <3>1. fixed = free
            BY <1>1, <2>1, StartupAssumption DEF Short
        <3>2. \A r \in OldRows \ everLocked' : Broken(r, repair) => r \in fixed
            BY <1>1, <3>1
        <3> QED  BY <1>1, <2>1, <3>2
    <2>2. CASE ~ Short(Cardinality(fixed))
        BY <1>1, <2>2
    <2> QED  BY <2>1, <2>2
<1> HIDE DEF broken, free
<1>5. CASE repair = "identities"
    <2>1. \A r \in OldRows : Broken(r, repair) <=> iamWarm /\ r \in KnownRows /\ rowName[r] # "named"
        BY <1>5 DEF Broken
    <2>2. FixedName[repair] = "named" /\ NextStep[repair] = "blobs"
        BY <1>5 DEF FixedName, NextStep
    <2> QED  BY <1>2, <1>3, <1>4, <1>5, <2>1, <2>2 DEF RepairDone
<1>6. CASE repair = "blobs"
    <2>1. \A r \in OldRows : Broken(r, repair) <=> rowName[r] = "json"
        BY <1>6 DEF Broken
    <2>2. FixedName[repair] = "internal" /\ NextStep[repair] = "prefixes"
        BY <1>6 DEF FixedName, NextStep
    <2>3. /\ \A r \in OldRows \ everLocked : iamWarm /\ r \in KnownRows => rowName[r] = "named"
          /\ \A r \in fixed : rowName[r] = "json"
        BY <1>3, <1>6, <2>1 DEF RepairDone
    <2>4. \A r \in OldRows \ everLocked' : iamWarm /\ r \in KnownRows => rowName'[r] = "named"
        BY <1>3, <2>3
    <2>5. repair' = "prefixes" => \A r \in OldRows \ everLocked' : rowName'[r] # "json"
        BY <1>3, <1>4, <1>6, <2>1, <2>2
    <2>6. repair' \in {"blobs", "prefixes"}
        BY <1>4, <1>6, <2>2
    <2> QED  BY <1>2, <1>3, <2>4, <2>5, <2>6 DEF RepairDone
<1>7. CASE repair = "prefixes"
    <2>1. \A r \in OldRows : Broken(r, repair) <=> rowName[r] = "prefixed"
        BY <1>7 DEF Broken
    <2>2. FixedName[repair] = "raw" /\ NextStep[repair] = "complete"
        BY <1>7 DEF FixedName, NextStep
    <2>3. /\ \A r \in OldRows \ everLocked : iamWarm /\ r \in KnownRows => rowName[r] = "named"
          /\ \A r \in OldRows \ everLocked : rowName[r] # "json"
          /\ \A r \in fixed : rowName[r] = "prefixed"
        BY <1>3, <1>7, <2>1 DEF RepairDone
    <2>4. \A r \in OldRows \ everLocked' :
              /\ iamWarm /\ r \in KnownRows => rowName'[r] = "named"
              /\ rowName'[r] # "json"
        BY <1>3, <2>2, <2>3
    <2>5. repair' = "complete" => \A r \in OldRows \ everLocked' : rowName'[r] # "prefixed"
        BY <1>3, <1>4, <1>7, <2>1, <2>2
    <2> QED  BY <1>2, <1>3, <2>4, <2>5 DEF RepairDone
<1> QED  BY <1>2, <1>5, <1>6, <1>7 DEF Fixes

LEMMA OpenKeeps ==
    ASSUME EnginesBounded, NEW c \in Callers, Open(c)
    PROVE  EnginesBounded'
<1>1. /\ dbWriter = NoWriter /\ c \notin opening /\ opening' = opening \cup {c}
      /\ UNCHANGED <<startStage, dbWriter, engines>>
      /\ c = "main" => startStage = "writer"
      /\ c # "main" => startStage = "serving"
    BY DEF Open, MayOpen
<1>2. engines = 0 /\ IsFiniteSet(opening')
    BY <1>1, FS_AddElement DEF EnginesBounded
<1>3. CASE c = "main"
    <2>1. opening' = {"main"}
        BY <1>1, <1>3 DEF EnginesBounded
    <2>2. Cardinality(opening') = 1
        BY <2>1, FS_Singleton
    <2> QED  BY <1>1, <1>2, <1>3, <2>1, <2>2, StartupNumbers DEF EnginesBounded
<1>4. CASE c # "main"
    <2>1. opening' \subseteq WriterLanes
        BY <1>1, <1>4 DEF EnginesBounded, Callers
    <2>2. Cardinality(opening') \in Nat /\ Cardinality(opening') <= Cardinality(WriterLanes)
        BY <2>1, StartupNumbers, FS_Subset, FS_CardinalityType
    <2> QED  BY <1>1, <1>2, <1>4, <2>1, <2>2, StartupNumbers DEF EnginesBounded
<1> QED  BY <1>3, <1>4

LEMMA OpenedKeeps ==
    ASSUME EnginesBounded, NEW c \in Callers, Opened(c) \/ OpenFails(c)
    PROVE  EnginesBounded'
<1>1. /\ c \in opening /\ opening' = opening \ {c}
      /\ startStage' = IF c = "main" THEN "parts" ELSE startStage
    BY DEF Opened, OpenFails, AfterMain
<1>2. /\ IsFiniteSet(opening') /\ Cardinality(opening) \in Nat
      /\ Cardinality(opening') = Cardinality(opening) - 1
    BY <1>1, FS_RemoveElement, FS_CardinalityType DEF EnginesBounded
<1>3. \/ engines' = engines + 1 /\ dbWriter' = engines + 1
      \/ UNCHANGED <<engines, dbWriter>>
    BY DEF Opened, OpenFails
<1>4. opening' \subseteq (IF startStage' = "writer" THEN {"main"}
                          ELSE IF startStage' = "serving" THEN WriterLanes ELSE {})
    BY <1>1, StartupNumbers DEF EnginesBounded
<1>5. engines' \in Nat /\ (dbWriter' = NoWriter => engines' = 0)
    BY <1>3 DEF EnginesBounded, NoWriter
<1>6. engines' + Cardinality(opening') <= Cardinality(WriterLanes)
    BY <1>2, <1>3, StartupNumbers DEF EnginesBounded
<1> QED  BY <1>2, <1>4, <1>5, <1>6 DEF EnginesBounded

LEMMA StartupStep == StartupInv /\ [StartupNext]_startupVars => StartupInv'
<1> SUFFICES ASSUME StartupInv, [StartupNext]_startupVars PROVE StartupInv'
    OBVIOUS
<1> USE DEF StartupInv
<1>1. ASSUME NEW c \in Callers, Open(c) PROVE StartupInv'
    <2>1. UNCHANGED <<startStage, problems, partVars, repairVars>>
        BY <1>1 DEF Open
    <2> QED  BY <1>1, <2>1, OpenKeeps DEF RepairDone, PartsReady, OldRows, partVars, repairVars
<1>2. ASSUME NEW c \in Callers, Opened(c) \/ OpenFails(c) PROVE StartupInv'
    <2>1. /\ UNCHANGED <<problems, partVars, rowName, rowLocked, everLocked, iamWarm>>
          /\ c \in opening /\ startStage' = IF c = "main" THEN "parts" ELSE startStage
          /\ repair' \in {repair, "skipped", "started"}
        BY <1>2 DEF Opened, OpenFails, AfterMain, StartRepair
    <2>2. PartsReady'
        <3>1. c = "main" => startStage = "writer"
            BY <2>1, StartupNumbers DEF EnginesBounded
        <3> QED  BY <2>1, <3>1 DEF PartsReady, partVars
    <2> QED  BY <1>2, <2>1, <2>2, OpenedKeeps DEF RepairDone, OldRows
<1>3. CASE CheckConfig
    BY <1>3 DEF CheckConfig, RepairDone, PartsReady, EnginesBounded, OldRows, partVars,
        databaseVars, repairVars
<1>4. CASE OpenStore
    BY <1>4 DEF OpenStore, RepairDone, PartsReady, EnginesBounded, OldRows, databaseVars, repairVars
<1>5. CASE StartParts
    BY <1>5 DEF StartParts, RepairDone, PartsReady, EnginesBounded, OldRows, databaseVars, repairVars
<1>6. CASE TopicsFound \/ LeaveEarly
    <2>1. UNCHANGED <<problems, partVars, databaseVars, repairVars>>
        BY <1>6 DEF TopicsFound, LeaveEarly
    <2>2. /\ startStage \in {"source", "topics"} /\ startStage' \in {"topics", "serving", "left"}
        BY <1>6 DEF TopicsFound, LeaveEarly
    <2>3. EnginesBounded'
        <3>1. opening = {}
            BY <2>2 DEF EnginesBounded
        <3> QED  BY <2>1, <2>2, <3>1 DEF EnginesBounded, databaseVars
    <2> QED  BY <2>1, <2>2, <2>3 DEF RepairDone, PartsReady, OldRows, partVars, repairVars
<1>7. CASE NotifyEvent
    BY <1>7 DEF NotifyEvent, RepairDone, PartsReady, EnginesBounded, OldRows, databaseVars, repairVars
<1>8. CASE BeginRepair \/ RepairFails
    BY <1>8 DEF BeginRepair, RepairFails, RepairDone, PartsReady, EnginesBounded, OldRows, partVars,
        databaseVars
<1>9. CASE RepairRows
    <2>1. UNCHANGED <<startStage, problems, partVars, databaseVars>>
        BY <1>9 DEF RepairRows
    <2> QED  BY <1>9, <2>1, RepairKeeps DEF PartsReady, EnginesBounded, partVars, databaseVars
<1>10. CASE DatabaseTurns \/ FileChanges \/ StartupTicks \/ UNCHANGED startupVars
    <2>1. UNCHANGED <<startStage, problems, hotStore, destinations, watching, databaseVars, repairVars>>
        BY <1>10 DEF DatabaseTurns, FileChanges, StartupTicks, startupVars, partVars
    <2> QED  BY <2>1 DEF RepairDone, PartsReady, EnginesBounded, OldRows, databaseVars, repairVars
<1>11. ASSUME NEW r \in OldRows, LockRow(r) PROVE StartupInv'
    BY <1>11 DEF LockRow, RepairDone, PartsReady, EnginesBounded, OldRows, partVars, databaseVars
<1> QED
    BY <1>1, <1>2, <1>3, <1>4, <1>5, <1>6, <1>7, <1>8, <1>9, <1>10, <1>11 DEF StartupNext

\* A repair that says it is complete is, writers that find the database closed at once open it
\* once each at most, and a forwarder that serves has what it checked before.
THEOREM StartStaysSound == StartupSpec => []StartupIsSound
<1>1. StartupInit => StartupInv
    BY FS_EmptySet, StartupNumbers
        DEF StartupInit, StartupInv, RepairDone, EnginesBounded, PartsReady, NoWriter
<1>2. StartupInv => StartupIsSound
    <2> SUFFICES ASSUME StartupInv PROVE StartupIsSound
        OBVIOUS
    <2>1. engines <= Cardinality(WriterLanes)
        BY StartupNumbers, FS_CardinalityType DEF StartupInv, EnginesBounded
    <2> QED  BY <2>1 DEF StartupInv, RepairDone, PartsReady, StartupIsSound
<1> QED  BY <1>1, <1>2, StartupStep, PTL DEF StartupSpec

-----------------------------------------------------------------------------
(* The topic router *)

\* What the producer has taken, whatever became of it.
Taken == {et \in Routables \X AllTopics : Accepted(et[1], et[2])}
TakenAt(l, messages) == {e \in Routables : LevelOf[e] = l /\ <<e, l>> \in messages}

\* A message is in the queue once, and not there once it is given up.
QueuedOnce ==
    /\ \A i, j \in 1 .. Len(sendQueue) : sendQueue[i] = sendQueue[j] => i = j
    /\ Range(sendQueue) \cap gaveUp = {}

\* What the producer has of an event before it has an outcome: its own topic, once the event
\* is between the two produce calls.
TakenInTurn ==
    /\ \A e \in Routables : outcome[e] = "none" /\ routing # e =>
           \A t \in AllTopics : <<e, t>> \notin Taken
    /\ routing # NoEvent =>
           /\ outcome[routing] = "none" /\ config.all
           /\ <<routing, LevelOf[routing]>> \in Taken /\ <<routing, AllTopic>> \notin Taken

\* A creator knows of every enabled topic that it is there or that it misses it.
CreatorsKnow ==
    \A c \in Creators :
        /\ created[c] \subseteq topicsThere
        /\ report[c] = "verified" => EnabledTopics \subseteq missing[c] \cup topicsThere

\* RoutedIsAccounted, said of what is taken.
AccountKept ==
    /\ \A e \in Routables : outcome[e] = "ROUTED" =>
           <<e, LevelOf[e]>> \in Taken /\ (config.all => <<e, AllTopic>> \in Taken)
    /\ \A e \in Routables : outcome[e] = "ERROR" <=> e \in toDlq
    /\ \A e \in Routables : outcome[e] \in {"SKIPPED", "DROPPED", "DRY_RUN"} =>
           \A t \in AllTopics : <<e, t>> \notin Taken
    /\ \A l \in Levels : stats.level[l] = Cardinality(TakenAt(l, Taken))
    /\ stats.errors = Cardinality(toDlq) + Cardinality(gaveUp)
CreatedOnce ==
    /\ \A c \in Creators : report[c] = "ok" => EnabledTopics \subseteq topicsThere
    /\ \A c, d \in Creators : c # d => created[c] \cap created[d] = {}

RoutingInv ==
    /\ RoutingTypeOK /\ IsFiniteSet(gaveUp) /\ QueuedOnce /\ TakenInTurn /\ CreatorsKnow
    /\ AccountKept /\ CreatedOnce

LEMMA RoutingNames ==
    /\ IsFiniteSet(Routables) /\ Routables \subseteq Nat /\ NoEvent \notin Routables
    /\ \A e \in Routables : LevelOf[e] \in Levels /\ LevelOf[e] # AllTopic
    /\ Levels \subseteq AllTopics /\ AllTopic \in AllTopics /\ AllTopic \notin Levels
    /\ QueueSize \in Nat \ {0} /\ MaxDeliveries \in Nat
BY RoutingAssumption DEF Levels, AllTopics, NoEvent

LEMMA AppendAdds ==
    ASSUME NEW S, NEW s \in Seq(S), NEW x \in S
    PROVE  /\ Append(s, x) \in Seq(S) /\ Len(Append(s, x)) = Len(s) + 1
           /\ Range(Append(s, x)) = Range(s) \cup {x}
           /\ (\A i, j \in 1 .. Len(s) : s[i] = s[j] => i = j) /\ x \notin Range(s) =>
                 \A i, j \in 1 .. Len(Append(s, x)) : Append(s, x)[i] = Append(s, x)[j] => i = j
<1> DEFINE longer == Append(s, x)
<1>1. /\ longer \in Seq(S) /\ Len(longer) = Len(s) + 1 /\ Len(s) \in Nat
      /\ longer[Len(s) + 1] = x /\ \A i \in 1 .. Len(s) : longer[i] = s[i]
    OBVIOUS
<1>2. DOMAIN longer = 1 .. Len(s) + 1 /\ DOMAIN s = 1 .. Len(s)
    BY <1>1
<1> HIDE DEF longer
<1>3. \A i \in 1 .. Len(s) + 1 : i \in 1 .. Len(s) \/ i = Len(s) + 1
    BY <1>1
<1>4. \A i \in 1 .. Len(s) : i \in 1 .. Len(s) + 1
    BY <1>1
<1>5. Len(s) + 1 \in 1 .. Len(s) + 1
    BY <1>1
<1>6. Range(longer) = Range(s) \cup {x}
    BY <1>1, <1>2, <1>3, <1>4, <1>5 DEF Range
<1>7. ASSUME \A i, j \in 1 .. Len(s) : s[i] = s[j] => i = j, x \notin Range(s),
             NEW i \in 1 .. Len(longer), NEW j \in 1 .. Len(longer), longer[i] = longer[j]
      PROVE  i = j
    BY <1>1, <1>2, <1>3, <1>7 DEF Range
<1> QED  BY <1>1, <1>6, <1>7 DEF longer

LEMMA TailDrops ==
    ASSUME NEW S, NEW s \in Seq(S), s # <<>>
    PROVE  /\ Head(s) \in S /\ Tail(s) \in Seq(S) /\ Len(Tail(s)) <= Len(s)
           /\ Range(s) = Range(Tail(s)) \cup {Head(s)}
           /\ (\A i, j \in 1 .. Len(s) : s[i] = s[j] => i = j) =>
                 /\ Head(s) \notin Range(Tail(s))
                 /\ \A i, j \in 1 .. Len(Tail(s)) : Tail(s)[i] = Tail(s)[j] => i = j
<1> DEFINE rest == Tail(s)
           first == Head(s)
<1>1. /\ rest \in Seq(S) /\ Len(s) \in Nat \ {0} /\ Len(rest) = Len(s) - 1
      /\ first \in S /\ first = s[1]
      /\ \A i \in 1 .. Len(rest) : rest[i] = s[i + 1]
    OBVIOUS
<1>2. DOMAIN rest = 1 .. Len(s) - 1 /\ DOMAIN s = 1 .. Len(s)
    BY <1>1
<1> HIDE DEF rest, first
<1>3. \A i \in 1 .. Len(s) - 1 : i + 1 \in 1 .. Len(s) /\ i + 1 # 1
    BY <1>1
<1>4. \A i \in 1 .. Len(s) : i = 1 \/ (i - 1 \in 1 .. Len(s) - 1 /\ (i - 1) + 1 = i)
    BY <1>1
<1>5. 1 \in 1 .. Len(s)
    BY <1>1
<1>6. Range(s) = Range(rest) \cup {first}
    <2>1. \A y \in Range(rest) : y \in Range(s)
        BY <1>1, <1>2, <1>3 DEF Range
    <2>2. ASSUME NEW y \in Range(s) PROVE y \in Range(rest) \/ y = first
        <3>1. PICK i \in 1 .. Len(s) : y = s[i]
            BY <1>2 DEF Range
        <3>2. i # 1 => i - 1 \in 1 .. Len(rest) /\ rest[i - 1] = y
            BY <1>1, <1>4, <3>1
        <3> QED  BY <1>1, <1>2, <3>1, <3>2 DEF Range
    <2>3. first \in Range(s)
        BY <1>1, <1>2, <1>5 DEF Range
    <2> QED  BY <2>1, <2>2, <2>3
<1>7. ASSUME \A i, j \in 1 .. Len(s) : s[i] = s[j] => i = j
      PROVE  first \notin Range(rest)
    BY <1>1, <1>2, <1>3, <1>5, <1>7 DEF Range
<1>8. ASSUME \A i, j \in 1 .. Len(s) : s[i] = s[j] => i = j,
             NEW i \in 1 .. Len(rest), NEW j \in 1 .. Len(rest), rest[i] = rest[j]
      PROVE  i = j
    <2>1. i + 1 \in 1 .. Len(s) /\ j + 1 \in 1 .. Len(s) /\ s[i + 1] = s[j + 1]
        BY <1>1, <1>3, <1>8
    <2> QED  BY <1>8, <2>1
<1> QED  BY <1>1, <1>6, <1>7, <1>8 DEF rest, first

LEMMA AccountIs == RoutingTypeOK /\ AccountKept /\ CreatedOnce => RoutedIsAccounted
<1> SUFFICES ASSUME RoutingTypeOK, AccountKept, CreatedOnce PROVE RoutedIsAccounted
    OBVIOUS
<1>1. \A e \in Routables, t \in AllTopics : Accepted(e, t) <=> <<e, t>> \in Taken
    BY DEF Taken
<1>2. config.all \in BOOLEAN /\ config.enabled \subseteq Levels /\ toDlq \subseteq Routables
    BY DEF RoutingTypeOK
<1>3. \A e \in Routables :
          /\ \A t \in {LevelOf[e]} \cup (EnabledTopics \cap {AllTopic}) : t \in AllTopics
          /\ (\A t \in {LevelOf[e]} \cup (EnabledTopics \cap {AllTopic}) : Accepted(e, t))
             <=> <<e, LevelOf[e]>> \in Taken /\ (config.all => <<e, AllTopic>> \in Taken)
    BY <1>1, <1>2, RoutingNames DEF EnabledTopics
<1>4. \A l \in Levels : {e \in Routables : LevelOf[e] = l /\ Accepted(e, l)} = TakenAt(l, Taken)
    BY <1>1, RoutingNames DEF TakenAt
<1>5. Through("ERROR") = toDlq <=> \A e \in Routables : outcome[e] = "ERROR" <=> e \in toDlq
    BY <1>2 DEF Through
<1>6. (\A e \in Through("ROUTED") : \A t \in {LevelOf[e]} \cup (EnabledTopics \cap {AllTopic}) : Accepted(e, t))
      <=> \A e \in Routables : outcome[e] = "ROUTED" =>
             <<e, LevelOf[e]>> \in Taken /\ (config.all => <<e, AllTopic>> \in Taken)
    BY <1>3 DEF Through
<1>7. (\A e \in Routables : outcome[e] \in {"SKIPPED", "DROPPED", "DRY_RUN"} =>
           \A t \in AllTopics : ~Accepted(e, t))
      <=> \A e \in Routables : outcome[e] \in {"SKIPPED", "DROPPED", "DRY_RUN"} =>
           \A t \in AllTopics : <<e, t>> \notin Taken
    BY <1>1
<1> QED  BY <1>4, <1>5, <1>6, <1>7 DEF RoutedIsAccounted, AccountKept, CreatedOnce

LEMMA RoutingStarts == RoutingInit => RoutingInv
<1> SUFFICES ASSUME RoutingInit PROVE RoutingInv
    OBVIOUS
<1> USE RoutingNames
<1>1. RoutingTypeOK
    BY DEF RoutingInit, RoutingTypeOK, EnabledTopics, Results
<1>2. Taken = {} /\ Range(sendQueue) = {}
    BY DEF RoutingInit, Taken, Accepted, On, Range
<1>3. \A l \in Levels : TakenAt(l, Taken) = {}
    BY <1>2 DEF TakenAt
<1>4. IsFiniteSet({}) /\ Cardinality({}) = 0
    BY FS_EmptySet
<1>5. QueuedOnce /\ IsFiniteSet(gaveUp)
    BY <1>2, <1>4 DEF RoutingInit, QueuedOnce
<1>6. TakenInTurn
    BY <1>2 DEF RoutingInit, TakenInTurn
<1>7. AccountKept
    <2>1. \A e \in Routables :
              /\ outcome[e] \notin {"ROUTED", "ERROR", "SKIPPED", "DROPPED", "DRY_RUN"}
              /\ e \notin toDlq
        BY DEF RoutingInit
    <2>2. /\ \A l \in Levels : stats.level[l] = 0
          /\ stats.errors = 0 /\ Cardinality(toDlq) = 0 /\ Cardinality(gaveUp) = 0
        BY <1>4 DEF RoutingInit
    <2>3. \A l \in Levels : stats.level[l] = Cardinality(TakenAt(l, Taken))
        BY <1>3, <1>4, <2>2
    <2>4. stats.errors = Cardinality(toDlq) + Cardinality(gaveUp)
        BY <2>2
    <2> QED  BY <2>1, <2>3, <2>4 DEF AccountKept
<1>8. CreatorsKnow /\ CreatedOnce
    BY DEF RoutingInit, CreatorsKnow, CreatedOnce
<1> QED  BY <1>1, <1>5, <1>6, <1>7, <1>8 DEF RoutingInv

\* One more message in the queue, of an event and a topic that had none.
LEMMA ProduceAdds ==
    ASSUME RoutingInv, NEW e \in Routables, NEW t \in AllTopics, <<e, t>> \notin Taken, Room,
           sendQueue' = Append(sendQueue, <<e, t>>), UNCHANGED <<deliveredTo, gaveUp>>
    PROVE  /\ sendQueue' \in Seq(Routables \X AllTopics) /\ Len(sendQueue') <= QueueSize
           /\ QueuedOnce' /\ Taken' = Taken \cup {<<e, t>>}
<1> DEFINE et == <<e, t>>
<1>1. /\ sendQueue \in Seq(Routables \X AllTopics) /\ et \in Routables \X AllTopics
      /\ Len(sendQueue) < QueueSize /\ QueueSize \in Nat /\ Len(sendQueue) \in Nat
    BY RoutingNames DEF RoutingInv, RoutingTypeOK, Room
<1>2. et \notin Range(sendQueue) /\ et \notin gaveUp
    BY DEF Taken, Accepted, On
<1> DEFINE longer == Append(sendQueue, et)
<1>3. /\ longer \in Seq(Routables \X AllTopics) /\ Len(longer) = Len(sendQueue) + 1
      /\ Range(longer) = Range(sendQueue) \cup {et}
      /\ \A i, j \in 1 .. Len(longer) : longer[i] = longer[j] => i = j
    <2>1. \A i, j \in 1 .. Len(sendQueue) : sendQueue[i] = sendQueue[j] => i = j
        BY DEF RoutingInv, QueuedOnce
    <2> HIDE DEF et
    <2> QED  BY <1>1, <1>2, <2>1, AppendAdds
<1>4. sendQueue' = longer
    OBVIOUS
<1> HIDE DEF longer
<1>5. Range(sendQueue)' = Range(sendQueue) \cup {et}
    BY <1>3, <1>4
<1>6. QueuedOnce'
    <2>1. Range(sendQueue) \cap gaveUp = {}
        BY DEF RoutingInv, QueuedOnce
    <2>2. \A i, j \in 1 .. Len(sendQueue') : sendQueue'[i] = sendQueue'[j] => i = j
        BY <1>3, <1>4
    <2>3. Range(sendQueue)' \cap gaveUp' = {}
        <3> HIDE DEF et
        <3>1. gaveUp' = gaveUp
            OBVIOUS
        <3> QED  BY <1>2, <1>5, <2>1, <3>1
    <2> QED  BY <2>2, <2>3 DEF QueuedOnce
<1>7. Taken' = Taken \cup {et}
    <2>1. \A ft \in Routables \X AllTopics : <<ft[1], ft[2]>> = ft
        OBVIOUS
    <2>2. \A ft \in Routables \X AllTopics :
              Accepted(ft[1], ft[2])' <=> Accepted(ft[1], ft[2]) \/ ft = et
        BY <1>5, <2>1 DEF Accepted, On
    <2> QED  BY <1>1, <2>2 DEF Taken
<1> QED  BY <1>1, <1>3, <1>4, <1>6, <1>7

Tallies == [total : Nat, level : [Levels -> Nat], dropped : Nat, errors : Nat]

LEMMA CountedIs ==
    ASSUME stats \in Tallies
    PROVE  /\ Counted \in Tallies /\ Counted.level = stats.level
           /\ Counted.errors = stats.errors /\ Counted.dropped = stats.dropped
BY DEF Counted, Tallies

LEMMA NowhereKeeps ==
    ASSUME RoutingInv, NEW e \in Routables, RouteNowhere(e)
    PROVE  RoutingInv'
<1> USE RoutingNames
<1>1. PICK r \in {"DROPPED", "SKIPPED", "DRY_RUN"} : outcome' = [outcome EXCEPT ![e] = r]
    BY DEF RouteNowhere
<1>2. /\ stats' \in [total : Nat, level : [Levels -> Nat], dropped : Nat, errors : Nat]
      /\ stats'.level = stats.level /\ stats'.errors = stats.errors
    <2>1. stats \in Tallies
        BY DEF RoutingInv, RoutingTypeOK, Tallies
    <2>2. stats' = Counted \/ stats' = [Counted EXCEPT !.dropped = Counted.dropped + 1]
        BY DEF RouteNowhere
    <2> QED  BY <2>1, <2>2, CountedIs DEF Tallies
<1>3. RoutingTypeOK'
    BY <1>1, <1>2 DEF RouteNowhere, RoutingInv, RoutingTypeOK, creationVars, Results
<1>4. Taken' = Taken /\ outcome[e] = "none" /\ routing = NoEvent
    BY DEF RouteNowhere, MayRoute, Taken, Accepted, On
<1>5. outcome'[e] = r /\ \A o \in Routables \ {e} : outcome'[o] = outcome[o]
    BY <1>1 DEF RoutingInv, RoutingTypeOK
<1>6. UNCHANGED <<config, sendQueue, deliveredTo, gaveUp, routing, toDlq, creationVars>>
    BY DEF RouteNowhere
<1>7. TakenInTurn'
    BY <1>4, <1>5, <1>6 DEF RoutingInv, TakenInTurn
<1>8. AccountKept'
    BY <1>2, <1>4, <1>5, <1>6 DEF RoutingInv, TakenInTurn, AccountKept, TakenAt
<1>9. QueuedOnce' /\ CreatorsKnow' /\ CreatedOnce' /\ IsFiniteSet(gaveUp)'
    BY <1>6 DEF RoutingInv, QueuedOnce, CreatorsKnow, CreatedOnce, creationVars, EnabledTopics
<1> QED  BY <1>3, <1>7, <1>8, <1>9 DEF RoutingInv

LEMMA OwnKeeps ==
    ASSUME RoutingInv, NEW e \in Routables, ProduceOwn(e)
    PROVE  RoutingInv'
<1> USE RoutingNames
<1> DEFINE l == LevelOf[e]
<1>1. outcome[e] = "none" /\ routing = NoEvent /\ \A t \in AllTopics : <<e, t>> \notin Taken
    BY DEF ProduceOwn, MayRoute, RoutingInv, TakenInTurn
<1>2. l \in Levels /\ l \in AllTopics /\ l # AllTopic
    OBVIOUS
<1>3. /\ sendQueue' \in Seq(Routables \X AllTopics) /\ Len(sendQueue') <= QueueSize
      /\ QueuedOnce' /\ Taken' = Taken \cup {<<e, l>>}
    BY <1>1, <1>2, ProduceAdds DEF ProduceOwn
<1>4. /\ stats' \in [total : Nat, level : [Levels -> Nat], dropped : Nat, errors : Nat]
      /\ stats'.level = [stats.level EXCEPT ![l] = stats.level[l] + 1] /\ stats'.errors = stats.errors
    <2>1. stats \in Tallies
        BY DEF RoutingInv, RoutingTypeOK, Tallies
    <2>2. stats' = [Counted EXCEPT !.level = [Counted.level EXCEPT ![l] = Counted.level[l] + 1]]
        BY <2>1, CountedIs DEF ProduceOwn, Tallies
    <2> QED  BY <1>2, <2>1, <2>2, CountedIs DEF Tallies
<1>5. \/ config.all /\ routing' = e /\ outcome' = outcome
      \/ ~config.all /\ routing' = NoEvent /\ outcome' = [outcome EXCEPT ![e] = "ROUTED"]
    BY <1>1 DEF ProduceOwn
<1>6. UNCHANGED <<config, deliveredTo, gaveUp, toDlq, hitches, creationVars>>
    BY DEF ProduceOwn
<1>7. RoutingTypeOK'
    <2>1. RoutingTypeOK
        BY DEF RoutingInv
    <2>2. outcome' \in [Routables -> Results \cup {"none"}] /\ routing' \in Routables \cup {NoEvent}
        BY <1>5, <2>1 DEF RoutingTypeOK, Results
    <2> QED  BY <1>3, <1>4, <1>6, <2>1, <2>2 DEF RoutingTypeOK, creationVars
<1>8. /\ config.all => outcome'[e] = "none" /\ routing' = e
      /\ ~config.all => outcome'[e] = "ROUTED" /\ routing' = NoEvent
      /\ \A o \in Routables \ {e} : outcome'[o] = outcome[o]
    BY <1>1, <1>5 DEF RoutingInv, RoutingTypeOK
<1> HIDE DEF l
<1>9. TakenInTurn'
    BY <1>1, <1>2, <1>3, <1>5, <1>6, <1>8 DEF RoutingInv, TakenInTurn, l
<1>10. AccountKept'
    <2>1. IsFiniteSet(TakenAt(l, Taken)) /\ e \notin TakenAt(l, Taken)
        BY <1>1, <1>2, FS_Subset DEF TakenAt
    <2>2. TakenAt(l, Taken') = TakenAt(l, Taken) \cup {e}
        BY <1>3 DEF TakenAt, l
    <2>3. \A other \in Levels \ {l} : TakenAt(other, Taken') = TakenAt(other, Taken)
        BY <1>3 DEF TakenAt
    <2>4. Cardinality(TakenAt(l, Taken')) = Cardinality(TakenAt(l, Taken)) + 1
        BY <2>1, <2>2, FS_AddElement
    <2>5. \A k \in Levels : stats'.level[k] = Cardinality(TakenAt(k, Taken'))
        BY <1>2, <1>4, <2>3, <2>4 DEF RoutingInv, RoutingTypeOK, AccountKept
    <2> QED  BY <1>1, <1>3, <1>4, <1>6, <1>8, <2>5 DEF RoutingInv, AccountKept, l
<1>11. CreatorsKnow' /\ CreatedOnce' /\ IsFiniteSet(gaveUp)'
    BY <1>6 DEF RoutingInv, CreatorsKnow, CreatedOnce, creationVars, EnabledTopics
<1> QED  BY <1>3, <1>7, <1>9, <1>10, <1>11 DEF RoutingInv

LEMMA AllKeeps ==
    ASSUME RoutingInv, ProduceAll
    PROVE  RoutingInv'
<1> USE RoutingNames
<1> DEFINE e == routing
<1>1. e \in Routables /\ routing # NoEvent
    BY DEF ProduceAll, RoutingInv, RoutingTypeOK
<1>2. /\ outcome[e] = "none" /\ config.all
      /\ <<e, LevelOf[e]>> \in Taken /\ <<e, AllTopic>> \notin Taken
    BY <1>1 DEF RoutingInv, TakenInTurn
<1>3. /\ sendQueue' \in Seq(Routables \X AllTopics) /\ Len(sendQueue') <= QueueSize
      /\ QueuedOnce' /\ Taken' = Taken \cup {<<e, AllTopic>>}
    BY <1>1, <1>2, ProduceAdds DEF ProduceAll
<1>4. UNCHANGED <<config, deliveredTo, gaveUp, stats, toDlq, hitches, creationVars>> /\ routing' = NoEvent
    BY DEF ProduceAll
<1>5. outcome' = [outcome EXCEPT ![e] = "ROUTED"]
    BY DEF ProduceAll
<1>6. RoutingTypeOK'
    BY <1>3, <1>4, <1>5 DEF RoutingInv, RoutingTypeOK, creationVars, Results
<1>7. outcome'[e] = "ROUTED" /\ \A o \in Routables \ {e} : outcome'[o] = outcome[o]
    BY <1>1, <1>5 DEF RoutingInv, RoutingTypeOK
<1>8. TakenInTurn'
    BY <1>1, <1>3, <1>4, <1>7 DEF RoutingInv, TakenInTurn
<1>9. \A l \in Levels : TakenAt(l, Taken') = TakenAt(l, Taken)
    BY <1>3 DEF TakenAt
<1>10. AccountKept'
    BY <1>1, <1>2, <1>3, <1>4, <1>7, <1>9 DEF RoutingInv, AccountKept
<1>11. CreatorsKnow' /\ CreatedOnce' /\ IsFiniteSet(gaveUp)'
    BY <1>4 DEF RoutingInv, CreatorsKnow, CreatedOnce, creationVars, EnabledTopics
<1> QED  BY <1>3, <1>6, <1>8, <1>10, <1>11 DEF RoutingInv

LEMMA RaiseKeeps ==
    ASSUME RoutingInv, NEW e \in Routables, RouteRaises(e)
    PROVE  RoutingInv'
<1> USE RoutingNames
<1>1. /\ outcome[e] = "none" /\ routing \in {e, NoEvent}
      /\ outcome' = [outcome EXCEPT ![e] = "ERROR"] /\ routing' = NoEvent
      /\ toDlq' = toDlq \cup {e} /\ UNCHANGED <<config, sendQueue, deliveredTo, gaveUp, creationVars>>
    BY DEF RouteRaises, MayRoute, RoutingInv, TakenInTurn
<1>2. /\ stats' \in Tallies
      /\ stats'.level = stats.level /\ stats'.errors = stats.errors + 1
    <2>1. stats \in Tallies
        BY DEF RoutingInv, RoutingTypeOK, Tallies
    <2>2. \E s \in {stats, Counted} : stats' = [s EXCEPT !.errors = s.errors + 1]
        BY DEF RouteRaises
    <2> QED  BY <2>1, <2>2, CountedIs DEF Tallies
<1>3. hitches' \in 0 .. MaxDeliveries
    BY DEF RouteRaises, RoutingInv, RoutingTypeOK
<1>4. RoutingTypeOK'
    BY <1>1, <1>2, <1>3 DEF RoutingInv, RoutingTypeOK, creationVars, Results, Tallies
<1>5. Taken' = Taken
    BY <1>1 DEF Taken, Accepted, On
<1>6. outcome'[e] = "ERROR" /\ \A o \in Routables \ {e} : outcome'[o] = outcome[o]
    BY <1>1 DEF RoutingInv, RoutingTypeOK
<1>7. TakenInTurn'
    BY <1>1, <1>5, <1>6 DEF RoutingInv, TakenInTurn
<1>8. AccountKept'
    <2>1. e \notin toDlq /\ IsFiniteSet(toDlq)
        BY <1>1, FS_Subset DEF RoutingInv, AccountKept, RoutingTypeOK
    <2>2. Cardinality(toDlq') = Cardinality(toDlq) + 1
        BY <1>1, <2>1, FS_AddElement
    <2>3. Cardinality(toDlq) \in Nat /\ Cardinality(gaveUp) \in Nat
        BY <2>1, FS_CardinalityType DEF RoutingInv
    <2>4. stats'.errors = Cardinality(toDlq') + Cardinality(gaveUp')
        BY <1>1, <1>2, <2>2, <2>3 DEF RoutingInv, AccountKept
    <2>5. \A l \in Levels : stats'.level[l] = Cardinality(TakenAt(l, Taken'))
        BY <1>2, <1>5 DEF RoutingInv, AccountKept
    <2> QED  BY <1>1, <1>5, <1>6, <2>4, <2>5 DEF RoutingInv, AccountKept
<1>9. QueuedOnce' /\ CreatorsKnow' /\ CreatedOnce' /\ IsFiniteSet(gaveUp)'
    BY <1>1 DEF RoutingInv, QueuedOnce, CreatorsKnow, CreatedOnce, creationVars, EnabledTopics
<1> QED  BY <1>4, <1>7, <1>8, <1>9 DEF RoutingInv

LEMMA DeliverKeeps ==
    ASSUME RoutingInv, DeliverRouted
    PROVE  RoutingInv'
<1> USE RoutingNames
<1> DEFINE first == Head(sendQueue)
           e == first[1]
           t == first[2]
<1>1. /\ sendQueue \in Seq(Routables \X AllTopics) /\ sendQueue # <<>>
      /\ sendQueue' = Tail(sendQueue) /\ Len(sendQueue) <= QueueSize
      /\ UNCHANGED <<config, outcome, routing, toDlq, creationVars>>
    BY DEF DeliverRouted, RoutingInv, RoutingTypeOK
<1>2. /\ \A i, j \in 1 .. Len(sendQueue) : sendQueue[i] = sendQueue[j] => i = j
      /\ Range(sendQueue) \cap gaveUp = {}
    BY DEF RoutingInv, QueuedOnce
<1>3. /\ first \in Routables \X AllTopics /\ Tail(sendQueue) \in Seq(Routables \X AllTopics)
      /\ Len(Tail(sendQueue)) <= Len(sendQueue)
      /\ Range(sendQueue) = Range(Tail(sendQueue)) \cup {first}
      /\ first \notin Range(Tail(sendQueue))
      /\ \A i, j \in 1 .. Len(Tail(sendQueue)) : Tail(sendQueue)[i] = Tail(sendQueue)[j] => i = j
    BY <1>1, <1>2, TailDrops
<1>4. /\ Range(sendQueue)' = Range(Tail(sendQueue)) /\ Range(sendQueue) = Range(sendQueue)' \cup {first}
      /\ first \notin Range(sendQueue)' /\ first \notin gaveUp
    BY <1>1, <1>2, <1>3
<1>5. \/ /\ deliveredTo' = [deliveredTo EXCEPT ![t] = deliveredTo[t] \cup {e}]
         /\ UNCHANGED <<gaveUp, stats, hitches>>
      \/ /\ hitches < MaxDeliveries /\ hitches' = hitches + 1
         /\ gaveUp' = gaveUp \cup {<<e, t>>}
         /\ stats' = [stats EXCEPT !.errors = stats.errors + 1]
         /\ UNCHANGED deliveredTo
    BY DEF DeliverRouted
<1>6. e \in Routables /\ t \in AllTopics /\ first = <<e, t>>
    BY <1>3
<1> HIDE DEF first, e, t
<1>7. /\ stats \in Tallies /\ stats' \in Tallies /\ stats'.level = stats.level
      /\ hitches' \in 0 .. MaxDeliveries /\ deliveredTo' \in [AllTopics -> SUBSET Routables]
      /\ gaveUp' \subseteq Routables \X AllTopics
    <2>1. /\ stats \in Tallies /\ hitches \in 0 .. MaxDeliveries
          /\ deliveredTo \in [AllTopics -> SUBSET Routables] /\ gaveUp \subseteq Routables \X AllTopics
        BY DEF RoutingInv, RoutingTypeOK, Tallies
    <2> QED  BY <1>5, <1>6, <2>1 DEF Tallies
<1>8. RoutingTypeOK'
    <2>1. RoutingTypeOK
        BY DEF RoutingInv
    <2>2. sendQueue' \in Seq(Routables \X AllTopics) /\ Len(sendQueue') <= QueueSize
        <3>1. Len(sendQueue) \in Nat /\ Len(Tail(sendQueue)) \in Nat /\ QueueSize \in Nat
            BY <1>1, <1>3
        <3> QED  BY <1>1, <1>3, <3>1
    <2> QED  BY <1>1, <1>7, <2>1, <2>2 DEF RoutingTypeOK, creationVars, Tallies
<1>9. IsFiniteSet(gaveUp)' /\ QueuedOnce'
    <2>1. gaveUp' = gaveUp \/ gaveUp' = gaveUp \cup {first}
        BY <1>5, <1>6
    <2>2. IsFiniteSet(gaveUp')
        BY <2>1, FS_AddElement DEF RoutingInv
    <2>3. Range(sendQueue)' \cap gaveUp' = {}
        BY <1>2, <1>4, <2>1
    <2> QED  BY <1>1, <1>3, <2>2, <2>3 DEF QueuedOnce
<1>10. Taken' = Taken
    <2>1. ASSUME NEW f \in Routables, NEW s \in AllTopics
          PROVE  Accepted(f, s)' <=> Accepted(f, s)
        <3>1. deliveredTo \in [AllTopics -> SUBSET Routables]
            BY DEF RoutingInv, RoutingTypeOK
        <3>2. <<f, s>> = first <=> f = e /\ s = t
            BY <1>6
        <3>3. \/ /\ f \in deliveredTo'[s] <=> f \in deliveredTo[s] \/ <<f, s>> = first
                 /\ gaveUp' = gaveUp
              \/ /\ f \in deliveredTo'[s] <=> f \in deliveredTo[s]
                 /\ gaveUp' = gaveUp \cup {first}
            BY <1>5, <1>6, <3>1, <3>2
        <3>4. <<f, s>> \in Range(sendQueue) <=> <<f, s>> \in Range(sendQueue)' \/ <<f, s>> = first
            BY <1>4
        <3> QED  BY <3>3, <3>4 DEF Accepted, On
    <2> QED  BY <2>1 DEF Taken
<1>11. TakenInTurn'
    BY <1>1, <1>10 DEF RoutingInv, TakenInTurn
<1>12. AccountKept'
    <2>1. \/ gaveUp' = gaveUp /\ stats'.errors = stats.errors
          \/ gaveUp' = gaveUp \cup {first} /\ stats'.errors = stats.errors + 1
        BY <1>5, <1>6, <1>7 DEF Tallies
    <2>2. first \notin gaveUp /\ IsFiniteSet(gaveUp) /\ IsFiniteSet(toDlq)
        BY <1>4, FS_Subset DEF RoutingInv, RoutingTypeOK
    <2>3. Cardinality(toDlq) \in Nat /\ Cardinality(gaveUp) \in Nat
        BY <2>2, FS_CardinalityType
    <2>4. Cardinality(gaveUp \cup {first}) = Cardinality(gaveUp) + 1
        BY <2>2, FS_AddElement
    <2>5. stats'.errors = Cardinality(toDlq') + Cardinality(gaveUp')
        <3>1. stats.errors = Cardinality(toDlq) + Cardinality(gaveUp) /\ toDlq' = toDlq
            BY <1>1 DEF RoutingInv, AccountKept
        <3>2. CASE gaveUp' = gaveUp /\ stats'.errors = stats.errors
            BY <3>1, <3>2
        <3>3. CASE gaveUp' = gaveUp \cup {first} /\ stats'.errors = stats.errors + 1
            <4>1. Cardinality(gaveUp') = Cardinality(gaveUp) + 1
                BY <2>4, <3>3
            <4> QED  BY <2>3, <3>1, <3>3, <4>1
        <3> QED  BY <2>1, <3>2, <3>3
    <2>6. \A l \in Levels : stats'.level[l] = Cardinality(TakenAt(l, Taken'))
        BY <1>7, <1>10 DEF RoutingInv, AccountKept
    <2> QED  BY <1>1, <1>10, <2>5, <2>6 DEF RoutingInv, AccountKept
<1>13. CreatorsKnow' /\ CreatedOnce'
    BY <1>1 DEF RoutingInv, CreatorsKnow, CreatedOnce, creationVars, EnabledTopics
<1> QED  BY <1>8, <1>9, <1>11, <1>12, <1>13 DEF RoutingInv

LEMMA CreatorKeeps ==
    ASSUME RoutingInv, NEW c \in Creators, Verify(c) \/ CreateTopics(c)
    PROVE  RoutingInv'
<1> USE RoutingNames
<1>1. UNCHANGED routeVars
    BY DEF Verify, CreateTopics
<1>2. EnabledTopics' = EnabledTopics /\ EnabledTopics \subseteq AllTopics
    BY <1>1 DEF routeVars, EnabledTopics, RoutingInv, RoutingTypeOK
<1>3. /\ topicsThere \subseteq AllTopics /\ missing \in [Creators -> SUBSET AllTopics]
      /\ created \in [Creators -> SUBSET AllTopics]
      /\ report \in [Creators -> {"idle", "verified", "ok", "failed"}]
    BY DEF RoutingInv, RoutingTypeOK
<1>4. /\ \A d \in Creators : created[d] \subseteq topicsThere
      /\ \A d \in Creators : report[d] = "verified" => EnabledTopics \subseteq missing[d] \cup topicsThere
      /\ \A d \in Creators : report[d] = "ok" => EnabledTopics \subseteq topicsThere
      /\ \A a, b \in Creators : a # b => created[a] \cap created[b] = {}
    BY DEF RoutingInv, CreatorsKnow, CreatedOnce
<1>s. /\ sendQueue' = sendQueue /\ deliveredTo' = deliveredTo /\ gaveUp' = gaveUp
      /\ UNCHANGED <<config, outcome, routing, stats, toDlq, hitches>>
    BY <1>1 DEF routeVars
<1>r. IsFiniteSet(gaveUp)' /\ QueuedOnce' /\ TakenInTurn' /\ AccountKept'
    <2>1. Taken' = Taken
        BY <1>s DEF Taken, Accepted, On
    <2>2. QueuedOnce' /\ IsFiniteSet(gaveUp)'
        BY <1>s DEF RoutingInv, QueuedOnce
    <2>3. TakenInTurn'
        BY <1>s, <2>1 DEF RoutingInv, TakenInTurn
    <2>4. AccountKept'
        BY <1>s, <2>1 DEF RoutingInv, AccountKept
    <2> QED  BY <2>2, <2>3, <2>4
<1> HIDE DEF EnabledTopics
<1>5. CASE Verify(c)
    <2>1. /\ missing' = [missing EXCEPT ![c] = EnabledTopics \ topicsThere]
          /\ report' = [report EXCEPT ![c] = IF missing'[c] = {} THEN "ok" ELSE "verified"]
          /\ UNCHANGED <<topicsThere, created>>
        BY <1>5 DEF Verify
    <2>2. missing'[c] = EnabledTopics \ topicsThere /\ missing' \in [Creators -> SUBSET AllTopics]
        BY <1>2, <1>3, <2>1
    <2>3. \A d \in Creators \ {c} : missing'[d] = missing[d] /\ report'[d] = report[d]
        BY <1>3, <2>1
    <2>4. report'[c] \in {"ok", "verified"} /\ (report'[c] = "ok" => missing'[c] = {})
        BY <1>3, <2>1
    <2>5. report' \in [Creators -> {"idle", "verified", "ok", "failed"}]
        BY <1>3, <2>1
    <2>6. RoutingTypeOK'
        BY <1>1, <2>1, <2>2, <2>5 DEF RoutingInv, RoutingTypeOK, routeVars
    <2>7. CreatorsKnow' /\ CreatedOnce'
        BY <1>2, <1>4, <2>1, <2>2, <2>3, <2>4 DEF CreatorsKnow, CreatedOnce
    <2> QED  BY <1>r, <2>6, <2>7 DEF RoutingInv
<1>6. CASE CreateTopics(c)
    <2>1. /\ report[c] = "verified" /\ missing' = missing
          /\ created' = [created EXCEPT ![c] = missing[c] \ topicsThere]
          /\ topicsThere' = topicsThere \cup missing[c]
          /\ report' = [report EXCEPT ![c] = IF created'[c] = missing[c] THEN "ok" ELSE "failed"]
        BY <1>6 DEF CreateTopics
    <2>2. created'[c] = missing[c] \ topicsThere /\ created' \in [Creators -> SUBSET AllTopics]
        BY <1>3, <2>1
    <2>3. \A d \in Creators \ {c} : created'[d] = created[d] /\ report'[d] = report[d]
        BY <1>3, <2>1
    <2>4. report'[c] \in {"ok", "failed"} /\ report' \in [Creators -> {"idle", "verified", "ok", "failed"}]
        BY <1>3, <2>1
    <2>5. topicsThere' \subseteq AllTopics
        BY <1>3, <2>1
    <2>6. RoutingTypeOK'
        BY <1>1, <2>1, <2>2, <2>4, <2>5 DEF RoutingInv, RoutingTypeOK, routeVars
    <2>7. EnabledTopics \subseteq topicsThere'
        BY <1>4, <2>1
    <2>8. CreatorsKnow'
        BY <1>2, <1>4, <2>1, <2>2, <2>3, <2>4, <2>7 DEF CreatorsKnow
    <2>9. CreatedOnce'
        BY <1>2, <1>4, <2>1, <2>2, <2>3, <2>7 DEF CreatedOnce
    <2> QED  BY <1>r, <2>6, <2>8, <2>9 DEF RoutingInv
<1> QED  BY <1>5, <1>6

LEMMA RoutingStep == RoutingInv /\ [RoutingNext]_routingVars => RoutingInv'
<1>1. ASSUME RoutingInv, UNCHANGED routingVars PROVE RoutingInv'
    <2>1. RoutingTypeOK' /\ IsFiniteSet(gaveUp)' /\ QueuedOnce' /\ CreatorsKnow' /\ CreatedOnce'
        BY <1>1 DEF routingVars, routeVars, creationVars, RoutingInv, RoutingTypeOK, QueuedOnce,
            CreatorsKnow, CreatedOnce, EnabledTopics
    <2>2. Taken' = Taken
        BY <1>1 DEF routingVars, routeVars, Taken, Accepted, On
    <2>3. TakenInTurn' /\ AccountKept'
        BY <1>1, <2>2 DEF routingVars, routeVars, RoutingInv, TakenInTurn, AccountKept
    <2> QED  BY <2>1, <2>3 DEF RoutingInv
<1> QED  BY <1>1, NowhereKeeps, OwnKeeps, AllKeeps, RaiseKeeps, DeliverKeeps, CreatorKeeps
         DEF RoutingNext

\* Every event is accepted by each of its topics, in the DLQ, or nowhere as it was decided; the
\* counts agree, and no topic is created twice: with every order of produce calls, failed
\* deliveries and creators (RoutedIsAccounted).
THEOREM RoutingStaysAccounted == RoutingSpec => []RoutedIsAccounted
<1>1. RoutingInv => RoutedIsAccounted
    BY AccountIs DEF RoutingInv
<1> QED  BY <1>1, RoutingStarts, RoutingStep, PTL DEF RoutingSpec

-----------------------------------------------------------------------------
(* The review of patterns *)

ReviewRequests ==
    [at : {"admitted"}, kind : Decisions, pattern : Recurring, hours : Nat]
      \cup [at : {"loaded"}, kind : Decisions, pattern : Recurring, hours : Nat,
            by : Reviewers \cup {"api"}, row : RowTypes]

ReviewTypes ==
    /\ reviewHour \in 0 .. ReviewHours /\ guarded \in BOOLEAN
    /\ found \in [Recurring -> RowTypes]
    /\ deciding \in [Reviewers -> ReviewRequests \cup {NoRequest}]
    /\ decided \subseteq Recurring

\* Somebody who may decide has asked for it.
OnRecord(entries, p, kind) ==
    \E e \in entries :
        e.target = p /\ e.action = kind /\ e.role \in {"responder", "admin"}

\* A decision once made is never undone, so that what a request has loaded was decided still is;
\* and the row may keep the decision of another request, which was asked for too.
ReviewInv ==
    /\ ReviewTypes /\ DecisionsStand
    /\ \A r \in Reviewers : deciding[r].at = "loaded" =>
          (deciding[r].row.status \in Decisions => deciding[r].pattern \in decided)
    /\ guarded = TRUE =>
          /\ \A p \in Recurring : found[p].status \in Decisions => OnRecord(adminLog \cup unlogged, p, found[p].status)
          /\ \A r \in Reviewers : deciding[r].at # "idle" =>
                OnRecord(adminLog \cup unlogged, deciding[r].pattern, deciding[r].kind)

LEMMA RequestIs ==
    ASSUME ReviewTypes, NEW r \in Reviewers, deciding[r].at # "idle"
    PROVE  /\ deciding[r] \in ReviewRequests /\ deciding[r].pattern \in Recurring
           /\ deciding[r].kind \in Decisions /\ deciding[r].hours \in Nat
           /\ deciding[r].at = "loaded" =>
                 deciding[r].row \in RowTypes /\ deciding[r].by \in Reviewers \cup {"api"}
BY DEF ReviewTypes, ReviewRequests, NoRequest

LEMMA CommitKeeps ==
    ASSUME ReviewInv, NEW r \in Reviewers, deciding[r].at = "loaded",
           NEW until \in {NoEnd} \cup Nat, Commit(r, until)
    PROVE  ReviewInv'
<1> DEFINE p == deciding[r].pattern
           kind == deciding[r].kind
           old == deciding[r].row
           row == [found[p] EXCEPT !.status = Written(@, old.status, kind),
                                   !.until = Written(@, old.until, until),
                                   !.by = Written(@, old.by, deciding[r].by)]
<1>1. /\ p \in Recurring /\ kind \in Decisions /\ old \in RowTypes
      /\ deciding[r].by \in Reviewers \cup {"api"} /\ found[p] \in RowTypes
    BY RequestIs DEF ReviewInv, ReviewTypes
<1>2. /\ found' = [found EXCEPT ![p] = row] /\ decided' = decided \cup {p}
      /\ deciding' = [deciding EXCEPT ![r] = NoRequest]
      /\ UNCHANGED <<reviewHour, guarded, adminLog, unlogged>>
    <2>1. found' = [found EXCEPT ![p] = row]
        BY <1>1 DEF Commit, ReviewInv, ReviewTypes
    <2> QED  BY <2>1 DEF Commit
<1>3. row.status = IF kind = old.status THEN found[p].status ELSE kind
    BY <1>1 DEF Written, RowTypes
<1>4. row.status \in Decisions /\ (row.status = found[p].status \/ row.status = kind)
    <2>1. old.status \in Decisions => found[p].status \in Decisions
        BY <1>1 DEF ReviewInv, DecisionsStand
    <2> QED  BY <1>1, <1>3, <2>1
<1>5. row \in RowTypes
    <2>1. deciding[r].by \in Reviewers \cup {"nobody", "api"} /\ until \in {NoEnd} \cup Nat
        BY <1>1
    <2>2. /\ Written(found[p].until, old.until, until) \in {NoEnd} \cup Nat
          /\ Written(found[p].by, old.by, deciding[r].by) \in Reviewers \cup {"nobody", "api"}
          /\ Written(found[p].status, old.status, kind) \in {"absent", "active", "expired"} \cup Decisions
        BY <1>1, <2>1 DEF Written, RowTypes
    <2> QED  BY <1>1, <2>2 DEF RowTypes
<1> HIDE DEF row, p, kind, old
<1>6. /\ found'[p] = row /\ \A q \in Recurring \ {p} : found'[q] = found[q]
      /\ found' \in [Recurring -> RowTypes]
      /\ deciding'[r] = NoRequest /\ \A s \in Reviewers \ {r} : deciding'[s] = deciding[s]
      /\ deciding' \in [Reviewers -> ReviewRequests \cup {NoRequest}]
    BY <1>1, <1>2, <1>5 DEF ReviewInv, ReviewTypes
<1>7. ReviewTypes'
    BY <1>1, <1>2, <1>6 DEF ReviewInv, ReviewTypes
<1>8. DecisionsStand'
    BY <1>1, <1>2, <1>4, <1>6 DEF ReviewInv, DecisionsStand
<1>9. guarded = TRUE => OnRecord(adminLog \cup unlogged, p, kind)
    BY DEF ReviewInv, p, kind
<1>10. guarded' = TRUE => \A q \in Recurring : found'[q].status \in Decisions => OnRecord(adminLog' \cup unlogged', q, found'[q].status)
    BY <1>1, <1>2, <1>4, <1>6, <1>9 DEF ReviewInv, OnRecord, DecisionsStand
<1>11. \A s \in Reviewers : deciding'[s].at = "loaded" =>
          (deciding'[s].row.status \in Decisions => deciding'[s].pattern \in decided')
    BY <1>2, <1>6 DEF ReviewInv, NoRequest
<1>12. guarded' = TRUE => \A s \in Reviewers : deciding'[s].at # "idle" =>
          OnRecord(adminLog' \cup unlogged', deciding'[s].pattern, deciding'[s].kind)
    BY <1>2, <1>6 DEF ReviewInv, OnRecord, NoRequest
<1> QED  BY <1>7, <1>8, <1>10, <1>11, <1>12 DEF ReviewInv

LEMMA ReviewStep == ReviewInv /\ [ReviewNext]_reviewVars => ReviewInv'
<1> SUFFICES ASSUME ReviewInv, [ReviewNext]_reviewVars PROVE ReviewInv'
    OBVIOUS
<1>1. ASSUME NEW p \in Recurring, Detected(p) PROVE ReviewInv'
    <2>1. /\ found' \in [Recurring -> RowTypes] /\ \A q \in Recurring \ {p} : found'[q] = found[q]
          /\ \/ found'[p].status = found[p].status
             \/ found[p].status = "absent" /\ found'[p].status = "active"
        <3>1. CASE found[p] = NotFound
            <4>1. found' = [found EXCEPT ![p] = [NotFound EXCEPT !.status = "active", !.seen = reviewHour]]
                BY <1>1, <3>1 DEF Detected, ReviewInv, ReviewTypes
            <4>2. [NotFound EXCEPT !.status = "active", !.seen = reviewHour] \in RowTypes
                BY DEF NotFound, RowTypes, ReviewInv, ReviewTypes, Decisions
            <4> QED  BY <3>1, <4>1, <4>2 DEF ReviewInv, ReviewTypes, NotFound
        <3>2. CASE found[p] # NotFound
            <4>1. found' = [found EXCEPT ![p] = [found[p] EXCEPT !.seen = reviewHour]]
                BY <1>1, <3>2 DEF Detected
            <4>2. found[p] \in RowTypes /\ [found[p] EXCEPT !.seen = reviewHour] \in RowTypes
                BY DEF RowTypes, ReviewInv, ReviewTypes
            <4> QED  BY <4>1, <4>2 DEF ReviewInv, ReviewTypes, RowTypes
        <3> QED  BY <3>1, <3>2
    <2>2. UNCHANGED <<reviewHour, guarded, deciding, adminLog, unlogged, decided>>
        BY <1>1 DEF Detected
    <2> QED  BY <2>1, <2>2 DEF ReviewInv, ReviewTypes, DecisionsStand, OnRecord, Decisions
<1>2. ASSUME NEW r \in Reviewers, ListPatterns(r) PROVE ReviewInv'
    <2>1. /\ found' = [p \in Recurring |-> found'[p]]
          /\ \A p \in Recurring : found'[p] = IF IsStale(p) THEN [found[p] EXCEPT !.status = "expired"]
                                              ELSE found[p]
          /\ UNCHANGED <<reviewHour, guarded, deciding, adminLog, unlogged, decided>>
        BY <1>2 DEF ListPatterns
    <2>2. \A p \in Recurring :
              /\ found'[p] \in RowTypes
              /\ \/ found'[p].status = found[p].status
                 \/ found[p].status = "active" /\ found'[p].status = "expired"
        BY <2>1 DEF ReviewInv, ReviewTypes, RowTypes, IsStale
    <2> QED  BY <2>1, <2>2 DEF ReviewInv, ReviewTypes, DecisionsStand, OnRecord, Decisions
<1>3. ASSUME NEW r \in Reviewers, NEW kind \in Decisions, NEW p \in Recurring, NEW hours \in Nat,
             AskToDecide(r, kind, p, hours)
      PROVE  ReviewInv'
    <2>1. /\ deciding' = [deciding EXCEPT ![r] = [at |-> "admitted", kind |-> kind, pattern |-> p,
                                                 hours |-> hours]]
          /\ UNCHANGED <<reviewHour, guarded, found, decided>>
          /\ MayDecide(r) /\ Logged(r, kind, p)
        BY <1>3 DEF AskToDecide
    <2>2. /\ deciding'[r].at = "admitted" /\ deciding'[r].kind = kind /\ deciding'[r].pattern = p
          /\ \A s \in Reviewers \ {r} : deciding'[s] = deciding[s]
          /\ deciding' \in [Reviewers -> ReviewRequests \cup {NoRequest}]
        <3>1. [at |-> "admitted", kind |-> kind, pattern |-> p, hours |-> hours] \in ReviewRequests
            BY DEF ReviewRequests
        <3> QED  BY <2>1, <3>1 DEF ReviewInv, ReviewTypes
    <2>3. adminLog \cup unlogged \subseteq adminLog' \cup unlogged'
        BY <2>1 DEF Logged
    <2>4. guarded = TRUE => OnRecord(adminLog' \cup unlogged', p, kind)
        <3> DEFINE entry == [actor |-> r, role |-> roleOf[r], action |-> kind, target |-> p]
        <3>1. guarded = TRUE => entry \in adminLog' \cup unlogged' /\ roleOf[r] \in {"responder", "admin"}
            BY <2>1 DEF Logged, MayDecide
        <3>2. entry.target = p /\ entry.action = kind /\ entry.role = roleOf[r]
            OBVIOUS
        <3> HIDE DEF entry
        <3> QED  BY <3>1, <3>2 DEF OnRecord
    <2>5. guarded' = TRUE =>
              /\ \A q \in Recurring : found'[q].status \in Decisions => OnRecord(adminLog' \cup unlogged', q, found'[q].status)
              /\ \A s \in Reviewers : deciding'[s].at # "idle" =>
                    OnRecord(adminLog' \cup unlogged', deciding'[s].pattern, deciding'[s].kind)
        BY <2>1, <2>2, <2>3, <2>4 DEF ReviewInv, OnRecord
    <2> QED  BY <2>1, <2>2, <2>5 DEF ReviewInv, ReviewTypes, DecisionsStand
<1>4. ASSUME NEW r \in Reviewers, LoadPattern(r) PROVE ReviewInv'
    <2> DEFINE p == deciding[r].pattern
               loaded == [at |-> "loaded", kind |-> deciding[r].kind, pattern |-> p,
                          hours |-> deciding[r].hours, by |-> Signature(r), row |-> found[p]]
    <2>1. /\ UNCHANGED <<reviewHour, guarded, found, adminLog, unlogged, decided>>
          /\ deciding[r].at = "admitted"
          /\ deciding' \in {[deciding EXCEPT ![r] = NoRequest], [deciding EXCEPT ![r] = loaded]}
        BY <1>4 DEF LoadPattern, ReviewInv, ReviewTypes
    <2>2. p \in Recurring /\ found[p] \in RowTypes /\ loaded \in ReviewRequests
        BY <2>1, RequestIs DEF ReviewInv, ReviewTypes, ReviewRequests, Signature
    <2>3. found[p].status \in Decisions => p \in decided
        BY <2>2 DEF ReviewInv, DecisionsStand
    <2> HIDE DEF p
    <2>4. /\ \A s \in Reviewers \ {r} : deciding'[s] = deciding[s]
          /\ deciding' \in [Reviewers -> ReviewRequests \cup {NoRequest}]
          /\ \/ deciding'[r].at = "idle"
             \/ /\ deciding'[r].at = "loaded" /\ deciding'[r].row = found[p]
                /\ deciding'[r].pattern = p /\ deciding'[r].kind = deciding[r].kind
        BY <2>1, <2>2 DEF ReviewInv, ReviewTypes, NoRequest
    <2> QED  BY <2>1, <2>3, <2>4 DEF ReviewInv, ReviewTypes, DecisionsStand, OnRecord, p
<1>5. ASSUME NEW r \in Reviewers, SuppressPattern(r) \/ MarkExpected(r) PROVE ReviewInv'
    <2>1. deciding[r].at = "loaded"
        BY <1>5 DEF SuppressPattern, MarkExpected
    <2>2. deciding[r].hours \in Nat /\ reviewHour \in Nat
        BY <2>1, RequestIs DEF ReviewInv, ReviewTypes
    <2>3. \E until \in {NoEnd} \cup Nat : Commit(r, until)
        BY <1>5, <2>2 DEF SuppressPattern, MarkExpected
    <2> QED  BY <2>1, <2>3, CommitKeeps
<1>6. ASSUME NEW r \in Reviewers, DecisionFails(r) PROVE ReviewInv'
    BY <1>6 DEF DecisionFails, ReviewInv, ReviewTypes, DecisionsStand, OnRecord, NoRequest
<1>7. CASE HourGoesBy \/ (\E r \in Reviewers, role \in {"none", "responder"} : GrantRole(r, role))
    <2>1. /\ UNCHANGED <<guarded, found, deciding, adminLog, unlogged, decided>>
          /\ reviewHour' \in 0 .. ReviewHours
        BY <1>7, ReviewAssumption DEF HourGoesBy, GrantRole, ReviewInv, ReviewTypes
    <2> QED  BY <2>1 DEF ReviewInv, ReviewTypes, DecisionsStand, OnRecord
<1>8. CASE UNCHANGED reviewVars
    BY <1>8 DEF reviewVars, ReviewInv, ReviewTypes, DecisionsStand, OnRecord
<1> QED
    <2>1. "suppressed" \in Decisions /\ "expected" \in Decisions /\ Durations \subseteq Nat /\ 0 \in Nat
        BY ReviewAssumption DEF Decisions
    <2> QED  BY <1>1, <1>2, <1>3, <1>4, <1>5, <1>6, <1>7, <1>8, <2>1 DEF ReviewNext

\* A decision about a pattern stands, and of whoever hides events the log can tell the name.
THEOREM ReviewsAlwaysStand == ReviewSpec => []ReviewsStand
<1>1. ReviewInit => ReviewInv
    BY ReviewAssumption DEF ReviewInit, ReviewInv, ReviewTypes, DecisionsStand, NotFound, NoRequest, RowTypes,
        Decisions, NoEnd
<1>2. ReviewInv => ReviewsStand
    BY DEF ReviewInv, ReviewTypes, ReviewsStand, HidingIsOnRecord, Hidden, OnRecord
<1> QED  BY <1>1, <1>2, ReviewStep, PTL DEF ReviewSpec

-----------------------------------------------------------------------------
(* The types of the services' state *)

\* The numbers of the generations in use are those that were given out.
Numbered ==
    /\ generated \in Nat /\ generated >= 2
    /\ inputs.password \in 0 .. generated /\ inputs.token \in 0 .. generated
    /\ tokenJson \in {None, inputs.token}
    /\ checkpoint # NoCheckpoint =>
          /\ checkpoint.inputs.password \in 0 .. generated
          /\ checkpoint.inputs.token \in 0 .. generated
          /\ checkpoint.inputs.mode \in {"disabled", "generate", "existing"}

\* A step of the installer keeps its files, answers and stages typed.
LEMMA InstallTypes ==
    ASSUME InstallTypeOK, Numbered, AnswersKept, AnswersKept', [InstallNext]_installVars
    PROVE  (InstallTypeOK /\ Numbered)'
<1> USE DEF InstallTypeOK, Numbered, None, Prepared, NoCheckpoint, Phases, ProductPhase, WizardInputs, filesVars, wizardVars
<1>n. \A m \in Nat : generated <= m => 0 .. generated \subseteq 0 .. m
    OBVIOUS
<1>c. \A choice \in TokenChoices :
          /\ choice.mode \in {"disabled", "generate", "existing"} /\ choice.token \in 0 .. generated + 1
          /\ choice.mode = "generate" \/ choice.token \in 0 .. generated
    BY DEF TokenChoices
<1>1. ASSUME StartFresh PROVE (InstallTypeOK /\ Numbered)'
    <2>1. /\ generated' = generated + 1 /\ checkpoint' = [phases |-> 0] /\ tokenJson' = 0
          /\ inputs' = [Blank EXCEPT !.password = generated'] /\ phase' = 0
          /\ runs < InstallRuns /\ runs' = runs + 1
          /\ UNCHANGED <<envFile, secretFile, tokenFile, adminFile, backups, volume, topics,
                         upgraded, deaths>>
        BY <1>1 DEF StartFresh
    <2>2. generated' \in Nat /\ generated' >= 2 /\ 0 .. generated \subseteq 0 .. generated'
        BY <1>n, <2>1
    <2>3. inputs'.password = generated' /\ inputs'.token = 0 /\ inputs'.mode = "disabled"
        BY <2>1 DEF Blank
    <2>4. Numbered'
        BY <2>1, <2>2, <2>3
    <2>5. runs' \in 0 .. InstallRuns
        BY <2>1, InstallerAssumption
    <2> QED  BY <2>1, <2>2, <2>3, <2>4, <2>5
<1>2. ASSUME Resume PROVE (InstallTypeOK /\ Numbered)'
    <2>1. /\ checkpoint # NoCheckpoint /\ inputs' = checkpoint.inputs
          /\ phase' = checkpoint.phases
          /\ tokenJson' \in {0, inputs'.token}
          /\ runs < InstallRuns /\ runs' = runs + 1
          /\ UNCHANGED <<checkpoint, envFile, secretFile, tokenFile, adminFile, backups, volume,
                         topics, upgraded, deaths, generated>>
        BY <1>2 DEF Resume, Reconstructed
    <2>2. runs' \in 0 .. InstallRuns
        BY <2>1, InstallerAssumption
    <2>3. Numbered'
        BY <2>1
    <2>4. inputs'.mode \in {"disabled", "generate", "existing"} /\ tokenJson' \in 0 .. generated'
        BY <2>1, <2>3
    <2> QED  BY <2>1, <2>2, <2>3, <2>4
<1>3. ASSUME StartFromConfig PROVE (InstallTypeOK /\ Numbered)'
    <2>1. PICK choice \in TokenChoices, create \in BOOLEAN :
              /\ inputs' = [password |-> generated + 2, mode |-> choice.mode,
                            token |-> choice.token, create |-> create]
              /\ tokenJson' = choice.token
        BY <1>3 DEF StartFromConfig
    <2>2. /\ generated' = generated + 2 /\ phase' = 6 /\ runs < InstallRuns /\ runs' = runs + 1
          /\ UNCHANGED <<checkpoint, envFile, secretFile, tokenFile, adminFile, backups, volume,
                         topics, upgraded, deaths>>
        BY <1>3 DEF StartFromConfig
    <2>3. generated' \in Nat /\ generated' >= 2 /\ 0 .. generated \subseteq 0 .. generated'
        BY <1>n, <2>2
    <2>4. choice.mode \in {"disabled", "generate", "existing"} /\ choice.token \in 0 .. generated'
        BY <1>c, <2>2, <2>3
    <2>5. inputs'.password = generated' /\ inputs'.mode = choice.mode /\ inputs'.token = choice.token
        BY <2>1, <2>2
    <2>6. Numbered'
        BY <2>1, <2>2, <2>3, <2>4, <2>5
    <2>7. runs' \in 0 .. InstallRuns /\ phase' \in 0 .. 6
        BY <2>2, InstallerAssumption
    <2> QED  BY <2>1, <2>2, <2>3, <2>4, <2>5, <2>6, <2>7
<1>4. ASSUME LocalPrerequisites PROVE (InstallTypeOK /\ Numbered)'
    BY <1>4 DEF LocalPrerequisites, PlainPhase, Save
<1>5. ASSUME SourceCluster PROVE (InstallTypeOK /\ Numbered)'
    BY <1>5 DEF SourceCluster, PlainPhase, Save
<1>6. ASSUME DestinationCluster PROVE (InstallTypeOK /\ Numbered)'
    <2>1. topics' \subseteq Topics
        BY <1>6 DEF DestinationCluster, TopicsAfter
    <2>2. CASE inputs' = inputs /\ phase' = phase /\ checkpoint' = checkpoint
        BY <1>6, <2>1, <2>2 DEF DestinationCluster, Save, Stop
    <2>3. CASE ~ (inputs' = inputs /\ phase' = phase /\ checkpoint' = checkpoint)
        <3>1. PICK create \in BOOLEAN : inputs' = [inputs EXCEPT !.create = create] /\ Save(2)
            BY <1>6, <2>3 DEF DestinationCluster, Stop
        <3>2. /\ inputs'.password = inputs.password /\ inputs'.token = inputs.token
              /\ inputs'.mode = inputs.mode
            BY <3>1
        <3>3. /\ checkpoint'.phases = 3 /\ checkpoint'.inputs = inputs' /\ phase' = 3
              /\ UNCHANGED <<envFile, secretFile, tokenFile, adminFile, backups, volume, tokenJson,
                             upgraded, runs, deaths, generated>>
            BY <1>6, <2>3, <3>1 DEF DestinationCluster, Stop, Save
        <3> QED  BY <2>1, <3>2, <3>3
    <2> QED  BY <2>2, <2>3
<1>7. ASSUME SchemaRegistry PROVE (InstallTypeOK /\ Numbered)'
    BY <1>7 DEF SchemaRegistry, PlainPhase, Save
<1>8. ASSUME ProductSettings PROVE (InstallTypeOK /\ Numbered)'
    <2>1. PICK choice \in TokenChoices :
              /\ ChooseToken(choice, inputs.password)
              /\ generated' = IF choice.mode = "generate" THEN generated + 1 ELSE generated
        BY <1>8 DEF ProductSettings
    <2>2. /\ phase' = 5 /\ checkpoint' = [phases |-> 5, inputs |-> inputs']
          /\ UNCHANGED <<envFile, secretFile, tokenFile, adminFile, backups, volume, topics,
                         upgraded, runs, deaths>>
        BY <1>8 DEF ProductSettings, Save
    <2>3. /\ inputs'.password = inputs.password /\ inputs'.token = choice.token
          /\ inputs'.mode = choice.mode /\ tokenJson' = choice.token
        BY <2>1 DEF ChooseToken
    <2>4. generated' \in Nat /\ generated' >= 2 /\ 0 .. generated \subseteq 0 .. generated'
        BY <1>n, <2>1
    <2>5. choice.mode \in {"disabled", "generate", "existing"} /\ choice.token \in 0 .. generated'
        BY <1>c, <2>1, <2>4
    <2>6. Numbered'
        BY <2>2, <2>3, <2>4, <2>5
    <2> QED  BY <2>2, <2>3, <2>4, <2>5, <2>6
<1>9. ASSUME Persistence PROVE (InstallTypeOK /\ Numbered)'
    BY <1>9 DEF Persistence, PlainPhase, Save
<1>10. ASSUME PhaseRefused PROVE (InstallTypeOK /\ Numbered)'
    BY <1>10 DEF PhaseRefused, Stop
<1>11. ASSUME ValidateAgain PROVE (InstallTypeOK /\ Numbered)'
    BY <1>11 DEF ValidateAgain, TopicsAfter, Stop
<1>12. ASSUME MoveEnv PROVE (InstallTypeOK /\ Numbered)'
    BY <1>12 DEF MoveEnv, Advance, MovedAside, Keep
<1>13. ASSUME MoveToken PROVE (InstallTypeOK /\ Numbered)'
    BY <1>13 DEF MoveToken, Advance, MovedAside, Keep
<1>14. ASSUME MoveAdmin PROVE (InstallTypeOK /\ Numbered)'
    BY <1>14 DEF MoveAdmin, Advance, MovedAside, Keep
<1>15. ASSUME WriteEnv PROVE (InstallTypeOK /\ Numbered)'
    BY <1>15 DEF WriteEnv, Advance, Keep
<1>16. ASSUME WriteToken PROVE (InstallTypeOK /\ Numbered)'
    BY <1>16 DEF WriteToken, Advance, Keep
<1>17. ASSUME WriteAdmin PROVE (InstallTypeOK /\ Numbered)'
    BY <1>17 DEF WriteAdmin, Advance, Keep
<1>18. ASSUME TokenCheck PROVE (InstallTypeOK /\ Numbered)'
    BY <1>18 DEF TokenCheck, Keep
<1>19. ASSUME EnsureSecretFile PROVE (InstallTypeOK /\ Numbered)'
    BY <1>19 DEF EnsureSecretFile, Advance, PasswordToKeep, Keep
<1>20. ASSUME DeployDocker PROVE (InstallTypeOK /\ Numbered)'
    BY <1>20 DEF DeployDocker, Up, InitDb, Down
<1>21. ASSUME ValidateRuntime PROVE (InstallTypeOK /\ Numbered)'
    BY <1>21 DEF ValidateRuntime, DatabaseOpens, Keep, Down
<1>22. ASSUME FinishInstall PROVE (InstallTypeOK /\ Numbered)'
    BY <1>22 DEF FinishInstall, Advance
<1>23. ASSUME InstallKilled PROVE (InstallTypeOK /\ Numbered)'
    <2>1. /\ deaths < InstallDeaths /\ deaths' = deaths + 1
          /\ checkpoint' \in {checkpoint, [phases |-> 0]}
          /\ UNCHANGED <<envFile, secretFile, tokenFile, adminFile, backups, volume, topics, phase,
                         inputs, tokenJson, upgraded, runs, generated>>
        BY <1>23 DEF InstallKilled
    <2>2. deaths' \in 0 .. InstallDeaths
        BY <2>1, InstallerAssumption
    <2> QED  BY <2>1, <2>2
<1>24. ASSUME Repair PROVE (InstallTypeOK /\ Numbered)'
    <2>1. /\ runs < InstallRuns /\ runs' = runs + 1 /\ generated' = generated + 1
          /\ secretFile' = IF PasswordToKeep # None THEN PasswordToKeep ELSE generated'
          /\ envFile' = secretFile' /\ volume' = (IF volume = None THEN secretFile' ELSE volume)
          /\ upgraded' \in BOOLEAN
          /\ UNCHANGED <<checkpoint, tokenFile, adminFile, backups, topics, phase, inputs, tokenJson,
                         deaths>>
        BY <1>24 DEF Repair, Up, InitDb
    <2>2. generated' \in Nat /\ generated' >= 2 /\ 0 .. generated \subseteq 0 .. generated'
        BY <1>n, <2>1
    <2>3. PasswordToKeep \in 0 .. generated
        BY DEF PasswordToKeep
    <2>4. secretFile' \in 0 .. generated' /\ volume' \in 0 .. generated'
        BY <2>1, <2>2, <2>3
    <2>5. Numbered'
        BY <2>1, <2>2
    <2>6. runs' \in 0 .. InstallRuns
        BY <2>1, InstallerAssumption
    <2> QED  BY <2>1, <2>2, <2>4, <2>5, <2>6
<1>25. ASSUME UNCHANGED installVars PROVE (InstallTypeOK /\ Numbered)'
    BY <1>25 DEF installVars
<1> QED  BY <1>1, <1>2, <1>3, <1>4, <1>5, <1>6, <1>7, <1>8, <1>9, <1>10, <1>11, <1>12, <1>13, <1>14,
   <1>15, <1>16, <1>17, <1>18, <1>19, <1>20, <1>21, <1>22, <1>23, <1>24, <1>25 DEF InstallNext

\* A step keeps the watcher typed.
LEMMA WatcherTypes ==
    ASSUME WatcherTypeOK, [WatcherNext]_watcherVars
    PROVE  WatcherTypeOK'
<1> USE DEF WatcherTypeOK
<1>1. ASSUME Publish PROVE WatcherTypeOK'
    BY <1>1 DEF Publish, filesOfWatcher
<1>2. ASSUME FetchSchema PROVE WatcherTypeOK'
    BY <1>2 DEF FetchSchema, filesOfWatcher, bounds
<1>3. ASSUME LoadSnapshot PROVE WatcherTypeOK'
    BY <1>3 DEF LoadSnapshot, filesOfWatcher, bounds
<1>4. ASSUME UpdateDataFile PROVE WatcherTypeOK'
    BY <1>4 DEF UpdateDataFile, bounds
<1>5. ASSUME UpdateFails PROVE WatcherTypeOK'
    BY <1>5 DEF UpdateFails, filesOfWatcher
<1>6. ASSUME SendSlackAlert PROVE WatcherTypeOK'
    BY <1>6 DEF SendSlackAlert
<1>7. ASSUME SaveVersion PROVE WatcherTypeOK'
    BY <1>7 DEF SaveVersion
<1>8. ASSUME SaveSnapshot PROVE WatcherTypeOK'
    <2>1. snapshots' = snapshots \cup {history + 1} /\ checking' = "asleep"
          /\ UNCHANGED <<documented, dataFile, versions, booked, told, fetched, history>>
        BY <1>8 DEF SaveSnapshot
    <2>2. history + 1 \in Nat
        OBVIOUS
    <2> QED  BY <2>1, <2>2
<1>9. ASSUME WatcherKilled PROVE WatcherTypeOK'
    BY <1>9 DEF WatcherKilled, filesOfWatcher
<1>10. ASSUME UNCHANGED watcherVars PROVE WatcherTypeOK'
    BY <1>10 DEF watcherVars
<1> QED  BY <1>1, <1>2, <1>3, <1>4, <1>5, <1>6, <1>7, <1>8, <1>9, <1>10 DEF WatcherNext

\* A step keeps the forwarder's start typed.
LEMMA StartupTypes ==
    ASSUME StartupTypeOK, [StartupNext]_startupVars
    PROVE  StartupTypeOK'
<1> USE DEF StartupTypeOK, Callers, Ended, Fixes, OldRows
<1>1. ASSUME NEW c \in Callers, Open(c) PROVE StartupTypeOK'
    BY <1>1, StartupAssumption DEF Open, MayOpen, partVars, repairVars, outsideVars, NoWriter
<1>2. ASSUME NEW c \in Callers, Opened(c) PROVE StartupTypeOK'
    BY <1>2, StartupAssumption DEF Opened, AfterMain, StartRepair, partVars, outsideVars, NoWriter
<1>3. ASSUME NEW c \in Callers, OpenFails(c) PROVE StartupTypeOK'
    <2>1. nextAttempt' \in Nat /\ failedInRow' \in Nat
        BY <1>3, StartupAssumption DEF OpenFails
    <2>2. repair' \in {"none", "started"} \cup Ended \cup Fixes
        BY <1>3 DEF OpenFails, StartRepair
    <2>3. startStage' \in {startStage, "parts"} /\ opening' \subseteq opening
        BY <1>3 DEF OpenFails, AfterMain
    <2> QED  BY <1>3, <2>1, <2>2, <2>3 DEF OpenFails, partVars, outsideVars
<1>4. ASSUME CheckConfig PROVE StartupTypeOK'
    BY <1>4, StartupAssumption DEF CheckConfig, partVars, databaseVars, repairVars, outsideVars
<1>5. ASSUME OpenStore PROVE StartupTypeOK'
    BY <1>5, StartupAssumption DEF OpenStore, Meet, databaseVars, repairVars
<1>6. ASSUME StartParts PROVE StartupTypeOK'
    BY <1>6, StartupAssumption DEF StartParts, databaseVars, repairVars, outsideVars
<1>7. ASSUME TopicsFound PROVE StartupTypeOK'
    BY <1>7, StartupAssumption DEF TopicsFound, partVars, databaseVars, repairVars, outsideVars
<1>8. ASSUME LeaveEarly PROVE StartupTypeOK'
    BY <1>8, StartupAssumption DEF LeaveEarly, Meet, partVars, databaseVars, repairVars
<1>9. ASSUME NotifyEvent PROVE StartupTypeOK'
    BY <1>9, StartupAssumption DEF NotifyEvent, databaseVars, repairVars, outsideVars
<1>10. ASSUME BeginRepair PROVE StartupTypeOK'
    BY <1>10, StartupAssumption DEF BeginRepair, partVars, databaseVars, outsideVars
<1>11. ASSUME RepairRows PROVE StartupTypeOK'
    <2> DEFINE Names == {"raw", "json", "prefixed", "named", "internal"}
    <2>1. repair \in Fixes
        BY <1>11 DEF RepairRows
    <2>2. FixedName[repair] \in Names /\ NextStep[repair] \in {"none", "started"} \cup Ended \cup Fixes
        BY <2>1 DEF FixedName, NextStep
    <2>3. PICK batch \in SUBSET OldRows :
              /\ rowName' = [r \in OldRows |-> IF r \in batch THEN FixedName[repair] ELSE rowName[r]]
              /\ repair' \in {repair, NextStep[repair]}
        BY <1>11 DEF RepairRows
    <2>4. DOMAIN rowName' = DOMAIN rowName /\ \A r \in DOMAIN rowName : rowName[r] \in Names
        BY <2>3
    <2>5. rowName' \in [DOMAIN rowName' -> Names]
        BY <2>2, <2>3, <2>4
    <2>6. everLocked' \subseteq OldRows
        BY <1>11 DEF RepairRows
    <2>7. repair' \in {"none", "started"} \cup Ended \cup Fixes
        BY <2>2, <2>3
    <2> QED  BY <1>11, <2>4, <2>5, <2>6, <2>7 DEF RepairRows, partVars, databaseVars, outsideVars
<1>12. ASSUME RepairFails PROVE StartupTypeOK'
    BY <1>12, StartupAssumption DEF RepairFails, partVars, databaseVars, outsideVars
<1>13. ASSUME DatabaseTurns PROVE StartupTypeOK'
    BY <1>13, StartupAssumption DEF DatabaseTurns, Meet, partVars, databaseVars, repairVars
<1>14. ASSUME FileChanges PROVE StartupTypeOK'
    BY <1>14, StartupAssumption DEF FileChanges, Meet, databaseVars, repairVars
<1>15. ASSUME StartupTicks PROVE StartupTypeOK'
    BY <1>15, StartupAssumption DEF StartupTicks, partVars, databaseVars, repairVars
<1>16. ASSUME NEW r \in OldRows, LockRow(r) PROVE StartupTypeOK'
    BY <1>16, StartupAssumption DEF LockRow, Meet, partVars, databaseVars
<1>17. ASSUME UNCHANGED startupVars PROVE StartupTypeOK'
    BY <1>17, StartupAssumption DEF startupVars, partVars, databaseVars, repairVars, outsideVars
<1> QED  BY <1>1, <1>2, <1>3, <1>4, <1>5, <1>6, <1>7, <1>8, <1>9, <1>10, <1>11, <1>12, <1>13, <1>14,
   <1>15, <1>16, <1>17 DEF StartupNext

\* A request for a decision leaves the requests and the log typed.
LEMMA AskKinds ==
    ASSUME ReviewTypeOK, ReviewTypes, NEW r \in Reviewers, NEW p \in Recurring,
           NEW kind \in Decisions, NEW hours \in Durations \cup {0}, AskToDecide(r, kind, p, hours)
    PROVE  ReviewTypeOK'
<1> DEFINE entry == [actor |-> r, role |-> roleOf[r], action |-> kind, target |-> p]
           asked == [at |-> "admitted", kind |-> kind, pattern |-> p, hours |-> hours]
<1>1. entry \in LogEntries
    BY DEF ReviewTypeOK, LogEntries
<1>2. adminLog' \in SUBSET LogEntries /\ unlogged' \in SUBSET LogEntries
    BY <1>1 DEF AskToDecide, Logged, ReviewTypeOK
<1>3. decisionsLeft' \in 0 .. MaxDecisions
    BY ReviewAssumption DEF AskToDecide, ReviewTypeOK
<1>4. deciding' = [deciding EXCEPT ![r] = asked]
    BY DEF AskToDecide
<1>5. \A s \in Reviewers : deciding'[s] = IF s = r THEN asked ELSE deciding[s]
    BY <1>4 DEF ReviewTypes
<1>6. asked.at = "admitted" /\ asked.pattern = p /\ asked.kind = kind /\ asked.hours = hours
    OBVIOUS
<1>7. \A s \in Reviewers : deciding'[s].at # "idle" =>
          /\ deciding'[s].at \in {"admitted", "loaded"} /\ deciding'[s].pattern \in Recurring
          /\ deciding'[s].kind \in Decisions /\ deciding'[s].hours \in Durations \cup {0}
          /\ deciding'[s].at = "loaded" => deciding'[s].row \in RowTypes
    <2> SUFFICES ASSUME NEW s \in Reviewers, deciding'[s].at # "idle"
                 PROVE  /\ deciding'[s].at \in {"admitted", "loaded"} /\ deciding'[s].pattern \in Recurring
                        /\ deciding'[s].kind \in Decisions /\ deciding'[s].hours \in Durations \cup {0}
                        /\ deciding'[s].at = "loaded" => deciding'[s].row \in RowTypes
        OBVIOUS
    <2> HIDE DEF asked
    <2> QED  BY <1>5, <1>6 DEF ReviewTypeOK
<1> QED
    BY <1>2, <1>3, <1>7 DEF ReviewTypeOK, AskToDecide

\* A step keeps the reviews typed.
LEMMA ReviewKinds ==
    ASSUME ReviewTypeOK, ReviewTypes, ReviewTypes', [ReviewNext]_reviewVars
    PROVE  ReviewTypeOK'
<1> USE DEF ReviewTypeOK, ReviewTypes
<1>1. ASSUME NEW p \in Recurring, Detected(p) PROVE ReviewTypeOK'
    BY <1>1, ReviewAssumption DEF Detected, NotFound, NoEnd
<1>2. ASSUME NEW r \in Reviewers, ListPatterns(r) PROVE ReviewTypeOK'
    BY <1>2, ReviewAssumption DEF ListPatterns, MayView, IsStale
<1>3. ASSUME NEW r \in Reviewers, LoadPattern(r) PROVE ReviewTypeOK'
    BY <1>3, ReviewAssumption DEF LoadPattern, NotFound, NoRequest, Signature, NoEnd
<1>4. ASSUME NEW r \in Reviewers, SuppressPattern(r) PROVE ReviewTypeOK'
    BY <1>4, ReviewAssumption DEF SuppressPattern, Commit, NoEnd, Written, NoRequest
<1>5. ASSUME NEW r \in Reviewers, MarkExpected(r) PROVE ReviewTypeOK'
    BY <1>5, ReviewAssumption DEF MarkExpected, Commit, NoEnd, Written, NoRequest
<1>6. ASSUME NEW r \in Reviewers, DecisionFails(r) PROVE ReviewTypeOK'
    BY <1>6, ReviewAssumption DEF DecisionFails, NoRequest
<1>7. ASSUME NEW r \in Reviewers, NEW p \in Recurring, NEW hours \in Durations, AskToDecide(r, "suppressed", p, hours) PROVE ReviewTypeOK'
    BY <1>7, AskKinds DEF Decisions
<1>8. ASSUME NEW r \in Reviewers, NEW p \in Recurring, AskToDecide(r, "expected", p, 0) PROVE ReviewTypeOK'
    BY <1>8, AskKinds, 0 \in Durations \cup {0} DEF Decisions
<1>9. ASSUME NEW r \in Reviewers, NEW role \in {"none", "responder"}, GrantRole(r, role) PROVE ReviewTypeOK'
    <2>1. grantsLeft' \in 0 .. MaxGrants
        BY <1>9, ReviewAssumption DEF GrantRole
    <2>2. roleOf' \in [Reviewers -> ReviewRoles]
        BY <1>9 DEF GrantRole, ReviewRoles
    <2> QED  BY <1>9, <2>1, <2>2 DEF GrantRole
<1>10. ASSUME HourGoesBy PROVE ReviewTypeOK'
    BY <1>10, ReviewAssumption DEF HourGoesBy
<1>11. ASSUME UNCHANGED reviewVars PROVE ReviewTypeOK'
    BY <1>11, ReviewAssumption DEF reviewVars
<1> QED  BY <1>1, <1>2, <1>3, <1>4, <1>5, <1>6, <1>7, <1>8, <1>9, <1>10, <1>11 DEF ReviewNext

\* The installer's files, answers and stages stay typed, through every run and death.
LEMMA InstallKeepsTypes == InstallSpec => []InstallTypeOK
<1>1. InstallInit => InstallInv /\ FinishedOpens /\ InstallTypeOK /\ Numbered
    <2> SUFFICES ASSUME InstallInit PROVE InstallInv /\ FinishedOpens /\ InstallTypeOK /\ Numbered
        OBVIOUS
    <2>1. InstallInv /\ FinishedOpens
        BY DEF InstallInit, InstallInv, AnswersKept, VolumeKept, FilesWritten, ApiOpensDatabase,
            TokensAgree, ValidatedFirst, FinishedOpens, Blank, WizardInputs, None, Prepared, NoCheckpoint
    <2>2. InstallTypeOK
        BY InstallerAssumption DEF InstallInit, InstallTypeOK, Blank, None, Prepared, NoCheckpoint, Phases
    <2>3. Numbered
        BY DEF InstallInit, Numbered, Blank, None, NoCheckpoint
    <2> QED  BY <2>1, <2>2, <2>3
<1>2. /\ InstallInv /\ InstallTypeOK /\ Numbered /\ [InstallNext]_installVars
         => (InstallInv /\ InstallTypeOK /\ Numbered)'
    <2> SUFFICES ASSUME InstallInv, InstallTypeOK, Numbered, [InstallNext]_installVars
                 PROVE  (InstallInv /\ InstallTypeOK /\ Numbered)'
        OBVIOUS
    <2>1. InstallInv'
        BY InstallStep
    <2>2. AnswersKept /\ AnswersKept'
        BY <2>1 DEF InstallInv
    <2> QED  BY <2>1, <2>2, InstallTypes
<1> QED  BY <1>1, <1>2, PTL DEF InstallSpec

\* The watcher of schemas stays typed.
LEMMA WatcherKeepsTypes == WatcherSpec => []WatcherTypeOK
<1>1. WatcherInit => WatcherTypeOK
    BY DEF WatcherInit, WatcherTypeOK
<1> QED  BY <1>1, WatcherTypes, PTL DEF WatcherSpec

\* The forwarder's start stays typed.
LEMMA StartupKeepsTypes == StartupSpec => []StartupTypeOK
<1>1. StartupInit => StartupTypeOK
    <2> SUFFICES ASSUME StartupInit PROVE StartupTypeOK
        OBVIOUS
    <2>1. rowName \in [DOMAIN rowName -> {"raw", "json", "prefixed"}]
        BY StartupAssumption DEF StartupInit
    <2>2. rowName \in [OldRows -> {"raw", "json", "prefixed", "named", "internal"}]
        BY <2>1 DEF OldRows
    <2>3. {destinations, inFile, watching, databaseUp, iamWarm} \subseteq BOOLEAN
        BY DEF StartupInit
    <2>4. /\ seconds \in 0 .. LastStartSecond /\ dbWriter \in 0 .. engines /\ engines \in Nat
          /\ {nextAttempt, failedInRow} \subseteq Nat /\ troublesMet \in 0 .. MaxTrouble
        BY StartupAssumption DEF StartupInit, NoWriter
    <2>5. /\ startStage = "config" /\ problems \subseteq Problems /\ hotStore \in {"off", "wanted", "open"}
          /\ opening \subseteq Callers /\ repair = "none"
          /\ rowLocked \subseteq OldRows /\ everLocked \subseteq OldRows
        BY DEF StartupInit
    <2> QED  BY <2>2, <2>3, <2>4, <2>5 DEF StartupTypeOK
<1> QED  BY <1>1, StartupTypes, PTL DEF StartupSpec

\* The reviews of patterns and their log stay typed.
LEMMA ReviewKeepsTypes == ReviewSpec => []ReviewTypeOK
<1>1. ReviewInit => ReviewInv /\ ReviewTypeOK
    <2> SUFFICES ASSUME ReviewInit PROVE ReviewInv /\ ReviewTypeOK
        OBVIOUS
    <2>1. ReviewInv
        BY ReviewAssumption DEF ReviewInit, ReviewInv, ReviewTypes, DecisionsStand, NotFound, NoRequest,
            RowTypes, Decisions, NoEnd
    <2>2. ReviewTypeOK
        BY <2>1, ReviewAssumption DEF ReviewInit, ReviewInv, ReviewTypes, ReviewTypeOK, NoRequest, ReviewRoles
    <2> QED  BY <2>1, <2>2
<1>2. ReviewInv /\ ReviewTypeOK /\ [ReviewNext]_reviewVars => (ReviewInv /\ ReviewTypeOK)'
    <2> SUFFICES ASSUME ReviewInv, ReviewTypeOK, [ReviewNext]_reviewVars
                 PROVE  (ReviewInv /\ ReviewTypeOK)'
        OBVIOUS
    <2>1. ReviewInv'
        BY ReviewStep
    <2>2. ReviewTypes /\ ReviewTypes'
        BY <2>1 DEF ReviewInv
    <2> QED  BY <2>1, <2>2, ReviewKinds
<1> QED  BY <1>1, <1>2, PTL DEF ReviewSpec

\* The topic router stays typed.
LEMMA RoutingKeepsTypes == RoutingSpec => []RoutingTypeOK
<1>1. RoutingInv => RoutingTypeOK
    BY DEF RoutingInv
<1> QED  BY <1>1, RoutingStarts, RoutingStep, PTL DEF RoutingSpec

\* What is registered is the schemas the registrars ship with, and the JSON schema.
SchemasThere == Range(SchemaOf) \cup {JsonSchema}

\* The registration's answers, beyond its invariant.
RegistryRest ==
    /\ registered \in [Subjects -> Seq(SchemasThere)]
    /\ tableflow \in {"off", "posted", "on"} /\ lookedUp \in BOOLEAN /\ refused \in BOOLEAN

\* Registering a schema leaves the subjects with schemas there are.
LEMMA RegisteredAreThere ==
    ASSUME RegistryRest, NEW s \in Subjects, NEW schema \in SchemasThere
    PROVE  Registered(s, schema) \in [Subjects -> Seq(SchemasThere)]
<1>1. Append(registered[s], schema) \in Seq(SchemasThere)
    BY DEF RegistryRest
<1> QED  BY <1>1 DEF Registered, RegistryRest

\* A step keeps the registration typed.
LEMMA RegistryTypesKeep ==
    ASSUME RegistryInv, RegistryRest, [RegistryNext]_registryVars
    PROVE  RegistryRest'
<1>1. CASE UNCHANGED registryVars
    BY <1>1 DEF registryVars, RegistryRest
<1>2. ASSUME NEW c \in Registrars,
             Inspect(c) \/ Register(c) \/ Reread(c) \/ SetCompatibility(c) \/ CallFails(c)
                \/ RegistrarDies(c)
      PROVE  RegistryRest'
    <2>1. subject[c] \in Subjects /\ SchemaOf[c] \in SchemasThere
        BY RegistryNumbers DEF RegistryInv, RegistryTypes, SchemasThere, Range
    <2>2. /\ registered' = registered \/ registered' = Registered(subject[c], SchemaOf[c])
          /\ UNCHANGED <<tableflow, lookedUp, refused>>
        BY <1>2 DEF Inspect, Register, Reread, SetCompatibility, CallFails, RegistrarDies, topicVars
    <2> QED  BY <2>1, <2>2, RegisteredAreThere DEF RegistryRest
<1>3. CASE PostForTableflow
    <2>1. "enriched" \in Subjects /\ JsonSchema \in SchemasThere
        BY DEF Subjects, SchemasThere
    <2>2. /\ registered' = registered \/ registered' = Registered("enriched", JsonSchema)
          /\ tableflow' = "posted" /\ UNCHANGED <<lookedUp, refused>>
        BY <1>3 DEF PostForTableflow
    <2> QED  BY <2>1, <2>2, RegisteredAreThere DEF RegistryRest
<1>4. CASE EnableTableflow \/ DisableTableflow \/ Serialize
    BY <1>4 DEF EnableTableflow, DisableTableflow, Serialize, RegistryRest
<1> QED  BY <1>1, <1>2, <1>3, <1>4 DEF RegistryNext

\* The registration of schemas stays typed.
LEMMA RegistryKeepsTypes == RegistrySpec => []RegistryTypeOK
<1>1. RegistryInit => RegistryInv /\ RegistryRest
    <2> SUFFICES ASSUME RegistryInit PROVE RegistryInv /\ RegistryRest
        OBVIOUS
    <2>1. RegistryInv
        BY DEF RegistryInit, RegistryInv, RegistryTypes, Truthful, Reached, Subjects
    <2>2. registered \in [Subjects -> Seq(SchemasThere)]
        BY DEF RegistryInit
    <2>3. tableflow \in {"off", "posted", "on"} /\ lookedUp \in BOOLEAN /\ refused \in BOOLEAN
        BY DEF RegistryInit
    <2> QED  BY <2>1, <2>2, <2>3 DEF RegistryRest
<1>2. RegistryInv /\ RegistryRest => RegistryTypeOK
    <2> SUFFICES ASSUME RegistryInv, RegistryRest PROVE RegistryTypeOK
        OBVIOUS
    <2>1. lookedUp \in BOOLEAN /\ refused \in BOOLEAN
        BY DEF RegistryRest
    <2>2. Reached \cup {"nothing", "error"} = {"nothing", "skipped", "registered", "updated", "error"}
        BY DEF Reached
    <2>3. /\ registered \in [Subjects -> Seq(Range(SchemaOf) \cup {JsonSchema})]
          /\ tableflow \in {"off", "posted", "on"}
        BY DEF RegistryRest, SchemasThere
    <2> QED  BY <2>1, <2>2, <2>3 DEF RegistryInv, RegistryTypes, RegistryTypeOK
<1> QED  BY <1>1, <1>2, RegistryStep, RegistryTypesKeep, PTL DEF RegistrySpec
=============================================================================
