------------------------------ MODULE Installer ------------------------------
(***************************************************************************)
(* The guided installer (scripts/bootstrap_auditlens.py with               *)
(* src/product/bootstrap.py) and the repair that `make repair` runs        *)
(* (setup --ensure-secrets-only): six phases that each save a checkpoint,  *)
(* the rewriting of .env and of the token files, the Docker secret and the *)
(* start of the containers.  The process may die between any two steps,    *)
(* any validation may fail, and the operator may run it again, resumed,    *)
(* afresh or from a config file.                                           *)
(*                                                                         *)
(* A password or token is the number of its generation; None stands for a  *)
(* file that is absent or has no such value.                               *)
(***************************************************************************)
EXTENDS Naturals, FiniteSets

CONSTANTS
    Topics,       \* the canonical topics of the destination
    InstallRuns,      \* bound: runs of the wizard or of the repair
    InstallDeaths     \* bound: times it is killed

ASSUME InstallerAssumption == {InstallRuns, InstallDeaths} \subseteq Nat

VARIABLES
    checkpoint,   \* the phases that are done and the inputs, or NoCheckpoint
    envFile, secretFile, tokenFile, adminFile,
    backups,      \* values in files renamed to *.backup.<time>
    volume,       \* the password the Postgres volume was initialised with
    topics,       \* topics that exist
    containers,   \* what the running containers were started with, or Down
    stage, phase, inputs, tokenJson,    \* the wizard
    upgraded,     \* ghost: the volume is older than the secret file, and no repair
                  \* has yet copied its password from .env
    runs, deaths, generated

filesVars == <<envFile, secretFile, tokenFile, adminFile, backups>>
wizardVars == <<stage, phase, inputs, tokenJson>>
installVars == <<checkpoint, filesVars, volume, topics, containers, wizardVars,
                 upgraded, runs, deaths, generated>>

None == 0
Prepared == 1                       \* the token of a file the operator wrote
NoCheckpoint == [phases |-> 0]
Down == [password |-> None]
Phases == 6
ProductPhase == 4

Blank == [password |-> None, mode |-> "disabled", token |-> None, create |-> TRUE]

InstallTypeOK ==
    /\ checkpoint.phases \in 0 .. Phases
    /\ {envFile, secretFile, tokenFile, adminFile, volume, tokenJson} \cup backups
         \subseteq 0 .. generated
    /\ topics \subseteq Topics
    /\ phase \in 0 .. Phases
    /\ inputs.mode \in {"disabled", "generate", "existing"}
    /\ upgraded \in BOOLEAN
    /\ runs \in 0 .. InstallRuns /\ deaths \in 0 .. InstallDeaths

\* A new host, one whose operator prepared a token file, or one that was
\* installed when the password was only in .env.
InstallInit ==
    /\ checkpoint = NoCheckpoint
    /\ upgraded \in BOOLEAN
    /\ envFile = IF upgraded THEN 2 ELSE None
    /\ volume = envFile
    /\ secretFile = None
    /\ tokenFile \in {None, Prepared}
    /\ adminFile = None
    /\ backups = {}
    /\ topics = {}
    /\ containers = Down
    /\ stage = "off" /\ phase = 0 /\ inputs = Blank /\ tokenJson = None
    /\ runs = 0 /\ deaths = 0
    /\ generated = 2

-----------------------------------------------------------------------------
(* Starting *)

\* No checkpoint, or the operator clears it; a password is made at once.
StartFresh ==
    /\ stage = "off"
    /\ runs < InstallRuns
    /\ checkpoint' = NoCheckpoint
    /\ generated' = generated + 1
    /\ inputs' = [Blank EXCEPT !.password = generated']
    /\ phase' = 0
    /\ tokenJson' = None
    /\ stage' = "phases"
    /\ runs' = runs + 1
    /\ UNCHANGED <<filesVars, volume, topics, containers, upgraded, deaths>>

\* What is rebuilt of the token records: those of a generated token only.
Reconstructed(saved) ==
    IF saved.mode = "generate" THEN saved.token ELSE None

\* The operator accepts to resume; the phases done are skipped.
Resume ==
    /\ stage = "off"
    /\ runs < InstallRuns
    /\ checkpoint # NoCheckpoint
    /\ inputs' = checkpoint.inputs
    /\ phase' = checkpoint.phases
    /\ tokenJson' = IF phase' > ProductPhase THEN Reconstructed(inputs') ELSE None
    /\ stage' = "phases"
    /\ runs' = runs + 1
    /\ UNCHANGED <<checkpoint, filesVars, volume, topics, containers, upgraded,
                   deaths, generated>>

\* The token a run works with: none, a new one, or the first of a token file,
\* the one in place or one the operator keeps elsewhere.
TokenChoices ==
    {[mode |-> "disabled", token |-> None], [mode |-> "generate", token |-> generated + 1],
     [mode |-> "existing", token |-> Prepared]}
      \cup (IF tokenFile = None THEN {} ELSE {[mode |-> "existing", token |-> tokenFile]})

ChooseToken(choice, password) ==
    /\ inputs' = [inputs EXCEPT !.mode = choice.mode, !.token = choice.token,
                                !.password = password]
    /\ tokenJson' = choice.token

\* _prompt_for_missing_from_config: no phases and no checkpoint.
StartFromConfig ==
    /\ stage = "off"
    /\ runs < InstallRuns
    /\ \E choice \in TokenChoices, create \in BOOLEAN :
          /\ inputs' = [password |-> generated + 2, mode |-> choice.mode,
                        token |-> choice.token, create |-> create]
          /\ tokenJson' = choice.token
    /\ generated' = generated + 2
    /\ phase' = Phases
    /\ stage' = "phases"
    /\ runs' = runs + 1
    /\ UNCHANGED <<checkpoint, filesVars, volume, topics, containers, upgraded, deaths>>

-----------------------------------------------------------------------------
(* The phases *)

\* save_checkpoint after a phase; a kill while it writes leaves a file that
\* load_checkpoint does not accept.
Save(p) ==
    /\ phase' = p + 1
    /\ checkpoint' = [phases |-> p + 1, inputs |-> inputs']

Stop == /\ stage' = "off"
        /\ UNCHANGED <<checkpoint, filesVars, volume, containers, phase, inputs,
                       tokenJson, upgraded, runs, deaths, generated>>

\* check_local_prerequisites (0), validate_source_access (1), Schema Registry
\* (3), persistence (5): they pass or the run ends.
PlainPhase(p) ==
    /\ stage = "phases" /\ phase = p
    /\ inputs' = inputs
    /\ Save(p)
    /\ UNCHANGED <<filesVars, volume, topics, containers, stage, tokenJson, upgraded,
                   runs, deaths, generated>>

LocalPrerequisites == PlainPhase(0)
SourceCluster == PlainPhase(1)
SchemaRegistry == PlainPhase(3)
Persistence == PlainPhase(5)

\* validate_destination_and_topics: topics are created one by one, and a failure
\* leaves those created before it.
TopicsAfter(create) ==
    IF create THEN {T \in SUBSET Topics : topics \subseteq T} ELSE {topics}

DestinationCluster ==
    /\ stage = "phases" /\ phase = 2
    /\ \E create \in BOOLEAN :
          /\ topics' \in TopicsAfter(create)
          /\ \/ /\ topics' = Topics
                /\ inputs' = [inputs EXCEPT !.create = create]
                /\ Save(2)
                /\ UNCHANGED <<filesVars, volume, containers, stage, tokenJson, upgraded,
                               runs, deaths, generated>>
             \/ topics' # Topics /\ Stop

ProductSettings ==
    /\ stage = "phases" /\ phase = ProductPhase
    /\ \E choice \in TokenChoices :
          /\ ChooseToken(choice, inputs.password)
          /\ generated' = IF choice.mode = "generate" THEN generated + 1 ELSE generated
    /\ Save(ProductPhase)
    /\ UNCHANGED <<filesVars, volume, topics, containers, stage, upgraded, runs, deaths>>

\* A phase's validation raises, or the operator gives an answer it refuses.
PhaseRefused ==
    /\ stage = "phases"
    /\ UNCHANGED topics
    /\ Stop

\* main: everything is validated again, and the operator reviews the inputs.
ValidateAgain ==
    /\ stage = "phases" /\ phase = Phases
    /\ topics' \in TopicsAfter(inputs.create)
    /\ \/ /\ topics' = Topics
          /\ stage' = "moveEnv"
          /\ UNCHANGED <<checkpoint, filesVars, volume, containers, phase, inputs,
                         tokenJson, upgraded, runs, deaths, generated>>
       \/ topics' # Topics /\ Stop

-----------------------------------------------------------------------------
(* Writing the configuration *)

Advance(s, t) == stage = s /\ stage' = t

Keep == UNCHANGED <<checkpoint, volume, topics, containers, phase, inputs, tokenJson,
                    upgraded, runs, deaths, generated>>

MovedAside(value) == backups' = backups \cup ({value} \ {None})

\* backup_file_if_exists, for one file after the other.
MoveEnv ==
    /\ Advance("moveEnv", "moveToken")
    /\ MovedAside(envFile)
    /\ envFile' = None
    /\ UNCHANGED <<secretFile, tokenFile, adminFile>>
    /\ Keep

MoveToken ==
    /\ Advance("moveToken", "moveAdmin")
    /\ MovedAside(tokenFile)
    /\ tokenFile' = None
    /\ UNCHANGED <<envFile, secretFile, adminFile>>
    /\ Keep

MoveAdmin ==
    /\ Advance("moveAdmin", "writeEnv")
    /\ MovedAside(adminFile)
    /\ adminFile' = None
    /\ UNCHANGED <<envFile, secretFile, tokenFile>>
    /\ Keep

\* render_env_file: the secret file's password if there is one.
WriteEnv ==
    /\ Advance("writeEnv", "writeToken")
    /\ envFile' = IF secretFile # None THEN secretFile ELSE inputs.password
    /\ UNCHANGED <<secretFile, tokenFile, adminFile, backups>>
    /\ Keep

WriteToken ==
    /\ Advance("writeToken", "writeAdmin")
    /\ tokenFile' = IF tokenJson # None THEN tokenJson ELSE tokenFile
    /\ UNCHANGED <<envFile, secretFile, adminFile, backups>>
    /\ Keep

WriteAdmin ==
    /\ Advance("writeAdmin", "tokenCheck")
    /\ adminFile' = IF inputs.token # None THEN inputs.token ELSE adminFile
    /\ UNCHANGED <<envFile, secretFile, tokenFile, backups>>
    /\ Keep

\* With authentication on, no start without a token file.
TokenCheck ==
    /\ stage = "tokenCheck"
    /\ stage' = IF inputs.mode # "disabled" /\ tokenFile = None THEN "off" ELSE "secret"
    /\ UNCHANGED filesVars
    /\ Keep

\* Mutated: nobody looks for the password in .env.
PasswordToKeep_OfSecret == secretFile

PasswordToKeep == IF secretFile # None THEN secretFile ELSE envFile

\* _ensure_secret_file: kept if there is one, else the password of .env; a
\* write that fails is a warning.
EnsureSecretFile ==
    /\ Advance("secret", "compose")
    /\ secretFile' \in {secretFile, PasswordToKeep}
    /\ UNCHANGED <<envFile, tokenFile, adminFile, backups>>
    /\ Keep

-----------------------------------------------------------------------------
(* Starting the containers *)

\* docker compose up: initdb reads the secret on a new volume, the API its
\* password from .env and its tokens from the token file.
InitDb == volume' = IF volume = None THEN secretFile' ELSE volume

Up(mode) ==
    /\ InitDb
    /\ containers' = [password |-> envFile', mode |-> mode,
                      token |-> tokenFile, admin |-> adminFile]

DeployDocker ==
    /\ stage = "compose"
    /\ UNCHANGED <<checkpoint, filesVars, topics, phase, inputs, tokenJson, upgraded,
                   runs, deaths, generated>>
    /\ \/ /\ secretFile # None
          /\ stage' = "runtime"
          /\ Up(inputs.mode)
       \/ /\ secretFile # None
          /\ stage' = "off"
          /\ InitDb
          /\ containers' = Down
       \/ /\ stage' = "off"
          /\ UNCHANGED <<volume, containers>>

\* _check_auth_configuration asks /events, which answers 503 as long as the API cannot open the
\* database. A refused token, or one that should have been, is warned of and no more.
DatabaseOpens == containers # Down /\ containers.password = volume

\* _validate_runtime_with_progress: a service that does not answer ends the run.
ValidateRuntime ==
    /\ stage = "runtime"
    /\ stage' \in (IF DatabaseOpens THEN {"flow", "off"} ELSE {"off"})
    /\ UNCHANGED filesVars
    /\ Keep

\* validate_flow, delete_checkpoint.
FinishInstall ==
    /\ Advance("flow", "off")
    /\ checkpoint' = NoCheckpoint
    /\ UNCHANGED <<filesVars, volume, topics, containers, phase, inputs, tokenJson,
                   upgraded, runs, deaths, generated>>

InstallKilled ==
    /\ stage # "off"
    /\ deaths < InstallDeaths
    /\ deaths' = deaths + 1
    /\ stage' = "off"
    /\ checkpoint' \in {checkpoint} \cup (IF stage = "phases" THEN {NoCheckpoint} ELSE {})
    /\ UNCHANGED <<filesVars, volume, topics, containers, phase, inputs, tokenJson,
                   upgraded, runs, generated>>

\* ensure_secrets_only, then compose up.
Repair ==
    /\ stage = "off"
    /\ runs < InstallRuns
    /\ runs' = runs + 1
    /\ generated' = generated + 1
    /\ secretFile' = IF PasswordToKeep # None THEN PasswordToKeep ELSE generated'
    /\ envFile' = secretFile'
    /\ Up("disabled")
    /\ upgraded' = (upgraded /\ ~(secretFile = None /\ envFile = volume))
    /\ UNCHANGED <<checkpoint, tokenFile, adminFile, backups, topics, wizardVars, deaths>>

InstallNext ==
    \/ StartFresh \/ Resume \/ StartFromConfig
    \/ LocalPrerequisites \/ SourceCluster \/ DestinationCluster \/ SchemaRegistry
    \/ ProductSettings \/ Persistence \/ PhaseRefused \/ ValidateAgain
    \/ MoveEnv \/ MoveToken \/ MoveAdmin \/ WriteEnv \/ WriteToken \/ WriteAdmin
    \/ TokenCheck \/ EnsureSecretFile \/ DeployDocker \/ ValidateRuntime \/ FinishInstall
    \/ InstallKilled \/ Repair

InstallSpec == InstallInit /\ [][InstallNext]_installVars

-----------------------------------------------------------------------------
(* Properties *)

\* What the API was started with opens the database, however often the wizard was
\* killed, resumed, begun afresh or followed by a repair.  A host whose volume is
\* older than its secret file is exempt until a repair has copied the password:
\* the wizard moves its .env aside before it looks for the password there.
ApiOpensDatabase ==
    containers # Down /\ ~upgraded => containers.password = volume

\* The password of the volume is in a file or a backup on every host.
PasswordKept ==
    volume # None => volume \in {envFile, secretFile} \cup backups

\* Containers started by a run that chose API authentication find a token file with
\* the token that the run shows to the operator.  (The .env it writes says
\* API_AUTH_ENABLED=false: the operator turns the check on afterwards.)
TokensAgree ==
    containers # Down =>
        (containers.mode # "disabled" =>
            containers.token # None /\ containers.token = containers.admin)

\* No file is touched while a topic is missing.
ValidatedFirst == stage \notin {"off", "phases"} => topics = Topics

\* A run that goes on to its last check has an API that opens the database, on an upgraded host
\* as on a new one.
FinishedOpens == stage = "flow" => DatabaseOpens

\* An installation is consistent whenever it runs, and never loses the key to its
\* data (write_local_config, render_env_file, _ensure_secret_file).
InstallConsistent ==
    ApiOpensDatabase /\ PasswordKept /\ TokensAgree /\ ValidatedFirst /\ FinishedOpens
=============================================================================
