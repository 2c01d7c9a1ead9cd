-------------------------------- MODULE Doctor --------------------------------
(***************************************************************************)
(* `infractl doctor` judges what a scan depends on, and a scan loads it:   *)
(* cli/doctor.go, the first half of runDriftScan in cli/drift.go, and      *)
(* loadConfig, which runs before either. Captures may rewrite live.json    *)
(* meanwhile; the other inputs stay as they are.                           *)
(***************************************************************************)
EXTENDS LiveSnapshot

CONSTANTS
    Worlds,     \* [terraform, config, rules, state, given, noIgnore]: the inputs,
                \* and whether the scan is told to ignore the rules
    WarnAge,    \* when a snapshot is old,
    FailAge     \* and when it is too old

ASSUME DoctorAssumption == {"doctor", "scan"} \subseteq Readers /\ Nil \notin Nat

ASSUME WorldsAssumption ==
    Worlds \subseteq [terraform : BOOLEAN, config : {"none", "good", "broken", "no profile", "misfit"},
                      rules : {"none", "good", "expired", "invalid"},
                      state : {"none", "directory", "broken", "empty", "good"},
                      given : SUBSET {"state", "live"}, noIgnore : BOOLEAN]

VARIABLES
    world,
    checks,     \* check |-> pass, warn, fail or skip
    doctorExit,
    scanExit,   \* 0 once the inputs are loaded
    verdict     \* history: live.json is as it was when the doctor began

doctorVars == <<snapshotVars, world, checks, doctorExit, scanExit, verdict>>

DoctorInit ==
    /\ SnapshotInit
    /\ world \in Worlds
    /\ checks = Nil
    /\ doctorExit = Nil /\ scanExit = Nil
    /\ verdict = FALSE

\* PersistentPreRunE: a config file that does not parse, or without the profile
\* asked for, ends every command; so does a value that does not fit a flag of the
\* command, and the doctor has none of the flags of a scan it could not fit.
ConfigLoads(command) ==
    /\ world.config \notin {"broken", "no profile"}
    /\ command = "scan" => world.config # "misfit"

CheckTerraformBinary == IF world.terraform THEN "pass" ELSE "warn"

\* It finds no fault that has not ended the command before.
CheckConfigFile == IF world.config = "none" THEN "skip" ELSE "pass"

CheckIgnoreFile ==
    CASE world.rules = "none"    -> "skip"
      [] world.rules = "invalid" -> "fail"
      [] world.rules = "expired" -> "warn"
      [] OTHER                   -> "pass"

\* A path is given by a flag or by the config file.
CheckStateFile ==
    CASE world.state = "none"                      -> IF "state" \in world.given THEN "fail" ELSE "skip"
      [] world.state \in {"directory", "broken"}   -> "fail"
      [] world.state = "empty"                     -> "warn"
      [] OTHER                                     -> "pass"

EarlyChecks ==
    [terraform |-> CheckTerraformBinary, config |-> CheckConfigFile,
     rules |-> CheckIgnoreFile, state |-> CheckStateFile]

Open(r) == reader' = [reader EXCEPT ![r].phase = "opening"]

\* Every check up to the live snapshot, which is looked for in the working
\* directory when it is not given.
RunDoctor ==
    /\ reader["doctor"].phase = "idle"
    /\ IF ConfigLoads("doctor")
       THEN /\ checks' = EarlyChecks
            /\ Open("doctor")
            /\ verdict' = TRUE
            /\ UNCHANGED doctorExit
       ELSE /\ doctorExit' = 4
            /\ reader' = [reader EXCEPT !["doctor"].phase = "over"]
            /\ UNCHANGED <<checks, verdict>>
    /\ UNCHANGED <<liveFile, capture, temps, clock, before, disturbed, world, scanExit>>

\* Faulty variant: that the file is there is enough.
PresenceCheck(found, snapshot) ==
    [live |-> IF found THEN "pass" ELSE IF "live" \in world.given THEN "fail" ELSE "skip",
     age |-> "pass"]

\* checkLiveSnapshot. The age cannot be judged without a date, or with one that
\* is in the future.
CheckLiveSnapshot(found, snapshot) ==
    [live |-> IF ~found THEN IF "live" \in world.given THEN "fail" ELSE "skip"
              ELSE IF snapshot = Nil THEN "fail" ELSE "pass",
     age |-> IF snapshot = Nil THEN "skip"
             ELSE IF snapshot.at = Nil \/ snapshot.at > clock THEN "warn"
             ELSE IF clock - snapshot.at > FailAge THEN "fail"
             ELSE IF clock - snapshot.at > WarnAge THEN "warn"
             ELSE "pass"]

AllChecks(late) ==
    [terraform |-> checks.terraform, config |-> checks.config, rules |-> checks.rules,
     state |-> checks.state, live |-> late.live, age |-> late.age]

\* A check that fails is exit code 4.
FinishDoctor ==
    /\ reader["doctor"].phase \in {"absent", "read"}
    /\ reader' = [reader EXCEPT !["doctor"].phase = "over"]
    /\ LET all == AllChecks(CheckLiveSnapshot(reader["doctor"].phase = "read", reader["doctor"].loaded))
       IN  /\ checks' = all
           /\ doctorExit' = IF \E k \in DOMAIN all : all[k] = "fail" THEN 4 ELSE 0
    /\ UNCHANGED <<liveFile, capture, temps, clock, before, disturbed, world, scanExit, verdict>>

\* A scan needs both paths, from a flag or the config file, and both files; then
\* the state must parse.
RunScan ==
    /\ reader["scan"].phase = "idle" /\ reader["doctor"].phase = "over"
    /\ \/ /\ ~ConfigLoads("scan")
          /\ scanExit' = 4
       \/ /\ ConfigLoads("scan")
          /\ \/ world.given # {"state", "live"}
             \/ world.state \in {"none", "directory"}
             \/ liveFile = Nil
          /\ scanExit' = 2
       \/ /\ ConfigLoads("scan") /\ world.given = {"state", "live"} /\ liveFile # Nil
          /\ world.state = "broken"
          /\ scanExit' = 1
       \/ /\ ConfigLoads("scan") /\ world.given = {"state", "live"} /\ liveFile # Nil
          /\ world.state \in {"empty", "good"}
          /\ UNCHANGED scanExit
    /\ IF scanExit' = Nil THEN Open("scan")
       ELSE reader' = [reader EXCEPT !["scan"].phase = "over"]
    /\ UNCHANGED <<liveFile, capture, temps, clock, before, disturbed, world, checks, doctorExit, verdict>>

\* The snapshot, then the ignore rules, unless --no-ignore says not to.
LoadInputs ==
    /\ reader["scan"].phase = "read"
    /\ reader' = [reader EXCEPT !["scan"].phase = "over"]
    /\ scanExit' = IF reader["scan"].loaded = Nil THEN 1
                   ELSE IF world.rules = "invalid" /\ ~world.noIgnore THEN 2 ELSE 0
    /\ UNCHANGED <<liveFile, capture, temps, clock, before, disturbed, world, checks, doctorExit, verdict>>

\* The steps of LiveSnapshot. A capture that runs Terraform finds it on the path
\* or by INFRACTL_TERRAFORM_BINARY, which the doctor does not look at.
Capturing ==
    /\ \E c \in Capturers :
          \/ StartCapture(c) \/ GeneratePlan(c) \/ Extract(c) \/ CaptureFails(c)
          \/ OpenSnapshot(c) \/ WriteSnapshot(c) \/ WriteCutShort(c) \/ Kill(c)
    /\ verdict' = (verdict /\ liveFile' = liveFile)
    /\ UNCHANGED <<world, checks, doctorExit, scanExit>>

Reading ==
    /\ Tick \/ \E r \in Readers : ReadHead(r) \/ ReadTail(r)
    /\ UNCHANGED <<world, checks, doctorExit, scanExit, verdict>>

DoctorNext == RunDoctor \/ FinishDoctor \/ RunScan \/ LoadInputs \/ Capturing \/ Reading

DoctorSpec == DoctorInit /\ [][DoctorNext]_doctorVars

-----------------------------------------------------------------------------
(* Properties *)

\* "A failing check means a scan would not work" (cli/doctor.go:102), except that
\* a snapshot is only old, and "Check everything a scan depends on"
\* (cli/doctor.go:61): with both inputs given, no capture in the way and none
\* since the doctor began, a scan fails after a failing check, unless it is told to
\* ignore the rules that are at fault, and after a verdict of no failure it loads its
\* inputs, unless a config value misfits one of its flags.
VerdictHolds ==
    /\ scanExit # Nil /\ verdict /\ disturbed = {}
    /\ world.given = {"state", "live"} /\ world.config # "misfit"
    => /\ doctorExit = 0 => scanExit = 0
       /\ (\E k \in DOMAIN checks \ {"age"} : checks[k] = "fail" /\ ~(k = "rules" /\ world.noIgnore))
             => scanExit # 0
=============================================================================
