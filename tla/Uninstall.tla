----------------------------- MODULE Uninstall -----------------------------
(***************************************************************************)
(* macos/uninstall_m1005.sh, run as root from uninstallCompletely of the   *)
(* setup application, against the service of SetupService and whatever     *)
(* else the application leaves on the machine.  The script stops at the    *)
(* first command that fails (set -e) and may be run again; what it passes  *)
(* over, because the command that looks for it failed, it does not report. *)
(*                                                                         *)
(* The application stays up until the script has ended, so its buttons     *)
(* still work: Helper is the copy the script starts to unregister the      *)
(* service, the other workers are the application's own.                   *)
(*                                                                         *)
(* Abstracted: the many files of settings, logs and reports are `data`;    *)
(* the copies of the application under one kind of name are one.  Only one *)
(* process at a time can listen: the service waits for a stray one to end. *)
(***************************************************************************)
EXTENDS SetupService

CONSTANTS
  Helper,  \* the process that the script starts
  Copies   \* the kinds of copies of the application that may be installed

\* remove_app_if_expected looks in the Applications folders only: there a copy
\* can have a versioned name, one of the four fixed ones, or another.
Known == {"versioned", "renamed", "fixed"}

ASSUME UninstallAssumption ==
  /\ Helper \in Workers
  /\ Copies \subseteq Known \cup {"elsewhere"}

VARIABLES
  script,   \* the step the script is at, or "none", "done", "failed"
  data,     \* files of the service or the application exist
  receipt,  \* the installer's receipt exists
  app,      \* the copy of the application that runs
  apps,     \* the copies that are installed
  stray,    \* a service process that is not launchd's holds the port
  skipped,  \* history: what this run of the script passed over
  calm,     \* history: nobody used the application since the run began
  late      \* history: a process wrote files after it was told to end

mess == <<data, receipt, app, apps, stray>>
uvars == <<vars, script, mess, skipped, calm, late>>

AppSteps == {"versions", "current", "names"}
Steps == {"prepare", "bootout", "queue", "kill", "data", "receipt"}
           \cup AppSteps

UInit ==
  /\ Init
  /\ script = "none"
  /\ data \in BOOLEAN
  /\ receipt \in BOOLEAN
  /\ apps \in SUBSET Copies
  /\ app \in apps
  /\ stray \in {"none", "running"}
  /\ skipped = {}
  /\ calm = TRUE
  /\ late = FALSE

Reach(step) == script' = step
Running == script \in Steps

\* The command that looks for `thing` fails, which reads as `not there`.
PassOver(thing) == skipped' = skipped \cup {thing}

-----------------------------------------------------------------------------
(* The script                                                              *)

\* Whoever is under way then has not finished using the application.  The
\* helper may fail to start.
BeginScript ==
  /\ script \in {"none", "failed"}
  /\ app \in apps
  /\ \/ BeginPrepare(Helper) /\ Reach("prepare")
     \/ UNCHANGED vars /\ Reach("failed")
  /\ calm' = (\A w \in Workers \ {Helper} : at[w] = "idle")
  /\ late' = FALSE
  /\ skipped' = {}
  /\ UNCHANGED mess

\* --prepare-uninstall fails when it cannot unregister the service.
Prepare ==
  /\ script = "prepare"
  /\ Step(Helper)
  /\ Reach(IF at'[Helper] # "idle" THEN "prepare"
           ELSE IF at[Helper] = "leave" THEN "bootout" ELSE "failed")
  /\ UNCHANGED <<mess, skipped, calm, late>>

\* Errors of launchctl are ignored: there may be no such job.
Bootout ==
  /\ script = "bootout"
  /\ (job /\ Unload) \/ UNCHANGED <<job, process>>
  /\ Reach("queue")
  /\ UNCHANGED <<marker, reg, queue, disturbances, at, history, mess, skipped,
                 calm, late>>

\* Mutant: an error of lpadmin is ignored, like those of launchctl.
RemoveQueueQuietly ==
  /\ script = "queue"
  /\ queue' \in {queue, FALSE}
  /\ Reach("kill")
  /\ UNCHANGED <<marker, system, disturbances, at, history, mess, skipped, calm,
                 late>>

\* lpadmin may refuse to delete the queue that lpstat found.
RemoveQueue ==
  /\ script = "queue"
  /\ \/ queue' = FALSE /\ Reach("kill") /\ UNCHANGED skipped
     \/ queue /\ UNCHANGED queue /\ Reach("kill") /\ PassOver("queue")
     \/ queue /\ UNCHANGED <<queue, skipped>> /\ Reach("failed")
  /\ UNCHANGED <<marker, system, disturbances, at, history, mess, calm, late>>

\* Mutant: a stray process is left alone.
LeaveStray ==
  /\ script = "kill"
  /\ Reach("data")
  /\ UNCHANGED <<vars, mess, skipped, calm, late>>

\* SIGTERM, to whatever process of the service listens, and a second's sleep:
\* the process may take longer.  lsof, ps or kill may fail.
KillStray ==
  /\ script = "kill"
  /\ \/ /\ stray' = IF stray = "running" THEN "ending" ELSE stray
        /\ terminating' = (terminating \/ Ready)
        /\ UNCHANGED skipped
     \/ stray = "running" /\ PassOver("stray") /\ UNCHANGED <<stray, terminating>>
     \/ stray # "running" /\ UNCHANGED <<stray, terminating, skipped>>
  /\ Reach("data")
  /\ UNCHANGED <<marker, reg, job, proc, sneaked, queue, disturbances, at,
                 history, data, receipt, app, apps, calm, late>>

\* Mutant: the application goes together with its data.
RemoveDataAndApp ==
  /\ script = "data"
  /\ data' = FALSE
  /\ apps' = apps \ ({app} \cap Known)
  /\ Reach("versions")
  /\ UNCHANGED <<vars, receipt, app, stray, skipped, calm, late>>

RemoveData ==
  /\ script = "data"
  /\ \/ data' = FALSE /\ Reach("versions")
     \/ data /\ UNCHANGED data /\ Reach("failed")
  /\ UNCHANGED <<vars, receipt, app, apps, stray, skipped, calm, late>>

\* What remove_app_if_expected is called for, step by step; it returns 0 for
\* the application it was started from when that is elsewhere.
Expected == CASE script = "versions" -> {"versioned"} \cap apps
              [] script = "current" -> {app} \cap apps \cap Known
              [] script = "names" -> {"fixed"} \cap apps

\* A copy is passed over when plutil fails or finds another identifier.
RemoveApps ==
  /\ script \in AppSteps
  /\ LET next == CASE script = "versions" -> "current"
                   [] script = "current" -> "names"
                   [] script = "names" -> "receipt"
     IN \/ apps' = apps \ Expected /\ Reach(next) /\ UNCHANGED skipped
        \/ \E a \in Expected : PassOver(a) /\ Reach(next) /\ UNCHANGED apps
        \/ Expected # {} /\ Reach("failed") /\ UNCHANGED <<apps, skipped>>
  /\ UNCHANGED <<vars, data, receipt, app, stray, calm, late>>

ForgetReceipt ==
  /\ script = "receipt"
  /\ \/ receipt' = FALSE /\ Reach("done") /\ UNCHANGED skipped
     \/ receipt /\ UNCHANGED receipt /\ Reach("done") /\ PassOver("receipt")
     \/ receipt /\ UNCHANGED <<receipt, skipped>> /\ Reach("failed")
  /\ UNCHANGED <<vars, data, app, apps, stray, calm, late>>

Script ==
  \/ BeginScript \/ Prepare \/ Bootout \/ RemoveQueue \/ KillStray
  \/ RemoveData \/ RemoveApps \/ ForgetReceipt

-----------------------------------------------------------------------------
(* The rest of the machine                                                 *)

\* What may write to the application's directories: startService and
\* setStoppedByUser make them first, a service process makes them before it
\* looks at the marker and saves its state at the end, the menu stop leaves the
\* marker.
Writes ==
  \/ \E w \in Workers \ {Helper} :
       LookForMarker(w) \/ StartLooks(w) \/ WriteMarker(w)
  \/ CheckMarker \/ ShutsDown

MenuUsed == \E marked \in BOOLEAN : MenuStop(marked)

RestOfService ==
  \/ \E w \in Workers \ {Helper} : Begin(w) \/ Step(w)
  \/ stray = "none" /\ Listen
  \/ Crash \/ Lose \/ Approve
  \/ ~Running /\ Login

\* launchd cannot launch what is no longer there.
Service ==
  /\ \/ (Writes \/ MenuUsed) /\ data' \in {TRUE, data}
     \/ RestOfService /\ UNCHANGED data
  /\ proc' = "check" => apps # {} \/ proc = "check"
  /\ calm' = (calm /\ UNCHANGED at /\ ~MenuUsed)
  /\ late' = (late \/ (data' /\ ~data /\ terminating))
  /\ UNCHANGED <<script, receipt, app, apps, stray, skipped>>

StrayEnds ==
  /\ stray = "ending"
  /\ stray' = "none"
  /\ data' \in {TRUE, data}
  /\ late' = (late \/ (data' /\ ~data))
  /\ UNCHANGED <<vars, script, receipt, app, apps, skipped, calm>>

UNext == Script \/ Service \/ StrayEnds

USpec == UInit /\ [][UNext]_uvars

-----------------------------------------------------------------------------
(* Properties                                                              *)

\* Types, and that no copy of the application goes before everything that only
\* its script cleans up.
UTypeOK ==
  /\ TypeOK
  /\ script \in Steps \cup {"none", "done", "failed"}
  /\ {data, receipt, calm, late} \subseteq BOOLEAN
  /\ apps \subseteq Copies
  /\ app \in Copies
  /\ stray \in {"none", "running", "ending"}
  /\ skipped \subseteq Copies \cup {"queue", "stray", "receipt"}
  /\ app \notin apps =>
       script \in {"current", "names", "receipt", "done", "failed"}

\* The service is not registered, and has no job and no process but one that
\* is about to end; only that one, or a stray one, left files behind.  What
\* SMAppService no longer finds may go on as it did.
ServiceGone ==
  /\ reg \in {"no", "lost"}
  /\ reg = "no" => ~job /\ (proc = "none" \/ terminating) /\ (data => late)

\* When the script reports success and nobody used the application meanwhile,
\* all is gone that a command did not silently take for absent: the service
\* with its files, the queue, the stray process, the receipt, the application
\* it was started from and the copies under the names it knows.
DoneIsClean ==
  script = "done" /\ calm =>
    /\ ServiceGone
    /\ stray = "running" => "stray" \in skipped
    /\ queue => "queue" \in skipped
    /\ receipt => "receipt" \in skipped
    /\ apps \cap ({"versioned", "fixed"} \cup ({app} \cap Known)) \subseteq skipped

\* A run that fails can be repeated from the application, or has nothing left
\* to do but to remove other copies and to forget the receipt: the application
\* is not removed while anything that only its script cleans up is still there.
FailureIsRepeatable ==
  script = "failed" /\ app \notin apps /\ calm =>
    ServiceGone /\ (queue => "queue" \in skipped)

\* What the release notes say of the script: it reports a failure if the
\* running application remains.
RemainsIsFailure == script = "done" => app \notin apps
=============================================================================
