---------------------------- MODULE SetupService ----------------------------
(***************************************************************************)
(* The background service between the people who start and stop it: the    *)
(* operations of the setup application (macos/M1005SetupApp.swift) on the  *)
(* service and the print queue, the start of the service process           *)
(* (run_managed_service of src/m1005_printer_app.c), the menu-bar Stop,    *)
(* and the marker file that is all they share.                             *)
(*                                                                         *)
(* External: launchd, which starts the process of a registered job when    *)
(* it is registered and at login and restarts it after an unsuccessful     *)
(* exit (the LaunchAgent plist: RunAtLoad, KeepAlive SuccessfulExit        *)
(* false), SMAppService, which may lose a registration whose job goes on   *)
(* (.notFound), CUPS, whose `lpadmin -m everywhere` asks the service what  *)
(* it can do and may have made the queue before it fails, and the user.    *)
(* The application runs each button on a concurrent queue and disables     *)
(* none: operations overlap, and a button pressed first may come to its    *)
(* files last.                                                             *)
(*                                                                         *)
(* Abstracted: ThrottleInterval and all waiting times (a bounded wait sees *)
(* what it waits for, or gives up while it is not so), the legacy service  *)
(* labels, a second process beside one that is shutting down, the options  *)
(* of the queue, and which of Start and Enable was pressed, until          *)
(* startService has returned to it.                                        *)
(***************************************************************************)
EXTENDS Naturals

CONSTANTS
  Workers,         \* operations the application can have under way
  MaxDisturbances  \* bound on crashes, logins, lost registrations, menu stops

ASSUME SetupServiceAssumption ==
  /\ MaxDisturbances \in Nat
  /\ {"none", "menu"} \cap Workers = {}

VARIABLES
  marker,        \* the file "service-stopped" exists
  reg,           \* SMAppService's status of the service
  job,           \* launchd has the service's job
  proc,          \* the service process
  terminating,   \* it was told to shut down
  sneaked,       \* history: it was past the marker check as a stop reported
  queue,         \* CUPS has HP_LaserJet_M1005
  disturbances,  \* crashes, logins, lost registrations, menu stops so far
  at,            \* where each operation is, or "idle"
  last,          \* history: whose button was pressed last, or "menu"
  said,          \* history: what that operation reported
  overlap        \* history: whether another one was under way meanwhile

process == <<proc, terminating, sneaked>>
system == <<reg, job, process>>
history == <<last, said, overlap>>
vars == <<marker, system, queue, disturbances, at, history>>

Procs == {"none",
          "check",     \* launched, not yet past service_is_stopped_by_user
          "boot",      \* past it, not yet listening on port 8765
          "serving"}

\* Where an operation can be; the first place of each is before any of it.
Places == {"idle",
           "start", "clear", "looks", "remove", "evict", "register", "remove2",
           "evict2", "register2", "approved", "up",       \* startService
           "ipp", "modify", "add",                        \* addQueue
           "stop", "ask", "down",                         \* stopService
           "disable", "unregister", "bootout", "wait",    \* disableService
           "prepare", "remove3", "evict3", "leave",       \* prepareUninstall
           "look", "delete"}                              \* removeQueue

\* serverIsReady
Ready == proc = "serving"

Go(w, step) == at' = [at EXCEPT ![w] = step]

\* Another operation is under way.
Busy(w) == \E v \in Workers \ {w} : at[v] # "idle"

\* Another operation may still remove the marker.
Clearing(w) == \E v \in Workers \ {w} : at[v] \in {"start", "clear"}

\* The process is gone, or replaced by one that is about to look.
NoProcess == proc' = "none" /\ terminating' = FALSE /\ sneaked' = FALSE
Launch == proc' = "check" /\ terminating' = FALSE /\ sneaked' = FALSE

\* launchd gives up the job and ends its process, which may take its time.
Unload ==
  /\ job' = FALSE
  /\ \/ NoProcess
     \/ proc # "none" /\ terminating' = TRUE /\ UNCHANGED <<proc, sneaked>>

-----------------------------------------------------------------------------

Init ==
  /\ marker = FALSE
  /\ reg = "no"
  /\ job = FALSE
  /\ proc = "none"
  /\ terminating = FALSE
  /\ sneaked = FALSE
  /\ queue \in BOOLEAN
  /\ disturbances = 0
  /\ at = [w \in Workers |-> "idle"]
  /\ last = "none"
  /\ said = "nothing"
  /\ overlap = "none"

\* A button: perform dispatches the operation, which begins some time later.
Press(w, op) ==
  /\ at[w] = "idle"
  /\ Go(w, op)
  /\ last' = w
  /\ said' = "nothing"
  /\ overlap' = IF Busy(w) THEN "some" ELSE "none"
  /\ UNCHANGED <<marker, system, queue, disturbances>>

\* The message that ends an operation; only the last one's is looked at.
Report(w, what) ==
  /\ Go(w, "idle")
  /\ said' = IF w = last THEN what ELSE said
  /\ UNCHANGED <<last, overlap>>

-----------------------------------------------------------------------------
(* startService                                                            *)

\* Mutant: Start leaves the marker to the service.
PassMarker(w) ==
  /\ at[w] = "start"
  /\ \E to \in {"looks", "idle"} : Go(w, to)
  /\ UNCHANGED <<marker, system, queue, disturbances, history>>

\* setStoppedByUser(false), up to fileExists: the directory comes first.
LookForMarker(w) ==
  /\ at[w] = "start"
  /\ \E to \in {IF marker THEN "clear" ELSE "looks", "idle"} : Go(w, to)
  /\ UNCHANGED <<marker, system, queue, disturbances, history>>

\* removeItem fails also when another Start was faster.
ClearMarker(w) ==
  /\ at[w] = "clear"
  /\ \/ marker /\ marker' = FALSE /\ Go(w, "looks")
     \/ UNCHANGED marker /\ Go(w, "idle")
  /\ UNCHANGED <<system, queue, disturbances, history>>

\* registerService makes its directories; a port that answers is authoritative.
StartLooks(w) ==
  /\ at[w] = "looks"
  /\ \/ Go(w, IF ~Ready THEN "remove" ELSE IF reg = "no" THEN "register2"
              ELSE "approved")
     \/ Go(w, "idle")
  /\ UNCHANGED <<marker, system, queue, disturbances, history>>

\* removeCurrentRegistration, of registerService or prepareUninstall: an error
\* of unregister is ignored ...
Remove(w) ==
  /\ at[w] \in {"remove", "remove2", "remove3"}
  /\ \/ reg # "no" /\ reg' = "no" /\ Unload
     \/ UNCHANGED system
  /\ Go(w, CASE at[w] = "remove" -> "evict"
             [] at[w] = "remove2" -> "evict2"
             [] OTHER -> "evict3")
  /\ UNCHANGED <<marker, queue, disturbances, history>>

\* ... and so is one of bootout, here and in disableService.
Evict(w) ==
  /\ at[w] \in {"evict", "evict2", "evict3", "bootout"}
  /\ (job /\ Unload) \/ UNCHANGED <<job, process>>
  /\ Go(w, CASE at[w] = "evict" -> "register"
             [] at[w] = "evict2" -> "register2"
             [] at[w] = "evict3" -> "leave"
             [] OTHER -> "wait")
  /\ UNCHANGED <<marker, reg, queue, disturbances, history>>

\* A job that launchd has already may be left as it is.
Load ==
  /\ job' = TRUE
  /\ \/ Launch
     \/ job /\ proc # "none" /\ UNCHANGED process

Register(w) ==
  /\ at[w] \in {"register", "register2"}
  /\ \/ reg' = "enabled" /\ Load /\ Go(w, "approved")
     \/ /\ reg # "enabled"
        /\ reg' = "approval"
        /\ Go(w, "approved")
        /\ UNCHANGED <<job, process>>
     \/ /\ Go(w, IF at[w] = "register" THEN "remove2" ELSE "idle")
        /\ UNCHANGED system
  /\ UNCHANGED <<marker, queue, disturbances, history>>

\* The user has to approve the service, or launchctl kickstart runs it now.
Kickstart(w) ==
  /\ at[w] = "approved"
  /\ Go(w, IF reg = "approval" THEN "idle" ELSE "up")
  /\ \/ job /\ reg # "approval" /\ proc = "none" /\ Launch
     \/ UNCHANGED process
  /\ UNCHANGED <<marker, reg, job, queue, disturbances, history>>

\* waitForServer(running: true) may see a server that is about to leave.
\* enableAndAddQueue goes on to addQueue.
StartReturns(w) ==
  /\ at[w] = "up"
  /\ \/ Ready /\ Report(w, IF terminating THEN "too late" ELSE "started")
     \/ Ready /\ Go(w, "ipp") /\ UNCHANGED history
     \/ ~Ready /\ Go(w, "idle") /\ UNCHANGED history
  /\ UNCHANGED <<marker, system, queue, disturbances>>

-----------------------------------------------------------------------------
(* addQueue, removeQueue                                                   *)

\* addQueue asks for the attributes of the printer, then sets its quality: the
\* service has to answer, and may still refuse.
AskService(w) ==
  /\ at[w] \in {"ipp", "modify"}
  /\ \/ Ready /\ Go(w, IF at[w] = "ipp" THEN "modify" ELSE "add")
     \/ Go(w, "idle")
  /\ UNCHANGED <<marker, system, queue, disturbances, history>>

\* Mutant: the status of lpadmin is not looked at.
AddAnyway(w) ==
  /\ at[w] = "add"
  /\ queue' \in {TRUE, queue}
  /\ Report(w, "added")
  /\ UNCHANGED <<marker, system, disturbances>>

Add(w) ==
  /\ at[w] = "add"
  /\ \/ Ready /\ queue' = TRUE /\ Report(w, "added")
     \/ queue' \in {TRUE, queue} /\ Go(w, "idle") /\ UNCHANGED history
  /\ UNCHANGED <<marker, system, disturbances>>

\* queueIsInstalled: lpstat knows, or it fails, which reads as `not installed`.
\* The message is the same in both cases; `said` is not.
Look(w) ==
  /\ at[w] = "look"
  /\ \/ queue /\ Go(w, "delete") /\ UNCHANGED history
     \/ ~queue /\ Report(w, "removed")
     \/ Report(w, "supposed")
  /\ UNCHANGED <<marker, system, queue, disturbances>>

\* lpadmin fails also when another operation has deleted the queue.
Delete(w) ==
  /\ at[w] = "delete"
  /\ \/ queue /\ queue' = FALSE /\ Report(w, "removed")
     \/ Go(w, "idle") /\ UNCHANGED <<queue, history>>
  /\ UNCHANGED <<marker, system, disturbances>>

-----------------------------------------------------------------------------
(* stopService                                                             *)

\* Mutants: Stop only ends the process; Disable only unregisters it.
MarkBut(w, op) ==
  /\ at[w] \in {"stop", "disable"}
  /\ marker' = (marker \/ at[w] # op)
  /\ Go(w, IF at[w] = "stop" THEN "ask" ELSE "unregister")
  /\ overlap' = IF w = last /\ Clearing(w) THEN "crossed" ELSE overlap
  /\ UNCHANGED <<system, queue, disturbances, last, said>>

OnlyDisableMarks(w) == MarkBut(w, "stop")
OnlyStopMarks(w) == MarkBut(w, "disable")

\* setStoppedByUser(true), of stopService and disableService.  `crossed`: a
\* Start that was pressed before can still remove this marker.
WriteMarker(w) ==
  /\ at[w] \in {"stop", "disable"}
  /\ \/ /\ marker' = TRUE
        /\ Go(w, IF at[w] = "stop" THEN "ask" ELSE "unregister")
        /\ overlap' = IF w = last /\ Clearing(w) THEN "crossed" ELSE overlap
     \/ Go(w, "idle") /\ UNCHANGED <<marker, overlap>>
  /\ UNCHANGED <<system, queue, disturbances, last, said>>

StopReports(w) ==
  /\ Report(w, "stopped")
  /\ sneaked' = IF w = last THEN proc = "boot" ELSE sneaked

\* Nothing listens on the port, so there is nothing to stop.
StopFindsNothing(w) ==
  /\ at[w] = "ask"
  /\ ~Ready
  /\ StopReports(w)
  /\ UNCHANGED <<marker, reg, job, proc, terminating, queue, disturbances>>

\* `delivered`: the helper's shutdown request or else SIGTERM got through.
Shutdown(w, delivered) ==
  /\ at[w] = "ask"
  /\ Ready
  /\ terminating' = (terminating \/ delivered)
  /\ Go(w, "down")
  /\ UNCHANGED <<marker, reg, job, proc, sneaked, queue, disturbances,
                 history>>

\* waitForServer(running: false): a server that still answers is an error.
StopReturns(w) ==
  /\ at[w] = "down"
  /\ IF Ready THEN Go(w, "idle") /\ UNCHANGED <<sneaked, history>>
              ELSE StopReports(w)
  /\ UNCHANGED <<marker, reg, job, proc, terminating, queue, disturbances>>

-----------------------------------------------------------------------------
(* disableService, prepareUninstall                                        *)

\* --prepare-uninstall has no button: it is a process that the uninstaller starts
\* and that reports to it, so that what the buttons said before still stands.
BeginPrepare(w) ==
  /\ at[w] = "idle"
  /\ Go(w, "prepare")
  /\ overlap' = IF overlap = "crossed" THEN overlap ELSE "some"
  /\ UNCHANGED <<marker, system, queue, disturbances, last, said>>

\* Mutant: an error of unregister is ignored.
UnregisterAnyway(w) ==
  /\ at[w] \in {"unregister", "prepare"}
  /\ \/ reg' = "no" /\ Unload
     \/ UNCHANGED system
  /\ Go(w, IF at[w] = "unregister" THEN "wait" ELSE "leave")
  /\ UNCHANGED <<marker, queue, disturbances, history>>

\* unregister throws: past .notFound that is the end.
Unregister(w) ==
  /\ at[w] \in {"unregister", "prepare"}
  /\ \/ /\ \/ reg = "no" /\ UNCHANGED system
           \/ reg # "no" /\ reg' = "no" /\ Unload
        /\ Go(w, IF at[w] = "unregister" THEN "wait" ELSE "leave")
     \/ /\ reg = "lost"
        /\ Go(w, IF at[w] = "unregister" THEN "bootout" ELSE "remove3")
        /\ UNCHANGED system
     \/ /\ reg \in {"enabled", "approval"}
        /\ Go(w, "idle")
        /\ UNCHANGED system
  /\ UNCHANGED <<marker, queue, disturbances, history>>

\* Whether waitForServer(running: false) saw the server go is not looked at.
WaitReturns(w) ==
  /\ at[w] \in {"wait", "leave"}
  /\ IF at[w] = "wait" THEN Report(w, "disabled")
                       ELSE Go(w, "idle") /\ UNCHANGED history
  /\ UNCHANGED <<marker, system, queue, disturbances>>

-----------------------------------------------------------------------------
(* The service process and launchd                                         *)

\* Mutant: a stopped service reports failure, so launchd tries it again.
CheckMarkerFails ==
  /\ proc = "check"
  /\ proc' = IF marker THEN "check" ELSE "boot"
  /\ UNCHANGED <<marker, reg, job, terminating, sneaked, queue, disturbances,
                 at, history>>

\* A stopped service exits successfully: launchd does not restart it.
CheckMarker ==
  /\ proc = "check"
  /\ proc' = IF marker THEN "none" ELSE "boot"
  /\ UNCHANGED <<marker, reg, job, terminating, sneaked, queue, disturbances,
                 at, history>>

Listen ==
  /\ proc = "boot"
  /\ proc' = "serving"
  /\ UNCHANGED <<marker, reg, job, terminating, sneaked, queue, disturbances,
                 at, history>>

ShutsDown ==
  /\ proc # "none"
  /\ terminating
  /\ NoProcess
  /\ UNCHANGED <<marker, reg, job, queue, disturbances, at, history>>

Disturb == /\ disturbances < MaxDisturbances
           /\ disturbances' = disturbances + 1

Crash ==
  /\ Disturb
  /\ proc # "none"
  /\ \/ job /\ Launch
     \/ ~(job /\ reg = "enabled") /\ NoProcess
  /\ UNCHANGED <<marker, reg, job, queue, at, history>>

\* An update of the application can make its registration unknown.
Lose ==
  /\ Disturb
  /\ reg \in {"enabled", "approval"}
  /\ reg' = "lost"
  /\ UNCHANGED <<marker, job, process, queue, at, history>>

\* Logging in, also after a restart in the middle of an operation.
Login ==
  /\ Disturb
  /\ \/ reg \in {"enabled", "lost"} /\ job' = TRUE /\ Launch
     \/ reg # "enabled" /\ job' = FALSE /\ NoProcess
  /\ at' = [w \in Workers |-> "idle"]
  /\ UNCHANGED <<marker, reg, queue, history>>

\* _papplSystemStatusUIWillTerminate; `marked`: the marker could be written.
\* Otherwise it may be there all the same: open creates it before write fails.
MenuStop(marked) ==
  /\ Disturb
  /\ Ready
  /\ marker' \in {TRUE, marker \/ marked}
  /\ terminating' = TRUE
  /\ sneaked' = FALSE
  /\ last' = "menu"
  /\ said' = IF marked THEN "stopped" ELSE "nothing"
  /\ overlap' = IF \E w \in Workers : at[w] \in {"start", "clear"}
                  THEN "crossed" ELSE "some"
  /\ UNCHANGED <<reg, job, proc, queue, at>>

\* In System Settings.
Approve ==
  /\ reg = "approval"
  /\ reg' = "enabled"
  /\ Load
  /\ UNCHANGED <<marker, queue, disturbances, at, history>>

-----------------------------------------------------------------------------

Begin(w) == \E op \in {"start", "stop", "disable", "look"} : Press(w, op)

Step(w) ==
  \/ LookForMarker(w) \/ ClearMarker(w)
  \/ StartLooks(w) \/ Remove(w) \/ Evict(w) \/ Register(w) \/ Kickstart(w)
  \/ StartReturns(w)
  \/ AskService(w) \/ Add(w) \/ Look(w) \/ Delete(w)
  \/ WriteMarker(w) \/ StopFindsNothing(w) \/ StopReturns(w)
  \/ \E delivered \in BOOLEAN : Shutdown(w, delivered)
  \/ Unregister(w) \/ WaitReturns(w)

Process == CheckMarker \/ Listen \/ ShutsDown

Environment ==
  \/ Crash \/ Lose \/ Login \/ Approve
  \/ \E marked \in BOOLEAN : MenuStop(marked)

Next == Process \/ Environment \/ \E w \in Workers : Begin(w) \/ Step(w)

Spec == Init /\ [][Next]_vars

\* A process that runs gets through its start and its shutdown, a pending
\* operation gets through its waits.  Nobody has to begin one.
FairSpec ==
  /\ Spec
  /\ WF_vars(Process)
  /\ \A w \in Workers : WF_vars(Step(w))

-----------------------------------------------------------------------------
(* Properties                                                              *)

\* Types, that a service without a registration has no job, and that its
\* process only runs on without one to shut down.
TypeOK ==
  /\ marker \in BOOLEAN
  /\ reg \in {"no", "enabled", "approval", "lost"}
  /\ job \in BOOLEAN
  /\ proc \in Procs
  /\ terminating \in BOOLEAN
  /\ sneaked \in BOOLEAN
  /\ queue \in BOOLEAN
  /\ disturbances \in 0..MaxDisturbances
  /\ at \in [Workers -> Places]
  /\ last \in Workers \cup {"none", "menu"}
  /\ said \in {"nothing", "stopped", "disabled", "started", "too late",
               "added", "removed", "supposed"}
  /\ overlap \in {"none", "some", "crossed"}
  /\ reg = "no" => ~job
  /\ proc # "none" /\ ~terminating => job

\* The operation whose button was pressed last reported, and no Start pressed
\* before it could remove the marker it wrote.
Said(what) == said = what /\ overlap # "crossed"

\* "It will remain stopped until you start it from this app."  A stop that
\* reported success, from the application or the menu bar, holds until another
\* button is pressed, through crashes and logins, lost registrations and
\* whatever else was under way: no server answers but one that is leaving.  Two
\* windows are left, and the message is wrong in both: a Start pressed before
\* the stop comes to the marker after it, or a process is past its look at the
\* marker and not yet listening when the stop looks.
StopHolds == Said("stopped") /\ ~sneaked => ~Ready \/ terminating

\* After a stop or a disable that reported success, no process that launchd
\* starts gets past the marker any more, whatever starts it: an operation under
\* way, a crash, a login, an approval.  (The second window of StopHolds is for
\* one process, once.)
StaysDown ==
  [][Said("stopped") \/ Said("disabled") =>
       ~(proc = "check" /\ proc' = "boot")]_vars

\* "Background printer service disabled at login."  So it is, when no other
\* operation was under way: nothing is registered, no job is left, and a process
\* only to end.  A registration that SMAppService no longer finds stays what it
\* is, with its job or not.
DisabledIsUnregistered ==
  said = "disabled" /\ overlap = "none" =>
    /\ reg \in {"no", "lost"}
    /\ reg = "no" => ~job /\ (proc = "none" \/ terminating)

\* "... HP_LaserJet_M1005 added to macOS", "... removed from macOS": so it is,
\* when no other operation was under way, whatever the service did meanwhile and
\* however the commands failed.  The exception is a lpstat that fails: "removed"
\* is then said of a queue that may still be there.
QueueAsTold ==
  overlap = "none" => /\ said = "added" => queue
                      /\ said = "removed" => ~queue

\* A stopped service comes to rest: launchd does not go on restarting it.
StopSettles == <>[](Said("stopped") /\ ~sneaked) => <>[](proc = "none")

\* A service that was started, not by looking at one that was about to leave
\* and not while another operation was under way, serves in the end, after any
\* number of crashes and logins, while SMAppService knows it.
StartHolds ==
  <>[](said = "started" /\ overlap = "none" /\ reg # "lost") =>
    <>[](proc = "serving")
=============================================================================
