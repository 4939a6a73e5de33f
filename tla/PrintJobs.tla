------------------------------ MODULE PrintJobs ------------------------------
(***************************************************************************)
(* Jobs of one queue on their way to the printer: the PAPPL host that      *)
(* opens the device and runs one job at a time, send_xqx                   *)
(* (src/m1005_printer_app.c) that reads the encoded document in buffers    *)
(* and writes them, the device of UsbDevice, and a printer that parses     *)
(* what arrives as one document after the other.                           *)
(*                                                                         *)
(* A write is m1005USBWriteAll by its contract (module Delivery, which     *)
(* UsbWrite implements): the buffer is taken whole or the call is short,   *)
(* and then it requests a reset.  What happens before send_xqx to a raster *)
(* job (callbacks and encoder) is one step here, see Prepare.              *)
(*                                                                         *)
(* PAPPL is not part of the repository: the host's actions are what the    *)
(* code's callbacks rely on.  KeepOpen is its policy of leaving the device *)
(* open while another job is waiting.                                      *)
(*                                                                         *)
(* The service may die at any step and is started again: the open device,  *)
(* the job's progress and the reset it owes the printer are in its memory  *)
(* only, the printer stays where it was.                                   *)
(***************************************************************************)
EXTENDS UsbDevice, Sequences

CONSTANTS
  Buffers,   \* freads it takes to read one encoded document
  KeepOpen   \* whether the host may keep the device open between two jobs

ASSUME PrintJobsAssumption ==
  /\ Buffers \in Nat \ {0}
  /\ KeepOpen \in BOOLEAN

VARIABLES
  jstate,      \* the host's state of each job
  cancelled,   \* the jobs for which papplJobIsCanceled() holds
  cur,         \* the job being processed, or NoJob
  pc,          \* where its processing is, see Pcs
  next,        \* the buffer the next fread returns
  wrote_data,  \* send_xqx's local of that name
  success,     \* send_xqx's local of that name, then the callback's result
  parser,      \* the job whose document the printer is in the middle of
  expect,      \* the buffer that continues that document, 0 if it is torn
  taken,       \* what it took of each job: buffers, 0 for a part of one
  printed,     \* jobs whose document it parsed to its end
  spliced,     \* jobs whose bytes it took as part of another document
  lostReset,   \* a reset owed to the printer failed or was forgotten
  kept         \* a job was sent into a torn document, its reset still owed

sender == <<next, wrote_data, success>>
printer == <<parser, expect, taken, printed, spliced, lostReset, kept>>
host == <<jstate, cancelled, cur>>
vars == <<bus, device, host, pc, sender, printer>>

Pcs == {"idle",      \* no job is being processed
        "open",      \* waiting for the device
        "prepare",   \* the device is open, the document is being made
        "loop",      \* at the head of send_xqx's loop
        "write",     \* at the head of m1005USBWriteAll's loop
        "transfer",  \* past its cancellation check
        "after",     \* after the loop
        "returned"}  \* the callback returned `success`

Terminal == {"completed", "canceled", "aborted"}
Done(j) == jstate[j] \in Terminal

-----------------------------------------------------------------------------
(* The printer's parser                                                    *)

\* A whole document, buffer by buffer.
Whole == [k \in 1..Buffers |-> k]

\* Buffer k of job j continues what the printer has.
Continues(j, k) == \/ parser = NoJob /\ k = 1
                   \/ parser = j /\ expect = k

TakeWhole(j, k) ==
  /\ taken' = [taken EXCEPT ![j] = Append(@, k)]
  /\ IF ~Continues(j, k)
     THEN /\ spliced' = spliced \cup {j}
          /\ UNCHANGED <<parser, expect, printed>>
     ELSE /\ parser' = IF k = Buffers THEN NoJob ELSE j
          /\ expect' = IF k = Buffers THEN 0 ELSE k + 1
          /\ printed' = IF k = Buffers THEN printed \cup {j} ELSE printed
          /\ UNCHANGED spliced
  /\ UNCHANGED <<lostReset, kept>>

TakePart(j, k) ==
  /\ taken' = [taken EXCEPT ![j] = Append(@, 0)]
  /\ IF ~Continues(j, k)
     THEN /\ spliced' = spliced \cup {j}
          /\ UNCHANGED <<parser, expect>>
     ELSE /\ parser' = j
          /\ expect' = 0
          /\ UNCHANGED spliced
  /\ UNCHANGED <<printed, lostReset, kept>>

-----------------------------------------------------------------------------
(* The host                                                                *)

Init ==
  /\ DeviceInit
  /\ jstate = [j \in Jobs |-> "pending"]
  /\ cancelled = {}
  /\ cur = NoJob
  /\ pc = "idle"
  /\ next = 1
  /\ wrote_data = FALSE
  /\ success = TRUE
  /\ parser = NoJob
  /\ expect = 0
  /\ taken = [j \in Jobs |-> <<>>]
  /\ printed = {}
  /\ spliced = {}
  /\ lostReset = FALSE
  /\ kept = FALSE

\* What the printer had of an attempt that died does not count for this one.
StartJob(j) ==
  /\ pc = "idle"
  /\ cur = NoJob
  /\ jstate[j] = "pending"
  /\ jstate' = [jstate EXCEPT ![j] = "processing"]
  /\ cur' = j
  /\ pc' = "open"
  /\ taken' = [taken EXCEPT ![j] = <<>>]
  /\ printed' = printed \ {j}
  /\ spliced' = spliced \ {j}
  /\ UNCHANGED <<bus, device, cancelled, sender, parser, expect, lostReset, kept>>

\* A pending job is cancelled for good; a processing one is told to stop.
CancelJob(j) ==
  /\ ~Done(j)
  /\ j \notin cancelled
  /\ cancelled' = cancelled \cup {j}
  /\ jstate' = IF jstate[j] = "pending"
                 THEN [jstate EXCEPT ![j] = "canceled"] ELSE jstate
  /\ UNCHANGED <<bus, device, cur, pc, sender, printer>>

\* The device is open already, or was opened just now.
DeviceReady ==
  /\ pc = "open"
  /\ opened
  /\ pc' = "prepare"
  /\ UNCHANGED <<bus, device, host, sender, printer>>

\* (Re)tried every few seconds while the printer cannot be opened.
OpenDevice ==
  /\ pc = "open"
  /\ cur \notin cancelled
  /\ DeviceOpen
  /\ UNCHANGED <<host, pc, sender, printer>>

OpenStep ==
  /\ OpenSucceeds \/ OpenFails
  /\ UNCHANGED <<host, pc, sender, printer>>

\* The job is cancelled while it waits for the printer.
StopWaiting ==
  /\ pc = "open"
  /\ ~opened
  /\ stage = "none"
  /\ cur \in cancelled
  /\ pc' = "returned"
  /\ UNCHANGED <<bus, device, host, sender, printer>>

\* A raster job ends before send_xqx: its pages or its encoding failed, or it
\* was cancelled, which its callback reports as success.
PrepareEnds(ok) ==
  /\ pc = "prepare"
  /\ ok => cur \in cancelled
  /\ success' = ok
  /\ pc' = "returned"
  /\ UNCHANGED <<bus, device, host, next, wrote_data, printer>>

JobOutcome ==
  IF cur \in cancelled THEN "canceled"
  ELSE IF success THEN "completed" ELSE "aborted"

\* The host notes how the job ended and, unless another job waits and its
\* policy is to keep the device, closes the device.
FinishJob ==
  /\ pc = "returned"
  /\ jstate' = [jstate EXCEPT ![cur] = JobOutcome]
  /\ cur' = NoJob
  /\ pc' = "idle"
  /\ success' = TRUE
  /\ UNCHANGED <<cancelled, next, wrote_data>>
  /\ \/ /\ opened => KeepOpen /\ \E j \in Jobs : jstate[j] = "pending"
        /\ UNCHANGED <<bus, device, printer>>
     \/ \E cleared \in BOOLEAN :
          /\ DeviceClose(cleared)
          /\ parser' = IF cleared THEN NoJob ELSE parser
          /\ expect' = IF cleared THEN 0 ELSE expect
          /\ lostReset' = (lostReset \/ (reset_requested /\ ~cleared))
          /\ UNCHANGED <<taken, printed, spliced, kept>>

\* The service dies, and launchd starts it anew.  The kernel closes the device
\* without a reset.  The host gives the job it was at up, or starts it from its
\* beginning and knows nothing of a cancellation: its bytes never continue the
\* document it left.
Crash ==
  /\ DeviceDies
  /\ \/ cur = NoJob /\ UNCHANGED <<jstate, cancelled>>
     \/ cur \in Jobs /\ jstate' = [jstate EXCEPT ![cur] = "aborted"]
                     /\ UNCHANGED cancelled
     \/ cur \in Jobs /\ jstate' = [jstate EXCEPT ![cur] = "pending"]
                     /\ cancelled' = cancelled \ {cur}
  /\ cur' = NoJob
  /\ pc' = "idle"
  /\ next' = 1
  /\ wrote_data' = FALSE
  /\ success' = TRUE
  /\ expect' = 0
  /\ lostReset' = (lostReset \/ reset_requested \/ parser # NoJob)
  /\ UNCHANGED <<parser, taken, printed, spliced, kept>>

-----------------------------------------------------------------------------
(* send_xqx                                                                *)

\* The encoded document cannot be opened: nothing is sent.
SendNothing ==
  /\ pc = "prepare"
  /\ success' = FALSE
  /\ pc' = "returned"
  /\ UNCHANGED <<bus, device, host, next, wrote_data, printer>>

BeginSend ==
  /\ pc = "prepare"
  /\ next' = 1
  /\ wrote_data' = FALSE
  /\ success' = TRUE
  /\ BeginJob(cur)
  /\ pc' = "loop"
  /\ kept' = (kept \/ (reset_requested /\ parser # NoJob))
  /\ UNCHANGED <<bus, stage, held, opened, reset_requested, host, parser, expect,
                 taken, printed, spliced, lostReset>>

\* Mutant: `continue` in place of leaving the loop.
SpinOnCancel ==
  /\ pc = "loop"
  /\ cur \in cancelled
  /\ UNCHANGED vars

StopOnCancel ==
  /\ pc = "loop"
  /\ cur \in cancelled
  /\ pc' = "after"
  /\ UNCHANGED <<bus, device, host, sender, printer>>

\* Mutant: a read of no bytes is written like any other.
ReadOn ==
  /\ pc = "loop"
  /\ cur \notin cancelled
  /\ pc' = "write"
  /\ UNCHANGED <<bus, device, host, sender, printer>>

ReadBuffer ==
  /\ pc = "loop"
  /\ cur \notin cancelled
  /\ next <= Buffers
  /\ pc' = "write"
  /\ UNCHANGED <<bus, device, host, sender, printer>>

\* fread returns no byte: the end of the document, or an error at any point.
ReadEnds(error) ==
  /\ pc = "loop"
  /\ cur \notin cancelled
  /\ ~error => next > Buffers
  /\ success' = ~error
  /\ pc' = "after"
  /\ UNCHANGED <<bus, device, host, next, wrote_data, printer>>

\* The first cancellation check of m1005USBWriteAll passes.
BeginWrite ==
  /\ pc = "write"
  /\ ~JobCancelled(cancelled)
  /\ pc' = "transfer"
  /\ UNCHANGED <<bus, device, host, sender, printer>>

WriteWhole ==
  /\ pc = "transfer"
  /\ live
  /\ TakeWhole(cur, next)
  /\ wrote_data' = TRUE
  /\ next' = next + 1
  /\ pc' = "loop"
  /\ UNCHANGED <<bus, device, host, success>>

\* Mutants: the failure is not noted, or the buffer is tried again.
WriteShortUnnoted(some) ==
  /\ pc = "transfer"
  /\ some => live
  /\ IF some THEN TakePart(cur, next) ELSE UNCHANGED printer
  /\ wrote_data' = (wrote_data \/ some)
  /\ reset_requested' = TRUE
  /\ pc' = "after"
  /\ UNCHANGED <<bus, stage, held, opened, active_job, host, next, success>>

WriteAgain(some) ==
  /\ pc = "transfer"
  /\ ~some
  /\ reset_requested' = TRUE
  /\ pc' = "loop"
  /\ UNCHANGED <<bus, stage, held, opened, active_job, host, sender, printer>>

\* The write is short: `some` bytes went out, or none.
WriteShort(some) ==
  /\ \/ pc = "transfer"
     \/ pc = "write" /\ JobCancelled(cancelled) /\ ~some
  /\ some => live
  /\ IF some THEN TakePart(cur, next) ELSE UNCHANGED printer
  /\ wrote_data' = (wrote_data \/ some)
  /\ success' = (success /\ cur \in cancelled)
  /\ reset_requested' = TRUE
  /\ pc' = "after"
  /\ UNCHANGED <<bus, stage, held, opened, active_job, host, next>>

\* Mutant: only a failed job asks for a reset.
AfterLoopFailed ==
  /\ pc = "after"
  /\ reset_requested' = (reset_requested \/ ~success)
  /\ EndJob
  /\ pc' = "returned"
  /\ UNCHANGED <<bus, stage, held, opened, host, sender, printer>>

AfterLoop ==
  /\ pc = "after"
  /\ reset_requested' = \/ reset_requested
                        \/ cur \in cancelled /\ wrote_data
                        \/ ~success
  /\ EndJob
  /\ pc' = "returned"
  /\ UNCHANGED <<bus, stage, held, opened, host, sender, printer>>

-----------------------------------------------------------------------------

Send ==
  \/ SendNothing
  \/ BeginSend
  \/ StopOnCancel
  \/ ReadBuffer
  \/ \E error \in BOOLEAN : ReadEnds(error)
  \/ BeginWrite
  \/ WriteWhole
  \/ \E some \in BOOLEAN : WriteShort(some)
  \/ AfterLoop

Service ==
  \/ \E j \in Jobs : StartJob(j)
  \/ DeviceReady
  \/ OpenDevice
  \/ OpenStep
  \/ StopWaiting
  \/ \E ok \in BOOLEAN : PrepareEnds(ok)
  \/ Send
  \/ FinishJob

Bus ==
  /\ Attach \/ Detach
  /\ UNCHANGED <<host, pc, sender, printer>>

Next ==
  \/ Service
  \/ \E j \in Jobs : CancelJob(j)
  \/ Bus
  \/ Crash

Spec == Init /\ [][Next]_vars

\* The host and the code keep running: their timeouts, delays and reads end.
\* A printer that stays on the bus can be opened if that is tried again and
\* again.  Nobody has to cancel, plug or unplug, and nothing has to crash.
FairSpec ==
  /\ Spec
  /\ WF_vars(Service)
  /\ \A s \in Stages : SF_vars(stage = s /\ OpenSucceeds /\ OpenStep)

-----------------------------------------------------------------------------
(* Properties                                                              *)

\* The state stays within the ranges the C types and the protocol give it.
TypeOK ==
  /\ attached \in BOOLEAN
  /\ live \in BOOLEAN
  /\ stage \in Stages \cup {"none"}
  /\ held \subseteq Objects
  /\ opened \in BOOLEAN
  /\ active_job \in Jobs \cup {NoJob}
  /\ reset_requested \in BOOLEAN
  /\ jstate \in [Jobs -> {"pending", "processing"} \cup Terminal]
  /\ cancelled \subseteq Jobs
  /\ cur \in Jobs \cup {NoJob}
  /\ pc \in Pcs
  /\ next \in 1..(Buffers + 1)
  /\ wrote_data \in BOOLEAN
  /\ success \in BOOLEAN
  /\ parser \in Jobs \cup {NoJob}
  /\ expect \in 0..Buffers
  /\ taken \in [Jobs -> Seq(0..Buffers)]
  /\ printed \subseteq Jobs
  /\ spliced \subseteq Jobs
  /\ lostReset \in BOOLEAN
  /\ kept \in BOOLEAN

\* Whatever device_open got to before it failed is released, nothing is
\* released twice or kept past device_close, and an open device owns all three
\* libusb objects.
NothingLeaks ==
  /\ stage = "none" => held = IF opened THEN Objects ELSE {}
  /\ stage # "none" => ~opened

\* usb->active_job never outlives the job it points to: outside send_xqx it
\* is NULL, so no transfer can be stopped, or kept going, by another job's
\* cancellation.
ActiveJobIsCurrent ==
  active_job = IF pc \in {"loop", "write", "transfer", "after"}
                 THEN cur ELSE NoJob

\* No write starts for a job that was cancelled before its cancellation check.
StopsOnCancel ==
  [][pc # "transfer" /\ pc' = "transfer" => cur \notin cancelled]_vars

\* A job is reported completed only when the printer took its document, in the
\* attempt that completed, each buffer whole, once and in order.  It parsed it to
\* its end as a document of its own, or it was in the middle of another one: only
\* then is some of it in `spliced`, and NoSplice says when that can be.
CompletedIsPrinted ==
  \A j \in Jobs : jstate[j] = "completed" =>
    /\ taken[j] = Whole
    /\ j \in printed \cup spliced

\* Once the device is closed the printer is not left in the middle of a
\* document, unless the reset itself failed or the service died owing it.
ClosedMeansReset == ~opened /\ parser # NoJob => lostReset

\* The recovery the article's state diagram draws: a job that gives up after
\* sending data has the device reset before anything else is sent.
ResetBeforeNextJob ==
  [][active_job = NoJob /\ active_job' # NoJob => ~reset_requested]_vars

\* The bytes of a job reach the printer as part of another document only after a
\* reset failed, or the service died in the middle of one, or the host kept the
\* device for a job while the reset was still owed.  A host that closes the device
\* after each job does not.
NoSplice ==
  /\ spliced # {} => lostReset \/ kept
  /\ kept => KeepOpen

\* A cancelled job ends, with the printer or without it, unless the service
\* dies before and forgets the cancellation.
CancelEnds == \A j \in Jobs : j \in cancelled ~> Done(j) \/ j \notin cancelled

\* Once the printer stays on the bus and the service stays up every job ends,
\* also one whose first attempt died with the service.
JobsEnd ==
  <>[]attached /\ <>[][~Crash]_vars => \A j \in Jobs : <>Done(j)
=============================================================================
