------------------------------ MODULE UsbDevice ------------------------------
(***************************************************************************)
(* The PAPPL device scheme "m1005usb" (src/m1005_pappl_usb.c): the life of *)
(* the m1005_usb_device_t that device_open attaches to the PAPPL device    *)
(* and device_close frees, the libusb objects it owns, the job whose       *)
(* cancellation the transfers watch, and the reset that is requested while *)
(* sending and carried out when the device is closed.                      *)
(*                                                                         *)
(* libusb and the bus are the environment: the printer may be unplugged    *)
(* between any two steps, and a handle from before that is dead.           *)
(***************************************************************************)
EXTENDS Naturals

CONSTANTS
  Jobs,    \* the jobs of the print queue
  NoJob    \* the NULL job pointer

ASSUME NoJobAssumption == NoJob \notin Jobs

VARIABLES
  attached,         \* the printer is on the bus
  stage,            \* the libusb call device_open is at, or "none"
  live,             \* the libusb_device found last is still on the bus
  held,             \* the libusb objects allocated and not yet released
  opened,           \* papplDeviceGetData() # NULL
  active_job,       \* usb->active_job
  reset_requested   \* usb->reset_requested

bus == <<attached, live>>
device == <<stage, held, opened, active_job, reset_requested>>

Objects == {"context", "device", "handle"}
Stages == {"init", "find", "open", "interface", "claim"}

\* The call after a successful one, and the object a call leaves behind.
NextStage == [init |-> "find", find |-> "open", open |-> "interface",
              interface |-> "claim", claim |-> "none"]
Acquired == [init |-> {"context"}, find |-> {"device"}, open |-> {"handle"},
             interface |-> {}, claim |-> {}]

DeviceInit ==
  /\ attached \in BOOLEAN
  /\ live = FALSE
  /\ stage = "none"
  /\ held = {}
  /\ opened = FALSE
  /\ active_job = NoJob
  /\ reset_requested = FALSE

\* PAPPL calls device_open.
DeviceOpen ==
  /\ ~opened
  /\ stage = "none"
  /\ stage' = "init"
  /\ UNCHANGED <<bus, held, opened, active_job, reset_requested>>

\* The libusb call at `stage` succeeds; the last one attaches the state.
OpenSucceeds ==
  /\ stage \in Stages
  /\ stage = "find" => attached
  /\ stage \in {"open", "interface", "claim"} => live
  /\ stage' = NextStage[stage]
  /\ held' = held \cup Acquired[stage]
  /\ live' = (live \/ stage = "find")
  /\ opened' = (stage = "claim")
  /\ UNCHANGED <<attached, active_job, reset_requested>>

\* Mutant: the context is not released.
OpenFailsLeaky ==
  /\ stage \in Stages
  /\ stage' = "none"
  /\ held' = held \ {"device", "handle"}
  /\ live' = FALSE
  /\ UNCHANGED <<attached, opened, active_job, reset_requested>>

\* It fails, or calloc or the URI check did: what was acquired is released.
OpenFails ==
  /\ stage \in Stages
  /\ stage' = "none"
  /\ held' = held \ Objects
  /\ live' = FALSE
  /\ UNCHANGED <<attached, opened, active_job, reset_requested>>

\* `cleared`: libusb_reset_device reached the printer.  It may have and still
\* return an error, when the printer comes back as another device.
DeviceClose(cleared) ==
  /\ opened
  /\ cleared => reset_requested /\ live
  /\ held' = held \ Objects
  /\ opened' = FALSE
  /\ active_job' = NoJob
  /\ reset_requested' = FALSE
  /\ live' = FALSE
  /\ UNCHANGED <<attached, stage>>

\* The process ends with whatever it has open: the kernel takes it back, and
\* a reset that was requested is forgotten.
DeviceDies ==
  /\ stage' = "none"
  /\ held' = {}
  /\ opened' = FALSE
  /\ active_job' = NoJob
  /\ reset_requested' = FALSE
  /\ live' = FALSE
  /\ UNCHANGED attached

\* Mutant: the device is not told of the job's end.
KeepJob == UNCHANGED active_job

BeginJob(j) == active_job' = j
EndJob == active_job' = NoJob

\* job_cancelled: what m1005USBWriteAll asks before each transfer.
JobCancelled(cancelled) == active_job # NoJob /\ active_job \in cancelled

Detach ==
  /\ attached
  /\ attached' = FALSE
  /\ live' = FALSE
  /\ UNCHANGED device

Attach ==
  /\ ~attached
  /\ attached' = TRUE
  /\ UNCHANGED <<live, device>>
=============================================================================
