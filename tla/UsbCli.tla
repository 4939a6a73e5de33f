------------------------------- MODULE UsbCli -------------------------------
(***************************************************************************)
(* One run of the command-line tool src/m1005_usb.c: it looks for the      *)
(* printer, claims its interface and probes, resets or sends a file, while *)
(* the user may interrupt it with a signal at any step and the printer may *)
(* fail any call.  Unlike the service's write loop it never retries.       *)
(*                                                                         *)
(* A byte is its offset in the file, so `received` is what the printer got *)
(* since it was last reset, on the endpoint `target` that Discovery finds. *)
(* Abstracted: port status, texts; the soft reset, which this printer does *)
(* not acknowledge, changes nothing.                                       *)
(***************************************************************************)
EXTENDS Discovery

CONSTANTS
  Sizes,    \* sizes the file may have
  Limits,   \* arguments of --cancel-after
  Chunk,    \* TRANSFER_CHUNK
  Layouts   \* active configurations the device may report

ASSUME UsbCliAssumption ==
  /\ Sizes \subseteq Nat
  /\ Limits \subseteq Nat \ {0}
  /\ Chunk \in Nat \ {0}
  /\ Layouts \subseteq {s \in Seq(Settings) : NoChoice(s)}

VARIABLES
  layout,       \* the device's active configuration
  mode,         \* the enum of main
  size,         \* of the file
  cancel_after, \* 0: send all of it
  pc,           \* see Pcs
  owned,        \* libusb objects and the claim that were acquired
  target,       \* locals interface_number and bulk_out_endpoint of main
  handlers,     \* handle_signal is installed
  interrupted,  \* the flag it sets
  position,     \* of the stream: bytes read
  broken,       \* the stream's error flag
  left,         \* count - offset: bytes of the buffer not yet sent
  total,        \* local of send_file
  cancelled,    \* local of main
  result,       \* what send_file, a reset or main returns
  received,     \* offsets the printer took
  was_reset,    \* history: the device was reset
  told          \* history: a signal came before send_file looked for it last

arguments == <<layout, mode, size, cancel_after>>
signals == <<handlers, interrupted, told>>
buffer == <<position, broken, left>>
progress == <<total, cancelled, result>>
printer == <<received, was_reset>>
vars == <<arguments, pc, owned, target, signals, buffer, progress, printer>>

Modes == {"probe", "claim", "soft_reset", "device_reset", "send", "cancel"}

\* In this order; the interface is only looked up.
Objects == <<"context", "device", "handle", "interface", "claim">>

Kinds == {"context", "device", "handle", "interface", "claim"}

Pcs == {"acquire", "run", "soft", "file",
        "outer", "read", "inner", "transfer", "done",   \* send_file
        "decide", "reset", "release", "close",
        "over", "killed"}

Sending == {"outer", "read", "inner", "transfer", "done"}

LesserOf(a, b) == IF a < b THEN a ELSE b

Bytes(n) == [k \in 1..n |-> total + k - 1]

Init ==
  /\ layout \in Layouts
  /\ mode \in Modes
  /\ size \in Sizes
  /\ cancel_after \in (IF mode = "cancel" THEN Limits ELSE {0})
  /\ pc = "acquire"
  /\ owned = <<>>
  /\ target = NotFound
  /\ handlers = FALSE
  /\ interrupted = FALSE
  /\ position = 0
  /\ broken = FALSE
  /\ left = 0
  /\ total = 0
  /\ cancelled = FALSE
  /\ result = 0
  /\ received = <<>>
  /\ was_reset = FALSE
  /\ told = FALSE

\* SIGINT or SIGTERM: without a handler it ends the process, and the system
\* takes back what it owned.
Signal ==
  /\ pc \notin {"over", "killed"}
  /\ IF handlers
       THEN /\ interrupted' = TRUE
            /\ told' = (told \/ pc \in Sending)
            /\ UNCHANGED <<pc, owned>>
       ELSE /\ pc' = "killed"
            /\ owned' = <<>>
            /\ UNCHANGED <<interrupted, told>>
  /\ UNCHANGED <<arguments, target, handlers, buffer, progress, printer>>

-----------------------------------------------------------------------------
(* main                                                                    *)

Probed == mode = "probe" /\ Len(owned) = 2

\* libusb_init, the search for the device, libusb_open and the claim.
Acquire ==
  /\ pc = "acquire"
  /\ ~Probed
  /\ Len(owned) # 3
  /\ owned' = Append(owned, Objects[Len(owned) + 1])
  /\ pc' = IF Len(owned') = Len(Objects) THEN "run" ELSE "acquire"
  /\ UNCHANGED <<arguments, target, signals, buffer, progress, printer>>

\* find_printer_interface; without a result main gives up.
FindInterface ==
  /\ pc = "acquire"
  /\ Len(owned) = 3
  /\ ToolFinds(layout) # NotFound
  /\ owned' = Append(owned, Objects[4])
  /\ target' = ToolFinds(layout)
  /\ UNCHANGED <<arguments, pc, signals, buffer, progress, printer>>

AcquireFails ==
  /\ pc = "acquire"
  /\ ~Probed
  /\ result' = 1
  /\ owned' = <<>>
  /\ pc' = "over"
  /\ UNCHANGED <<arguments, target, signals, buffer, total, cancelled,
                 printer>>

ProbeEnds ==
  /\ pc = "acquire"
  /\ Probed
  /\ owned' = <<>>
  /\ pc' = "over"
  /\ UNCHANGED <<arguments, target, signals, buffer, progress, printer>>

Run ==
  /\ pc = "run"
  /\ pc' = CASE mode \in {"send", "cancel"} -> "file"
             [] mode = "device_reset" -> "reset"
             [] mode = "soft_reset" -> "soft"
             [] mode = "claim" -> "release"
  /\ UNCHANGED <<arguments, target, owned, signals, buffer, progress, printer>>

SoftReset(ok) ==
  /\ pc = "soft"
  /\ result' = IF ok THEN 0 ELSE 1
  /\ pc' = "release"
  /\ UNCHANGED <<arguments, target, owned, signals, buffer, total, cancelled,
                 printer>>

\* Mutant: main looks at the count of --cancel-after only.
DecideOnCancelled ==
  /\ pc = "decide"
  /\ pc' = IF cancelled THEN "reset" ELSE "release"
  /\ UNCHANGED <<arguments, target, owned, signals, buffer, progress, printer>>

Decide ==
  /\ pc = "decide"
  /\ pc' = IF cancelled \/ result = 130 THEN "reset" ELSE "release"
  /\ UNCHANGED <<arguments, target, owned, signals, buffer, progress, printer>>

\* device_reset: after a success the handle is no longer that of a device.
Reset(ok) ==
  /\ pc = "reset"
  /\ IF ok THEN /\ received' = <<>> /\ was_reset' = TRUE
                /\ result' = 0 /\ pc' = "close"
           ELSE /\ UNCHANGED printer
                /\ result' = 1 /\ pc' = "release"
  /\ UNCHANGED <<arguments, target, owned, signals, buffer, total, cancelled>>

\* A release that fails is only a warning.
Release ==
  /\ pc = "release"
  /\ owned' \in {owned, SubSeq(owned, 1, Len(owned) - 1)}
  /\ pc' = "close"
  /\ UNCHANGED <<arguments, target, signals, buffer, progress, printer>>

Close ==
  /\ pc = "close"
  /\ owned' = <<>>
  /\ pc' = "over"
  /\ UNCHANGED <<arguments, target, signals, buffer, progress, printer>>

-----------------------------------------------------------------------------
(* send_file                                                               *)

OpenFile(ok) ==
  /\ pc = "file"
  /\ IF ok THEN handlers' = TRUE /\ pc' = "outer" /\ UNCHANGED result
           ELSE result' = 1 /\ pc' = "decide" /\ UNCHANGED handlers
  /\ UNCHANGED <<arguments, target, owned, interrupted, told, buffer, total,
                 cancelled, printer>>

LookAtFlag ==
  /\ pc = "outer"
  /\ pc' = IF interrupted THEN "done" ELSE "read"
  /\ UNCHANGED <<arguments, target, owned, signals, buffer, progress, printer>>

\* Mutant: the buffer is not cut at the limit.
ReadPast ==
  /\ pc = "read"
  /\ ~broken
  /\ position < size
  /\ left' = LesserOf(Chunk, size - position)
  /\ position' = position + left'
  /\ pc' = "inner"
  /\ UNCHANGED <<arguments, target, owned, signals, broken, progress, printer>>

\* fread comes short at the end of the file or before an error; what is over
\* the limit is cut off.
Read ==
  /\ pc = "read"
  /\ ~broken
  /\ \E count \in 1..LesserOf(Chunk, size - position) :
       /\ position' = position + count
       /\ broken' = (count < LesserOf(Chunk, size - position))
       /\ left' = IF cancel_after > 0
                    THEN LesserOf(count, cancel_after - total) ELSE count
  /\ pc' = "inner"
  /\ UNCHANGED <<arguments, target, owned, signals, progress, printer>>

ReadNothing ==
  /\ pc = "read"
  /\ \/ broken' = TRUE /\ result' = 1
     \/ ~broken /\ position = size /\ UNCHANGED <<broken, result>>
  /\ pc' = "done"
  /\ UNCHANGED <<arguments, target, owned, signals, position, left, total,
                 cancelled,
                 printer>>

BeginTransfer ==
  /\ pc = "inner"
  /\ left > 0
  /\ ~interrupted
  /\ pc' = "transfer"
  /\ UNCHANGED <<arguments, target, owned, signals, buffer, progress, printer>>

\* A success with progress.  The printer took the bytes in any case.
Transferred(n) ==
  /\ pc = "transfer"
  /\ received' = received \o Bytes(n)
  /\ total' = total + n
  /\ left' = left - n
  /\ pc' = "inner"
  /\ UNCHANGED <<arguments, target, owned, signals, position, broken,
                 cancelled,
                 result, was_reset>>

\* Mutant: a transfer that failed is tried again, whatever it has sent.
TryAgain(n) ==
  /\ pc = "transfer"
  /\ received' = received \o Bytes(n)
  /\ pc' = "inner"
  /\ UNCHANGED <<arguments, target, owned, signals, buffer, progress,
                 was_reset>>

\* An error, which may come with bytes the tool does not count, or a success
\* without progress.
TransferFails(n) ==
  /\ pc = "transfer"
  /\ received' = received \o Bytes(n)
  /\ result' = 1
  /\ pc' = "done"
  /\ UNCHANGED <<arguments, target, owned, signals, buffer, total, cancelled,
                 was_reset>>

BufferEnds ==
  /\ pc = "inner"
  /\ left = 0 \/ interrupted
  /\ IF cancel_after > 0 /\ total >= cancel_after
       THEN cancelled' = TRUE /\ pc' = "done"
       ELSE pc' = "outer" /\ UNCHANGED cancelled
  /\ UNCHANGED <<arguments, target, owned, signals, buffer, total, result,
                 printer>>

\* Mutant: the flag is not looked at a last time.
ReturnResult ==
  /\ pc = "done"
  /\ pc' = "decide"
  /\ UNCHANGED <<arguments, target, owned, signals, buffer, progress, printer>>

Return ==
  /\ pc = "done"
  /\ result' = IF interrupted THEN 130 ELSE result
  /\ pc' = "decide"
  /\ UNCHANGED <<arguments, target, owned, signals, buffer, total, cancelled,
                 printer>>

-----------------------------------------------------------------------------

Tool ==
  \/ Acquire \/ FindInterface \/ AcquireFails \/ ProbeEnds
  \/ Run \/ Decide \/ Release \/ Close
  \/ \E ok \in BOOLEAN : OpenFile(ok) \/ SoftReset(ok) \/ Reset(ok)
  \/ LookAtFlag \/ Read \/ ReadNothing \/ BeginTransfer
  \/ \E n \in 1..left : Transferred(n)
  \/ \E n \in 0..left : TransferFails(n)
  \/ BufferEnds \/ Return

Next == Tool \/ Signal

Spec == Init /\ [][Next]_vars

\* Every call has a timeout.  Nobody has to send a signal.
FairSpec == Spec /\ WF_vars(Tool)

-----------------------------------------------------------------------------
(* Properties                                                              *)

\* The state stays within the ranges of the C types, and the tool never
\* counts more bytes than it has read or was asked for.
TypeOK ==
  /\ layout \in Layouts
  /\ target \in {NotFound, ToolFinds(layout)}
  /\ mode \in Modes
  /\ size \in Sizes
  /\ cancel_after \in Limits \cup {0}
  /\ pc \in Pcs
  /\ owned \in Seq(Kinds) /\ Len(owned) <= 5
  /\ handlers \in BOOLEAN
  /\ interrupted \in BOOLEAN
  /\ position \in 0..size
  /\ broken \in BOOLEAN
  /\ left \in 0..Chunk
  /\ total \in 0..position
  /\ cancelled \in BOOLEAN
  /\ result \in {0, 1, 130}
  /\ received \in Seq(0..size)
  /\ was_reset \in BOOLEAN
  /\ told \in BOOLEAN

Torn == received # <<>> /\ Len(received) < size

\* The printer gets the file from its start without a gap or a repetition, and
\* never more of it than --cancel-after says, also when transfers come short
\* or fail half-way; and it gets it where the service would send it, although
\* the two programs search the device in different ways.
SendsPrefix ==
  /\ \A k \in 1..Len(received) : received[k] = k - 1
  /\ cancel_after > 0 => Len(received) <= cancel_after
  /\ received # <<>> => target = ServiceFinds(layout)

\* A tool that reports success has not left the printer in the middle of a
\* document, whenever signals, errors and the limit struck.
SuccessIsClean == pc = "over" /\ result = 0 => ~Torn

\* A signal that comes while the file is being sent, also during the last
\* transfer, makes the tool reset the printer, or report that it could not.
SignalResets == pc = "over" /\ told => was_reset \/ result = 1

\* However the calls fail, the tool ends.
Ends == <>(pc \in {"over", "killed"})
=============================================================================
