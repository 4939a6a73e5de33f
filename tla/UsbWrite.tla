------------------------------ MODULE UsbWrite ------------------------------
(***************************************************************************)
(* One call of m1005USBWriteAll (src/m1005_usb_io.c): a buffer is pushed   *)
(* through libusb bulk transfers of at most Chunk bytes, with bounded      *)
(* retries, clear-halt after a stall, and a cancellation check before each *)
(* transfer.  The printer, libusb and the user who cancels are the         *)
(* environment: any transfer may be cut short or fail in any way libusb    *)
(* has, and the job may be cancelled at any moment, also in the middle of  *)
(* a transfer.                                                             *)
(*                                                                         *)
(* Abstracted: byte values (a byte is its offset), the duration of         *)
(* timeouts and of the delay between retries, the four argument checks     *)
(* that reject a call before it starts.  LIBUSB_ERROR_NO_DEVICE stands for *)
(* every error code the code does not retry.                               *)
(***************************************************************************)
EXTENDS Naturals, Integers, Sequences

CONSTANTS
  Sizes,       \* the buffer lengths a caller may pass
  Chunk,       \* M1005_USB_TRANSFER_CHUNK
  MaxRetries,  \* io->max_retries
  Miscount     \* whether libusb may report a count outside 0..requested

ASSUME UsbWriteAssumption ==
  /\ Sizes \subseteq Nat
  /\ Chunk \in Nat \ {0}
  /\ MaxRetries \in Nat
  /\ Miscount \in BOOLEAN

VARIABLES
  bytes,            \* length of the buffer
  remaining,        \* bytes not yet transferred
  retries,          \* failed attempts since the last progress
  last_error,       \* io->last_error
  reset_requested,  \* io->reset_requested
  ret,              \* the value returned, meaningful in "done"
  pc,               \* where the call is, see Pcs
  cancelled,        \* what io->is_cancelled() would answer
  halted,           \* the bulk-out endpoint is stalled
  received,         \* history: offsets the printer took, in order
  late,             \* history: transfers that ended after the cancellation
  idle,             \* history: transfers in a row that counted no byte
  transfers         \* history: bulk transfers of this call

io == <<remaining, retries, last_error, reset_requested, ret>>
history == <<received, late, idle, transfers>>
vars == <<bytes, io, pc, cancelled, halted, history>>

Retryable == {"TIMEOUT", "INTERRUPTED", "BUSY", "IO", "PIPE"}
Errors == Retryable \cup {"NO_DEVICE"}
Results == Errors \cup {"SUCCESS"}

Pcs == {"loop",      \* at the head of the while loop
        "transfer",  \* inside io->bulk_transfer
        "halt",      \* inside io->clear_halt
        "delay",     \* in retry_delay
        "done"}      \* returned

LesserOf(m, n) == IF m <= n THEN m ELSE n

\* The offsets that follow the n bytes already counted.
Piece(from, n) == [i \in 1..n |-> from + i]

sent == bytes - remaining
requested == LesserOf(remaining, Chunk)

PartialOrError(left) == IF left < bytes THEN bytes - left ELSE -1

-----------------------------------------------------------------------------
(* The call                                                                *)

Init ==
  /\ bytes \in Sizes
  /\ remaining = bytes
  /\ retries = 0
  /\ last_error = "SUCCESS"
  /\ reset_requested = FALSE
  /\ ret = 0
  /\ pc = "loop"
  /\ cancelled \in BOOLEAN
  /\ halted \in BOOLEAN
  /\ received = <<>>
  /\ late = 0
  /\ idle = 0
  /\ transfers = 0

\* The loop condition fails on entry: an empty buffer.
ReturnEmpty ==
  /\ pc = "loop"
  /\ remaining = 0
  /\ ret' = bytes
  /\ pc' = "done"
  /\ UNCHANGED <<bytes, remaining, retries, last_error, reset_requested,
                 cancelled, halted, history>>

\* Mutant: `continue` in place of the return.
ContinueOnCancel ==
  /\ pc = "loop"
  /\ remaining > 0
  /\ cancelled
  /\ last_error' = "INTERRUPTED"
  /\ reset_requested' = TRUE
  /\ UNCHANGED <<bytes, remaining, retries, ret, pc, cancelled, halted,
                 history>>

ObserveCancel ==
  /\ pc = "loop"
  /\ remaining > 0
  /\ cancelled
  /\ last_error' = "INTERRUPTED"
  /\ reset_requested' = TRUE
  /\ ret' = PartialOrError(remaining)
  /\ pc' = "done"
  /\ UNCHANGED <<bytes, remaining, retries, cancelled, halted, history>>

\* Mutant: the cancellation is asked for once, before the loop.
BeginAsksOnce ==
  /\ pc = "loop"
  /\ remaining > 0
  /\ remaining = bytes => ~cancelled
  /\ pc' = "transfer"
  /\ UNCHANGED <<bytes, io, cancelled, halted, history>>

BeginTransfer ==
  /\ pc = "loop"
  /\ remaining > 0
  /\ ~cancelled
  /\ pc' = "transfer"
  /\ UNCHANGED <<bytes, io, cancelled, halted, history>>

\* What the endpoint did: `result` and how many bytes it `took`.
Outcome(result, took) ==
  /\ halted => result = "PIPE" /\ took = 0
  /\ halted' = (result = "PIPE")
  /\ received' = received \o Piece(sent, took)
  /\ transfers' = transfers + 1
  /\ late' = IF cancelled THEN late + 1 ELSE late

\* Mutant: `retries++ > max_retries`.
RetryOnceMore(e, left, tries) ==
  /\ retries' = IF e \in Retryable THEN tries + 1 ELSE tries
  /\ IF e \notin Retryable \/ tries > MaxRetries
       THEN /\ reset_requested' = TRUE
            /\ ret' = PartialOrError(left)
            /\ pc' = "done"
       ELSE UNCHANGED <<reset_requested, ret>> /\ pc' = "delay"

\* The retry decision, on error `e` with `left` bytes to go after `tries`
\* failed attempts since the last progress.
RetryOrGiveUp(e, left, tries) ==
  /\ retries' = IF e \in Retryable THEN tries + 1 ELSE tries
  /\ IF e \notin Retryable \/ tries >= MaxRetries
       THEN /\ reset_requested' = TRUE
            /\ ret' = PartialOrError(left)
            /\ pc' = "done"
       ELSE /\ UNCHANGED <<reset_requested, ret>>
            /\ pc' = "delay"

\* Mutant: the bytes a transfer took before it timed out are sent again.
ResendAfterTimeout(result, took) ==
  /\ pc = "transfer"
  /\ took > 0
  /\ Outcome(result, took)
  /\ remaining' = IF result = "TIMEOUT" THEN remaining ELSE remaining - took
  /\ retries' = 0
  /\ idle' = 0
  /\ result \in {"SUCCESS", "TIMEOUT"}
  /\ IF remaining' = 0
       THEN last_error' = "SUCCESS" /\ ret' = bytes /\ pc' = "done"
       ELSE UNCHANGED <<last_error, ret>> /\ pc' = "loop"
  /\ UNCHANGED <<bytes, reset_requested, cancelled>>

\* A transfer whose outcome leaves the loop no error to handle.
Progress(result, took) ==
  /\ pc = "transfer"
  /\ took > 0
  /\ Outcome(result, took)
  /\ remaining' = remaining - took
  /\ retries' = 0
  /\ idle' = 0
  /\ \/ /\ remaining' = 0
        /\ last_error' = "SUCCESS"
        /\ ret' = bytes
        /\ pc' = "done"
     \/ /\ remaining' > 0
        /\ result \in {"SUCCESS", "TIMEOUT"}
        /\ pc' = "loop"
        /\ UNCHANGED <<last_error, ret>>
  /\ UNCHANGED <<bytes, reset_requested, cancelled>>

\* Mutant: a stall is retried like any other error.
RetryTheStall(result, counted) ==
  LET left  == remaining - counted
      e     == IF result = "SUCCESS" THEN "IO" ELSE result
      tries == IF counted > 0 THEN 0 ELSE retries
  IN /\ last_error' = e
     /\ remaining' = left
     /\ idle' = IF counted > 0 THEN 0 ELSE idle + 1
     /\ RetryOrGiveUp(e, left, tries)

\* A transfer that failed or made no progress, `counted` bytes of it known.
HandleError(result, counted) ==
  LET left  == remaining - counted
      e     == IF result = "SUCCESS" THEN "IO" ELSE result
      tries == IF counted > 0 THEN 0 ELSE retries
  IN /\ last_error' = e
     /\ remaining' = left
     /\ idle' = IF counted > 0 THEN 0 ELSE idle + 1
     /\ IF e = "PIPE"
          THEN /\ pc' = "halt"
               /\ retries' = tries
               /\ UNCHANGED <<reset_requested, ret>>
          ELSE RetryOrGiveUp(e, left, tries)

Fault(result, took) ==
  /\ pc = "transfer"
  /\ took > 0 => remaining > took /\ result \notin {"SUCCESS", "TIMEOUT"}
  /\ Outcome(result, took)
  /\ HandleError(result, took)
  /\ UNCHANGED <<bytes, cancelled>>

\* Mutant: an impossible count is cut to `requested` and believed.
BelieveCount(result, took) ==
  /\ Miscount
  /\ pc = "transfer"
  /\ Outcome(result, took)
  /\ HandleError("IO", requested)
  /\ UNCHANGED <<bytes, cancelled>>

\* libusb reports an impossible count: whatever the endpoint took is not
\* counted, and the result is replaced by LIBUSB_ERROR_IO.
MiscountedTransfer(result, took) ==
  /\ Miscount
  /\ pc = "transfer"
  /\ Outcome(result, took)
  /\ HandleError("IO", 0)
  /\ UNCHANGED <<bytes, cancelled>>

ClearHaltOk ==
  /\ pc = "halt"
  /\ halted' = FALSE
  /\ RetryOrGiveUp(last_error, remaining, retries)
  /\ UNCHANGED <<bytes, remaining, last_error, cancelled, history>>

\* Mutant: giving up on a stall that cannot be cleared asks for no reset.
ClearHaltNoReset ==
  /\ pc = "halt"
  /\ ret' = PartialOrError(remaining)
  /\ pc' = "done"
  /\ UNCHANGED <<bytes, remaining, retries, last_error, reset_requested,
                 cancelled, halted, history>>

ClearHaltFailed ==
  /\ pc = "halt"
  /\ reset_requested' = TRUE
  /\ ret' = PartialOrError(remaining)
  /\ pc' = "done"
  /\ UNCHANGED <<bytes, remaining, retries, last_error, cancelled, halted,
                 history>>

EndDelay ==
  /\ pc = "delay"
  /\ pc' = "loop"
  /\ UNCHANGED <<bytes, io, cancelled, halted, history>>

-----------------------------------------------------------------------------
(* The user                                                                *)

Cancel ==
  /\ ~cancelled
  /\ cancelled' = TRUE
  /\ UNCHANGED <<bytes, io, pc, halted, history>>

-----------------------------------------------------------------------------

EndTransfer ==
  \E result \in Results, took \in 0..requested :
    \/ Progress(result, took)
    \/ Fault(result, took)
    \/ MiscountedTransfer(result, took)

Call ==
  \/ ReturnEmpty
  \/ ObserveCancel
  \/ BeginTransfer
  \/ EndTransfer
  \/ ClearHaltOk
  \/ ClearHaltFailed
  \/ EndDelay

Next == Call \/ Cancel

Spec == Init /\ [][Next]_vars

\* A transfer returns within io->timeout_ms, a control request within
\* libusb's own limit and nanosleep after its delay, so the call's own steps
\* are weakly fair.  Nobody has to cancel.
FairSpec == Spec /\ WF_vars(Call)

-----------------------------------------------------------------------------
(* Properties                                                              *)

\* The state stays within the ranges the C types and the protocol give it.
TypeOK ==
  /\ bytes \in Sizes
  /\ remaining \in 0..bytes
  /\ retries \in 0..(MaxRetries + 1)
  /\ last_error \in Results
  /\ reset_requested \in BOOLEAN
  /\ ret \in -1..bytes
  /\ pc \in Pcs
  /\ cancelled \in BOOLEAN
  /\ halted \in BOOLEAN
  /\ received \in Seq(Nat)
  /\ late \in Nat
  /\ idle \in Nat
  /\ transfers \in Nat

\* Whatever libusb reports, no byte that the call counts as sent was skipped:
\* `current` never runs ahead of what the endpoint took.
NothingSkipped ==
  \A i \in 1..sent : \E k \in 1..Len(received) : received[k] = i

\* When the call returns, its value is the number of bytes counted as sent,
\* -1 standing for none of a non-empty buffer, and the three ways it reports
\* an incomplete buffer agree: a value other than `bytes`, a last_error other
\* than success, a reset request.  device_write and send_xqx each look at a
\* different one of the three.
OutcomeAgrees ==
  pc = "done" =>
    /\ ret = IF sent = 0 /\ bytes > 0 THEN -1 ELSE sent
    /\ (ret = bytes) <=> (remaining = 0)
    /\ (ret = bytes) <=> (last_error = "SUCCESS")
    /\ (ret = bytes) <=> ~reset_requested

\* Once the job is cancelled the printer sees at most the one transfer that
\* was already past the check.
CancelIsPrompt == late <= 1

\* The call is patient, but not endlessly so: it never goes through more than
\* MaxRetries + 1 transfers in a row that count no byte, so that the whole
\* call takes at most that many transfers per byte of the buffer.
RetriesAreBounded ==
  /\ idle <= MaxRetries + 1
  /\ transfers <= bytes * (MaxRetries + 1)

\* Giving up on an error that is worth a retry, with the job not cancelled
\* and the stall cleared, means the whole budget was used on this byte.
GivesUpLast ==
  (/\ pc = "done"
   /\ ret # bytes
   /\ last_error \in Retryable
   /\ ~cancelled
   /\ ~halted) => idle >= MaxRetries

\* A stalled endpoint is never sent a second transfer: within a call, a
\* transfer is submitted to a halted endpoint only when the stall was left
\* there before the call.
NoBlindRetry ==
  [][pc = "loop" /\ pc' = "transfer" /\ transfers > 0 => ~halted]_vars

\* Every call returns, however the device behaves.
Returns == <>(pc = "done")

\* With counts that can be trusted the call is a Delivery: the printer takes
\* the bytes once and in order, and the value returned tells how it ended.
Verdict == IF pc # "done" THEN "open"
           ELSE IF ret = bytes THEN "complete" ELSE "short"

D == INSTANCE Delivery WITH verdict <- Verdict

\* The call, seen from outside, is Delivery: each byte once and in order, and
\* the verdict its caller reads off the result is right.
DeliverySpec == D!Spec
=============================================================================
