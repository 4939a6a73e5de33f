------------------------------ MODULE Delivery ------------------------------
(***************************************************************************)
(* What one call of m1005USBWriteAll promises its caller, with none of the *)
(* chunking, error codes, retries and delays that produce it: the printer  *)
(* takes the buffer front to back, once; the call ends "complete" exactly  *)
(* when the last byte is out and "short" otherwise; and after the job was  *)
(* cancelled the printer is offered at most one more piece.                *)
(***************************************************************************)
EXTENDS Naturals, Sequences

CONSTANT Sizes   \* the buffer lengths a caller may pass

VARIABLES
  bytes,      \* length of this call's buffer
  received,   \* offsets of the bytes the printer took, in order of arrival
  verdict,    \* "open" while the call runs, then "complete" or "short"
  cancelled,  \* the job was cancelled
  late        \* pieces taken after the cancellation

dvars == <<bytes, received, verdict, cancelled, late>>

\* The n offsets that follow offset `from`.
Piece(from, n) == [i \in 1..n |-> from + i]

Init ==
  /\ bytes \in Sizes
  /\ received = <<>>
  /\ verdict = "open"
  /\ cancelled \in BOOLEAN
  /\ late = 0

\* A piece of n bytes, possibly none, after which the call may also give up.
Accept(n) ==
  /\ verdict = "open"
  /\ Len(received) + n <= bytes
  /\ cancelled => late = 0
  /\ received' = received \o Piece(Len(received), n)
  /\ \/ Len(received) + n = bytes /\ verdict' = "complete"
     \/ Len(received) + n < bytes /\ verdict' \in {"open", "short"}
  /\ late' = IF cancelled THEN late + 1 ELSE late
  /\ UNCHANGED <<bytes, cancelled>>

\* Nothing was left to send.
Finish ==
  /\ verdict = "open"
  /\ Len(received) = bytes
  /\ verdict' = "complete"
  /\ UNCHANGED <<bytes, received, cancelled, late>>

\* The call ends between two pieces.
Abort ==
  /\ verdict = "open"
  /\ Len(received) < bytes
  /\ verdict' = "short"
  /\ UNCHANGED <<bytes, received, cancelled, late>>

Cancel ==
  /\ ~cancelled
  /\ cancelled' = TRUE
  /\ UNCHANGED <<bytes, received, verdict, late>>

Next ==
  \/ \E n \in 0..bytes : Accept(n)
  \/ Finish
  \/ Abort
  \/ Cancel

Spec == Init /\ [][Next]_dvars
=============================================================================
