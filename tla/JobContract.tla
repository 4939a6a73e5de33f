---------------------------- MODULE JobContract ----------------------------
(***************************************************************************)
(* What a raster job promises the user who sent it, without pages, files,  *)
(* encoder or callbacks: nothing is sent once the job is cancelled, except *)
(* what was being sent already; it counts as completed only if all that    *)
(* was made of its document went to the printer, as canceled only if it    *)
(* was cancelled, and as aborted only if it was not.  What was made of it  *)
(* is the whole document, or else that is known here (`lost`) and nowhere  *)
(* in the job.  The service may die at any moment: then the job starts     *)
(* anew or is aborted, and a cancellation is forgotten.                    *)
(***************************************************************************)

CONSTANTS
  OutputLoss  \* whether the end of a document may be lost unnoticed

VARIABLES
  cancelled,  \* the job was cancelled
  lost,       \* it was, before anything was sent
  sent,       \* "none", "begun" while sending, then "part" or "whole"
  outcome     \* "open", then "completed", "canceled" or "aborted"

cvars == <<cancelled, lost, sent, outcome>>

Init ==
  /\ cancelled = FALSE
  /\ lost = FALSE
  /\ sent = "none"
  /\ outcome = "open"

Cancel ==
  /\ outcome = "open"
  /\ ~cancelled
  /\ cancelled' = TRUE
  /\ UNCHANGED <<lost, sent, outcome>>

Lose ==
  /\ OutputLoss
  /\ outcome = "open"
  /\ sent = "none"
  /\ lost' = TRUE
  /\ UNCHANGED <<cancelled, sent, outcome>>

Begin ==
  /\ outcome = "open"
  /\ sent = "none"
  /\ ~cancelled
  /\ sent' = "begun"
  /\ UNCHANGED <<cancelled, lost, outcome>>

Send ==
  /\ sent = "begun"
  /\ sent' \in {"none", "part", "whole"}
  /\ UNCHANGED <<cancelled, lost, outcome>>

\* A job that has sent nothing may end without having begun.
End ==
  /\ outcome = "open"
  /\ sent # "begun"
  /\ \/ cancelled /\ outcome' = "canceled"
     \/ ~cancelled /\ outcome' = "aborted"
     \/ ~cancelled /\ sent = "whole" /\ outcome' = "completed"
  /\ UNCHANGED <<cancelled, lost, sent>>

Crash ==
  /\ outcome = "open"
  /\ outcome' \in {"open", "aborted"}
  /\ cancelled' = FALSE
  /\ lost' = FALSE
  /\ sent' = "none"

Next == Cancel \/ Lose \/ Begin \/ Send \/ End \/ Crash

Spec == Init /\ [][Next]_cvars
=============================================================================
