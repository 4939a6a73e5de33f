----------------------------- MODULE RasterJob -----------------------------
(***************************************************************************)
(* One raster job of src/m1005_printer_app.c: the five raster callbacks    *)
(* that stage its pages in a temporary PBM file, the encoder child process *)
(* that turns it into a temporary XQX file, and the clean-up.              *)
(*                                                                         *)
(* The environment is the PAPPL host that calls the callbacks (a client    *)
(* may send pages of the wrong size, or stop in the middle of one), the    *)
(* user who cancels, the file system where any call may fail, and the      *)
(* child, which runs at its own pace.  send_xqx is one step that begins    *)
(* and one that ends, by the contract that PrintJobs details.  The service *)
(* may die at any step; launchd starts it again.  The files, and the       *)
(* encoder, of an attempt that died belong to nobody: mkstemp never gives  *)
(* their names again and no code removes them, so the state below is only  *)
(* that of the attempt under way.                                          *)
(*                                                                         *)
(* Abstracted: pixels, a page is how many rows of it were written; the     *)
(* 4960x7016 geometry, Rows stands for 7016 and Rows - 1 for PAPPL's 7015; *)
(* the encoder's options.                                                  *)
(***************************************************************************)
EXTENDS Naturals, Sequences

CONSTANTS
  Rows,        \* M1005_A4_HEIGHT
  MaxPages,    \* bound on the pages of a document
  OutputLoss   \* whether the encoder may lose the end of its output and
               \* still exit with 0: it ignores the final flush of stdout

ASSUME RasterJobAssumption ==
  /\ Rows \in Nat \ {0, 1}
  /\ MaxPages \in Nat \ {0}
  /\ OutputLoss \in BOOLEAN

VARIABLES
  pc,             \* the call the host or the callback is at, see Pcs
  cancelled,      \* papplJobIsCanceled()
  outcome,        \* the host's final state of the job, or "open"
  hostFailed,     \* the host gave the job up because a callback said so
  y,              \* the next row the host delivers
  files,          \* temporary files that exist
  named,          \* those whose path job_data holds
  pbm_open,       \* job_data->pbm # NULL
  page_height,    \* job_data->page_height
  lines_written,  \* job_data->lines_written
  pages,          \* job_data->pages
  failed,         \* job_data->failed
  pbm,            \* the rows of each page staged in the PBM file
  child,          \* the encoder process
  exit_ok,        \* its exit status is 0
  xqx,            \* what the XQX file holds
  success,        \* the local of that name, then what the callback returns
  sent            \* what the printer got of the XQX file

host == <<cancelled, outcome, hostFailed, y>>
staging == <<page_height, lines_written, pages, failed, pbm>>
encoder == <<child, exit_ok, xqx>>
result == <<success, sent>>
vars == <<pc, host, files, named, pbm_open, staging, encoder, result>>

Temporary == {"pbm", "xqx"}

Pcs == {"pbm", "xqx",          \* raster_start_job, making either file
        "pages",               \* between two pages
        "lines", "endpage",
        "close", "decide",     \* raster_end_job
        "spawn", "encode", "stopping",   \* encode_xqx
        "encoded", "check", "sending",
        "cleanup", "over"}

WholePages == \A p \in 1..Len(pbm) : pbm[p] = Rows

-----------------------------------------------------------------------------

Init ==
  /\ pc = "pbm"
  /\ cancelled = FALSE
  /\ outcome = "open"
  /\ hostFailed = FALSE
  /\ y = 0
  /\ files = {}
  /\ named = {}
  /\ pbm_open = FALSE
  /\ page_height = 0
  /\ lines_written = 0
  /\ pages = 0
  /\ failed = FALSE
  /\ pbm = <<>>
  /\ child = "none"
  /\ exit_ok = FALSE
  /\ xqx = "none"
  /\ success = FALSE
  /\ sent = "none"

Cancel ==
  /\ pc # "over"
  /\ ~cancelled
  /\ cancelled' = TRUE
  /\ UNCHANGED <<pc, outcome, hostFailed, y, files, named, pbm_open, staging,
                 encoder, result>>

-----------------------------------------------------------------------------
(* raster_start_job                                                        *)

\* make_temp_file with a stream.  mkstemp may fail, which leaves its template
\* in the path, or fdopen, which takes file and path back.  A failing calloc
\* is like the second.
MakePbm ==
  /\ pc = "pbm"
  /\ \/ /\ files' = {"pbm"} /\ named' = {"pbm"} /\ pbm_open' = TRUE
        /\ pc' = "xqx"
     \/ /\ named' \in {{}, {"pbm"}}
        /\ pc' = "cleanup"
        /\ UNCHANGED <<files, pbm_open>>
  /\ UNCHANGED <<host, staging, encoder, result>>

MakeXqx ==
  /\ pc = "xqx"
  /\ named' = Temporary
  /\ \/ files' = Temporary /\ xqx' = "empty" /\ pc' = "pages"
     \/ UNCHANGED <<files, xqx>> /\ pc' = "cleanup"
  /\ UNCHANGED <<host, pbm_open, staging, child, exit_ok, result>>

-----------------------------------------------------------------------------
(* The pages                                                               *)

\* Height 0 stands for every header the code does not support.
StartPage(height, ok) ==
  /\ pc = "pages"
  /\ ~cancelled
  /\ Len(pbm) < MaxPages
  /\ UNCHANGED <<cancelled, outcome, files, named, pbm_open, pages, encoder,
                 result>>
  /\ IF ok /\ height \in {Rows - 1, Rows}
       THEN /\ page_height' = height
            /\ lines_written' = 0
            /\ pbm' = Append(pbm, 0)
            /\ y' = 0
            /\ pc' = "lines"
            /\ UNCHANGED <<hostFailed, failed>>
       ELSE /\ failed' = TRUE
            /\ hostFailed' = TRUE
            /\ pc' = "close"
            /\ UNCHANGED <<y, page_height, lines_written, pbm>>

\* The host goes on after a row was refused.
WriteLine(ok) ==
  /\ pc = "lines"
  /\ ~cancelled
  /\ y < page_height
  /\ y' = y + 1
  /\ IF ok /\ ~failed /\ y = lines_written
       THEN /\ lines_written' = lines_written + 1
            /\ pbm' = [pbm EXCEPT ![Len(pbm)] = @ + 1]
            /\ UNCHANGED failed
       ELSE /\ failed' = TRUE
            /\ UNCHANGED <<lines_written, pbm>>
  /\ UNCHANGED <<pc, cancelled, outcome, hostFailed, files, named, pbm_open,
                 page_height, pages, encoder, result>>

\* The page is complete, the job cancelled, or the client's data ends early.
StopLines ==
  /\ pc = "lines"
  /\ pc' = "endpage"
  /\ UNCHANGED <<host, files, named, pbm_open, staging, encoder, result>>

\* An incomplete page is refused without noting a failure: the host gives up.
EndPageRefused ==
  /\ pc = "endpage"
  /\ failed \/ lines_written # page_height
  /\ hostFailed' = TRUE
  /\ pc' = "close"
  /\ UNCHANGED <<cancelled, outcome, y, files, named, pbm_open, staging,
                 encoder, result>>

\* Mutant: every page gets the extra row.
EndPagePadded(ok) ==
  /\ pc = "endpage"
  /\ ~failed
  /\ lines_written = page_height
  /\ pages' = pages + 1
  /\ pbm' = [pbm EXCEPT ![Len(pbm)] = @ + 1]
  /\ pc' = "pages"
  /\ UNCHANGED <<host, files, named, pbm_open, page_height, lines_written,
                 failed, encoder, result>>

\* `ok`: the extra white row of PAPPL's shorter page was written.
EndPage(ok) ==
  /\ pc = "endpage"
  /\ ~failed
  /\ lines_written = page_height
  /\ IF page_height = Rows \/ ok
       THEN /\ pages' = pages + 1
            /\ pbm' = IF page_height = Rows THEN pbm
                      ELSE [pbm EXCEPT ![Len(pbm)] = @ + 1]
            /\ pc' = "pages"
            /\ UNCHANGED <<hostFailed, failed>>
       ELSE /\ failed' = TRUE
            /\ hostFailed' = TRUE
            /\ pc' = "close"
            /\ UNCHANGED <<pages, pbm>>
  /\ UNCHANGED <<cancelled, outcome, y, files, named, pbm_open, page_height,
                 lines_written, encoder, result>>

EndPages ==
  /\ pc = "pages"
  /\ cancelled \/ pbm # <<>>
  /\ pc' = "close"
  /\ UNCHANGED <<host, files, named, pbm_open, staging, encoder, result>>

-----------------------------------------------------------------------------
(* raster_end_job and encode_xqx                                           *)

\* Mutant: the stream is left to cleanup_job_data.
CloseLater(ok) ==
  /\ pc = "close"
  /\ pc' = "decide"
  /\ UNCHANGED <<host, files, named, pbm_open, staging, encoder, result>>

\* fclose may report that buffered rows could not be written.
CloseStream(ok) ==
  /\ pc = "close"
  /\ pbm_open' = FALSE
  /\ IF ok THEN UNCHANGED <<failed, pbm>>
           ELSE failed' = TRUE /\ pbm' = [p \in DOMAIN pbm |-> 0]
  /\ pc' = "decide"
  /\ UNCHANGED <<host, files, named, page_height, lines_written, pages,
                 encoder, result>>

Decide ==
  /\ pc = "decide"
  /\ IF ~cancelled /\ ~failed /\ pages > 0
       THEN pc' = "spawn" /\ UNCHANGED success
       ELSE pc' = "check" /\ success' = cancelled
  /\ UNCHANGED <<host, files, named, pbm_open, staging, encoder, sent>>

Spawn ==
  /\ pc = "spawn"
  /\ \/ child' = "running" /\ xqx' = "empty" /\ pc' = "encode"
        /\ UNCHANGED success
     \/ success' = FALSE /\ pc' = "encoded" /\ UNCHANGED <<child, xqx>>
  /\ UNCHANGED <<host, files, named, pbm_open, staging, exit_ok, sent>>

\* The child ends by itself.  It fails on a page that is not whole
\* (read_and_clip_image) and may fail on any other.
ChildExits ==
  /\ child = "running"
  /\ child' = "exited"
  /\ exit_ok' \in {FALSE, WholePages}
  /\ xqx' \in IF exit_ok' /\ ~OutputLoss THEN {"whole"}
              ELSE {"empty", "part", "whole"}
  /\ UNCHANGED <<pc, host, files, named, pbm_open, staging, result>>

\* Mutant: any exit is a good one.
PollAnyExit ==
  /\ pc = "encode"
  /\ child = "exited"
  /\ child' = "none"
  /\ success' = TRUE
  /\ pc' = "encoded"
  /\ UNCHANGED <<host, files, named, pbm_open, staging, exit_ok, xqx, sent>>

\* waitpid reports the child, or that somebody else already reaped it.
Poll ==
  /\ pc = "encode"
  /\ child = "exited"
  /\ child' = "none"
  /\ success' \in {exit_ok, FALSE}
  /\ pc' = "encoded"
  /\ UNCHANGED <<host, files, named, pbm_open, staging, exit_ok, xqx, sent>>

\* Mutant: encode_xqx returns without waiting for the child it stops.
LeaveChild ==
  /\ pc = "encode"
  /\ cancelled
  /\ success' = FALSE
  /\ pc' = "encoded"
  /\ UNCHANGED <<host, files, named, pbm_open, staging, encoder, sent>>

\* Mutant: the poll does not ask for the job's cancellation.
PollOn ==
  /\ pc = "encode"
  /\ cancelled
  /\ UNCHANGED vars

\* The child was running when waitpid looked, it may have ended since.
StopChild ==
  /\ pc = "encode"
  /\ cancelled
  /\ child' = IF child = "running" THEN "killed" ELSE child
  /\ pc' = "stopping"
  /\ UNCHANGED <<host, files, named, pbm_open, staging, exit_ok, xqx, result>>

Reap ==
  /\ pc = "stopping"
  /\ child \in {"killed", "exited"}
  /\ child' = "none"
  /\ success' = FALSE
  /\ pc' = "encoded"
  /\ UNCHANGED <<host, files, named, pbm_open, staging, exit_ok, xqx, sent>>

\* A failure to encode that comes with a cancellation is not an error.
AfterEncode ==
  /\ pc = "encoded"
  /\ success' = (success \/ cancelled)
  /\ pc' = "check"
  /\ UNCHANGED <<host, files, named, pbm_open, staging, encoder, sent>>

\* Mutant: a success is enough to send.
SendAnyway ==
  /\ pc = "check"
  /\ pc' = IF success THEN "sending" ELSE "cleanup"
  /\ UNCHANGED <<host, files, named, pbm_open, staging, encoder, result>>

CheckBeforeSend ==
  /\ pc = "check"
  /\ pc' = IF success /\ ~cancelled THEN "sending" ELSE "cleanup"
  /\ UNCHANGED <<host, files, named, pbm_open, staging, encoder, result>>

\* send_xqx: all of the file, some of it or nothing goes out.
SendEnds(out) ==
  /\ pc = "sending"
  /\ out = "part" => xqx # "empty"
  /\ sent' = out
  /\ success' \in {FALSE, out = "whole" \/ cancelled}
  /\ pc' = "cleanup"
  /\ UNCHANGED <<host, files, named, pbm_open, staging, encoder>>

\* cleanup_job_data; then the callback returns and the host closes the job.
Cleanup ==
  /\ pc = "cleanup"
  /\ files' = files \ named
  /\ named' = {}
  /\ pbm_open' = FALSE
  /\ outcome' = IF cancelled THEN "canceled"
                ELSE IF success /\ ~hostFailed THEN "completed" ELSE "aborted"
  /\ pc' = "over"
  /\ UNCHANGED <<cancelled, hostFailed, y, staging, encoder, result>>

-----------------------------------------------------------------------------

\* The service dies.  Its host comes back and gives the job up, or runs it
\* again from the start; a cancellation that had not ended it is forgotten.
Crash ==
  /\ pc # "over"
  /\ \/ pc' = "pbm" /\ outcome' = "open"
     \/ pc' = "over" /\ outcome' = "aborted"
  /\ cancelled' = FALSE
  /\ hostFailed' = FALSE
  /\ y' = 0
  /\ files' = {}
  /\ named' = {}
  /\ pbm_open' = FALSE
  /\ page_height' = 0
  /\ lines_written' = 0
  /\ pages' = 0
  /\ failed' = FALSE
  /\ pbm' = <<>>
  /\ child' = "none"
  /\ exit_ok' = FALSE
  /\ xqx' = "none"
  /\ success' = FALSE
  /\ sent' = "none"

Callback ==
  \/ MakePbm \/ MakeXqx
  \/ \E height \in {0, Rows - 1, Rows}, ok \in BOOLEAN : StartPage(height, ok)
  \/ \E ok \in BOOLEAN : WriteLine(ok)
  \/ StopLines
  \/ EndPageRefused
  \/ \E ok \in BOOLEAN : EndPage(ok)
  \/ EndPages
  \/ \E ok \in BOOLEAN : CloseStream(ok)
  \/ Decide \/ Spawn \/ Poll \/ StopChild \/ Reap \/ AfterEncode
  \/ CheckBeforeSend
  \/ \E out \in {"none", "part", "whole"} : SendEnds(out)
  \/ Cleanup

Next == Callback \/ ChildExits \/ Cancel \/ Crash

Spec == Init /\ [][Next]_vars

\* The service and the host go on; the encoder may hang.
FairSpec == Spec /\ WF_vars(Callback)

-----------------------------------------------------------------------------
(* Properties                                                              *)

\* The state stays within the ranges the C types and the page size give it:
\* no page has more rows than its header announced.
TypeOK ==
  /\ pc \in Pcs
  /\ cancelled \in BOOLEAN
  /\ outcome \in {"open", "completed", "canceled", "aborted"}
  /\ hostFailed \in BOOLEAN
  /\ y \in 0..Rows
  /\ files \subseteq Temporary
  /\ named \subseteq Temporary
  /\ pbm_open \in BOOLEAN
  /\ page_height \in {0, Rows - 1, Rows}
  /\ lines_written \in 0..Rows
  /\ pages \in 0..MaxPages
  /\ failed \in BOOLEAN
  /\ pbm \in Seq(0..Rows)
  /\ child \in {"none", "running", "exited", "killed"}
  /\ exit_ok \in BOOLEAN
  /\ xqx \in {"none", "empty", "part", "whole"}
  /\ success \in BOOLEAN
  /\ sent \in {"none", "part", "whole"}

\* However an attempt that the service survives ends, its temporary files,
\* its stream and its encoder process are gone when the last callback has
\* returned.
NothingLeftBehind ==
  pc = "over" => files = {} /\ ~pbm_open /\ child = "none"

\* The encoder is only ever started on a file that is complete on disk: the
\* stream is closed and no write to it was lost.
EncoderReadsFlushed == child # "none" => ~pbm_open /\ ~failed /\ pages > 0

\* No data of a document with an incomplete page reaches the printer, also
\* not of a page that was refused without marking the job as failed, nor of
\* an attempt that a crash cut short.
SentIsWhole == sent # "none" => WholePages /\ pages = Len(pbm)

Sent == IF pc = "sending" THEN "begun" ELSE sent

\* The encoder reports success for a file that lacks its end.
Lost == exit_ok /\ xqx # "whole"

C == INSTANCE JobContract WITH sent <- Sent, lost <- Lost

\* The job keeps the promise of JobContract: whatever is cancelled, fails or dies
\* and wherever it does, nothing goes out after a cancellation that came before,
\* and a completed job sent everything the encoder left in the file.  That is the
\* document, unless the encoder lost the end of it and exited with 0, which
\* nothing in the job notices.
ContractSpec == C!Spec

\* A cancelled job ends even when the encoder hangs, unless the service dies
\* first and with it the cancellation.
CancelEnds == cancelled ~> pc = "over" \/ ~cancelled
=============================================================================
