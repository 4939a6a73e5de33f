-------------------------- MODULE RasterJobProofs --------------------------
(***************************************************************************)
(* Proofs about RasterJob, for every page height and number of pages: its  *)
(* type correctness, its safety invariants and the refinement of           *)
(* JobContract, whether or not the encoder loses output unnoticed.  And    *)
(* about PageGeometry: that the sizes of a page fit together.              *)
(***************************************************************************)
EXTENDS RasterJob, PageGeometry, SequenceTheorems, TLAPS

-----------------------------------------------------------------------------
(* The inductive invariant                                                 *)

Early == {"pbm", "xqx"}
InPage == {"lines", "endpage"}
Encoding == {"encode", "stopping"}
Encoded == Encoding \cup {"encoded", "check", "sending", "cleanup", "over"}
Unsent == Pcs \ {"cleanup", "over"}

\* Whatever exists can be found by cleanup_job_data.
FilesInv ==
  /\ files \subseteq named
  /\ pc = "pbm" => files = {}
  /\ pc = "over" => named = {}
  /\ pbm_open => pc \in {"xqx", "pages", "close", "cleanup"} \cup InPage

\* Where the pages counted and the pages staged stand to each other.  A page
\* that was refused without a note is short, and it is the last.
PagesInv ==
  /\ Len(pbm) <= MaxPages
  /\ pages <= Len(pbm)
  /\ pc \in Early => pbm = <<>>
  /\ pc = "pages" => pages = Len(pbm)
  /\ pc \in InPage => /\ pbm # <<>>
                      /\ pages + 1 = Len(pbm)
                      /\ page_height # 0
                      /\ lines_written <= page_height
                      /\ pbm[Len(pbm)] = lines_written
  /\ ~failed /\ WholePages /\ pc \notin InPage => pages = Len(pbm)

\* The encoder runs on a closed file only, and what it says of the document is
\* true of it.
EncoderInv ==
  /\ child # "none" <=> pc \in Encoding
  /\ pc \in {"spawn"} \cup Encoding => ~failed /\ pages > 0 /\ ~pbm_open
  /\ exit_ok => pc \in Encoded /\ WholePages /\ pages = Len(pbm)

\* What `success` stands for on its way to send_xqx.
ResultInv ==
  /\ pc \notin Encoded => ~success
  /\ pc = "encoded" /\ success => exit_ok
  /\ pc = "check" /\ success => exit_ok \/ cancelled
  /\ pc = "sending" => exit_ok
  /\ pc \in Unsent => sent = "none"
  /\ sent # "none" => exit_ok

IInv == TypeOK /\ FilesInv /\ PagesInv /\ EncoderInv /\ ResultInv

-----------------------------------------------------------------------------
(* The staged pages as a sequence                                          *)

\* Changing the last page of a document, and no other, keeps the document as
\* long as it was.
LEMMA LastPage ==
  ASSUME NEW s \in Seq(0..Rows), s # <<>>, NEW n \in 0..Rows
  PROVE  LET t == [s EXCEPT ![Len(s)] = n]
         IN  t \in Seq(0..Rows) /\ Len(t) = Len(s) /\ t[Len(t)] = n
  <1>1. Len(s) \in 1..Len(s)
    BY EmptySeq, LenProperties
  <1>2. QED
    BY <1>1, ExceptSeq

\* Losing the rows of a document leaves a document of as many pages.
LEMMA LostRows ==
  ASSUME NEW s \in Seq(0..Rows), Rows \in Nat
  PROVE  LET t == [p \in DOMAIN s |-> 0]
         IN  t \in Seq(0..Rows) /\ Len(t) = Len(s)
  <1>1. DOMAIN s = 1..Len(s) /\ Len(s) \in Nat
    BY LenProperties
  <1>2. QED
    BY <1>1, IsASeq

-----------------------------------------------------------------------------
(* The invariant is inductive                                              *)

\* A job starts with nothing staged, open or running.
LEMMA InitInv == Init => IInv
  <1> SUFFICES ASSUME Init PROVE IInv
    OBVIOUS
  <1> USE RasterJobAssumption DEF Init
  <1>1. pbm = <<>> /\ pbm \in Seq(0..Rows) /\ Len(pbm) = 0
    BY EmptySeq
  <1>2. TypeOK
    <2>1. /\ y \in 0..Rows /\ page_height \in {0, Rows - 1, Rows}
          /\ lines_written \in 0..Rows /\ pages \in 0..MaxPages
      OBVIOUS
    <2>2. /\ pc \in Pcs
          /\ files \subseteq Temporary /\ named \subseteq Temporary
      BY DEF Pcs
    <2>3. QED
      BY <1>1, <2>1, <2>2 DEF TypeOK
  <1>3. FilesInv /\ EncoderInv /\ ResultInv
    BY DEF FilesInv, EncoderInv, ResultInv, Encoding, Encoded, Unsent, Pcs
  <1>4. PagesInv
    BY <1>1 DEF PagesInv, InPage, Early
  <1>5. QED
    BY <1>2, <1>3, <1>4 DEF IInv

\* Before the first page no page is counted.
LEMMA EmptyPages ==
  ASSUME TypeOK, PagesInv, pc \in Early
  PROVE  pbm = <<>> /\ pages = 0
  <1>1. pbm = <<>> /\ Len(pbm) = 0
    BY EmptySeq DEF PagesInv
  <1>2. QED
    BY <1>1, RasterJobAssumption DEF TypeOK, PagesInv

\* A step that leaves the pages alone keeps what is known of them, as far as
\* the place it goes to allows it.
LEMMA SamePages ==
  ASSUME PagesInv, UNCHANGED staging,
         pc' \in Early => pc \in Early,
         pc' = "pages" => pbm = <<>> /\ pages = 0,
         pc' \in InPage => pc \in InPage,
         pc' \notin InPage => pc \notin InPage
  PROVE  PagesInv'
  BY DEF PagesInv, staging, WholePages, InPage, Early

\* No callback, no exit of the encoder, no cancellation and no crash of the
\* service breaks it.
LEMMA NextInv == IInv /\ [Next]_vars => IInv'
  <1> SUFFICES ASSUME IInv, [Next]_vars PROVE IInv'
    OBVIOUS
  <1> USE RasterJobAssumption DEF IInv, host, staging, encoder, result
  <1>a. pbm' = pbm => (WholePages' <=> WholePages)
    BY DEF WholePages
  <1>1. CASE Cancel
    <2> USE <1>1 DEF Cancel
    <2>1. TypeOK'
      BY DEF TypeOK, Pcs, Temporary
    <2>2. PagesInv'
      BY SamePages DEF PagesInv, Early, InPage
    <2>3. FilesInv'
      BY DEF FilesInv, TypeOK, Pcs, InPage, Temporary
    <2>4. EncoderInv' /\ ResultInv'
      BY <1>a DEF EncoderInv, ResultInv, PagesInv, FilesInv, Encoding, Encoded,
                  Unsent, InPage, TypeOK, Pcs
    <2>5. QED
      BY <2>1, <2>2, <2>3, <2>4
  <1>2. CASE MakePbm
    <2> USE <1>2 DEF MakePbm
    <2>1. TypeOK'
      <3>1. /\ named' \subseteq Temporary /\ files' \subseteq Temporary
            /\ pbm_open' \in BOOLEAN /\ pc' \in Pcs
        BY DEF TypeOK, Pcs, Temporary
      <3>2. QED
        BY <3>1 DEF TypeOK
    <2>2. PagesInv'
      BY SamePages DEF PagesInv, Early, InPage
    <2>3. FilesInv'
      BY DEF FilesInv, TypeOK, Pcs, InPage, Temporary
    <2>4. EncoderInv' /\ ResultInv'
      BY <1>a DEF EncoderInv, ResultInv, PagesInv, FilesInv, Encoding, Encoded,
                  Unsent, InPage, TypeOK, Pcs
    <2>5. QED
      BY <2>1, <2>2, <2>3, <2>4
  <1>3. CASE MakeXqx
    <2> USE <1>3 DEF MakeXqx
    <2>1. TypeOK'
      <3>1. /\ named' \subseteq Temporary /\ files' \subseteq Temporary
            /\ pc' \in Pcs
            /\ xqx' \in {"none", "empty", "part", "whole"}
        BY DEF TypeOK, Pcs, Temporary
      <3>2. QED
        BY <3>1 DEF TypeOK
    <2>2. PagesInv'
      BY SamePages, EmptyPages DEF Early, InPage
    <2>3. FilesInv'
      BY DEF FilesInv, TypeOK, Pcs, InPage, Temporary
    <2>4. EncoderInv' /\ ResultInv'
      BY <1>a DEF EncoderInv, ResultInv, PagesInv, FilesInv, Encoding, Encoded,
                  Unsent, InPage, TypeOK, Pcs
    <2>5. QED
      BY <2>1, <2>2, <2>3, <2>4
  <1>4. CASE StopLines
    <2> USE <1>4 DEF StopLines
    <2>1. TypeOK'
      BY DEF TypeOK, Pcs, Temporary
    <2>2. PagesInv'
      BY SamePages DEF PagesInv, Early, InPage
    <2>3. FilesInv'
      BY DEF FilesInv, TypeOK, Pcs, InPage, Temporary
    <2>4. EncoderInv' /\ ResultInv'
      BY <1>a DEF EncoderInv, ResultInv, PagesInv, FilesInv, Encoding, Encoded,
                  Unsent, InPage, TypeOK, Pcs
    <2>5. QED
      BY <2>1, <2>2, <2>3, <2>4
  <1>5. CASE EndPages
    <2> USE <1>5 DEF EndPages
    <2>1. TypeOK'
      BY DEF TypeOK, Pcs, Temporary
    <2>2. PagesInv'
      BY SamePages DEF PagesInv, Early, InPage
    <2>3. FilesInv'
      BY DEF FilesInv, TypeOK, Pcs, InPage, Temporary
    <2>4. EncoderInv' /\ ResultInv'
      BY <1>a DEF EncoderInv, ResultInv, PagesInv, FilesInv, Encoding, Encoded,
                  Unsent, InPage, TypeOK, Pcs
    <2>5. QED
      BY <2>1, <2>2, <2>3, <2>4
  <1>6. CASE Decide
    <2> USE <1>6 DEF Decide
    <2>1. TypeOK'
      BY DEF TypeOK, Pcs, Temporary
    <2>2. PagesInv'
      BY SamePages DEF PagesInv, Early, InPage
    <2>3. FilesInv'
      BY DEF FilesInv, TypeOK, Pcs, InPage, Temporary
    <2>4. EncoderInv' /\ ResultInv'
      BY <1>a DEF EncoderInv, ResultInv, PagesInv, FilesInv, Encoding, Encoded,
                  Unsent, InPage, TypeOK, Pcs
    <2>5. QED
      BY <2>1, <2>2, <2>3, <2>4
  <1>7. CASE Spawn
    <2> USE <1>7 DEF Spawn
    <2>1. TypeOK'
      <3>1. /\ pc' \in Pcs /\ success' \in BOOLEAN
            /\ xqx' \in {"none", "empty", "part", "whole"}
            /\ child' \in {"none", "running", "exited", "killed"}
        BY DEF TypeOK, Pcs, Temporary
      <3>2. QED
        BY <3>1 DEF TypeOK
    <2>2. PagesInv'
      BY SamePages DEF PagesInv, Early, InPage
    <2>3. FilesInv'
      BY DEF FilesInv, TypeOK, Pcs, InPage, Temporary
    <2>4. EncoderInv' /\ ResultInv'
      BY <1>a DEF EncoderInv, ResultInv, PagesInv, FilesInv, Encoding, Encoded,
                  Unsent, InPage, TypeOK, Pcs
    <2>5. QED
      BY <2>1, <2>2, <2>3, <2>4
  <1>8. CASE ChildExits
    <2> USE <1>8 DEF ChildExits
    <2>1. TypeOK'
      <3>1. exit_ok' \in BOOLEAN
        <4>1. WholePages \in BOOLEAN
          BY DEF WholePages
        <4>2. exit_ok' = FALSE \/ exit_ok' = WholePages
          OBVIOUS
        <4>3. QED
          BY <4>1, <4>2, Zenon
      <3>2. /\ child' \in {"none", "running", "exited", "killed"}
            /\ xqx' \in {"none", "empty", "part", "whole"}
        OBVIOUS
      <3>3. UNCHANGED <<pc, cancelled, outcome, hostFailed, y, files, named,
                        pbm_open, page_height, lines_written, pages, failed,
                        pbm, success, sent>>
        OBVIOUS
      <3> HIDE <1>8 DEF ChildExits
      <3>4. QED
        BY <3>1, <3>2, <3>3 DEF TypeOK
    <2>2. PagesInv'
      BY SamePages DEF PagesInv, Early, InPage
    <2>3. FilesInv'
      BY DEF FilesInv, TypeOK, Pcs, InPage, Temporary
    <2>4. EncoderInv' /\ ResultInv'
      <3>1. exit_ok' => WholePages
        OBVIOUS
      <3>2. exit_ok' => pages = Len(pbm)
        BY <3>1 DEF PagesInv, EncoderInv, Encoding, InPage
      <3>3. EncoderInv'
        BY <1>a, <3>1, <3>2 DEF EncoderInv, Encoding, Encoded
      <3>4. ResultInv'
        BY DEF ResultInv, EncoderInv, Encoding, Encoded, Unsent, Pcs
      <3>5. QED
        BY <3>3, <3>4
    <2>5. QED
      BY <2>1, <2>2, <2>3, <2>4
  <1>9. CASE Poll
    <2> USE <1>9 DEF Poll
    <2>1. TypeOK'
      <3>1. success' \in BOOLEAN /\ pc' \in Pcs /\ child' = "none"
        BY DEF TypeOK, Pcs, Temporary
      <3>2. QED
        BY <3>1 DEF TypeOK
    <2>2. PagesInv'
      BY SamePages DEF PagesInv, Early, InPage
    <2>3. FilesInv'
      BY DEF FilesInv, TypeOK, Pcs, InPage, Temporary
    <2>4. EncoderInv' /\ ResultInv'
      <3>1. success' => exit_ok
        OBVIOUS
      <3>2. EncoderInv'
        BY <1>a DEF EncoderInv, Encoding, Encoded
      <3>3. ResultInv'
        BY <3>1 DEF ResultInv, EncoderInv, Encoding, Encoded, Unsent, Pcs
      <3>4. QED
        BY <3>2, <3>3
    <2>5. QED
      BY <2>1, <2>2, <2>3, <2>4
  <1>10. CASE StopChild
    <2> USE <1>10 DEF StopChild
    <2>1. TypeOK'
      BY DEF TypeOK, Pcs, Temporary
    <2>2. PagesInv'
      BY SamePages DEF PagesInv, Early, InPage
    <2>3. FilesInv'
      BY DEF FilesInv, TypeOK, Pcs, InPage, Temporary
    <2>4. EncoderInv' /\ ResultInv'
      BY <1>a DEF EncoderInv, ResultInv, PagesInv, FilesInv, Encoding, Encoded,
                  Unsent, InPage, TypeOK, Pcs
    <2>5. QED
      BY <2>1, <2>2, <2>3, <2>4
  <1>11. CASE Reap
    <2> USE <1>11 DEF Reap
    <2>1. TypeOK'
      <3>1. success' \in BOOLEAN /\ pc' \in Pcs /\ child' = "none"
        BY DEF TypeOK, Pcs, Temporary
      <3>2. QED
        BY <3>1 DEF TypeOK
    <2>2. PagesInv'
      BY SamePages DEF PagesInv, Early, InPage
    <2>3. FilesInv'
      BY DEF FilesInv, TypeOK, Pcs, InPage, Temporary
    <2>4. EncoderInv' /\ ResultInv'
      BY <1>a DEF EncoderInv, ResultInv, PagesInv, FilesInv, Encoding, Encoded,
                  Unsent, InPage, TypeOK, Pcs
    <2>5. QED
      BY <2>1, <2>2, <2>3, <2>4
  <1>12. CASE AfterEncode
    <2> USE <1>12 DEF AfterEncode
    <2>1. TypeOK'
      BY DEF TypeOK, Pcs, Temporary
    <2>2. PagesInv'
      BY SamePages DEF PagesInv, Early, InPage
    <2>3. FilesInv'
      BY DEF FilesInv, TypeOK, Pcs, InPage, Temporary
    <2>4. EncoderInv' /\ ResultInv'
      BY <1>a DEF EncoderInv, ResultInv, PagesInv, FilesInv, Encoding, Encoded,
                  Unsent, InPage, TypeOK, Pcs
    <2>5. QED
      BY <2>1, <2>2, <2>3, <2>4
  <1>13. CASE CheckBeforeSend
    <2> USE <1>13 DEF CheckBeforeSend
    <2>1. TypeOK'
      BY DEF TypeOK, Pcs, Temporary
    <2>2. PagesInv'
      BY SamePages DEF PagesInv, Early, InPage
    <2>3. FilesInv'
      BY DEF FilesInv, TypeOK, Pcs, InPage, Temporary
    <2>4. EncoderInv' /\ ResultInv'
      BY <1>a DEF EncoderInv, ResultInv, PagesInv, FilesInv, Encoding, Encoded,
                  Unsent, InPage, TypeOK, Pcs
    <2>5. QED
      BY <2>1, <2>2, <2>3, <2>4
  <1>14. CASE Cleanup
    <2> USE <1>14 DEF Cleanup
    <2>1. TypeOK'
      <3>1. /\ pc' \in Pcs
            /\ outcome' \in {"open", "completed", "canceled", "aborted"}
            /\ files' \subseteq Temporary
            /\ named' \subseteq Temporary
            /\ pbm_open' \in BOOLEAN
        BY DEF TypeOK, Pcs, Temporary
      <3>2. UNCHANGED <<cancelled, hostFailed, y, page_height, lines_written,
                        pages, failed, pbm, child, exit_ok, xqx, success,
                        sent>>
        OBVIOUS
      <3> HIDE <1>14 DEF Cleanup
      <3>3. QED
        BY <3>1, <3>2 DEF TypeOK
    <2>2. PagesInv'
      BY SamePages DEF PagesInv, Early, InPage
    <2>3. FilesInv'
      BY DEF FilesInv, TypeOK, Pcs, InPage, Temporary
    <2>4. EncoderInv' /\ ResultInv'
      BY <1>a DEF EncoderInv, ResultInv, PagesInv, FilesInv, Encoding, Encoded,
                  Unsent, InPage, TypeOK, Pcs
    <2>5. QED
      BY <2>1, <2>2, <2>3, <2>4
  <1>15. ASSUME NEW out \in {"none", "part", "whole"}, SendEnds(out)
         PROVE  IInv'
    <2> USE <1>15 DEF SendEnds
    <2>1. TypeOK'
      <3>1. pc' \in Pcs /\ success' \in BOOLEAN
            /\ sent' \in {"none", "part", "whole"}
        BY DEF TypeOK, Pcs
      <3>2. QED
        BY <3>1 DEF TypeOK
    <2>2. PagesInv'
      BY SamePages DEF PagesInv, Early, InPage
    <2>3. FilesInv'
      BY DEF FilesInv, TypeOK, Pcs, InPage, Temporary
    <2>4. EncoderInv' /\ ResultInv'
      BY <1>a DEF EncoderInv, ResultInv, PagesInv, FilesInv, Encoding, Encoded,
                  Unsent, InPage, TypeOK, Pcs
    <2>5. QED
      BY <2>1, <2>2, <2>3, <2>4
  <1>16. ASSUME NEW height \in {0, Rows - 1, Rows}, NEW ok \in BOOLEAN,
                StartPage(height, ok)
         PROVE  IInv'
    <2> USE <1>16 DEF StartPage
    <2>1. pages = Len(pbm) /\ ~exit_ok /\ child = "none" /\ sent = "none"
      BY DEF PagesInv, EncoderInv, ResultInv, Encoded, Encoding, Unsent, Pcs,
             TypeOK
    <2>2. CASE ok /\ height \in {Rows - 1, Rows}
      <3>1. /\ pbm' \in Seq(0..Rows) /\ pbm' # <<>>
            /\ Len(pbm') = Len(pbm) + 1 /\ pbm'[Len(pbm')] = 0
        <4>1. pbm' = Append(pbm, 0)
          BY <2>2
        <4>2. pbm \in Seq(0..Rows) /\ 0 \in 0..Rows
          BY RasterJobAssumption DEF TypeOK
        <4> QED BY <4>1, <4>2, AppendProperties
      <3>2. Len(pbm) \in Nat
        BY DEF TypeOK
      <3>3. TypeOK'
        BY <2>2, <3>1 DEF TypeOK, Pcs
      <3>4. PagesInv'
        BY <2>1, <2>2, <3>1, <3>2 DEF PagesInv, Early, InPage, TypeOK
      <3>5. FilesInv' /\ EncoderInv' /\ ResultInv'
        BY <2>1, <2>2 DEF FilesInv, EncoderInv, ResultInv, InPage, Encoding,
                          Encoded, Unsent, Pcs
      <3>6. QED
        BY <3>3, <3>4, <3>5
    <2>3. CASE ~(ok /\ height \in {Rows - 1, Rows})
      <3>1. TypeOK'
        <4>1. failed' \in BOOLEAN /\ hostFailed' \in BOOLEAN /\ pc' \in Pcs
          BY <2>3 DEF Pcs
        <4>2. UNCHANGED <<cancelled, outcome, y, files, named, pbm_open,
                          page_height, lines_written, pages, pbm, child,
                          exit_ok, xqx, success, sent>>
          BY <2>3
        <4> HIDE <1>16 DEF StartPage
        <4>3. QED
          BY <4>1, <4>2 DEF TypeOK
      <3>2. PagesInv'
        BY <2>1, <2>3 DEF PagesInv, Early, InPage
      <3>3. FilesInv' /\ EncoderInv' /\ ResultInv'
        BY <2>1, <2>3 DEF FilesInv, EncoderInv, ResultInv, InPage, Encoding,
                          Encoded, Unsent, Pcs
      <3>4. QED
        BY <3>1, <3>2, <3>3
    <2>4. QED
      BY <2>2, <2>3
  <1>17. ASSUME NEW ok \in BOOLEAN, WriteLine(ok)
         PROVE  IInv'
    <2> USE <1>17 DEF WriteLine
    <2>1. ~exit_ok /\ child = "none" /\ sent = "none" /\ ~success
      BY DEF EncoderInv, ResultInv, Encoded, Encoding, Unsent, Pcs, TypeOK
    <2>2. y' \in 0..Rows
      BY DEF TypeOK
    <2>3. CASE ok /\ ~failed /\ y = lines_written
      <3>1. lines_written + 1 \in 0..Rows /\ lines_written + 1 <= page_height
        BY <2>3 DEF TypeOK
      <3>2. pbm # <<>> /\ pbm[Len(pbm)] = lines_written
        BY DEF PagesInv, InPage
      <3>3. pbm' = [pbm EXCEPT ![Len(pbm)] = lines_written + 1]
        BY <2>3, <3>2
      <3>4. /\ pbm' \in Seq(0..Rows) /\ Len(pbm') = Len(pbm)
            /\ pbm'[Len(pbm')] = lines_written + 1
        BY <3>1, <3>2, <3>3, LastPage DEF TypeOK
      <3>5. pbm' # <<>>
        BY <3>2, <3>4, EmptySeq DEF TypeOK
      <3>6. TypeOK'
        BY <2>2, <2>3, <3>1, <3>4 DEF TypeOK
      <3>7. PagesInv'
        BY <2>3, <3>1, <3>4, <3>5 DEF PagesInv, Early, InPage
      <3>8. FilesInv' /\ EncoderInv' /\ ResultInv'
        BY <2>1, <2>3 DEF FilesInv, EncoderInv, ResultInv, InPage, Encoding,
                          Encoded, Unsent, Pcs
      <3>9. QED
        BY <3>6, <3>7, <3>8
    <2>4. CASE ~(ok /\ ~failed /\ y = lines_written)
      <3>1. TypeOK'
        <4>1. failed' \in BOOLEAN
          BY <2>4
        <4>2. UNCHANGED <<pc, cancelled, outcome, hostFailed, files, named,
                          pbm_open, page_height, lines_written, pages, pbm,
                          child, exit_ok, xqx, success, sent>>
          BY <2>4
        <4> HIDE <1>17 DEF WriteLine
        <4>3. QED
          BY <2>2, <4>1, <4>2 DEF TypeOK
      <3>2. PagesInv'
        BY <2>4 DEF PagesInv, Early, InPage
      <3>3. FilesInv' /\ EncoderInv' /\ ResultInv'
        BY <2>1, <2>4 DEF FilesInv, EncoderInv, ResultInv, InPage, Encoding,
                          Encoded, Unsent, Pcs
      <3>4. QED
        BY <3>1, <3>2, <3>3
    <2>5. QED
      BY <2>3, <2>4
  <1>18. CASE EndPageRefused
    <2> USE <1>18 DEF EndPageRefused
    <2>1. TypeOK'
      BY DEF TypeOK, Pcs
    <2>2. ~failed => ~WholePages
      <3>1. pbm # <<>> /\ pbm[Len(pbm)] = lines_written
            /\ lines_written <= page_height /\ page_height <= Rows
        BY DEF PagesInv, InPage, TypeOK
      <3>2. Len(pbm) \in 1..Len(pbm)
        BY <3>1, EmptySeq, LenProperties DEF TypeOK
      <3>3. ~failed => pbm[Len(pbm)] # Rows
        BY <3>1 DEF TypeOK
      <3>4. QED
        BY <3>2, <3>3 DEF WholePages
    <2>3. PagesInv'
      BY <1>a, <2>2 DEF PagesInv, Early, InPage
    <2>4. FilesInv' /\ EncoderInv' /\ ResultInv'
      BY <1>a DEF FilesInv, EncoderInv, ResultInv, InPage, Encoding, Encoded,
                  Unsent, Pcs
    <2>5. QED
      BY <2>1, <2>3, <2>4
  <1>19. ASSUME NEW ok \in BOOLEAN, EndPage(ok)
         PROVE  IInv'
    <2> USE <1>19 DEF EndPage
    <2>1. ~exit_ok /\ child = "none" /\ sent = "none" /\ ~success
      BY DEF EncoderInv, ResultInv, Encoded, Encoding, Unsent, Pcs, TypeOK
    <2>2. pbm # <<>> /\ pages + 1 = Len(pbm) /\ Len(pbm) <= MaxPages
          /\ pbm[Len(pbm)] = page_height
      BY DEF PagesInv, InPage
    <2>3. CASE page_height = Rows \/ ok
      <3>1. pbm' \in Seq(0..Rows) /\ Len(pbm') = Len(pbm)
        <4>1. CASE page_height = Rows
          BY <2>3, <4>1 DEF TypeOK
        <4>2. CASE page_height # Rows
          <5>1. page_height + 1 \in 0..Rows
            BY <4>2 DEF TypeOK
          <5>2. pbm' = [pbm EXCEPT ![Len(pbm)] = page_height + 1]
            BY <2>2, <2>3, <4>2
          <5>3. QED
            BY <2>2, <5>1, <5>2, LastPage DEF TypeOK
        <4>3. QED
          BY <4>1, <4>2
      <3>2. pages' \in 0..MaxPages /\ pages' = Len(pbm')
        BY <2>2, <2>3, <3>1 DEF TypeOK
      <3>3. TypeOK'
        BY <2>3, <3>1, <3>2 DEF TypeOK, Pcs
      <3>4. PagesInv'
        BY <2>2, <3>1, <3>2, <2>3 DEF PagesInv, Early, InPage
      <3>5. FilesInv' /\ EncoderInv' /\ ResultInv'
        BY <2>1, <2>3 DEF FilesInv, EncoderInv, ResultInv, InPage, Encoding,
                          Encoded, Unsent, Pcs
      <3>6. QED
        BY <3>3, <3>4, <3>5
    <2>4. CASE ~(page_height = Rows \/ ok)
      <3>1. TypeOK'
        BY <2>4 DEF TypeOK, Pcs
      <3>2. PagesInv'
        BY <2>2, <2>4 DEF PagesInv, Early, InPage, TypeOK
      <3>3. FilesInv' /\ EncoderInv' /\ ResultInv'
        BY <2>1, <2>4 DEF FilesInv, EncoderInv, ResultInv, InPage, Encoding,
                          Encoded, Unsent, Pcs
      <3>4. QED
        BY <3>1, <3>2, <3>3
    <2>5. QED
      BY <2>3, <2>4
  <1>20. ASSUME NEW ok \in BOOLEAN, CloseStream(ok)
         PROVE  IInv'
    <2> USE <1>20 DEF CloseStream
    <2>1. ~exit_ok /\ child = "none" /\ sent = "none" /\ ~success
      BY DEF EncoderInv, ResultInv, Encoded, Encoding, Unsent, Pcs, TypeOK
    <2>2. pbm' \in Seq(0..Rows) /\ Len(pbm') = Len(pbm)
      BY LostRows DEF TypeOK
    <2>3. failed' \in BOOLEAN
      BY DEF TypeOK
    <2>4. TypeOK'
      <3>1. pc' \in Pcs /\ pbm_open' \in BOOLEAN
        BY DEF Pcs
      <3>2. UNCHANGED <<cancelled, outcome, hostFailed, y, files, named,
                        page_height, lines_written, pages, child, exit_ok, xqx,
                        success, sent>>
        OBVIOUS
      <3> HIDE <1>20 DEF CloseStream
      <3>3. QED
        BY <2>2, <2>3, <3>1, <3>2 DEF TypeOK
    <2>5. PagesInv'
      <3>1. CASE ok
        BY <3>1, <1>a DEF PagesInv, Early, InPage
      <3>2. CASE ~ok
        BY <3>2, <2>2 DEF PagesInv, Early, InPage
      <3>3. QED
        BY <3>1, <3>2
    <2>6. FilesInv' /\ EncoderInv' /\ ResultInv'
      BY <2>1 DEF FilesInv, EncoderInv, ResultInv, InPage, Encoding, Encoded,
                  Unsent, Pcs
    <2>7. QED
      BY <2>4, <2>5, <2>6
  <1>21. CASE UNCHANGED vars
    <2> USE <1>21 DEF vars
    <2>1. TypeOK' /\ FilesInv' /\ ResultInv'
      BY DEF TypeOK, FilesInv, ResultInv
    <2>2. PagesInv' /\ EncoderInv'
      BY <1>a, SamePages DEF EncoderInv, PagesInv, Early
    <2>3. QED
      BY <2>1, <2>2
  <1>22. CASE Crash
    <2> USE <1>22 DEF Crash
    <2>1. pbm' = <<>> /\ pbm' \in Seq(0..Rows) /\ Len(pbm') = 0
      BY EmptySeq
    <2>2. TypeOK'
      <3>1. /\ y' \in 0..Rows /\ page_height' \in {0, Rows - 1, Rows}
            /\ lines_written' \in 0..Rows /\ pages' \in 0..MaxPages
        OBVIOUS
      <3>2. /\ pc' \in Pcs
            /\ outcome' \in {"open", "completed", "canceled", "aborted"}
            /\ files' \subseteq Temporary /\ named' \subseteq Temporary
        BY DEF Pcs
      <3>3. QED
        BY <2>1, <3>1, <3>2 DEF TypeOK
    <2>3. FilesInv' /\ EncoderInv' /\ ResultInv'
      BY DEF FilesInv, EncoderInv, ResultInv, Encoding, Encoded, Unsent, Pcs
    <2>4. PagesInv'
      BY <2>1 DEF PagesInv, InPage, Early
    <2>5. QED
      BY <2>2, <2>3, <2>4
  <1>23. QED
    BY <1>1, <1>2, <1>3, <1>4, <1>5, <1>6, <1>7, <1>8, <1>9, <1>10, <1>11,
       <1>12, <1>13, <1>14, <1>15, <1>16, <1>17, <1>18, <1>19, <1>20, <1>21,
       <1>22 DEF Next, Callback

\* The invariant holds in every state of every job.
LEMMA Inductive == Spec => []IInv
  BY InitInv, NextInv, PTL DEF Spec

-----------------------------------------------------------------------------
(* The theorems                                                            *)

\* The state of a job stays within its types.
THEOREM TypeCorrect == Spec => []TypeOK
  <1>1. IInv => TypeOK
    BY DEF IInv
  <1>2. QED
    BY <1>1, Inductive, PTL

\* When a job is over, no file, no open stream and no process of it is left,
\* wherever it failed or was cancelled.
THEOREM NothingStays == Spec => []NothingLeftBehind
  <1>1. IInv => NothingLeftBehind
    BY DEF IInv, FilesInv, EncoderInv, Encoding, InPage, NothingLeftBehind
  <1>2. QED
    BY <1>1, Inductive, PTL

\* The encoder never runs on a file that is still written or lost rows.
THEOREM EncoderIsFed == Spec => []EncoderReadsFlushed
  <1>1. IInv => EncoderReadsFlushed
    BY DEF IInv, EncoderInv, EncoderReadsFlushed
  <1>2. QED
    BY <1>1, Inductive, PTL

\* Only documents all of whose pages are complete are sent, however many rows
\* a page and pages a document have.
THEOREM WholeDocuments == Spec => []SentIsWhole
  <1>1. IInv => SentIsWhole
    BY DEF IInv, EncoderInv, ResultInv, SentIsWhole
  <1>2. QED
    BY <1>1, Inductive, PTL

-----------------------------------------------------------------------------
(* The refinement of JobContract                                           *)

\* Only an encoder that may lose output reports success without having written
\* all of it, and a callback that reports success sent what it wrote, unless the
\* job was cancelled.
ContractInv ==
  /\ outcome = "open" <=> pc # "over"
  /\ Lost => OutputLoss
  /\ child = "running" => ~exit_ok
  /\ pc = "cleanup" /\ success /\ ~cancelled => sent = "whole"

\* This is an invariant as well.
LEMMA ContractInductive == Spec => []ContractInv
  <1>1. Init => ContractInv
    BY DEF Init, ContractInv, Lost
  <1>2. IInv /\ ContractInv /\ [Next]_vars => ContractInv'
    <2> SUFFICES ASSUME IInv, ContractInv, [Next]_vars
                 PROVE  ContractInv'
      OBVIOUS
    <2> USE DEF host, staging, encoder, result, Lost
    <2>1. CASE Cancel \/ StopLines \/ EndPageRefused \/ EndPages
      BY <2>1 DEF Cancel, StopLines, EndPageRefused, EndPages, ContractInv
    <2>2. CASE MakePbm \/ MakeXqx
      BY <2>2 DEF MakePbm, MakeXqx, ContractInv, IInv, EncoderInv, ResultInv,
                  Encoding, Encoded
    <2>3. ASSUME NEW height \in {0, Rows - 1, Rows}, NEW ok \in BOOLEAN,
                 StartPage(height, ok) \/ WriteLine(ok) \/ EndPage(ok)
                   \/ CloseStream(ok)
          PROVE  ContractInv'
      BY <2>3 DEF StartPage, WriteLine, EndPage, CloseStream, ContractInv
    <2>4. CASE Decide \/ Spawn
      BY <2>4 DEF Decide, Spawn, ContractInv, IInv, EncoderInv, Encoding,
                  Encoded
    <2>5. CASE ChildExits
      BY <2>5 DEF ChildExits, ContractInv, IInv, EncoderInv, Encoding
    <2>6. CASE Poll \/ StopChild \/ Reap \/ AfterEncode \/ CheckBeforeSend
      <3>1. CASE Poll
        BY <3>1 DEF Poll, ContractInv
      <3>2. CASE StopChild \/ Reap \/ AfterEncode
        BY <3>2 DEF StopChild, Reap, AfterEncode, ContractInv
      <3>3. CASE CheckBeforeSend
        BY <3>3 DEF CheckBeforeSend, ContractInv
      <3>4. QED
        BY <2>6, <3>1, <3>2, <3>3
    <2>7. ASSUME NEW out \in {"none", "part", "whole"}, SendEnds(out)
          PROVE  ContractInv'
      BY <2>7 DEF SendEnds, ContractInv, IInv, ResultInv
    <2>8. CASE Cleanup
      BY <2>8 DEF Cleanup, ContractInv
    <2>9. CASE UNCHANGED vars
      BY <2>9 DEF vars, ContractInv
    <2>10. CASE Crash
      BY <2>10 DEF Crash, ContractInv
    <2>11. QED
      BY <2>1, <2>2, <2>3, <2>4, <2>5, <2>6, <2>7, <2>8, <2>9, <2>10
         DEF Next, Callback
  <1>3. QED
    BY <1>1, <1>2, Inductive, PTL DEF Spec

\* A job keeps the promise of JobContract, whatever its size: nothing goes out
\* after a cancellation that came before, completed means that everything the
\* encoder left went out, and that is the document unless it lost the end of it.
THEOREM KeepsContract == Spec => ContractSpec
  <1> USE DEF C!cvars, Sent, Lost
  <1>1. Init => C!Init
    BY DEF Init, C!Init
  <1>2. IInv /\ ContractInv /\ [Next]_vars => [C!Next]_(C!cvars)
    <2> SUFFICES ASSUME IInv, ContractInv, [Next]_vars
                 PROVE  C!Next \/ UNCHANGED C!cvars
      OBVIOUS
    <2> USE DEF host, staging, encoder, result
    <2>1. CASE Cancel
      BY <2>1 DEF Cancel, C!Next, C!Cancel, ContractInv
    <2>2. CASE CheckBeforeSend
      BY <2>2 DEF CheckBeforeSend, C!Next, C!Begin, ContractInv, IInv,
                  ResultInv, TypeOK, Unsent, Pcs
    <2>3. ASSUME NEW out \in {"none", "part", "whole"}, SendEnds(out)
          PROVE  C!Next
      BY <2>3 DEF SendEnds, C!Next, C!Send, ContractInv, IInv, ResultInv
    <2>4. CASE Cleanup
      BY <2>4 DEF Cleanup, C!Next, C!End, ContractInv, IInv, TypeOK
    <2>5. CASE MakePbm \/ MakeXqx \/ StopLines \/ EndPageRefused \/ EndPages
      <3>1. MakeXqx => ~exit_ok
        BY DEF MakeXqx, IInv, EncoderInv, Encoded, Encoding
      <3>2. QED
        BY <2>5, <3>1 DEF MakePbm, MakeXqx, StopLines, EndPageRefused, EndPages
    <2>6. ASSUME NEW height \in {0, Rows - 1, Rows}, NEW ok \in BOOLEAN,
                 StartPage(height, ok) \/ WriteLine(ok) \/ EndPage(ok)
                   \/ CloseStream(ok)
          PROVE  UNCHANGED C!cvars
      BY <2>6 DEF StartPage, WriteLine, EndPage, CloseStream
    <2>7. CASE Decide \/ Poll \/ StopChild \/ Reap \/ AfterEncode
      <3>1. UNCHANGED <<cancelled, outcome, sent, exit_ok, xqx>>
        BY <2>7 DEF Decide, Poll, StopChild, Reap, AfterEncode
      <3>2. pc # "sending" /\ pc' # "sending"
        BY <2>7 DEF Decide, Poll, StopChild, Reap, AfterEncode
      <3>3. QED
        BY <3>1, <3>2
    <2>8. CASE Spawn
      <3>1. ~exit_ok
        BY <2>8 DEF Spawn, IInv, EncoderInv, Encoded, Encoding
      <3>2. QED
        BY <2>8, <3>1 DEF Spawn
    <2>9. CASE ChildExits
      <3>1. ~Lost /\ sent = "none" /\ outcome = "open" /\ pc # "sending"
        BY <2>9 DEF ChildExits, IInv, EncoderInv, ResultInv, Encoding, Unsent, Pcs,
                    ContractInv
      <3>2. UNCHANGED <<pc, cancelled, outcome, sent>> /\ (Lost' => OutputLoss)
        BY <2>9 DEF ChildExits
      <3>3. QED
        BY <3>1, <3>2 DEF C!Next, C!Lose, TypeOK
    <2>10. CASE UNCHANGED vars
      BY <2>10 DEF vars
    <2>11. CASE Crash
      BY <2>11 DEF Crash, C!Next, C!Crash, ContractInv
    <2>12. QED
      BY <2>1, <2>2, <2>3, <2>4, <2>5, <2>6, <2>7, <2>8, <2>9, <2>10, <2>11
         DEF Next, Callback
  <1>3. QED
    BY <1>1, <1>2, Inductive, ContractInductive, PTL
       DEF Spec, ContractSpec, C!Spec

-----------------------------------------------------------------------------
(* The sizes of a page                                                     *)

\* A page of the one kind that driver_callback offers passes the checks of
\* raster_start_page, although neither is written in terms of the other.
THEOREM OfferIsAccepted ==
  Accepted(Header(Offer.media, Offer.type, Offer.dpi))
  <1>1. Header(Offer.media, Offer.type, Offer.dpi) =
          [width |-> 4960, height |-> 7015, dpi |-> 600, type |-> "black_1",
           line |-> 620]
    BY DEF Header, Offer, A4, Dots, BitsOf
  <1>2. QED
    BY <1>1 DEF Accepted, A4_WIDTH, PAPPL_A4_HEIGHT, A4_BYTES_PER_LINE, BitsOf

\* Nothing else passes them: a page of another medium, to within a twentieth
\* of a millimetre, of another resolution or with more than one bit per dot is
\* refused.
THEOREM OnlyA4IsAccepted ==
  ASSUME NEW media \in [width : Nat, length : Nat],
         NEW type \in DOMAIN BitsOf, NEW dpi \in Nat,
         Accepted(Header(media, type, dpi))
  PROVE  /\ type = Offer.type /\ dpi = Offer.dpi
         /\ media.width \in A4.width - 2 .. A4.width + 1
         /\ media.length \in A4.length - 3 .. A4.length + 5
  <1>1. type = "black_1" /\ dpi = 600
    BY DEF Accepted, Header, BitsOf
  <1>2. /\ media.width \in Nat /\ media.length \in Nat
        /\ (media.width * 600) \div 2540 = 4960
        /\ (media.length * 600) \div 2540 \in {7015, 7016}
    BY <1>1 DEF Accepted, Header, Dots, A4_WIDTH, PAPPL_A4_HEIGHT,
                M1005_A4_HEIGHT
  <1>3. media.width \in 20998..21001 /\ media.length \in 29697..29705
    BY <1>2
  <1>4. QED
    BY <1>1, <1>3 DEF Offer, A4

\* Every accepted page has as many rows in the file as its header says and as
\* the encoder is told to read.
THEOREM FileHasItsRows ==
  ASSUME NEW header \in Headers, Accepted(header)
  PROVE  RowsWritten(header) = M1005_A4_HEIGHT
  BY DEF Accepted, RowsWritten, PAPPL_A4_HEIGHT, M1005_A4_HEIGHT

\* The encoder cuts off the margins and nothing else, to within one row of
\* dots: it keeps every dot of the image of a document and, but for its last
\* row, only those, although the margins are offered in hundredths of a
\* millimetre, rounded down on each side, and cut off in dots.
THEOREM OnlyMarginsAreCut ==
  ASSUME NEW header \in Headers, Accepted(header), NEW column \in Nat,
         NEW row \in Nat
  PROVE  /\ In(Printable(header), column, row) => In(Kept, column, row)
         /\ In(Kept, column, row) =>
              In(Printable(header), column, row) \/ row = Kept.bottom - 1
  <1>1. header.width = 4960 /\ header.height \in {7015, 7016}
        /\ header.dpi = 600
    BY DEF Accepted, A4_WIDTH, PAPPL_A4_HEIGHT, M1005_A4_HEIGHT
  <1>2. /\ Dots(373, 600) = 88 /\ Dots(746, 600) = 176
        /\ Dots(356, 600) = 84 /\ Dots(712, 600) = 168
    BY DEF Dots
  <1>3. /\ Printable(header).left = 88 /\ Printable(header).right = 4872
        /\ Printable(header).top = 84
        /\ Printable(header).bottom \in {6931, 6932}
    BY <1>1, <1>2 DEF Printable, Offer
  <1>4. /\ Kept.left = 88 /\ Kept.right = 4872
        /\ Kept.top = 84 /\ Kept.bottom = 6932
    BY DEF Kept
  <1>5. QED
    BY <1>3, <1>4 DEF In

-----------------------------------------------------------------------------
(* The test pages                                                          *)

Border == [left |-> 112, right |-> PAGE_WIDTH - 112,
           top |-> 112, bottom |-> PAGE_HEIGHT - 112]

\* Every rectangle of the page, and the noise, lies within the outline.
LEMMA DrawnWithinBorder ==
  ASSUME NEW n \in 1..10, NEW box \in Drawn(n) \cup {Noise}
  PROVE  /\ box.left \in Int /\ box.right \in Int
         /\ box.top \in Int /\ box.bottom \in Int
         /\ box.left >= Border.left /\ box.right <= Border.right
         /\ box.top >= Border.top /\ box.bottom <= Border.bottom
  BY DEF Drawn, Noise, Border, Rect, Text, Patch, PAGE_WIDTH, PAGE_HEIGHT

\* What a dot of a test page is.
LEMMA BlackDots ==
  ASSUME NEW n, NEW noisy, NEW d \in Black(n, noisy)
  PROVE  /\ d[1] \in Int /\ d[2] \in Int
         /\ \E box \in Drawn(n) \cup {Noise} : In(box, d[1], d[2])
  <1>1. PAGE_WIDTH - 1 \in Int /\ PAGE_HEIGHT - 1 \in Int
    BY DEF PAGE_WIDTH, PAGE_HEIGHT
  <1>2. d \in (0..PAGE_WIDTH - 1) \X (0..PAGE_HEIGHT - 1)
    BY DEF Black
  <1>3. d[1] \in Int /\ d[2] \in Int
    BY <1>1, <1>2
  <1>4. QED
    BY <1>3 DEF Black

\* A test page that comes out incomplete was not cut by the encoder: all of it
\* is among the dots the encoder keeps, on every page of a document, with and
\* without noise.
THEOREM TestPageIsKept ==
  ASSUME NEW n \in 1..10, NEW noisy \in BOOLEAN, NEW d \in Black(n, noisy)
  PROVE  In(Kept, d[1], d[2])
  <1>1. PICK box \in Drawn(n) \cup {Noise} : In(box, d[1], d[2])
    BY BlackDots
  <1>2. /\ box.left >= 112 /\ box.right <= 4848
        /\ box.top >= 112 /\ box.bottom <= 6904
    BY DrawnWithinBorder DEF Border, PAGE_WIDTH, PAGE_HEIGHT
  <1>3. /\ box.left \in Int /\ box.right \in Int
        /\ box.top \in Int /\ box.bottom \in Int
    BY DrawnWithinBorder
  <1>4. d[1] \in Int /\ d[2] \in Int
    BY BlackDots
  <1>5. QED
    BY <1>1, <1>2, <1>3, <1>4 DEF In, Kept

\* A page whose last row is blank is its other rows and a blank one.
LEMMA LastRowIsBlank ==
  ASSUME NEW N \in Nat, NEW S, NEW page \in [0..N -> SUBSET S], page[N] = {},
         NEW lines, lines = [row \in 0..N - 1 |-> page[row]]
  PROVE  [row \in 0..N |-> IF row < N THEN lines[row] ELSE {}] = page
  <1>1. ASSUME NEW row \in 0..N
        PROVE  (IF row < N THEN lines[row] ELSE {}) = page[row]
    <2>1. CASE row < N
      <3>1. row \in 0..N - 1
        BY <2>1
      <3>2. QED
        BY <2>1, <3>1
    <2>2. CASE ~(row < N)
      <3>1. row = N
        BY <2>2
      <3>2. QED
        BY <3>1
    <2>3. QED
      BY <2>1, <2>2
  <1>2. QED
    BY <1>1

\* The raster generator writes what the service offers, and the service makes
\* of it the page that the raster was made of: the row that the generator
\* drops is the blank one that raster_end_page adds.
THEOREM TestRasterArrives ==
  ASSUME NEW n \in 1..10, NEW noisy \in BOOLEAN,
         NEW dots \in SUBSET Black(n, noisy)
  PROVE  LET header == Header(A4, "black_1", 600)
         IN  /\ Writes(header) /\ Accepted(header)
             /\ InFile(header, Lines(Page(dots))) = Page(dots)
  <1> DEFINE header == Header(A4, "black_1", 600)
             page == Page(dots)
             N == OUTPUT_HEIGHT
  <1>1. Accepted(header)
    BY OfferIsAccepted DEF Offer
  <1>2. header.height = N /\ header.width = 4960
    BY DEF Header, A4, Dots, OUTPUT_HEIGHT
  <1>3. Writes(header)
    BY <1>2 DEF Writes
  <1>4. RowsWritten(header) - 1 = N
    BY <1>2 DEF RowsWritten, PAPPL_A4_HEIGHT, OUTPUT_HEIGHT
  <1>5. N \in Nat /\ INPUT_HEIGHT - 1 = N
    BY DEF INPUT_HEIGHT, OUTPUT_HEIGHT
  <1> HIDE DEF N, header
  <1>6. page = [row \in 0..N |-> {d[1] : d \in {e \in dots : e[2] = row}}]
    BY <1>5 DEF Page
  <1>7. page[N] = {}
    <2>1. \A d \in Black(n, noisy) : In(Kept, d[1], d[2])
      BY TestPageIsKept
    <2>2. \A d \in Black(n, noisy) : d[2] \in Int /\ d[2] < 6932
      BY <2>1, BlackDots DEF In, Kept
    <2>3. \A d \in dots : d[2] # N
      BY <2>2 DEF N, OUTPUT_HEIGHT
    <2>4. page[N] = {d[1] : d \in {e \in dots : e[2] = N}}
      BY <1>5, <1>6
    <2>5. QED
      BY <2>3, <2>4
  <1>8. page \in [0..N -> SUBSET {d[1] : d \in dots}]
    BY <1>6
  <1>9. Lines(page) = [row \in 0..N - 1 |-> page[row]]
    BY DEF Lines, N
  <1> HIDE DEF page
  <1>10. InFile(header, Lines(page)) =
           [row \in 0..N |-> IF row < N THEN Lines(page)[row] ELSE {}]
    BY <1>2, <1>4 DEF InFile
  <1>11. InFile(header, Lines(page)) = page
    <2> DEFINE S == {d[1] : d \in dots}
               lines == Lines(page)
    <2>1. page \in [0..N -> SUBSET S]
      BY <1>8
    <2>2. lines = [row \in 0..N - 1 |-> page[row]]
      BY <1>9
    <2> HIDE DEF S, lines
    <2>3. [row \in 0..N |-> IF row < N THEN lines[row] ELSE {}] = page
      BY <1>5, <1>7, <2>1, <2>2, LastRowIsBlank
    <2>4. QED
      BY <1>10, <2>3 DEF lines
  <1>12. QED
    BY <1>1, <1>3, <1>11 DEF page, header
=============================================================================
