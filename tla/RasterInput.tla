---------------------------- MODULE RasterInput ----------------------------
(***************************************************************************)
(* How the encoder reads its standard input (do_one, the three *_pages     *)
(* functions and read_and_clip_image of vendor/foo2xqx/foo2xqx.c): images  *)
(* one after the other, each cropped on its four sides, and a stream that  *)
(* may stop anywhere.                                                      *)
(*                                                                         *)
(* A unit of the stream is the P4 of a header, the rest of a header, or a  *)
(* byte of pixels, which is known by its image, row and column.  fread     *)
(* gives all the bytes it was asked for or fails and leaves the stream at  *)
(* its end.                                                                *)
(*                                                                         *)
(* Abstracted: several input files, and the pixels: which planes of a page *)
(* have ink is left open in XqxStream.  Clips leave some of the page.      *)
(***************************************************************************)
EXTENDS Integers, Sequences, SequencesExt

CONSTANTS
  Inputs,  \* streams, and the options of the calls that read them
  Bytes16  \* 16: the rows of a pbm are padded to multiples of it

\* kind: "pbm"; with -c "cmyk", or "pksm" for four P4 images per page.
\* sizes: of the images; a cmyk raster has the size of option -g.
\* cut: the units of the stream that arrive.
\* upper, lower: options -u and -l.
\* looks: a cmyk raster's first byte is that of the letter P.
\* turn: Duplex is DMDUPLEX_LONGEDGE or DMDUPLEX_MANUALLONG.
ASSUME Bytes16Assumption == Bytes16 \in Nat \ {0}

ASSUME InputsAssumption ==
  \A in \in Inputs :
    /\ in.kind \in {"pbm", "cmyk", "pksm"}
    /\ in.cut \in Nat
    /\ in.sizes \in Seq([w : Nat, h : Nat]) /\ in.sizes # <<>>
    /\ {in.upper, in.lower} \subseteq [x : Nat, y : Nat]
    /\ \A k \in 1..Len(in.sizes) :
         /\ in.upper.x + in.lower.x < in.sizes[k].w
         /\ in.upper.y + in.lower.y < in.sizes[k].h
         /\ in.kind = "cmyk" => in.sizes[k] = in.sizes[1]
    /\ {in.looks, in.turn} \subseteq BOOLEAN
    /\ in.looks => in.kind = "cmyk"

VARIABLES
  input,
  pc,
  pos,      \* units of the stream that were read
  p4eaten,
  size,     \* rawW and rawH
  saved,    \* saveW and saveH of pksm_pages
  upper,    \* UpperLeftX, adjusted, and UpperLeftY
  lower,    \* LowerRightX, adjusted, and LowerRightY
  y,        \* the row of the current loop
  buf,      \* the rows of the image, one after the other
  sp,       \* of rotate_bytes_180; 0 between its calls
  planes,   \* the images of a pksm page read so far
  pages     \* history: what was handed to the *_page functions

clip == <<upper, lower>>
image == <<size, saved, buf, sp, planes>>
vars == <<input, pc, pos, p4eaten, clip, y, image, pages>>

Kind == input.kind
PerPage == IF Kind = "pksm" THEN 4 ELSE 1
PixelsPerByte == IF Kind = "cmyk" THEN 2 ELSE 8
BytesFor(w) == (w + PixelsPerByte - 1) \div PixelsPerByte

P4 == [is |-> "P4"]
Size(s) == [is |-> "size", size |-> s]
Byte(k, row, column) ==
  [is |-> "byte", at |-> <<k, row, column>>, turned |-> FALSE]
Zero == [is |-> "zero"]

\* The k-th image as it stands in a whole stream.
Image(k) ==
  LET s == input.sizes[k]
      bpl == BytesFor(s.w)
  IN  (IF Kind = "cmyk" THEN <<>> ELSE <<P4, Size(s)>>)
      \o [n \in 1..(s.h * bpl) |-> Byte(k, (n - 1) \div bpl, (n - 1) % bpl)]

Whole == FlattenSeq([k \in 1..Len(input.sizes) |-> Image(k)])
Stream == IF input.cut < Len(Whole) THEN SubSeq(Whole, 1, input.cut) ELSE Whole

-----------------------------------------------------------------------------

None == [w |-> 0, h |-> 0]

Init ==
  /\ input \in Inputs
  /\ pc = "begin"
  /\ pos = 0
  /\ p4eaten = FALSE
  /\ size = None
  /\ saved = None
  /\ upper = input.upper
  /\ lower = input.lower
  /\ y = 0
  /\ buf = <<>>
  /\ sp = 0
  /\ planes = <<>>
  /\ pages = <<>>

\* Mutant: what is left of the clip on the left is not clipped on the right.
AlignLeftOnly(unit) ==
  /\ upper' = [upper EXCEPT !.x = @ - (@ % unit)]
  /\ UNCHANGED lower

\* Only whole bytes are clipped on the left, the rest of it on the right.
AlignClip(unit) ==
  /\ upper' = [upper EXCEPT !.x = @ - (@ % unit)]
  /\ lower' = [lower EXCEPT !.x = @ + (upper.x % unit)]

\* The loops of read_and_clip_image over the rows of an image.
StartImage ==
  /\ y' = 0
  /\ buf' = <<>>
  /\ sp' = 0
  /\ pc' = IF upper.y > 0 THEN "top" ELSE "image"

\* error() exits with 1.
Fail == pc' = "failed" /\ UNCHANGED <<p4eaten, clip, y, image, pages>>

\* Mutant: a stream that ends between two rows ends the document.
EndAtEof(error) ==
  /\ pc' = "done"
  /\ UNCHANGED <<p4eaten, clip, y, image, pages>>

\* The stream ends at the beginning of an image: for cmyk_pages that is the
\* end of the document, for the others it came too early.
Eof(error) ==
  /\ pc' = IF Kind = "cmyk" /\ ~error THEN "done" ELSE "failed"
  /\ UNCHANGED <<p4eaten, clip, y, image, pages>>

-----------------------------------------------------------------------------

\* do_one looks at the first two characters.  An empty stream is no pbm, but
\* with -c it is a document without pages.  A cmyk raster that begins with P is
\* refused; if a 4 follows, pksm_pages takes its pixels for headers and images,
\* and nothing is said of what it makes of them.
Begin ==
  /\ pc = "begin"
  /\ \/ /\ Stream = <<>>
        /\ pc' = IF Kind = "pbm" THEN "failed" ELSE "done"
        /\ UNCHANGED <<pos, p4eaten, clip, y, image, pages>>
     \/ /\ Stream # <<>> /\ Kind # "cmyk"
        /\ p4eaten' = TRUE
        /\ pos' = 1
        /\ pc' = "header"
        /\ UNCHANGED <<clip, y, image, pages>>
     \/ /\ Stream # <<>> /\ Kind = "cmyk" /\ input.looks
        /\ pos' = IF Len(Stream) = 1 THEN 1 ELSE 2
        /\ \/ pc' = "failed"
           \/ Len(Stream) > 1 /\ pc' = "astray"
        /\ UNCHANGED <<p4eaten, clip, y, image, pages>>
     \/ /\ Stream # <<>> /\ Kind = "cmyk" /\ ~input.looks
        /\ size' = input.sizes[1]
        /\ AlignClip(2)
        /\ StartImage
        /\ UNCHANGED <<pos, p4eaten, saved, planes, pages>>
  /\ UNCHANGED input

\* pbm_header.  The first P4 was eaten by do_one.
NoHeader == ~p4eaten /\ pos = Len(Stream)

EndOfInput ==
  /\ pc = "header"
  /\ NoHeader
  /\ pc' = IF planes = <<>> THEN "done" ELSE "failed"
  /\ UNCHANGED <<input, pos, p4eaten, clip, y, image, pages>>

\* A size that is not that of the page's first image is an error.
Header ==
  /\ pc = "header"
  /\ ~NoHeader
  /\ LET at == IF p4eaten THEN pos + 1 ELSE pos + 2
         found == /\ ~p4eaten => Stream[pos + 1] = P4
                  /\ at <= Len(Stream)
                  /\ Stream[at].is = "size"
         new == Stream[at].size
     IN  IF found /\ (planes # <<>> => new = saved)
           THEN /\ pos' = at
                /\ p4eaten' = FALSE
                /\ size' = new
                /\ saved' = IF planes = <<>> THEN new ELSE saved
                /\ AlignClip(8)
                /\ StartImage
                /\ UNCHANGED <<planes, pages>>
           ELSE pos' = Len(Stream) /\ Fail
  /\ UNCHANGED input

-----------------------------------------------------------------------------
(* read_and_clip_image                                                     *)

Readable(n) == n > 0 /\ pos + n <= Len(Stream)

NextRow(last, step) ==
  IF y + 1 < last THEN y' = y + 1 /\ UNCHANGED pc ELSE y' = 0 /\ pc' = step

\* Every second page is turned.
AfterRows == IF input.turn /\ Len(pages) % 2 = 1 THEN "turn" ELSE "page"
AfterImage == IF lower.y > 0 THEN "bottom" ELSE AfterRows

\* The bytes between two rows of buf.
Padding(bpl) ==
  IF Kind = "pbm" /\ bpl % Bytes16 # 0
    THEN [k \in 1..(Bytes16 - (bpl % Bytes16)) |-> Zero] ELSE <<>>

TopRow ==
  /\ pc = "top"
  /\ LET bytes == BytesFor(size.w)
     IN  IF Readable(bytes)
           THEN /\ pos' = pos + bytes
                /\ NextRow(upper.y, "image")
                /\ UNCHANGED <<p4eaten, clip, image, pages>>
           ELSE pos' = Len(Stream) /\ Eof(FALSE)
  /\ UNCHANGED input

\* Bytes clipped on the left, bytes of the row, bytes clipped on the right.
ImageRow ==
  /\ pc = "image"
  /\ LET left == upper.x \div PixelsPerByte
         bpl == BytesFor(size.w - upper.x - lower.x)
         rightBpl == BytesFor(size.w - upper.x)
         first == y = 0 /\ upper.y = 0
     IN  IF Readable(left + rightBpl)
           THEN /\ pos' = pos + left + rightBpl
                /\ buf' = buf \o SubSeq(Stream, pos + left + 1, pos + left + bpl)
                            \o Padding(bpl)
                /\ NextRow(size.h - upper.y - lower.y, AfterImage)
                /\ UNCHANGED <<p4eaten, clip, size, saved, sp, planes, pages>>
           ELSE /\ pos' = Len(Stream)
                /\ Eof(~first \/ Readable(IF left > 0 THEN left ELSE bpl))
  /\ UNCHANGED input

BottomRow ==
  /\ pc = "bottom"
  /\ LET bytes == BytesFor(size.w)
     IN  IF Readable(bytes)
           THEN /\ pos' = pos + bytes
                /\ NextRow(lower.y, AfterRows)
                /\ UNCHANGED <<p4eaten, clip, image, pages>>
           ELSE pos' = Len(Stream) /\ Fail
  /\ UNCHANGED input

\* The entry of Mirror1, or of Mirror4 in cmyk_pages: the byte with its pixels
\* in the reverse order.
Mirror(b) == IF b = Zero THEN b ELSE [b EXCEPT !.turned = ~@]

\* rotate_bytes_180, a pair of bytes per step.
TurnBytes ==
  /\ pc = "turn"
  /\ LET first == sp + 1
         last == Len(buf) - sp
     IN  IF first < last
           THEN /\ buf' = [buf EXCEPT ![first] = Mirror(buf[last]),
                                     ![last] = Mirror(buf[first])]
                /\ sp' = sp + 1
                /\ UNCHANGED pc
           ELSE /\ buf' = IF first = last THEN [buf EXCEPT ![first] = Mirror(@)]
                                         ELSE buf
                /\ sp' = 0
                /\ pc' = "page"
  /\ UNCHANGED <<input, pos, p4eaten, clip, y, size, saved, planes, pages>>

\* An image is complete, and with it perhaps a page.
EndImage ==
  /\ pc = "page"
  /\ LET all == Append(planes, buf)
     IN  IF Len(all) < PerPage
           THEN planes' = all /\ pc' = "header" /\ UNCHANGED pages
           ELSE /\ planes' = <<>>
                /\ pages' = Append(pages, all)
                /\ pc' = "write"
  /\ UNCHANGED <<input, pos, p4eaten, clip, y, size, saved, buf, sp>>

\* pbm_page, cmyk_page, pksm_page; then the loop goes on.
WritePage ==
  /\ pc = "write"
  /\ IF Kind = "cmyk" THEN StartImage
     ELSE pc' = "header" /\ UNCHANGED <<y, buf, sp>>
  /\ UNCHANGED <<input, pos, p4eaten, clip, size, saved, planes, pages>>

Next == \/ Begin \/ EndOfInput \/ Header
        \/ TopRow \/ ImageRow \/ BottomRow \/ TurnBytes
        \/ EndImage \/ WritePage

Spec == Init /\ [][Next]_vars

-----------------------------------------------------------------------------
(* Properties                                                              *)

\* The rows of the k-th image that options -u and -l leave.  An image starts
\* at a whole byte, and as many pixels as that adds on the left are missing
\* on the right.
Cropped(k) ==
  LET s == input.sizes[k]
      w == s.w - input.upper.x - input.lower.x
      h == s.h - input.upper.y - input.lower.y
  IN  [r \in 1..h |-> [c \in 1..BytesFor(w) |->
         Byte(k, input.upper.y + r - 1,
                 input.upper.x \div PixelsPerByte + c - 1)]]

\* An image with a half turn: the last byte of the last row comes first.
HalfTurn(rows) ==
  [r \in 1..Len(rows) |->
     [c \in 1..Len(rows[r]) |->
        Mirror(rows[Len(rows) + 1 - r][Len(rows[r]) + 1 - c])]]

Padded(rows) == [r \in 1..Len(rows) |-> rows[r] \o Padding(Len(rows[r]))]

\* Every page that is encoded is the next of the images in the stream, each of
\* its rows cropped as the options say, however the clips meet the bytes; with
\* duplex on the long edge every second page has a half turn, padding and all.
PagesAreCropped ==
  \A n \in 1..Len(pages), p \in 1..PerPage :
    LET rows == Padded(Cropped(PerPage * (n - 1) + p))
    IN  pages[n][p] =
          FlattenSeq(IF input.turn /\ n % 2 = 0 THEN HalfTurn(rows) ELSE rows)

\* The stream ends after the n-th image.
EndsAfter(n) == Len(Stream) = Len(FlattenSeq([k \in 1..n |-> Image(k)]))

\* The stream is one of whole pages that the encoder has to accept.
Sound ==
  /\ ~input.looks
  /\ Stream = <<>> => Kind # "pbm"
  /\ \E n \in 0..Len(input.sizes) :
       /\ EndsAfter(n)
       /\ n % PerPage = 0
       /\ \A k \in 1..n :
            input.sizes[k] = input.sizes[k - ((k - 1) % PerPage)]

\* A sound stream is encoded to its last page, and a stream of P4 images that
\* was cut inside a page is not taken for a document.  Of a cmyk raster that
\* is cut in its first rows the encoder drops the rest without an error, but
\* no more.  Only a cmyk raster that looks like P4 images is read as such.
WholeOrError ==
  /\ pc = "failed" => ~Sound
  /\ pc = "astray" => input.looks
  /\ pc = "done" /\ Kind # "cmyk" =>
       Sound /\ EndsAfter(PerPage * Len(pages))
  /\ pc = "done" /\ Kind = "cmyk" =>
       LET dropped == Len(Stream) - Len(pages) * Len(Image(1))
           skipped == IF input.upper.y > 0 THEN input.upper.y ELSE 1
       IN  0 <= dropped /\ dropped < skipped * BytesFor(input.sizes[1].w)
=============================================================================
