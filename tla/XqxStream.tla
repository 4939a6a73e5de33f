----------------------------- MODULE XqxStream -----------------------------
(***************************************************************************)
(* The stream the encoder writes (vendor/foo2xqx/foo2xqx.c) and what the   *)
(* decoder makes of it (vendor/foo2xqx/xqxdecode.c).                       *)
(*                                                                         *)
(* JBIG (external) hands each plane's data to output_jbig in pieces of any *)
(* size, first the 20 bytes of its header; output_jbig collects them in a  *)
(* chain of buffers, write_page frames the buffers, and with duplex the    *)
(* even pages go through a temporary file and are put out in reverse.      *)
(* Nobody looks whether there is such a file, nor whether SeekRec has room *)
(* for another page: a document whose places overrun it ends in a state of *)
(* its own, after which nothing is said.                                   *)
(*                                                                         *)
(* A file is a sequence of cells: a text, a chunk header, an item or a run *)
(* of JBIG data.  A byte of a plane is known by its offset.  Abstracted:   *)
(* pixels, the values of items that frame nothing, PJL.  One flag stands   *)
(* for the four duplex modes, which differ in how pixels are turned.  The  *)
(* input of pksm_pages, which counts its pages differently, is left out.   *)
(***************************************************************************)
EXTENDS Integers, Sequences, FiniteSets, SequencesExt

CONSTANTS
  BihSize,     \* 20
  Size,        \* 65536
  MaxSeek,     \* 2000, the size of SeekRec
  Documents,   \* the options of a call and the pages of its input
  MaxData      \* bound on the bytes of a plane after its header

ASSUME XqxStreamAssumption ==
  /\ BihSize \in Nat \ {0}
  /\ Size \in Nat \ {0}
  /\ MaxSeek \in Nat
  /\ MaxData \in Nat \ {0}

ASSUME DocumentsAssumption ==
  Documents \subseteq
    [duplex : BOOLEAN,  \* Duplex # DMDUPLEX_OFF
     color : BOOLEAN,   \* Mode = MODE_COLOR: four planes per page
     mono : 0..4,       \* Color2Mono: the one plane to print of them, or 0
     pages : Nat \ {0}]

VARIABLES
  document,  \* the one that is encoded
  pc,
  page_num,  \* PageNum
  blank,     \* the page is that of blank_page
  chain,     \* the BIE_CHAIN of the plane that is compressed
  limit,     \* the local `size` of output_jbig
  len,       \* its parameter: bytes of the piece not yet copied
  chains,    \* the page's chains that are complete
  out,       \* stdout
  decoder,   \* how far xqxdecode understands it
  even_pages, \* EvenPages # NULL
  even,      \* the file EvenPages
  seek,      \* SeekRec[0..SeekIndex-1]
  copied,    \* even pages copied to stdout
  fed,       \* history: bytes JBIG gave of this plane
  doc        \* history: for each page, the planes to print

compress == <<chain, limit, len, chains, fed>>
files == <<out, decoder, even_pages, even, seek, copied>>
vars == <<document, pc, page_num, blank, compress, files, doc>>

Duplex == document.duplex
Color == document.color

Pcs == {"start", "pages", "jbig", "copy", "write", "even", "done", "failed",
        "overrun"}

-----------------------------------------------------------------------------
(* What is written                                                         *)

START_DOC == 1
END_DOC == 2
START_PAGE == 3
END_PAGE == 4
START_PLANE == 5
END_PLANE == 6
JBIG == 7

Text == [is |-> "text"]
Magic == [is |-> "magic"]
Chunk(type, items) == [is |-> "chunk", type |-> type, n |-> items]
Item(name, value) == [is |-> "item", name |-> name, n |-> value]
Bih(id) == [is |-> "bih", id |-> id]
Data(id, node) == [is |-> "data", id |-> id, from |-> node.from, n |-> node.len]

Others(n) == [k \in 1..n |-> Item("other", 0)]

StartDoc ==
  <<Text, Magic, Chunk(START_DOC, 7), Item("length", 84)>> \o Others(5)
  \o <<Item("end", 0)>>

StartPage(pause) ==
  <<Chunk(START_PAGE, IF Duplex THEN 16 ELSE 15),
    Item("length", IF Duplex THEN 192 ELSE 180)>>
  \o Others(12)
  \o (IF Duplex THEN <<Item("pause", pause)>> ELSE <<>>)
  \o <<Item("other", 0), Item("end", 0)>>

\* Where start_page puts the pause, counted from its first cell.
PausePlace == 15

\* Mutant: one length for every piece.
PieceOneLength(id, node, first) ==
  <<Chunk(START_PLANE, 4), Item("length", 48), Item("other", 0),
    IF first THEN Bih(id) ELSE Item("other", 1), Item("end", 0),
    Chunk(JBIG, node.len), Data(id, node), Chunk(END_PLANE, 0)>>

Piece(id, node, first) ==
  <<Chunk(START_PLANE, 4), Item("length", IF first THEN 64 ELSE 48),
    Item("other", 0), IF first THEN Bih(id) ELSE Item("other", 1),
    Item("end", 0), Chunk(JBIG, node.len), Data(id, node),
    Chunk(END_PLANE, 0)>>

\* The chain after its header, up to the first empty buffer.
Plane(id, c) ==
  LET filled == Cardinality({k \in 2..Len(c) : \A j \in 2..k : c[j].len > 0})
  IN  FlattenSeq([k \in 1..filled |-> Piece(id, c[k + 1], k = 1)])

-----------------------------------------------------------------------------
(* The decoder                                                             *)

\* at: "text" before the magic number, "chunk" before a header, "items" and
\* "data" with `want` items or bytes to come, "end", "lost".
Fresh == [at |-> "text", want |-> 0, pages |-> <<>>]

LastPage(d) == Len(d.pages)

Header(d, c) ==
  IF c.type = JBIG THEN [d EXCEPT !.at = "data", !.want = c.n]
  ELSE IF c.type = END_DOC /\ c.n = 0 THEN [d EXCEPT !.at = "end"]
  ELSE [at |-> IF c.n = 0 THEN "chunk" ELSE "items",
        want |-> c.n,
        pages |-> IF c.type = START_PAGE
                    THEN Append(d.pages, [pause |-> 0, planes |-> <<>>])
                    ELSE d.pages]

OneItem(d, c) ==
  [at |-> IF d.want = 1 THEN "chunk" ELSE "items",
   want |-> d.want - 1,
   pages |->
     IF c.is = "bih"
       THEN [d.pages EXCEPT ![LastPage(d)].planes =
               Append(@, [id |-> c.id, bytes |-> 0])]
     ELSE IF c.name = "pause"
       THEN [d.pages EXCEPT ![LastPage(d)].pause = c.n]
     ELSE d.pages]

\* The data of a plane has to go on where it stopped.
Continues(d, c) ==
  /\ c.n = d.want
  /\ LastPage(d) > 0
  /\ LET planes == d.pages[LastPage(d)].planes
     IN  planes # <<>> /\ Last(planes).id = c.id
         /\ BihSize + Last(planes).bytes = c.from

RunOfData(d, c) ==
  LET planes == d.pages[LastPage(d)].planes
  IN  [at |-> "chunk", want |-> 0,
       pages |-> [d.pages EXCEPT ![LastPage(d)].planes =
                    [planes EXCEPT ![Len(planes)].bytes = @ + c.n]]]

DecodeCell(d, c) ==
  CASE d.at = "text" /\ c = Text -> d
    [] d.at = "text" /\ c = Magic -> [d EXCEPT !.at = "chunk"]
    [] d.at = "chunk" /\ c.is = "chunk" -> Header(d, c)
    [] d.at = "items" /\ c.is \in {"item", "bih"} -> OneItem(d, c)
    [] d.at = "data" /\ c.is = "data" /\ Continues(d, c) -> RunOfData(d, c)
    [] d.at = "end" -> d
    [] OTHER -> [d EXCEPT !.at = "lost"]

\* The decoder reads one cell after the other.
Read(d, cells) ==
  LET after[k \in 0..Len(cells)] ==
        IF k = 0 THEN d ELSE DecodeCell(after[k - 1], cells[k])
  IN  after[Len(cells)]

\* The encoder puts cells out, the decoder reads them.
Put(cells) ==
  /\ out' = out \o cells
  /\ decoder' = Read(decoder, cells)

-----------------------------------------------------------------------------
(* main and its input                                                      *)

Init ==
  /\ document \in Documents
  /\ pc = "start"
  /\ page_num = 0
  /\ blank = FALSE
  /\ chain = <<>>
  /\ limit = Size
  /\ len = 0
  /\ chains = <<>>
  /\ out = <<>>
  /\ decoder = Fresh
  /\ even_pages = FALSE
  /\ even = <<>>
  /\ seek = <<>>
  /\ copied = 0
  /\ fed = 0
  /\ doc = <<>>

\* With duplex tmpfile gives a file, or NULL; both are taken as they come.
Start ==
  /\ pc = "start"
  /\ even_pages' \in {FALSE, Duplex}
  /\ Put(StartDoc)
  /\ pc' = "pages"
  /\ UNCHANGED <<document, page_num, blank, compress, even, seek, copied, doc>>

\* The page is one for the temporary file.
Noted(page) == even_pages /\ page % 2 = 0

\* The place of such a page goes into SeekRec before the page is compressed.
ReadPage ==
  /\ pc = "pages"
  /\ page_num < document.pages
  /\ page_num' = page_num + 1
  /\ pc' = IF Noted(page_num') /\ Len(seek) = MaxSeek THEN "overrun"
           ELSE "jbig"
  /\ UNCHANGED <<document, blank, compress, files, doc>>

\* The input is bad or a write fails: error() exits with 1.
Fails ==
  /\ pc \notin {"done", "failed", "overrun"}
  /\ pc' = "failed"
  /\ UNCHANGED <<document, page_num, blank, compress, files, doc>>

\* With a temporary file an odd last page gets a blank one on its back.
EndInput ==
  /\ pc = "pages"
  /\ page_num = document.pages
  /\ blank' = (even_pages /\ page_num % 2 = 1)
  /\ pc' = IF ~blank' THEN "even"
           ELSE IF Len(seek) = MaxSeek THEN "overrun" ELSE "jbig"
  /\ UNCHANGED <<document, page_num, compress, files, doc>>

-----------------------------------------------------------------------------
(* output_jbig                                                             *)

\* Mutant: the header's buffer is as large as the others.
OutputOneSize(n) ==
  /\ pc = "jbig"
  /\ chain = <<>> => n = BihSize
  /\ fed + n <= BihSize + MaxData
  /\ IF chain = <<>> THEN chain' = <<[from |-> 0, len |-> 0]>>
                     ELSE UNCHANGED chain
  /\ limit' = Size
  /\ len' = n
  /\ fed' = fed + n
  /\ pc' = "copy"
  /\ UNCHANGED <<document, page_num, blank, chains, files, doc>>

\* JBIG has n bytes more.
Output(n) ==
  /\ pc = "jbig"
  /\ chain = <<>> => n = BihSize
  /\ fed + n <= BihSize + MaxData
  /\ IF chain = <<>>
       THEN chain' = <<[from |-> 0, len |-> 0]>> /\ limit' = BihSize
       ELSE limit' = Size /\ UNCHANGED chain
  /\ len' = n
  /\ fed' = fed + n
  /\ pc' = "copy"
  /\ UNCHANGED <<document, page_num, blank, chains, files, doc>>

\* Mutant: the piece is copied whole, whatever is left of the buffer.
CopyPast ==
  /\ pc = "copy"
  /\ LET last == Last(chain)
         full == [last EXCEPT !.len = @ + len]
     IN  /\ chain' = Append(Front(chain), full)
                     \o (IF full.len >= limit
                         THEN <<[from |-> full.from + full.len, len |-> 0]>>
                         ELSE <<>>)
         /\ len' = 0
         /\ pc' = "jbig"
  /\ UNCHANGED <<document, page_num, blank, limit, chains, fed, files, doc>>

\* One turn of the loop: a buffer that got full is followed by an empty one.
Copy ==
  /\ pc = "copy"
  /\ LET last == Last(chain)
         left == limit - last.len
         amt == IF len > left THEN left ELSE len
         filled == [from |-> last.from, len |-> last.len + amt]
         next == [from |-> last.from + limit, len |-> 0]
     IN  /\ chain' = IF filled.len = limit
                       THEN Front(chain) \o <<filled, next>>
                       ELSE Append(Front(chain), filled)
         /\ len' = len - amt
         /\ pc' = IF len' = 0 THEN "jbig" ELSE "copy"
  /\ UNCHANGED <<document, page_num, blank, limit, chains, fed, files, doc>>

\* A plane has some data after its header.
PlaneEnds ==
  /\ pc = "jbig"
  /\ fed > BihSize
  /\ chains' = Append(chains, chain)
  /\ chain' = <<>>
  /\ fed' = 0
  /\ pc' = IF Len(chains') = (IF Color /\ ~blank THEN 4 ELSE 1)
             THEN "write" ELSE "jbig"
  /\ UNCHANGED <<document, page_num, blank, limit, len, files, doc>>

-----------------------------------------------------------------------------
(* write_page, the even pages, the end                                     *)

\* The planes in the order of write_page: yellow, magenta, cyan, black, or
\* only black if the page has no colour, or the one that was asked for.
Written(colored) ==
  CASE Len(chains) = 1 -> <<1>>
    [] Len(chains) > 1 /\ document.mono > 0 -> <<document.mono>>
    [] OTHER -> IF colored THEN <<3, 2, 1, 4>> ELSE <<4>>

Bytes(c) == Last(c).from + Last(c).len - BihSize

WritePage(colored) ==
  /\ pc = "write"
  /\ LET id(k) == <<Len(doc) + 1, k>>
         order == Written(colored)
         cells == StartPage(IF page_num = 1 THEN 0 ELSE 1)
                  \o FlattenSeq([k \in 1..Len(order) |->
                                   Plane(id(order[k]), chains[order[k]])])
                  \o <<Chunk(END_PAGE, 0)>>
     IN  /\ IF blank \/ Noted(page_num)
              THEN /\ even' = even \o cells
                   /\ seek' = Append(seek,
                        [b |-> Len(even), e |-> Len(even'),
                         pause |-> IF Noted(page_num)
                                     THEN Len(even) + PausePlace ELSE 0])
                   /\ UNCHANGED <<out, decoder>>
              ELSE Put(cells) /\ UNCHANGED <<even, seek>>
         /\ doc' = Append(doc, [k \in 1..Len(order) |->
                     [id |-> id(order[k]), bytes |-> Bytes(chains[order[k]])]])
  /\ chains' = <<>>
  /\ page_num' = IF blank THEN page_num + 1 ELSE page_num
  /\ pc' = IF blank THEN "even" ELSE "pages"
  /\ UNCHANGED <<document, blank, chain, limit, len, fed, even_pages, copied>>

\* fwrite at a place that start_page noted.  A place that was never noted is
\* the start of the file, where the type of its first chunk is.
Patched(place, value) ==
  IF place = 0 THEN [even EXCEPT ![1].type = value]
               ELSE [even EXCEPT ![place].n = value]

\* Mutant: the even pages come out in the order they went in.
CopyForward ==
  /\ pc = "even"
  /\ copied < Len(seek)
  /\ LET rec == seek[copied + 1]
     IN  /\ even' = Patched(rec.pause, IF copied = 0 THEN 2 ELSE 3)
         /\ Put(SubSeq(even', rec.b + 1, rec.e))
  /\ copied' = copied + 1
  /\ UNCHANGED <<document, pc, page_num, blank, compress, even_pages, seek,
                 doc>>

\* The pause of the last page is patched differently from the others'.
CopyEven ==
  /\ pc = "even"
  /\ copied < Len(seek)
  /\ LET rec == seek[Len(seek) - copied]
     IN  /\ even' = Patched(rec.pause, IF copied = 0 THEN 2 ELSE 3)
         /\ Put(SubSeq(even', rec.b + 1, rec.e))
  /\ copied' = copied + 1
  /\ UNCHANGED <<document, pc, page_num, blank, compress, even_pages, seek,
                 doc>>

EndDoc ==
  /\ pc = "even"
  /\ copied = Len(seek)
  /\ Put(<<Chunk(END_DOC, 0), Text>>)
  /\ pc' = "done"
  /\ UNCHANGED <<document, page_num, blank, compress, even_pages, even, seek,
                 copied, doc>>

Next ==
  \/ Start \/ ReadPage \/ EndInput \/ Fails
  \/ \E n \in 1..(BihSize + MaxData) : Output(n)
  \/ Copy \/ PlaneEnds
  \/ \E colored \in BOOLEAN : WritePage(colored)
  \/ CopyEven \/ EndDoc

Spec == Init /\ [][Next]_vars

-----------------------------------------------------------------------------
(* Properties                                                              *)

\* Types; no buffer of the chain gets more than it has room for.
TypeOK ==
  /\ document \in Documents
  /\ pc \in Pcs
  /\ page_num \in Nat
  /\ blank \in BOOLEAN
  /\ chain \in Seq([from : Nat, len : Nat])
  /\ \A k \in 1..Len(chain) : chain[k].len <= IF k = 1 THEN BihSize ELSE Size
  /\ limit \in {BihSize, Size}
  /\ len \in Nat
  /\ fed \in Nat
  /\ even_pages \in BOOLEAN
  /\ copied \in Nat

\* Whatever the pieces JBIG delivers, the chain holds every byte of them once
\* and in order: first the header alone, then full buffers, then the rest.
ChainIsWhole ==
  chain # <<>> =>
    /\ chain[1].from = 0
    /\ \A k \in 1..(Len(chain) - 1) :
         /\ chain[k].len = IF k = 1 THEN BihSize ELSE Size
         /\ chain[k + 1].from = chain[k].from + chain[k].len
    /\ Last(chain).from + Last(chain).len + len = fed

\* In what order the pages of the document come out, and with which pause.
\* Without a temporary file both sides of the sheets follow each other.
Order(k) ==
  LET half == Len(doc) \div 2
  IN  IF ~even_pages THEN k
      ELSE IF k <= half THEN 2 * k - 1 ELSE 2 * (Len(doc) - k) + 2

Pause(k) ==
  LET half == Len(doc) \div 2
  IN  IF ~Duplex \/ k = 1 THEN 0
      ELSE IF ~even_pages \/ k <= half THEN 1
      ELSE IF k = half + 1 THEN 2 ELSE 3

Decodes ==
  /\ decoder.at = "end"
  /\ decoder.pages = [k \in 1..Len(doc) |->
                        [pause |-> Pause(k), planes |-> doc[Order(k)]]]

\* The decoder reads a finished stream as the pages that went in: every plane
\* of every page complete, with the right pauses, and in printing order unless
\* tmpfile gave nothing; then exit(0) comes after the pages in the order of
\* the input.  SeekRec is overrun by no document of 2 * MaxSeek pages or less.
\* For the documents that got a blank page see OddCountHandled.
DocumentDecodes ==
  /\ pc = "done" /\ ~blank => Len(doc) = document.pages /\ Decodes
  /\ Len(seek) <= MaxSeek
  /\ pc = "overrun" => document.pages > 2 * MaxSeek

\* The first item of a chunk says how many bytes all of its items take; the
\* code has these numbers as literals, away from the items.
LengthsAgree ==
  \A k \in 1..Len(out) :
    out[k].is = "chunk" /\ out[k].type # JBIG /\ out[k].n > 0 =>
      LET items == (k + 1)..(k + out[k].n)
          bihs == {j \in items : out[j].is = "bih"}
      IN  out[k + 1].n = 12 * Cardinality(items) + 16 * Cardinality(bihs)

\* "Handle odd page count", says main: with a blank page after it, a document
\* with an odd number of pages is one like the others.
OddCountHandled == pc = "done" /\ blank => Decodes
=============================================================================
