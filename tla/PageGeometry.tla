---------------------------- MODULE PageGeometry ----------------------------
(***************************************************************************)
(* The sizes a page has on its way to the printer, which five places of    *)
(* the code state each for itself: what driver_callback offers to clients, *)
(* what raster_start_page accepts and raster_end_page completes, what      *)
(* encode_xqx tells the encoder to cut off (src/m1005_printer_app.c), and  *)
(* the two generators of test pages (src/generate_test_pbm.c and           *)
(* src/generate_test_raster.c).                                            *)
(*                                                                         *)
(* Lengths of media are in hundredths of a millimetre, all others in dots. *)
(* External: how CUPS and PAPPL make dots of the one from the other.       *)
(***************************************************************************)
EXTENDS Integers

Dots(length, dpi) == (length * dpi) \div 2540

\* Dots lie in a box when x and y are at least its left and top and below its
\* right and bottom.
In(box, x, y) == /\ box.left <= x /\ x < box.right
                 /\ box.top <= y /\ y < box.bottom

-----------------------------------------------------------------------------
(* What the service offers and what it takes                               *)

A4 == [width |-> 21000, length |-> 29700]

\* driver_callback: one medium, one resolution, one raster type.
Offer ==
  [media |-> A4, dpi |-> 600, type |-> "black_1",
   left_right |-> 373, bottom_top |-> 356]

BitsOf == [black_1 |-> 1, sgray_8 |-> 8, srgb_8 |-> 24]

\* cupsRasterInitPWGHeader
Header(media, type, dpi) ==
  LET width == Dots(media.width, dpi)
  IN  [width |-> width, height |-> Dots(media.length, dpi), dpi |-> dpi,
       type |-> type, line |-> (width * BitsOf[type] + 7) \div 8]

Headers == [width : Nat, height : Nat, dpi : Nat, type : DOMAIN BitsOf,
            line : Nat]

A4_WIDTH == 4960
PAPPL_A4_HEIGHT == 7015
M1005_A4_HEIGHT == 7016
A4_BYTES_PER_LINE == 620

\* raster_start_page.  Of the types here only black_1 has one bit per dot, and
\* its colour space is the K that the code asks for.
Accepted(header) ==
  /\ header.width = A4_WIDTH
  /\ header.height \in {PAPPL_A4_HEIGHT, M1005_A4_HEIGHT}
  /\ BitsOf[header.type] = 1
  /\ header.line = A4_BYTES_PER_LINE
  /\ header.dpi = 600

\* Where PAPPL puts the image of a document on a page: within the margins.
Printable(header) ==
  LET left == Dots(Offer.left_right, header.dpi)
      top == Dots(Offer.bottom_top, header.dpi)
  IN  [left |-> left, top |-> top,
       right |-> left + header.width
                 - Dots(2 * Offer.left_right, header.dpi),
       bottom |-> top + header.height
                  - Dots(2 * Offer.bottom_top, header.dpi)]

\* The rows a page has in the file after raster_end_page.
RowsWritten(header) ==
  header.height + (IF header.height = PAPPL_A4_HEIGHT THEN 1 ELSE 0)

\* The arguments -g, -u and -l of encode_xqx: what is left of a page.
Kept == [left |-> 88, right |-> 4960 - 88, top |-> 84, bottom |-> 7016 - 84]

-----------------------------------------------------------------------------
(* generate_test_pbm                                                       *)

PAGE_WIDTH == 4960
PAGE_HEIGHT == 7016

Rect(x, y, width, height) ==
  [left |-> x, top |-> y, right |-> x + width, bottom |-> y + height]

\* draw_text: n glyphs of 5 by 7 blocks, 6 blocks apart.
Text(x, y, n, scale) ==
  Rect(x, y, (6 * (n - 1) + 5) * scale, 7 * scale)

\* draw_density_patch: an outline and dots inside it.
Patch(x, y) == Rect(x, y, 1100, 800)

\* The rectangles around what render_page draws on page k of n.
Drawn(n) ==
  {Rect(112, 112, PAGE_WIDTH - 224, PAGE_HEIGHT - 224),
   Text(320, 360, 17, 34), Text(320, 720, 16, 28), Text(320, 1040, 10, 28),
   Text(650, 2780, 5, 18), Text(2240, 2780, 6, 18), Text(3840, 2780, 4, 18),
   Rect(PAGE_WIDTH \div 2 - 220, 6250, 440, 8),
   Rect(PAGE_WIDTH \div 2 - 4, 6030, 8, 440),
   Rect(PAGE_WIDTH \div 2 - 120, 6130, 240, 240)}
  \cup {Rect(320 + index * 390, 1450, 40 + index * 24, 220) : index \in 0..9}
  \cup {Patch(x, 1900) : x \in {320, 1930, 3540}}
  \cup {Rect(320, 3300 + k * 260, PAGE_WIDTH - 640, 4) : k \in 0..10}
  \cup {Rect(320 + k * 360, 3300, 4, 2604) : k \in 0..12}
  \cup (IF n = 1 THEN {Text(1500, 6600, 12, 22)}
        ELSE {Text(1600, 6600, length, 22) : length \in 11..13})

\* add_deterministic_noise replaces whole bytes within a border.
Noise == [left |-> 8 * 16, right |-> 8 * (620 - 16),
          top |-> 128, bottom |-> PAGE_HEIGHT - 128]

\* The set of the dots that may be black.
Black(n, noisy) ==
  {d \in (0..PAGE_WIDTH - 1) \X (0..PAGE_HEIGHT - 1) :
     \E box \in Drawn(n) \cup (IF noisy THEN {Noise} ELSE {}) :
       In(box, d[1], d[2])}

-----------------------------------------------------------------------------
(* generate_test_raster                                                    *)

INPUT_HEIGHT == 7016
OUTPUT_HEIGHT == 7015

\* A page is the function of its rows, a row the set of its black dots.
Page(dots) ==
  [y \in 0..INPUT_HEIGHT - 1 |-> {d[1] : d \in {e \in dots : e[2] = y}}]

\* The lines it writes of every page: all but the last one of the first page.
Lines(page) == [y \in 0..OUTPUT_HEIGHT - 1 |-> page[y]]

\* It refuses to write a header of other sizes.
Writes(header) == header.width = 4960 /\ header.height = OUTPUT_HEIGHT

\* The page that raster_write_line and raster_end_page make of these lines.
InFile(header, lines) ==
  [y \in 0..RowsWritten(header) - 1 |->
     IF y < header.height THEN lines[y] ELSE {}]
=============================================================================
