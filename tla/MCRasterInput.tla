--------------------------- MODULE MCRasterInput ---------------------------
(***************************************************************************)
(* RasterInput for TLC: streams of one and two pages of few rows, cut at   *)
(* every unit, with widths and clips that meet bytes and that do not.      *)
(***************************************************************************)
EXTENDS RasterInput

Points(xs, ys) == [x : xs, y : ys]
Rect(width, height) == [w |-> width, h |-> height]
Times(n, s) == [k \in 1..n |-> s]

\* Cut anywhere.
Cut(kind, sizes, units, uppers, lowers, looks) ==
  [kind : {kind}, sizes : sizes, cut : 0..units, upper : uppers,
   lower : lowers, looks : looks, turn : {FALSE}]

\* Whole, with every second page turned.
Turned(kind, sizes, units, uppers, lowers) ==
  [kind : {kind}, sizes : {sizes}, cut : {units}, upper : uppers,
   lower : lowers, looks : {FALSE}, turn : {TRUE}]

MCInputs ==
  Cut("pbm", {<<Rect(20, 4)>>, <<Rect(20, 4), Rect(25, 3)>>}, 28,
      Points({0, 3, 9}, {0, 1}), Points({0, 5}, {0, 1}), {FALSE})
  \union
  Cut("pksm", {Times(4, Rect(10, 2)) \o Times(4, Rect(17, 2)),
               Times(3, Rect(10, 2)) \o <<Rect(10, 3)>>}, 56,
      Points({0, 1}, {0, 1}), Points({1}, {0}), {FALSE})
  \union
  Cut("cmyk", {Times(2, Rect(7, 4))}, 32,
      Points({0, 2, 3}, {0, 2}), Points({0, 1}, {0, 1}), BOOLEAN)
  \union
  Turned("pbm", <<Rect(20, 3), Rect(25, 3), Rect(9, 3)>>, 33,
         Points({0, 8}, {0, 1}), Points({0}, {0, 1}))
  \union
  Turned("pksm", Times(8, Rect(17, 2)), 64, Points({0, 8}, {0}),
         Points({0, 1}, {0, 1}))
  \union
  Turned("cmyk", Times(3, Rect(5, 3)), 27, Points({0, 2}, {0}),
         Points({0, 1}, {0, 1}))
=============================================================================
