---------------------------- MODULE MCXqxStream ----------------------------
(***************************************************************************)
(* XqxStream for TLC: one and two pages in colour, one of them also with   *)
(* its second plane alone, and one to five pages with duplex.              *)
(***************************************************************************)
EXTENDS XqxStream

Sheets(duplex, color, mono, counts) ==
  [duplex : {duplex}, color : {color}, mono : {mono}, pages : counts]

MCDocuments == Sheets(FALSE, TRUE, 0, {1, 2}) \union Sheets(FALSE, TRUE, 2, {1})
                 \union Sheets(TRUE, FALSE, 0, 1..5)

OddDocuments == Sheets(TRUE, FALSE, 0, {1, 3})
=============================================================================
