-------------------------- MODULE XqxStreamProofs --------------------------
(***************************************************************************)
(* Proofs about XqxStream, for every size of header and buffer, every way  *)
(* JBIG may cut its data and every number of pages.                        *)
(*                                                                         *)
(* The argument goes from the cell to the document.  Read goes on where it *)
(* stopped (ReadConcat), so what it makes of a file is put together from   *)
(* what it makes of the cells, of the pieces of a plane, of the planes of  *)
(* a page and of the pages.  Framed does the same for the lengths.  IInv   *)
(* is about the buffers, StreamInv about what was put out and stored,      *)
(* ReadInv about what the decoder has read and is still to read.           *)
(***************************************************************************)
EXTENDS XqxStream, SequenceLemmas, FiniteSetTheorems, TLAPS

-----------------------------------------------------------------------------
(* What is read, and one cell after the other                              *)

Buffer == [from : Nat, len : Nat]
Room(k) == IF k = 1 THEN BihSize ELSE Size

\* The cells of a file, and what a decoder has read of it.
Ids == Nat \X (1..4)
Cells ==
  [is : {"text", "magic"}] \cup [is : {"chunk"}, type : Nat, n : Nat]
  \cup [is : {"item"}, name : {"length", "other", "pause", "end"}, n : Nat]
  \cup [is : {"bih"}, id : Ids]
  \cup [is : {"data"}, id : Ids, from : Nat, n : Nat]

PlaneRead == [id : Ids, bytes : Nat]
PlanesRead == Seq(PlaneRead)
PageRead == [pause : Nat, planes : PlanesRead]
PagesRead == Seq(PageRead)
Decoders ==
  [at : {"text", "chunk", "items", "data", "end", "lost"}, want : Nat,
   pages : PagesRead]

\* The equation behind Read: what is known after each cell.
Reading(d, s, f) ==
  f = [k \in 0..Len(s) |-> IF k = 0 THEN d ELSE DecodeCell(f[k - 1], s[k])]

\* Whatever follows the cells one by one ends where Read does.
LEMMA ReadIs ==
  ASSUME NEW d, NEW s, Len(s) \in Nat, NEW f, f[0] = d,
         \A k \in 1..Len(s) : f[k] = DecodeCell(f[k - 1], s[k])
  PROVE  Read(d, s) = f[Len(s)]
  <1> DEFINE n == Len(s)
             c == CHOOSE g : Reading(d, s, g)
             r == [k \in 0..n |-> f[k]]
  <1>1. Reading(d, s, r)
    <2> DEFINE h == [k \in 0..n |->
                       IF k = 0 THEN d ELSE DecodeCell(r[k - 1], s[k])]
    <2>1. ASSUME NEW k \in 0..n PROVE r[k] = h[k]
      <3>1. CASE k = 0
        BY <3>1
      <3>2. CASE k # 0
        <4>1. k \in 1..n /\ k - 1 \in 0..n
          BY <3>2
        <4>2. r[k] = f[k] /\ r[k - 1] = f[k - 1]
          BY <4>1
        <4>3. h[k] = DecodeCell(r[k - 1], s[k])
          BY <3>2, <4>1
        <4>4. f[k] = DecodeCell(f[k - 1], s[k])
          BY <4>1
        <4> QED BY <4>2, <4>3, <4>4
      <3> QED BY <3>1, <3>2
    <2>2. r = h
      BY <2>1, Zenon
    <2> QED BY <2>2 DEF Reading
  <1>2. Reading(d, s, c)
    BY <1>1, Zenon
  <1>3. Read(d, s) = c[n]
    BY DEF Read, Reading
  <1> HIDE DEF c
  <1> DEFINE S == {k \in Nat : k <= n => c[k] = f[k]}
  <1>4. 0 \in S
    BY <1>2 DEF Reading
  <1>5. ASSUME NEW k \in 0..(n - 1), k \in S PROVE k + 1 \in S
    <2>1. k + 1 \in 0..n /\ k + 1 \in 1..n /\ k + 1 # 0 /\ (k + 1) - 1 = k
      OBVIOUS
    <2>2. c[k + 1] = DecodeCell(c[(k + 1) - 1], s[k + 1])
      BY <1>2, <2>1 DEF Reading
    <2>3. f[k + 1] = DecodeCell(f[(k + 1) - 1], s[k + 1])
      BY <2>1
    <2>4. c[k] = f[k]
      BY <1>5
    <2>5. c[k + 1] = f[k + 1]
      BY <2>1, <2>2, <2>3, <2>4
    <2> QED BY <2>1, <2>5
  <1> HIDE DEF S
  <1>6. 0..n \subseteq S
    BY <1>4, <1>5, UpTo
  <1>7. n \in 0..n
    OBVIOUS
  <1> QED BY <1>3, <1>6, <1>7 DEF S

\* There is such a function.
LEMMA ReadFollows ==
  ASSUME NEW d, NEW s, Len(s) \in Nat
  PROVE  \E f : /\ f[0] = d
                /\ \A k \in 1..Len(s) : f[k] = DecodeCell(f[k - 1], s[k])
                /\ Read(d, s) = f[Len(s)]
  <1> DEFINE Follows(f, n) ==
               /\ f[0] = d
               /\ \A k \in 1..n : f[k] = DecodeCell(f[k - 1], s[k])
             S == {n \in Nat : \E f : Follows(f, n)}
  <1>1. 0 \in S
    <2>1. Follows([k \in {0} |-> d], 0)
      OBVIOUS
    <2> QED BY <2>1
  <1>2. ASSUME NEW n \in Nat, n \in S PROVE n + 1 \in S
    <2>1. PICK f : Follows(f, n)
      BY <1>2
    <2> DEFINE g == [k \in 0..(n + 1) |-> IF k = n + 1
                                            THEN DecodeCell(f[n], s[n + 1])
                                            ELSE f[k]]
    <2>2. /\ \A k \in 0..n : g[k] = f[k]
          /\ g[n + 1] = DecodeCell(f[n], s[n + 1])
      OBVIOUS
    <2> HIDE DEF g
    <2>3. g[0] = d
      BY <2>1, <2>2
    <2>4. ASSUME NEW k \in 1..(n + 1) PROVE g[k] = DecodeCell(g[k - 1], s[k])
      <3>1. CASE k = n + 1
        <4>1. k - 1 = n /\ n \in 0..n
          BY <3>1
        <4> QED BY <2>2, <3>1, <4>1
      <3>2. CASE k # n + 1
        <4>1. k \in 1..n /\ k \in 0..n /\ k - 1 \in 0..n
          BY <3>2
        <4>2. f[k] = DecodeCell(f[k - 1], s[k])
          BY <2>1, <4>1
        <4>3. g[k] = f[k] /\ g[k - 1] = f[k - 1]
          BY <2>2, <4>1
        <4> QED BY <4>2, <4>3
      <3> QED BY <3>1, <3>2
    <2>5. Follows(g, n + 1)
      BY <2>3, <2>4
    <2> QED BY <2>5
  <1> HIDE DEF S
  <1>3. Len(s) \in S
    BY <1>1, <1>2, SetInduction
  <1>4. PICK f : Follows(f, Len(s))
    BY <1>3 DEF S
  <1>5. Read(d, s) = f[Len(s)]
    BY <1>4, ReadIs
  <1> QED BY <1>4, <1>5

\* Nothing changes nothing.
LEMMA ReadNothing ==
  ASSUME NEW d
  PROVE  Read(d, <<>>) = d
  <1> DEFINE g == [k \in {0} |-> d]
  <1>1. Len(<<>>) \in Nat /\ Len(<<>>) = 0 /\ g[0] = d
    OBVIOUS
  <1>2. \A k \in 1..Len(<<>>) : g[k] = DecodeCell(g[k - 1], <<>>[k])
    BY <1>1
  <1> HIDE DEF g
  <1> QED BY <1>1, <1>2, ReadIs

\* Reading one cell more.
LEMMA ReadAppend ==
  ASSUME NEW d, NEW s \in Seq(Cells), NEW c \in Cells
  PROVE  Read(d, Append(s, c)) = DecodeCell(Read(d, s), c)
  <1> DEFINE n == Len(s)
             a == Append(s, c)
  <1>1. /\ n \in Nat /\ Len(a) = n + 1 /\ a[n + 1] = c
        /\ \A k \in 1..n : a[k] = s[k]
    OBVIOUS
  <1> HIDE DEF a, n
  <1>2. PICK f : /\ f[0] = d
                 /\ \A k \in 1..(n + 1) : f[k] = DecodeCell(f[k - 1], a[k])
                 /\ Read(d, a) = f[n + 1]
    <2>1. Len(a) \in Nat
      BY <1>1
    <2>2. PICK f : /\ f[0] = d
                   /\ \A k \in 1..Len(a) : f[k] = DecodeCell(f[k - 1], a[k])
                   /\ Read(d, a) = f[Len(a)]
      BY <2>1, ReadFollows
    <2> QED BY <1>1, <2>2
  <1>3. Read(d, s) = f[n]
    <2>1. \A k \in 1..n : f[k] = DecodeCell(f[k - 1], s[k])
      <3> SUFFICES ASSUME NEW k \in 1..n
                   PROVE  f[k] = DecodeCell(f[k - 1], s[k])
        OBVIOUS
      <3>1. k \in 1..(n + 1)
        BY <1>1
      <3> QED BY <1>1, <1>2, <3>1
    <2> QED BY <1>1, <1>2, <2>1, ReadIs DEF n
  <1>4. n + 1 \in 1..(n + 1) /\ (n + 1) - 1 = n
    BY <1>1
  <1>5. f[n + 1] = DecodeCell(f[n], c)
    BY <1>1, <1>2, <1>4
  <1> QED BY <1>2, <1>3, <1>5 DEF a

\* Reading two pieces of a file one after the other.
LEMMA ReadConcat ==
  ASSUME NEW d, NEW s \in Seq(Cells), NEW t \in Seq(Cells)
  PROVE  Read(d, s \o t) = Read(Read(d, s), t)
  <1> DEFINE m == Len(s)
             n == Len(t)
             a == s \o t
  <1>1. /\ m \in Nat /\ n \in Nat /\ Len(a) = m + n
        /\ \A k \in 1..m : a[k] = s[k]
        /\ \A k \in 1..n : a[m + k] = t[k]
    OBVIOUS
  <1> HIDE DEF a, m, n
  <1>2. PICK f : /\ f[0] = d
                 /\ \A k \in 1..(m + n) : f[k] = DecodeCell(f[k - 1], a[k])
                 /\ Read(d, a) = f[m + n]
    <2>1. Len(a) \in Nat
      BY <1>1
    <2>2. PICK f : /\ f[0] = d
                   /\ \A k \in 1..Len(a) : f[k] = DecodeCell(f[k - 1], a[k])
                   /\ Read(d, a) = f[Len(a)]
      BY <2>1, ReadFollows
    <2> QED BY <1>1, <2>2
  <1>3. Read(d, s) = f[m]
    <2>1. \A k \in 1..m : f[k] = DecodeCell(f[k - 1], s[k])
      <3> SUFFICES ASSUME NEW k \in 1..m
                   PROVE  f[k] = DecodeCell(f[k - 1], s[k])
        OBVIOUS
      <3>1. k \in 1..(m + n)
        BY <1>1
      <3> QED BY <1>1, <1>2, <3>1
    <2> QED BY <1>1, <1>2, <2>1, ReadIs DEF m
  <1>4. Read(f[m], t) = f[m + n]
    <2> DEFINE g == [k \in 0..n |-> f[m + k]]
    <2>1. g[0] = f[m] /\ g[n] = f[m + n]
      BY <1>1
    <2>2. ASSUME NEW k \in 1..n PROVE g[k] = DecodeCell(g[k - 1], t[k])
      <3>1. m + k \in 1..(m + n) /\ (m + k) - 1 = m + (k - 1)
        BY <1>1
      <3>2. f[m + k] = DecodeCell(f[(m + k) - 1], t[k])
        BY <1>1, <1>2, <3>1
      <3>3. g[k] = f[m + k] /\ g[k - 1] = f[m + (k - 1)]
        BY <1>1
      <3> HIDE DEF g
      <3> QED BY <3>1, <3>2, <3>3
    <2> HIDE DEF g
    <2>3. Read(f[m], t) = g[n]
      BY <1>1, <2>1, <2>2, ReadIs DEF n
    <2> QED BY <2>1, <2>3
  <1> QED BY <1>2, <1>3, <1>4 DEF a

-----------------------------------------------------------------------------
(* What the decoder makes of a single cell                                 *)

\* The decoder between two chunks, and with n items to come.
\* A decoder that expects a chunk, or n items more, after the pages ps.
Chunks(ps) == [at |-> "chunk", want |-> 0, pages |-> ps]
Items(ps, n) ==
  [at |-> IF n = 0 THEN "chunk" ELSE "items", want |-> n, pages |-> ps]

\* Changing the element that was appended.
LEMMA ChangeLast ==
  ASSUME NEW T, NEW s \in Seq(T), NEW x \in T, NEW y \in T
  PROVE  /\ Append(s, x) \in Seq(T)
         /\ Len(s) \in Nat /\ Len(Append(s, x)) = Len(s) + 1
         /\ Append(s, x)[Len(s) + 1] = x
         /\ [Append(s, x) EXCEPT ![Len(s) + 1] = y] = Append(s, y)
  <1> DEFINE n == Len(s) + 1
             a == Append(s, x)
             b == Append(s, y)
             e == [a EXCEPT ![n] = y]
  <1>1. /\ a \in Seq(T) /\ Len(a) = n /\ a[n] = x /\ Len(s) \in Nat
        /\ b \in Seq(T) /\ Len(b) = n /\ b[n] = y
        /\ \A k \in 1..Len(s) : a[k] = s[k] /\ b[k] = s[k]
    OBVIOUS
  <1> HIDE DEF a, b
  <1>2. /\ e \in Seq(T) /\ Len(e) = n
        /\ \A k \in 1..n : e[k] = IF k = n THEN y ELSE a[k]
    <2>1. n \in 1..Len(a)
      BY <1>1
    <2>2. e \in Seq(T) /\ Len(e) = Len(a)
      BY <1>1, <2>1, ExceptSeq
    <2>3. DOMAIN a = 1..n
      BY <1>1, LenProperties
    <2> QED BY <1>1, <2>2, <2>3
  <1>3. \A k \in 1..n : e[k] = b[k]
    BY <1>1, <1>2
  <1> HIDE DEF e
  <1>4. e = b
    BY <1>1, <1>2, <1>3, SeqEqual
  <1> QED BY <1>1, <1>4 DEF a, b, e

\* An item makes the decoder wait for one less; it has other effects only if
\* it is a pause or the header of a plane.
LEMMA DecodeAnItem ==
  ASSUME NEW ps, NEW n \in Nat, NEW c, c.is \in {"item", "bih"}
  PROVE  LET d == Items(ps, n + 1)
         IN  /\ DecodeCell(d, c) = OneItem(d, c)
             /\ d.pages = ps /\ d.want - 1 = n
             /\ (IF d.want = 1 THEN "chunk" ELSE "items")
                = (IF n = 0 THEN "chunk" ELSE "items")
  BY DEF DecodeCell, Items

LEMMA DecodeItem ==
  ASSUME NEW ps, NEW n \in Nat, NEW v, NEW name \in {"length", "other", "end"}
  PROVE  DecodeCell(Items(ps, n + 1), Item(name, v)) = Items(ps, n)
  BY DEF DecodeCell, Items, Item, OneItem

\* The pause goes to the last page.
LEMMA DecodePause ==
  ASSUME NEW ps \in PagesRead, NEW q \in PlanesRead,
         NEW n \in Nat, NEW v \in Nat
  PROVE  DecodeCell(Items(Append(ps, [pause |-> 0, planes |-> q]), n + 1),
                    Item("pause", v))
         = Items(Append(ps, [pause |-> v, planes |-> q]), n)
  <1> DEFINE a == Append(ps, [pause |-> 0, planes |-> q])
             b == Append(ps, [pause |-> v, planes |-> q])
  <1>1. /\ [pause |-> 0, planes |-> q] \in PageRead
        /\ [pause |-> v, planes |-> q] \in PageRead
    BY DEF PageRead
  <1>2. /\ Len(ps) \in Nat /\ Len(a) = Len(ps) + 1
        /\ a[Len(ps) + 1] = [pause |-> 0, planes |-> q]
        /\ [a EXCEPT ![Len(ps) + 1] = [pause |-> v, planes |-> q]] = b
    <2> DEFINE x == [pause |-> 0, planes |-> q]
               z == [pause |-> v, planes |-> q]
    <2>1. x \in PageRead /\ z \in PageRead
      BY <1>1
    <2> HIDE DEF x, z
    <2>2. /\ Len(ps) \in Nat /\ Len(Append(ps, x)) = Len(ps) + 1
          /\ Append(ps, x)[Len(ps) + 1] = x
          /\ [Append(ps, x) EXCEPT ![Len(ps) + 1] = z] = Append(ps, z)
      BY <2>1, ChangeLast DEF PagesRead
    <2> QED BY <2>2 DEF x, z
  <1> HIDE DEF a, b
  <1>3. [a EXCEPT ![Len(a)].pause = v] = b
    <2>1. [a[Len(ps) + 1] EXCEPT !.pause = v] = [pause |-> v, planes |-> q]
      BY <1>2
    <2> QED BY <1>2, <2>1
  <1>4. DecodeCell(Items(a, n + 1), Item("pause", v)) =
          Items([a EXCEPT ![Len(a)].pause = v], n)
    <2> DEFINE d == Items(a, n + 1)
               c == Item("pause", v)
    <2>1. c.is = "item" /\ c.name = "pause" /\ c.n = v
      BY DEF Item
    <2> HIDE DEF c
    <2>2. /\ DecodeCell(d, c) = OneItem(d, c)
          /\ d.pages = a /\ d.want - 1 = n
          /\ (IF d.want = 1 THEN "chunk" ELSE "items")
                = (IF n = 0 THEN "chunk" ELSE "items")
      BY <2>1, DecodeAnItem
    <2> HIDE DEF d
    <2>3. OneItem(d, c) = Items([a EXCEPT ![Len(a)].pause = v], n)
      BY <2>1, <2>2 DEF OneItem, Items, LastPage
    <2> QED BY <2>2, <2>3 DEF c, d
  <1> QED BY <1>3, <1>4 DEF a, b

\* Before the magic number, and after the last chunk.
LEMMA DecodeText ==
  /\ DecodeCell(Fresh, Text) = Fresh
  /\ DecodeCell(Fresh, Magic) = Chunks(<<>>)
  <1>1. Text # Magic
    BY DEF Text, Magic
  <1>2. Fresh.at = "text" /\ [Fresh EXCEPT !.at = "chunk"] = Chunks(<<>>)
    BY DEF Fresh, Chunks
  <1> QED BY <1>1, <1>2 DEF DecodeCell

LEMMA DecodeEnd ==
  ASSUME NEW ps
  PROVE  LET d == [at |-> "end", want |-> 0, pages |-> ps]
         IN  /\ DecodeCell(Chunks(ps), Chunk(END_DOC, 0)) = d
             /\ DecodeCell(d, Text) = d
  <1> DEFINE d == [at |-> "end", want |-> 0, pages |-> ps]
             c == Chunk(END_DOC, 0)
             e == Chunks(ps)
  <1>1. e.at = "chunk" /\ c.is = "chunk" /\ Header(e, c) = d
    BY DEF Chunks, Chunk, Header, END_DOC, JBIG
  <1>2. DecodeCell(e, c) = Header(e, c)
    <2> HIDE DEF e, c, d
    <2> QED BY <1>1 DEF DecodeCell
  <1>3. d.at = "end"
    OBVIOUS
  <1>4. DecodeCell(d, Text) = d
    <2> HIDE DEF d
    <2> QED BY <1>3 DEF DecodeCell
  <1> QED BY <1>1, <1>2, <1>4

\* A header says how many items follow; that of a page starts one.
LEMMA DecodeHeader ==
  ASSUME NEW ps, NEW type, NEW n \in Nat, type # JBIG, type # END_DOC
  PROVE  DecodeCell(Chunks(ps), Chunk(type, n)) =
           Items(IF type = START_PAGE
                   THEN Append(ps, [pause |-> 0, planes |-> <<>>]) ELSE ps, n)
  BY DEF DecodeCell, Chunks, Chunk, Header, Items

\* The header of a plane starts one, its data make it longer.
LEMMA DecodeBih ==
  ASSUME NEW ps \in PagesRead, NEW p \in Nat, NEW q \in PlanesRead,
         NEW n \in Nat, NEW id \in Ids
  PROVE  DecodeCell(Items(Append(ps, [pause |-> p, planes |-> q]), n + 1),
                    Bih(id))
         = Items(Append(ps, [pause |-> p,
                   planes |-> Append(q, [id |-> id, bytes |-> 0])]), n)
  <1> DEFINE r == Append(q, [id |-> id, bytes |-> 0])
             a == Append(ps, [pause |-> p, planes |-> q])
             b == Append(ps, [pause |-> p, planes |-> r])
  <1>1. /\ [pause |-> p, planes |-> q] \in PageRead
        /\ [pause |-> p, planes |-> r] \in PageRead
    BY DEF PlanesRead, PlaneRead, PageRead
  <1> HIDE DEF r
  <1>2. /\ Len(ps) \in Nat /\ Len(a) = Len(ps) + 1
        /\ a[Len(ps) + 1] = [pause |-> p, planes |-> q]
        /\ [a EXCEPT ![Len(ps) + 1] = [pause |-> p, planes |-> r]] = b
    <2> DEFINE x == [pause |-> p, planes |-> q]
               z == [pause |-> p, planes |-> r]
    <2>1. x \in PageRead /\ z \in PageRead
      BY <1>1
    <2> HIDE DEF x, z
    <2>2. /\ Len(ps) \in Nat /\ Len(Append(ps, x)) = Len(ps) + 1
          /\ Append(ps, x)[Len(ps) + 1] = x
          /\ [Append(ps, x) EXCEPT ![Len(ps) + 1] = z] = Append(ps, z)
      BY <2>1, ChangeLast DEF PagesRead
    <2> QED BY <2>2 DEF x, z
  <1> HIDE DEF a, b
  <1>3. [a EXCEPT ![Len(a)].planes = r] = b
    <2>1. [a[Len(ps) + 1] EXCEPT !.planes = r] = [pause |-> p, planes |-> r]
      BY <1>2
    <2> QED BY <1>2, <2>1
  <1>4. DecodeCell(Items(a, n + 1), Bih(id)) =
          Items([a EXCEPT ![Len(a)].planes =
                   Append(@, [id |-> id, bytes |-> 0])], n)
    <2> DEFINE d == Items(a, n + 1)
               c == Bih(id)
    <2>1. c.is = "bih" /\ c.id = id
      BY DEF Bih
    <2> HIDE DEF c
    <2>2. /\ DecodeCell(d, c) = OneItem(d, c)
          /\ d.pages = a /\ d.want - 1 = n
          /\ (IF d.want = 1 THEN "chunk" ELSE "items")
                = (IF n = 0 THEN "chunk" ELSE "items")
      BY <2>1, DecodeAnItem
    <2> HIDE DEF d
    <2>3. OneItem(d, c) = Items([a EXCEPT ![Len(a)].planes =
                                   Append(@, [id |-> id, bytes |-> 0])], n)
      BY <2>1, <2>2 DEF OneItem, Items, LastPage
    <2> QED BY <2>2, <2>3 DEF c, d
  <1>5. a[Len(a)].planes = q
    BY <1>2
  <1>6. [a EXCEPT ![Len(a)].planes = Append(@, [id |-> id, bytes |-> 0])] =
        [a EXCEPT ![Len(a)].planes = r]
    BY <1>2, <1>5 DEF r
  <1> QED BY <1>3, <1>4, <1>6 DEF a, b, r

LEMMA DecodeData ==
  ASSUME NEW ps \in PagesRead, NEW p \in Nat, NEW q \in PlanesRead,
         NEW id \in Ids, NEW bytes \in Nat, NEW node \in Buffer,
         node.from = BihSize + bytes
  PROVE  LET a(k) == Append(ps, [pause |-> p,
                      planes |-> Append(q, [id |-> id, bytes |-> k])])
         IN  DecodeCell(DecodeCell(Chunks(a(bytes)), Chunk(JBIG, node.len)),
                        Data(id, node))
             = Chunks(a(bytes + node.len))
  <1> DEFINE plane(k) == [id |-> id, bytes |-> k]
             r(k) == Append(q, plane(k))
             page(k) == [pause |-> p, planes |-> r(k)]
             a(k) == Append(ps, page(k))
             m == bytes + node.len
             d == [at |-> "data", want |-> node.len, pages |-> a(bytes)]
             L == Len(ps) + 1
             M == Len(q) + 1
  <1>1. m \in Nat /\ node.len \in Nat
    BY DEF Buffer
  <1>2. \A k \in Nat : plane(k) \in PlaneRead
    BY DEF PlaneRead
  <1>3. /\ Len(q) \in Nat
        /\ Len(r(bytes)) = M /\ r(bytes)[M] = plane(bytes)
        /\ r(bytes) \in PlanesRead /\ r(m) \in PlanesRead
        /\ [r(bytes) EXCEPT ![M] = plane(m)] = r(m)
    <2>1. plane(bytes) \in PlaneRead /\ plane(m) \in PlaneRead
      BY <1>1, <1>2
    <2> HIDE DEF plane, m
    <2>2. /\ r(bytes) \in Seq(PlaneRead) /\ r(m) \in Seq(PlaneRead)
          /\ Len(q) \in Nat /\ Len(r(bytes)) = Len(q) + 1
          /\ r(bytes)[Len(q) + 1] = plane(bytes)
          /\ [r(bytes) EXCEPT ![Len(q) + 1] = plane(m)] = r(m)
      BY <2>1, ChangeLast DEF PlanesRead
    <2> QED BY <2>2 DEF PlanesRead
  <1>4. [r(bytes) EXCEPT ![M].bytes = @ + node.len] = r(m)
    <2>1. [plane(bytes) EXCEPT !.bytes = @ + node.len] = plane(m)
      OBVIOUS
    <2> HIDE DEF plane, m, r
    <2> QED BY <1>3, <2>1
  <1>5. r(bytes) # <<>> /\ Last(r(bytes)) = plane(bytes)
    <2> HIDE DEF plane, r
    <2> QED BY <1>3 DEF Last
  <1> HIDE DEF r
  <1>6. page(bytes) \in PageRead
        /\ page(m) \in PageRead
    BY <1>3 DEF PageRead
  <1>7. /\ Len(ps) \in Nat /\ Len(a(bytes)) = L /\ a(bytes)[L] = page(bytes)
        /\ [a(bytes) EXCEPT ![L] = page(m)] = a(m)
    <2> HIDE DEF page, m
    <2> QED BY <1>6, ChangeLast DEF PagesRead
  <1>8. [a(bytes) EXCEPT ![L].planes = r(m)] = a(m)
    <2>1. [page(bytes) EXCEPT !.planes = r(m)] = page(m)
      OBVIOUS
    <2> HIDE DEF page, m, a
    <2> QED BY <1>7, <2>1
  <1>9. a(bytes)[L].planes = r(bytes)
    BY <1>7
  <1> HIDE DEF a, m, page
  <1>10. DecodeCell(Chunks(a(bytes)), Chunk(JBIG, node.len)) = d
    BY DEF DecodeCell, Chunks, Chunk, Header
  <1>11. LastPage(d) = L /\ L > 0 /\ d.pages[L].planes = r(bytes)
    BY <1>7, <1>9 DEF LastPage
  <1>12. Continues(d, Data(id, node))
    BY <1>5, <1>11 DEF Continues, Data
  <1>13. RunOfData(d, Data(id, node)) =
           [at |-> "chunk", want |-> 0, pages |->
              [a(bytes) EXCEPT ![L].planes =
                 [r(bytes) EXCEPT ![M].bytes = @ + node.len]]]
    BY <1>3, <1>11, SMTT(40) DEF RunOfData, Data
  <1>14. RunOfData(d, Data(id, node)) = Chunks(a(m))
    BY <1>4, <1>8, <1>13 DEF Chunks
  <1>15. DecodeCell(d, Data(id, node)) = RunOfData(d, Data(id, node))
    BY <1>12 DEF DecodeCell, Data
  <1> QED BY <1>10, <1>14, <1>15 DEF a, m, page, r, plane

-----------------------------------------------------------------------------
(* The start of a page                                                     *)

\* Files of one, two and four parts.
LEMMA ReadOne ==
  ASSUME NEW d, NEW e, NEW a \in Cells, DecodeCell(d, a) = e
  PROVE  Read(d, <<a>>) = e /\ <<a>> \in Seq(Cells)
  <1>1. /\ <<>> \in Seq(Cells) /\ <<a>> \in Seq(Cells)
        /\ Append(<<>>, a) = <<a>>
    OBVIOUS
  <1>2. Read(d, Append(<<>>, a)) = DecodeCell(Read(d, <<>>), a)
    BY <1>1, ReadAppend
  <1> QED BY <1>1, <1>2, ReadNothing

LEMMA ReadTwo ==
  ASSUME NEW d, NEW e, NEW f, NEW a \in Cells, NEW b \in Cells,
         DecodeCell(d, a) = e, DecodeCell(e, b) = f
  PROVE  Read(d, <<a, b>>) = f /\ <<a, b>> \in Seq(Cells)
  <1> DEFINE s == <<a>>
             t == Append(s, b)
             u == <<a, b>>
  <1>1. s \in Seq(Cells) /\ Read(d, s) = e
    BY ReadOne
  <1>2. t = u
    <2>1. t \in Seq(Cells) /\ Len(t) = 2 /\ t[1] = a /\ t[2] = b
      BY <1>1
    <2>2. u \in Seq(Cells) /\ Len(u) = 2 /\ u[1] = a /\ u[2] = b
      OBVIOUS
    <2> HIDE DEF t, u
    <2>3. \A k \in 1..Len(t) : t[k] = u[k]
      BY <2>1, <2>2
    <2> QED BY <2>1, <2>2, <2>3, SeqEqual
  <1>3. u \in Seq(Cells)
    OBVIOUS
  <1> HIDE DEF s, u
  <1>4. Read(d, t) = DecodeCell(Read(d, s), b)
    BY <1>1, ReadAppend
  <1> HIDE DEF t
  <1>5. Read(d, u) = f
    BY <1>1, <1>2, <1>4
  <1> QED BY <1>3, <1>5 DEF u

LEMMA ReadFour ==
  ASSUME NEW d, NEW s \in Seq(Cells), NEW t \in Seq(Cells),
         NEW u \in Seq(Cells), NEW v \in Seq(Cells)
  PROVE  /\ s \o t \o u \o v \in Seq(Cells)
         /\ Read(d, s \o t \o u \o v) = Read(Read(Read(Read(d, s), t), u), v)
  <1> DEFINE x == s \o t
  <1>1. x \in Seq(Cells) /\ Read(d, x) = Read(Read(d, s), t)
    BY ReadConcat
  <1> HIDE DEF x
  <1> DEFINE y == x \o u
  <1>2. y \in Seq(Cells) /\ Read(d, y) = Read(Read(d, x), u)
    BY <1>1, ReadConcat
  <1> HIDE DEF y
  <1>3. y \o v \in Seq(Cells) /\ Read(d, y \o v) = Read(Read(d, y), v)
    BY <1>2, ReadConcat
  <1> QED BY <1>1, <1>2, <1>3 DEF x, y

\* Items that the decoder only counts.
LEMMA OthersAreCells ==
  ASSUME NEW n \in Nat
  PROVE  /\ Others(n) \in Seq(Cells)
         /\ Len(Others(n)) = n
         /\ \A k \in 1..n : Others(n)[k] = Item("other", 0)
         /\ Others(n + 1) = Append(Others(n), Item("other", 0))
         /\ Item("other", 0) \in Cells
  <1>1. Item("other", 0) \in Cells
    BY DEF Item, Cells
  <1> DEFINE x == Item("other", 0)
  <1> HIDE DEF x
  <1>2. \A m \in Nat : /\ [k \in 1..m |-> x] \in Seq(Cells)
                       /\ Len([k \in 1..m |-> x]) = m
    BY <1>1 DEF x
  <1>3. [k \in 1..(n + 1) |-> x] = Append([k \in 1..n |-> x], x)
    <2> DEFINE a == [k \in 1..(n + 1) |-> x]
               b == Append([k \in 1..n |-> x], x)
    <2>1. /\ a \in Seq(Cells) /\ Len(a) = n + 1
          /\ b \in Seq(Cells) /\ Len(b) = n + 1
      BY <1>1, <1>2 DEF x
    <2>2. \A k \in 1..(n + 1) : a[k] = x /\ b[k] = x
      <3> SUFFICES ASSUME NEW k \in 1..(n + 1) PROVE b[k] = x
        OBVIOUS
      <3>1. CASE k = n + 1
        BY <1>2, <3>1
      <3>2. CASE k # n + 1
        BY <1>2, <3>2
      <3> QED BY <3>1, <3>2
    <2> HIDE DEF a, b
    <2>3. a = b
      BY <2>1, <2>2, SeqEqual
    <2> QED BY <2>3 DEF a, b
  <1> QED BY <1>1, <1>2, <1>3 DEF Others, x

LEMMA ReadOthers ==
  ASSUME NEW ps, NEW m \in Nat
  PROVE  \A n \in Nat : Read(Items(ps, m + n), Others(n)) = Items(ps, m)
  <1> DEFINE S == {n \in Nat : \A k \in Nat :
                     Read(Items(ps, k + n), Others(n)) = Items(ps, k)}
  <1>1. 0 \in S
    <2>1. Others(0) = <<>>
      BY DEF Others
    <2>2. \A k \in Nat : Read(Items(ps, k + 0), <<>>) = Items(ps, k)
      BY ReadNothing
    <2> QED BY <2>1, <2>2
  <1>2. ASSUME NEW n \in Nat, n \in S PROVE n + 1 \in S
    <2> SUFFICES ASSUME NEW k \in Nat
                 PROVE  Read(Items(ps, k + (n + 1)), Others(n + 1))
                        = Items(ps, k)
      OBVIOUS
    <2>1. k + 1 \in Nat /\ k + (n + 1) = (k + 1) + n
      OBVIOUS
    <2>2. Read(Items(ps, (k + 1) + n), Others(n)) = Items(ps, k + 1)
      BY <1>2, <2>1
    <2>3. Read(Items(ps, k + (n + 1)), Others(n + 1)) =
            DecodeCell(Read(Items(ps, k + (n + 1)), Others(n)),
                       Item("other", 0))
      <3> DEFINE d == Items(ps, k + (n + 1))
                 o == Others(n)
                 x == Item("other", 0)
      <3>1. o \in Seq(Cells) /\ x \in Cells /\ Others(n + 1) = Append(o, x)
        BY OthersAreCells
      <3> HIDE DEF d, o, x
      <3>2. Read(d, Append(o, x)) = DecodeCell(Read(d, o), x)
        BY <3>1, ReadAppend
      <3> QED BY <3>1, <3>2 DEF d, o, x
    <2>4. DecodeCell(Items(ps, k + 1), Item("other", 0)) = Items(ps, k)
      BY DecodeItem
    <2> QED BY <2>1, <2>2, <2>3, <2>4
  <1> HIDE DEF S
  <1>3. Nat \subseteq S
    BY <1>1, <1>2, SetInduction
  <1> QED BY <1>3 DEF S

\* The cells of start_page.
LEMMA StartPageIs ==
  ASSUME NEW v \in Nat, Duplex \in BOOLEAN
  PROVE  LET s == StartPage(v)
             n == IF Duplex THEN 16 ELSE 15
         IN  /\ s \in Seq(Cells) /\ Len(s) = n + 1
             /\ s[1] = Chunk(START_PAGE, n)
             /\ s[2] = Item("length", 12 * n)
             /\ \A k \in 3..(n + 1) :
                  s[k] = IF k = PausePlace /\ Duplex THEN Item("pause", v)
                         ELSE IF k = n + 1 THEN Item("end", 0)
                         ELSE Item("other", 0)
  <1> DEFINE n == IF Duplex THEN 16 ELSE 15
             a == <<Chunk(START_PAGE, n), Item("length", 12 * n)>>
             o == Others(12)
             c == IF Duplex THEN <<Item("pause", v)>> ELSE <<>>
             e == <<Item("other", 0), Item("end", 0)>>
  <1>1. StartPage(v) = a \o o \o c \o e
    BY DEF StartPage
  <1>2. /\ a \in Seq(Cells) /\ Len(a) = 2
        /\ c \in Seq(Cells) /\ Len(c) = (IF Duplex THEN 1 ELSE 0)
        /\ (Duplex => c[1] = Item("pause", v))
        /\ e \in Seq(Cells) /\ Len(e) = 2
    <2>1. /\ Chunk(START_PAGE, n) \in Cells /\ Item("length", 12 * n) \in Cells
          /\ Item("other", 0) \in Cells /\ Item("end", 0) \in Cells
          /\ Item("pause", v) \in Cells
      BY DEF Chunk, Item, Cells, START_PAGE
    <2> QED BY <2>1
  <1>3. /\ a[1] = Chunk(START_PAGE, n) /\ a[2] = Item("length", 12 * n)
        /\ e[1] = Item("other", 0) /\ e[2] = Item("end", 0)
    OBVIOUS
  <1>4. /\ o \in Seq(Cells) /\ Len(o) = 12
        /\ \A k \in 1..12 : o[k] = Item("other", 0)
    BY OthersAreCells
  <1> HIDE DEF a, o, c, e
  <1>5. /\ a \o o \in Seq(Cells) /\ Len(a \o o) = 14
        /\ \A k \in 1..14 : (a \o o)[k] = IF k <= 2 THEN a[k] ELSE o[k - 2]
    <2>1. a \o o \in Seq(Cells) /\ Len(a \o o) = Len(a) + Len(o)
          /\ \A k \in 1..(Len(a) + Len(o)) :
              (a \o o)[k] = IF k <= Len(a) THEN a[k] ELSE o[k - Len(a)]
      BY <1>2, <1>4, Joined
    <2> HIDE DEF o
    <2>2. Len(a) = 2 /\ Len(o) = 12
      BY <1>2, <1>4
    <2>3. Len(a) + Len(o) = 14
      BY <2>2
    <2>4. /\ a \o o \in Seq(Cells) /\ Len(a \o o) = 14
          /\ \A k \in 1..14 :
              (a \o o)[k] = IF k <= Len(a) THEN a[k] ELSE o[k - Len(a)]
      BY <2>1, <2>3
    <2> QED BY <2>2, <2>4
  <1> DEFINE b == a \o o
             m == 14 + Len(c)
  <1> HIDE DEF b
  <1>6. /\ b \o c \in Seq(Cells) /\ Len(b \o c) = m
        /\ \A k \in 1..m : (b \o c)[k] = IF k <= 14 THEN b[k] ELSE c[k - 14]
    <2>0. b \in Seq(Cells) /\ Len(b) = 14
      BY <1>5 DEF b
    <2>1. b \o c \in Seq(Cells) /\ Len(b \o c) = Len(b) + Len(c)
          /\ \A k \in 1..(Len(b) + Len(c)) :
              (b \o c)[k] = IF k <= Len(b) THEN b[k] ELSE c[k - Len(b)]
      BY <1>2, <2>0, Joined
    <2> QED BY <2>0, <2>1
  <1> DEFINE f == b \o c
  <1> HIDE DEF f
  <1>7. /\ f \o e \in Seq(Cells) /\ Len(f \o e) = m + 2
        /\ \A k \in 1..(m + 2) :
             (f \o e)[k] = IF k <= m THEN f[k] ELSE e[k - m]
    <2>0. f \in Seq(Cells) /\ Len(f) = m
      BY <1>6 DEF f
    <2>1. f \o e \in Seq(Cells) /\ Len(f \o e) = Len(f) + Len(e)
          /\ \A k \in 1..(Len(f) + Len(e)) :
              (f \o e)[k] = IF k <= Len(f) THEN f[k] ELSE e[k - Len(f)]
      <3>1. e \in Seq(Cells)
        BY <1>2
      <3> QED BY <2>0, <3>1, Joined, ZenonT(40)
    <2>2. Len(e) = 2 /\ Len(f) + Len(e) = m + 2
      BY <1>2, <2>0
    <2> HIDE DEF m
    <2> QED BY <2>0, <2>1, <2>2
  <1>8. StartPage(v) = f \o e
    BY <1>1 DEF f, b
  <1>9. m + 2 = n + 1
    BY <1>2
  <1> DEFINE s == f \o e
  <1> HIDE DEF s
  <1>10. \A k \in 1..(n + 1) :
           s[k] = IF k <= 2 THEN a[k] ELSE IF k <= 14 THEN o[k - 2]
                  ELSE IF k <= m THEN c[k - 14] ELSE e[k - m]
    <2> SUFFICES ASSUME NEW k \in 1..(n + 1)
                 PROVE  s[k] = IF k <= 2 THEN a[k]
                               ELSE IF k <= 14 THEN o[k - 2]
                               ELSE IF k <= m THEN c[k - 14] ELSE e[k - m]
      OBVIOUS
    <2>1. s[k] = IF k <= m THEN f[k] ELSE e[k - m]
      BY <1>7, <1>9 DEF s
    <2>2. m \in {14, 15}
      BY <1>2
    <2>3. k <= m => f[k] = IF k <= 14 THEN b[k] ELSE c[k - 14]
      BY <1>6, <2>2 DEF f
    <2>4. k <= 14 => b[k] = IF k <= 2 THEN a[k] ELSE o[k - 2]
      <3>1. \A j \in 1..14 : b[j] = IF j <= 2 THEN a[j] ELSE o[j - 2]
        BY <1>5 DEF b
      <3> HIDE DEF b, n
      <3> QED BY <3>1
    <2> HIDE DEF m, n
    <2> QED BY <2>1, <2>2, <2>3, <2>4
  <1>11. s[1] = a[1] /\ s[2] = a[2]
    BY <1>10
  <1>12. ASSUME NEW k \in 3..(n + 1)
         PROVE  s[k] = IF k = PausePlace /\ Duplex THEN Item("pause", v)
                       ELSE IF k = n + 1 THEN Item("end", 0)
                       ELSE Item("other", 0)
    <2>1. CASE k <= 14
      <3>1. k - 2 \in 1..12
        BY <2>1
      <3> QED BY <1>4, <1>10, <2>1, <3>1 DEF PausePlace
    <2>2. CASE k > 14
      BY <1>2, <1>3, <1>9, <1>10, <2>2 DEF PausePlace
    <2> QED BY <2>1, <2>2
  <1> QED BY <1>3, <1>7, <1>8, <1>9, <1>11, <1>12 DEF s

\* What the decoder knows in the middle of a page, between two chunks.
InPage(ps, v, q) == Chunks(Append(ps, [pause |-> v, planes |-> q]))

\* The start of a page adds a page that has no planes yet.
LEMMA ReadStartPage ==
  ASSUME NEW ps \in PagesRead, NEW v \in Nat, Duplex \in BOOLEAN
  PROVE  Read(Chunks(ps), StartPage(v)) =
           InPage(ps, IF Duplex THEN v ELSE 0, <<>>)
  <1> DEFINE n == IF Duplex THEN 16 ELSE 15
             a == <<Chunk(START_PAGE, n), Item("length", 12 * n)>>
             o == Others(12)
             c == IF Duplex THEN <<Item("pause", v)>> ELSE <<>>
             e == <<Item("other", 0), Item("end", 0)>>
             page(k) == Append(ps, [pause |-> k, planes |-> <<>>])
             w == IF Duplex THEN v ELSE 0
             r == IF Duplex THEN 3 ELSE 2
  <1>1. StartPage(v) = a \o o \o c \o e
    BY DEF StartPage
  <1>2. /\ Chunk(START_PAGE, n) \in Cells /\ Item("length", 12 * n) \in Cells
        /\ Item("other", 0) \in Cells /\ Item("end", 0) \in Cells
        /\ Item("pause", v) \in Cells
    BY DEF Chunk, Item, Cells, START_PAGE
  <1>3. /\ a \in Seq(Cells) /\ o \in Seq(Cells)
        /\ c \in Seq(Cells) /\ e \in Seq(Cells)
    BY <1>2, OthersAreCells
  <1>4. Read(Chunks(ps), a) = Items(page(0), r + 12)
    <2>1. DecodeCell(Chunks(ps), Chunk(START_PAGE, n)) = Items(page(0), n)
      BY DecodeHeader DEF START_PAGE, JBIG, END_DOC
    <2>2. n = (r + 12) + 1 /\ r + 12 \in Nat
      OBVIOUS
    <2>3. DecodeCell(Items(page(0), (r + 12) + 1), Item("length", 12 * n))
          = Items(page(0), r + 12)
      <3> HIDE DEF r, n, page
      <3> QED BY <2>2, DecodeItem
    <2> DEFINE x == Chunk(START_PAGE, n)
               y == Item("length", 12 * n)
    <2>4. x \in Cells /\ y \in Cells
      BY <1>2
    <2>5. DecodeCell(Items(page(0), n), y) = Items(page(0), r + 12)
      BY <2>2, <2>3
    <2> HIDE DEF n, page, r, x, y
    <2>6. Read(Chunks(ps), <<x, y>>) = Items(page(0), r + 12)
      BY <2>1, <2>4, <2>5, ReadTwo DEF x
    <2> QED BY <2>6 DEF x, y
  <1>5. Read(Items(page(0), r + 12), o) = Items(page(0), r)
    BY ReadOthers
  <1>6. Read(Items(page(0), r), c) = Items(page(w), 2)
    <2>1. CASE Duplex
      <3>1. <<>> \in PlanesRead /\ 2 + 1 = 3
        BY DEF PlanesRead
      <3>2. DecodeCell(Items(page(0), 2 + 1), Item("pause", v))
            = Items(page(v), 2)
        BY <3>1, DecodePause
      <3> DEFINE x == Item("pause", v)
      <3>3. x \in Cells /\ DecodeCell(Items(page(0), 3), x) = Items(page(v), 2)
        BY <1>2, <3>1, <3>2
      <3>4. c = <<x>> /\ r = 3 /\ w = v
        BY <2>1
      <3> HIDE DEF x, page, r, w, c
      <3>5. Read(Items(page(0), 3), <<x>>) = Items(page(v), 2)
        BY <3>3, ReadOne
      <3> QED BY <3>4, <3>5
    <2>2. CASE ~Duplex
      BY <2>2, ReadNothing
    <2> QED BY <2>1, <2>2
  <1>7. Read(Items(page(w), 2), e) = Chunks(page(w))
    <2>1. DecodeCell(Items(page(w), 1 + 1), Item("other", 0))
          = Items(page(w), 1)
      BY DecodeItem
    <2>2. DecodeCell(Items(page(w), 0 + 1), Item("end", 0)) = Items(page(w), 0)
      BY DecodeItem
    <2>3. Items(page(w), 0) = Chunks(page(w)) /\ 1 + 1 = 2 /\ 0 + 1 = 1
      BY DEF Items, Chunks
    <2> DEFINE x == Item("other", 0)
               y == Item("end", 0)
    <2>4. x \in Cells /\ y \in Cells
      BY <1>2
    <2>5. /\ DecodeCell(Items(page(w), 2), x) = Items(page(w), 1)
          /\ DecodeCell(Items(page(w), 1), y) = Chunks(page(w))
      BY <2>1, <2>2, <2>3
    <2> HIDE DEF x, y, page, w
    <2>6. Read(Items(page(w), 2), <<x, y>>) = Chunks(page(w))
      BY <2>4, <2>5, ReadTwo
    <2> QED BY <2>6 DEF x, y
  <1> HIDE DEF a, o, c, e, page, r, w
  <1>8. Read(Chunks(ps), a \o o \o c \o e) = Chunks(page(w))
    <2> DEFINE d0 == Chunks(ps)
               d1 == Items(page(0), r + 12)
               d2 == Items(page(0), r)
               d3 == Items(page(w), 2)
               d4 == Chunks(page(w))
    <2>1. Read(d0, a) = d1 /\ Read(d1, o) = d2 /\ Read(d2, c) = d3
          /\ Read(d3, e) = d4
      BY <1>4, <1>5, <1>6, <1>7
    <2> HIDE DEF d0, d1, d2, d3, d4
    <2>2. Read(d0, a \o o \o c \o e) = Read(Read(Read(Read(d0, a), o), c), e)
      BY <1>3, ReadFour
    <2>3. Read(d0, a \o o \o c \o e) = d4
      BY <2>1, <2>2
    <2> QED BY <2>3 DEF d0, d4
  <1> QED BY <1>1, <1>8 DEF InPage, page, w

-----------------------------------------------------------------------------
(* The planes of a page                                                    *)

\* The cells of a piece have an effect of their own each.
LEMMA ReadEight ==
  ASSUME NEW r, NEW w
  PROVE  Len(w) = 8 => Read(r, w) =
           DecodeCell(DecodeCell(DecodeCell(DecodeCell(
             DecodeCell(DecodeCell(DecodeCell(DecodeCell(
               r, w[1]), w[2]), w[3]), w[4]), w[5]), w[6]), w[7]), w[8])
  <1> DEFINE n == Len(w)
             x == w
  <1> SUFFICES ASSUME n = 8
               PROVE  Read(r, w) =
           DecodeCell(DecodeCell(DecodeCell(DecodeCell(
             DecodeCell(DecodeCell(DecodeCell(DecodeCell(
               r, w[1]), w[2]), w[3]), w[4]), w[5]), w[6]), w[7]), w[8])
    OBVIOUS
  <1>1. Len(x) = n /\ n \in Nat
    OBVIOUS
  <1> HIDE DEF n, x
  <1>2. PICK f : /\ f[0] = r
                 /\ \A k \in 1..Len(x) : f[k] = DecodeCell(f[k - 1], x[k])
                 /\ Read(r, x) = f[Len(x)]
    <2>1. Len(x) \in Nat
      BY <1>1
    <2> QED BY <2>1, ReadFollows
  <1>3. \A k \in 1..8 : f[k] = DecodeCell(f[k - 1], x[k])
    BY <1>1, <1>2
  <1>4. /\ f[1] = DecodeCell(f[0], x[1]) /\ f[2] = DecodeCell(f[1], x[2])
        /\ f[3] = DecodeCell(f[2], x[3]) /\ f[4] = DecodeCell(f[3], x[4])
    BY <1>3
  <1>5. /\ f[5] = DecodeCell(f[4], x[5]) /\ f[6] = DecodeCell(f[5], x[6])
        /\ f[7] = DecodeCell(f[6], x[7]) /\ f[8] = DecodeCell(f[7], x[8])
    BY <1>3
  <1>6. Read(r, x) = f[8]
    BY <1>1, <1>2
  <1> QED BY <1>2, <1>4, <1>5, <1>6 DEF x

\* The page's last plane, of which so many bytes are known.
Grown(q, id, bytes) == Append(q, [id |-> id, bytes |-> bytes])

\* One piece of a plane: the first one starts it, the others make it longer.
LEMMA ReadPiece ==
  ASSUME NEW ps \in PagesRead, NEW v \in Nat, NEW q \in PlanesRead,
         NEW id \in Ids, NEW node \in Buffer, NEW first \in BOOLEAN,
         NEW bytes \in Nat, node.from = BihSize + bytes, first => bytes = 0
  PROVE  /\ Piece(id, node, first) \in Seq(Cells)
         /\ Read(InPage(ps, v, IF first THEN q ELSE Grown(q, id, bytes)),
                 Piece(id, node, first))
            = InPage(ps, v, Grown(q, id, bytes + node.len))
  <1> DEFINE page(r) == Append(ps, [pause |-> v, planes |-> r])
             q0 == IF first THEN q ELSE Grown(q, id, bytes)
             p0 == page(q0)
             p1 == page(Grown(q, id, bytes))
             p2 == page(Grown(q, id, bytes + node.len))
             c1 == Chunk(START_PLANE, 4)
             c2 == Item("length", IF first THEN 64 ELSE 48)
             c3 == Item("other", 0)
             c4 == IF first THEN Bih(id) ELSE Item("other", 1)
             c5 == Item("end", 0)
             c6 == Chunk(JBIG, node.len)
             c7 == Data(id, node)
             c8 == Chunk(END_PLANE, 0)
  <1>1. /\ c1 \in Cells /\ c2 \in Cells /\ c3 \in Cells /\ c4 \in Cells
        /\ c5 \in Cells /\ c6 \in Cells /\ c7 \in Cells /\ c8 \in Cells
    <2>1. node.len \in Nat /\ node.from \in Nat
      BY DEF Buffer
    <2>2. c1 \in Cells /\ c6 \in Cells /\ c8 \in Cells
      BY <2>1 DEF Chunk, Cells, START_PLANE, JBIG, END_PLANE
    <2>3. c2 \in Cells /\ c3 \in Cells /\ c5 \in Cells
      BY DEF Item, Cells
    <2>4. c4 \in Cells
      BY DEF Bih, Item, Cells
    <2>5. c7 \in Cells
      BY <2>1 DEF Data, Cells
    <2> QED BY <2>2, <2>3, <2>4, <2>5
  <1>2. DecodeCell(Chunks(p0), c1) = Items(p0, 4)
    <2> HIDE DEF p0
    <2> QED BY DecodeHeader DEF START_PAGE, START_PLANE, JBIG, END_DOC
  <1>3. DecodeCell(Items(p0, 4), c2) = Items(p0, 3)
    <2> HIDE DEF p0
    <2>1. 3 + 1 = 4 /\ 3 \in Nat
      OBVIOUS
    <2> QED BY <2>1, DecodeItem
  <1>4. DecodeCell(Items(p0, 3), c3) = Items(p0, 2)
    <2> HIDE DEF p0
    <2>1. 2 + 1 = 3 /\ 2 \in Nat
      OBVIOUS
    <2> QED BY <2>1, DecodeItem
  <1>5. DecodeCell(Items(p0, 2), c4) = Items(p1, 1)
    <2>1. 1 + 1 = 2 /\ 1 \in Nat
      OBVIOUS
    <2>2. CASE first
      <3>1. DecodeCell(Items(page(q), 1 + 1), Bih(id)) =
              Items(page(Grown(q, id, 0)), 1)
        BY DecodeBih DEF Grown
      <3>2. p0 = page(q) /\ p1 = page(Grown(q, id, 0)) /\ c4 = Bih(id)
        BY <2>2
      <3> QED BY <2>1, <3>1, <3>2
    <2>3. CASE ~first
      <3>1. p0 = p1 /\ c4 = Item("other", 1)
        BY <2>3
      <3> HIDE DEF p0, p1
      <3>2. DecodeCell(Items(p1, 1 + 1), Item("other", 1)) = Items(p1, 1)
        BY <2>1, DecodeItem
      <3> QED BY <2>1, <3>1, <3>2
    <2> QED BY <2>2, <2>3
  <1>6. DecodeCell(Items(p1, 1), c5) = Chunks(p1)
    <2> HIDE DEF p1
    <2>1. 0 + 1 = 1 /\ 0 \in Nat
      OBVIOUS
    <2>2. DecodeCell(Items(p1, 0 + 1), c5) = Items(p1, 0)
      BY <2>1, DecodeItem
    <2> QED BY <2>1, <2>2 DEF Items, Chunks
  <1>7. DecodeCell(DecodeCell(Chunks(p1), c6), c7) = Chunks(p2)
    BY DecodeData DEF Grown
  <1>8. DecodeCell(Chunks(p2), c8) = Chunks(p2)
    <2> HIDE DEF p2
    <2>1. DecodeCell(Chunks(p2), c8) = Items(p2, 0)
      BY DecodeHeader DEF START_PAGE, END_PLANE, JBIG, END_DOC
    <2> QED BY <2>1 DEF Items, Chunks
  <1> DEFINE w == <<c1, c2, c3, c4, c5, c6, c7, c8>>
  <1>9. Piece(id, node, first) = w
    BY DEF Piece
  <1> HIDE DEF c1, c2, c3, c4, c5, c6, c7, c8, p0, p1, p2
  <1>12. /\ w \in Seq(Cells) /\ Len(w) = 8
         /\ w[1] = c1 /\ w[2] = c2 /\ w[3] = c3 /\ w[4] = c4
         /\ w[5] = c5 /\ w[6] = c6 /\ w[7] = c7 /\ w[8] = c8
    BY <1>1
  <1> HIDE DEF w
  <1>10. /\ w \in Seq(Cells)
         /\ Read(Chunks(p0), w) =
              DecodeCell(DecodeCell(DecodeCell(DecodeCell(
                DecodeCell(DecodeCell(DecodeCell(DecodeCell(
                  Chunks(p0), c1), c2), c3), c4), c5), c6), c7), c8)
    BY <1>12, ReadEight
  <1>11. Read(Chunks(p0), w) = Chunks(p2)
    BY <1>2, <1>3, <1>4, <1>5, <1>6, <1>7, <1>8, <1>10
  <1> QED BY <1>9, <1>10, <1>11 DEF InPage, p0, p2

\* The cells of a piece, one by one.
LEMMA PieceIs ==
  ASSUME NEW id \in Ids, NEW node \in Buffer, NEW first \in BOOLEAN
  PROVE  LET w == Piece(id, node, first)
         IN  /\ w \in Seq(Cells) /\ Len(w) = 8
             /\ w[1] = Chunk(START_PLANE, 4)
             /\ w[2] = Item("length", IF first THEN 64 ELSE 48)
             /\ w[3] = Item("other", 0)
             /\ w[4] = IF first THEN Bih(id) ELSE Item("other", 1)
             /\ w[5] = Item("end", 0)
             /\ w[6] = Chunk(JBIG, node.len)
             /\ w[7] = Data(id, node)
             /\ w[8] = Chunk(END_PLANE, 0)
  <1> DEFINE c1 == Chunk(START_PLANE, 4)
             c2 == Item("length", IF first THEN 64 ELSE 48)
             c3 == Item("other", 0)
             c4 == IF first THEN Bih(id) ELSE Item("other", 1)
             c5 == Item("end", 0)
             c6 == Chunk(JBIG, node.len)
             c7 == Data(id, node)
             c8 == Chunk(END_PLANE, 0)
  <1>1. /\ c1 \in Cells /\ c2 \in Cells /\ c3 \in Cells /\ c4 \in Cells
        /\ c5 \in Cells /\ c6 \in Cells /\ c7 \in Cells /\ c8 \in Cells
    <2>1. node.len \in Nat /\ node.from \in Nat
      BY DEF Buffer
    <2>2. c1 \in Cells /\ c6 \in Cells /\ c8 \in Cells
      BY <2>1 DEF Chunk, Cells, START_PLANE, JBIG, END_PLANE
    <2>3. c2 \in Cells /\ c3 \in Cells /\ c5 \in Cells
      BY DEF Item, Cells
    <2>4. c4 \in Cells
      BY DEF Bih, Item, Cells
    <2>5. c7 \in Cells
      BY <2>1 DEF Data, Cells
    <2> QED BY <2>2, <2>3, <2>4, <2>5
  <1> DEFINE w == <<c1, c2, c3, c4, c5, c6, c7, c8>>
  <1>2. Piece(id, node, first) = w
    BY DEF Piece
  <1> HIDE DEF c1, c2, c3, c4, c5, c6, c7, c8
  <1>3. /\ w \in Seq(Cells) /\ Len(w) = 8
        /\ w[1] = c1 /\ w[2] = c2 /\ w[3] = c3 /\ w[4] = c4
        /\ w[5] = c5 /\ w[6] = c6 /\ w[7] = c7 /\ w[8] = c8
    BY <1>1
  <1> HIDE DEF w
  <1> QED BY <1>2, <1>3 DEF c1, c2, c3, c4, c5, c6, c7, c8

\* A chain whose plane is complete.
Complete(c) ==
  /\ c \in Seq(Buffer) /\ Len(c) > 1
  /\ c[1].from = 0
  /\ \A k \in 1..(Len(c) - 1) :
       c[k].len = Room(k) /\ c[k + 1].from = c[k].from + c[k].len
  /\ Last(c).from + Last(c).len > BihSize

Pieces(id, c, m) == [k \in 1..m |-> Piece(id, c[k + 1], k = 1)]

\* All of its buffers but an empty last one become pieces.
LEMMA PlaneIs ==
  ASSUME NEW id, NEW c, Complete(c)
  PROVE  \E m \in 1..(Len(c) - 1) :
           /\ Plane(id, c) = FlattenSeq(Pieces(id, c, m))
           /\ c[m + 1].from + c[m + 1].len = Last(c).from + Last(c).len
           /\ c[m + 1].from + c[m + 1].len > BihSize
  <1> DEFINE L == Len(c)
             last == c[L]
             M == IF last.len > 0 THEN L ELSE L - 1
             S == {k \in 2..L : \A j \in 2..k : c[j].len > 0}
             m == M - 1
  <1>1. /\ c \in Seq(Buffer) /\ L \in Nat /\ L > 1 /\ last \in Buffer
        /\ c[1].from = 0
        /\ \A k \in 1..(L - 1) :
             c[k].len = Room(k) /\ c[k + 1].from = c[k].from + c[k].len
        /\ last.from + last.len > BihSize /\ Last(c) = last
        /\ BihSize \in Nat \ {0} /\ Size \in Nat \ {0}
    BY XqxStreamAssumption DEF Complete, Last
  <1>2. last.from \in Nat /\ last.len \in Nat
    BY <1>1 DEF Buffer
  <1>3. \A k \in 2..(L - 1) : c[k].len > 0
    BY <1>1 DEF Room
  <1>4. M >= 2
    <2>1. CASE last.len > 0
      BY <1>1, <2>1
    <2>2. CASE ~(last.len > 0)
      <3>1. last.from > BihSize
        BY <1>1, <1>2, <2>2
      <3>2. L = 2 => last.from = BihSize
        BY <1>1 DEF Room
      <3>3. L # 2
        BY <1>1, <3>1, <3>2
      <3> HIDE DEF L
      <3> QED BY <1>1, <2>2, <3>3
    <2> QED BY <2>1, <2>2
  <1>5. S = 2..M
    <2> HIDE DEF L, last
    <2>1. ASSUME NEW k \in S PROVE k \in 2..M
      <3>1. k \in 2..L /\ c[k].len > 0
        OBVIOUS
      <3> QED BY <1>1, <1>2, <3>1 DEF last
    <2>2. ASSUME NEW k \in 2..M PROVE k \in S
      <3>1. k \in 2..L
        BY <1>1
      <3>2. ASSUME NEW j \in 2..k PROVE c[j].len > 0
        <4>1. CASE j < L
          BY <1>1, <1>3, <4>1
        <4>2. CASE j = L
          <5>1. M = L
            BY <1>1, <4>2
          <5>2. last.len > 0
            BY <1>1, <5>1
          <5> QED BY <4>2, <5>2 DEF last
        <4> QED BY <1>1, <3>1, <4>1, <4>2
      <3> QED BY <3>1, <3>2
    <2> QED BY <2>1, <2>2
  <1>6. M \in Int /\ m \in 1..(L - 1)
    BY <1>1, <1>4
  <1>7. Cardinality(S) = m
    <2>1. Cardinality(2..M) = M - 2 + 1
      <3> HIDE DEF M
      <3>1. 2 \in Int /\ (2 > M <=> FALSE)
        BY <1>4, <1>6
      <3>2. Cardinality(2..M) = IF 2 > M THEN 0 ELSE M - 2 + 1
        BY <1>6, <3>1, FS_Interval
      <3> QED BY <3>1, <3>2
    <2> HIDE DEF M, S
    <2> QED BY <1>5, <1>6, <2>1
  <1>8. Plane(id, c) = FlattenSeq(Pieces(id, c, m))
    <2> HIDE DEF m
    <2> QED BY <1>7 DEF Plane, Pieces
  <1>9. c[m + 1].from + c[m + 1].len = last.from + last.len
    <2>1. m + 1 = M
      BY <1>6
    <2>2. CASE last.len > 0
      BY <2>1, <2>2
    <2>3. CASE ~(last.len > 0)
      <3>1. /\ last.len = 0 /\ m + 1 = L - 1
            /\ L - 1 \in 1..(L - 1) /\ (L - 1) + 1 = L
        BY <1>1, <1>2, <2>1, <2>3
      <3>2. last.from = c[L - 1].from + c[L - 1].len
        BY <1>1, <3>1
      <3>3. c[L - 1] \in Buffer
        BY <1>1, <3>1
      <3> HIDE DEF m, M, L, last
      <3> QED BY <1>2, <3>1, <3>2, <3>3 DEF Buffer
    <2> QED BY <2>2, <2>3
  <1> HIDE DEF m, last, L
  <1>10. c[m + 1].from + c[m + 1].len > BihSize
    BY <1>1, <1>9
  <1> QED BY <1>1, <1>6, <1>8, <1>9, <1>10 DEF L

\* They are a file.
LEMMA PiecesAreCells ==
  ASSUME NEW id \in Ids, NEW c, Complete(c), NEW m \in 1..(Len(c) - 1)
  PROVE  /\ Pieces(id, c, m) \in Seq(Seq(Cells))
         /\ Len(Pieces(id, c, m)) = m
         /\ \A k \in 1..m :
              Pieces(id, c, m)[k] = Piece(id, c[k + 1], k = 1)
         /\ \A k \in 1..m : c[k + 1] \in Buffer
  <1>1. \A k \in 1..m : c[k + 1] \in Buffer
    BY DEF Complete
  <1>2. ASSUME NEW k \in 1..m PROVE Piece(id, c[k + 1], k = 1) \in Seq(Cells)
    <2>1. c[k + 1] \in Buffer /\ (k = 1) \in BOOLEAN
      BY <1>1
    <2> QED BY <2>1, PieceIs
  <1>3. m \in Nat
    OBVIOUS
  <1>4. Pieces(id, c, m) \in Seq(Seq(Cells))
    BY <1>2, <1>3, IsASeq DEF Pieces
  <1> QED BY <1>1, <1>3, <1>4 DEF Pieces

\* The decoder puts the plane together again, whole.
LEMMA ReadPlane ==
  ASSUME NEW ps \in PagesRead, NEW v \in Nat, NEW q \in PlanesRead,
         NEW id \in Ids, NEW c, Complete(c)
  PROVE  /\ Plane(id, c) \in Seq(Cells)
         /\ Bytes(c) \in Nat
         /\ Read(InPage(ps, v, q), Plane(id, c)) =
              InPage(ps, v, Grown(q, id, Bytes(c)))
  <1>1. PICK m \in 1..(Len(c) - 1) :
           /\ Plane(id, c) = FlattenSeq(Pieces(id, c, m))
           /\ c[m + 1].from + c[m + 1].len = Last(c).from + Last(c).len
           /\ c[m + 1].from + c[m + 1].len > BihSize
    BY PlaneIs
  <1> DEFINE s == Pieces(id, c, m)
             F(n) == FlattenSeq(Prefix(s, n))
             d == InPage(ps, v, q)
             read(n) == c[n + 1].from + c[n + 1].len - BihSize
             S == {n \in Nat :
                     /\ n # 0 => c[n + 1].from >= BihSize
                     /\ Read(d, F(n)) =
                          IF n = 0 THEN d
                          ELSE InPage(ps, v, Grown(q, id, read(n)))}
  <1>2. /\ s \in Seq(Seq(Cells)) /\ Len(s) = m /\ m \in Nat
        /\ \A k \in 1..m : s[k] = Piece(id, c[k + 1], k = 1)
        /\ \A k \in 1..m : c[k + 1] \in Buffer
    <2>1. m \in Nat
      OBVIOUS
    <2> HIDE DEF s
    <2>2. /\ Pieces(id, c, m) \in Seq(Seq(Cells))
          /\ Len(Pieces(id, c, m)) = m
          /\ \A k \in 1..m : Pieces(id, c, m)[k] = Piece(id, c[k + 1], k = 1)
          /\ \A k \in 1..m : c[k + 1] \in Buffer
      BY PiecesAreCells
    <2> QED BY <2>1, <2>2 DEF s
  <1> HIDE DEF s
  <1>3. /\ F(0) = <<>> /\ F(m) = FlattenSeq(s)
        /\ \A n \in 0..m : F(n) \in Seq(Cells)
        /\ \A n \in 0..(m - 1) : F(n + 1) = F(n) \o s[n + 1]
    <2>1. /\ FlattenSeq(Prefix(s, 0)) = <<>>
          /\ Prefix(s, Len(s)) = s
          /\ \A n \in 0..Len(s) : FlattenSeq(Prefix(s, n)) \in Seq(Cells)
          /\ \A n \in 0..(Len(s) - 1) :
               FlattenSeq(Prefix(s, n + 1)) =
                 FlattenSeq(Prefix(s, n)) \o s[n + 1]
      BY <1>2, FlattenStep
    <2> QED BY <1>2, <2>1
  <1> HIDE DEF F, d
  <1>4. 0 \in S
    BY <1>3, ReadNothing
  <1>5. ASSUME NEW n \in 0..(m - 1), n \in S PROVE n + 1 \in S
    <2> DEFINE node == c[n + 2]
               first == (n + 1 = 1)
               bytes == node.from - BihSize
    <2>1. /\ n \in 0..m /\ n + 1 \in 1..m /\ (n + 1) + 1 = n + 2
          /\ n + 1 \in 1..(Len(c) - 1) /\ n + 1 # 0 /\ n + 1 \in Nat
      BY <1>2
    <2>2. node \in Buffer /\ s[n + 1] = Piece(id, node, first)
      BY <1>2, <2>1
    <2>3. /\ node.from = c[n + 1].from + c[n + 1].len
          /\ c[n + 1].len = Room(n + 1) /\ c[1].from = 0
      BY <2>1 DEF Complete
    <2>4. /\ node.from \in Nat /\ node.len \in Nat
          /\ BihSize \in Nat /\ Size \in Nat
      BY <2>2, XqxStreamAssumption DEF Buffer
    <2>5. node.from >= BihSize /\ (first => node.from = BihSize)
      <3>1. CASE n = 0
        BY <2>3, <2>4, <3>1 DEF Room
      <3>2. CASE n # 0
        <4>1. c[n + 1].from >= BihSize /\ c[n + 1] \in Buffer
          <5>1. n \in 1..m
            BY <3>2
          <5> QED BY <1>2, <1>5, <3>2, <5>1
        <4>2. c[n + 1].from \in Nat /\ c[n + 1].len \in Nat
          BY <4>1 DEF Buffer
        <4>3. ~first
          BY <3>2
        <4> HIDE DEF node, first
        <4> QED BY <2>3, <2>4, <4>1, <4>2, <4>3
      <3> QED BY <3>1, <3>2
    <2>6. /\ bytes \in Nat /\ node.from = BihSize + bytes
          /\ first \in BOOLEAN /\ (first => bytes = 0)
      <3> HIDE DEF node
      <3> QED BY <2>4, <2>5
    <2>7. Read(d, F(n)) =
            InPage(ps, v, IF first THEN q ELSE Grown(q, id, bytes))
      <3>1. CASE n = 0
        <4>1. first /\ Read(d, F(n)) = d
          BY <1>5, <3>1
        <4> QED BY <4>1 DEF d
      <3>2. CASE n # 0
        <4>1. ~first /\ read(n) = bytes
          <5>1. ~first
            BY <3>2
          <5>2. c[n + 1].from + c[n + 1].len - BihSize = node.from - BihSize
            <6>1. n \in 1..m
              BY <3>2
            <6>2. c[n + 1] \in Buffer
              BY <1>2, <6>1
            <6>3. c[n + 1].from \in Nat /\ c[n + 1].len \in Nat
              BY <6>2 DEF Buffer
            <6> HIDE DEF node
            <6> QED BY <2>3, <2>4, <6>3
          <5> QED BY <5>1, <5>2
        <4>2. Read(d, F(n)) = InPage(ps, v, Grown(q, id, read(n)))
          BY <1>5, <3>2
        <4> HIDE DEF bytes, read, first
        <4> QED BY <4>1, <4>2
      <3> QED BY <3>1, <3>2
    <2>8. bytes + node.len = read(n + 1)
      <3>1. read(n + 1) = node.from + node.len - BihSize
        BY <2>1
      <3> HIDE DEF node, read
      <3> QED BY <2>4, <3>1
    <2> HIDE DEF node, first, bytes, read
    <2>9. /\ s[n + 1] \in Seq(Cells)
          /\ Read(InPage(ps, v, IF first THEN q ELSE Grown(q, id, bytes)),
                  s[n + 1])
             = InPage(ps, v, Grown(q, id, bytes + node.len))
      BY <2>2, <2>6, ReadPiece
    <2>10. Read(d, F(n + 1)) = Read(Read(d, F(n)), s[n + 1])
      <3> DEFINE x == F(n)
                 y == s[n + 1]
      <3>1. /\ x \in Seq(Cells) /\ y \in Seq(Cells)
            /\ F(n + 1) = x \o y
        BY <1>3, <2>1, <2>9
      <3> HIDE DEF x, y
      <3>2. Read(d, x \o y) = Read(Read(d, x), y)
        BY <3>1, ReadConcat
      <3> QED BY <3>1, <3>2 DEF x, y
    <2>11. Read(d, F(n + 1)) = InPage(ps, v, Grown(q, id, read(n + 1)))
      BY <2>7, <2>8, <2>9, <2>10
    <2> QED BY <2>1, <2>5, <2>11 DEF node
  <1> HIDE DEF S
  <1>6. m \in 0..m /\ m # 0
    BY <1>2
  <1>7. m \in S
    BY <1>2, <1>4, <1>5, <1>6, UpTo
  <1>8. read(m) = Bytes(c)
    <2>1. c[m + 1] \in Buffer /\ BihSize \in Nat
      BY <1>2, <1>6, XqxStreamAssumption
    <2>2. Last(c) \in Buffer
      BY DEF Complete, Last
    <2>3. /\ c[m + 1].from \in Nat /\ c[m + 1].len \in Nat
          /\ Last(c).from \in Nat /\ Last(c).len \in Nat
      BY <2>1, <2>2 DEF Buffer
    <2> DEFINE w == c[m + 1].from
               x == c[m + 1].len
               y == Last(c).from
               z == Last(c).len
    <2>4. /\ w \in Nat /\ x \in Nat /\ y \in Nat /\ z \in Nat
          /\ w + x = y + z
      BY <1>1, <2>3
    <2> HIDE DEF w, x, y, z
    <2>5. w + x - BihSize = y + z - BihSize
      BY <2>1, <2>4
    <2> QED BY <2>5 DEF Bytes, w, x, y, z
  <1>9. Bytes(c) \in Nat
    <2>1. c[m + 1] \in Buffer
      BY <1>2, <1>6
    <2>2. BihSize \in Nat
      BY XqxStreamAssumption
    <2> QED BY <1>1, <1>8, <2>1, <2>2 DEF Buffer
  <1>10. Read(d, F(m)) = InPage(ps, v, Grown(q, id, read(m)))
    BY <1>6, <1>7 DEF S
  <1>11. Plane(id, c) = F(m) /\ F(m) \in Seq(Cells)
    BY <1>1, <1>3, <1>6 DEF s
  <1> HIDE DEF read
  <1> QED BY <1>8, <1>9, <1>10, <1>11 DEF d

-----------------------------------------------------------------------------
(* Frames                                                                  *)

\* Every chunk in s[b+1..e] but one of data has its items there, the first of
\* them with the length of all; only the third can be the plane's header.
Framed(s, b, e) ==
  \A k \in (b + 1)..e :
    s[k].is = "chunk" /\ s[k].type # JBIG /\ s[k].n > 0 =>
      /\ k + s[k].n <= e
      /\ s[k + 1].is = "item" /\ s[k + 1].name = "length"
      /\ \A j \in (k + 1)..(k + s[k].n) : s[j].is = "bih" => j = k + 3
      /\ s[k + 1].n = 12 * s[k].n
           + IF s[k].n >= 3 /\ s[k + 3].is = "bih" THEN 16 ELSE 0

\* What there is in a cell.
LEMMA CellIs ==
  ASSUME NEW c \in Cells
  PROVE  /\ c.is = "chunk" => c.n \in Nat /\ c.type \in Nat
         /\ c.is = "item" => c.n \in Nat
         /\ c.is \in {"text", "magic", "chunk", "item", "bih", "data"}
  BY DEF Cells

\* The same cells in another place are framed as well.
LEMMA FramedMoved ==
  ASSUME NEW s, NEW w, NEW b \in Nat, NEW c \in Nat, NEW n \in Nat,
         \A i \in 1..n : w[c + i] = s[b + i] /\ s[b + i] \in Cells,
         Framed(s, b, b + n)
  PROVE  Framed(w, c, c + n)
  <1> SUFFICES ASSUME NEW k \in (c + 1)..(c + n),
                      w[k].is = "chunk", w[k].type # JBIG, w[k].n > 0
               PROVE  /\ k + w[k].n <= c + n
                      /\ w[k + 1].is = "item" /\ w[k + 1].name = "length"
                      /\ \A j \in (k + 1)..(k + w[k].n) :
                           w[j].is = "bih" => j = k + 3
                      /\ w[k + 1].n = 12 * w[k].n
                           + IF w[k].n >= 3 /\ w[k + 3].is = "bih"
                               THEN 16 ELSE 0
    BY DEF Framed
  <1> DEFINE i == k - c
             h == b + i
             m == w[k].n
  <1>1. /\ i \in 1..n /\ k = c + i /\ h \in (b + 1)..(b + n)
        /\ w[k] = s[h] /\ s[h] \in Cells /\ h \in Nat
    <2>1. i \in 1..n /\ k = c + i
      OBVIOUS
    <2> HIDE DEF i
    <2>2. w[c + i] = s[b + i] /\ s[b + i] \in Cells
      BY <2>1
    <2> QED BY <2>1, <2>2
  <1>2. m \in Nat /\ m = s[h].n
    BY <1>1, CellIs
  <1>3. /\ h + m <= b + n
        /\ s[h + 1].is = "item" /\ s[h + 1].name = "length"
        /\ \A j \in (h + 1)..(h + m) : s[j].is = "bih" => j = h + 3
        /\ s[h + 1].n = 12 * m
             + IF m >= 3 /\ s[h + 3].is = "bih" THEN 16 ELSE 0
    BY <1>1, <1>2 DEF Framed
  <1>4. \A x \in 1..m : w[k + x] = s[h + x]
    <2> SUFFICES ASSUME NEW x \in 1..m PROVE w[k + x] = s[h + x]
      OBVIOUS
    <2> HIDE DEF i, m
    <2>1. i + x \in 1..n /\ k + x = c + (i + x) /\ h + x = b + (i + x)
      BY <1>1, <1>2, <1>3
    <2> HIDE DEF h
    <2> QED BY <2>1
  <1>5. m > 0
    OBVIOUS
  <1> HIDE DEF i, h, m
  <1>6. w[k + 1] = s[h + 1] /\ (m >= 3 => w[k + 3] = s[h + 3])
    BY <1>2, <1>4, <1>5
  <1>7. \A j \in (k + 1)..(k + m) : w[j].is = "bih" => j = k + 3
    <2> SUFFICES ASSUME NEW j \in (k + 1)..(k + m), w[j].is = "bih"
                 PROVE  j = k + 3
      OBVIOUS
    <2> DEFINE x == j - k
    <2>1. x \in 1..m /\ j = k + x
      BY <1>1, <1>2
    <2> HIDE DEF x
    <2>2. w[j] = s[h + x] /\ h + x \in (h + 1)..(h + m)
      BY <1>1, <1>2, <1>4, <2>1
    <2>3. h + x = h + 3
      BY <1>3, <2>2
    <2> QED BY <1>1, <2>1, <2>3
  <1>8. k + m <= c + n
    BY <1>1, <1>2, <1>3 DEF h
  <1> QED BY <1>3, <1>6, <1>7, <1>8 DEF m

\* Frames can be joined.
LEMMA FramedGlued ==
  ASSUME NEW s, NEW a \in Nat, NEW b \in Nat, NEW c \in Nat,
         Framed(s, a, b), Framed(s, b, c), a <= b, b <= c,
         \A k \in (a + 1)..b : s[k] \in Cells
  PROVE  Framed(s, a, c)
  <1> SUFFICES ASSUME NEW k \in (a + 1)..c,
                      s[k].is = "chunk", s[k].type # JBIG, s[k].n > 0
               PROVE  /\ k + s[k].n <= c
                      /\ s[k + 1].is = "item" /\ s[k + 1].name = "length"
                      /\ \A j \in (k + 1)..(k + s[k].n) :
                           s[j].is = "bih" => j = k + 3
                      /\ s[k + 1].n = 12 * s[k].n
                           + IF s[k].n >= 3 /\ s[k + 3].is = "bih"
                               THEN 16 ELSE 0
    BY DEF Framed
  <1>1. CASE k <= b
    <2>1. k \in (a + 1)..b
      BY <1>1
    <2>2. s[k].n \in Nat
      BY <2>1, CellIs
    <2>3. k + s[k].n <= b
      BY <2>1 DEF Framed
    <2>4. k + s[k].n <= c
      BY <2>2, <2>3
    <2> QED BY <2>1, <2>4 DEF Framed
  <1>2. CASE k > b
    <2>1. k \in (b + 1)..c
      BY <1>2
    <2> QED BY <2>1 DEF Framed
  <1> QED BY <1>1, <1>2

\* A framed file with something after it, and two framed files in one.
LEMMA FramedJoined ==
  ASSUME NEW s \in Seq(Cells), NEW t \in Seq(Cells)
  PROVE  /\ \A b, e \in Nat : b <= e /\ e <= Len(s) /\ Framed(s, b, e) =>
              Framed(s \o t, b, e)
         /\ Framed(t, 0, Len(t)) => Framed(s \o t, Len(s), Len(s) + Len(t))
         /\ Framed(s, 0, Len(s)) /\ Framed(t, 0, Len(t)) =>
              Framed(s \o t, 0, Len(s) + Len(t))
  <1> DEFINE w == s \o t
             m == Len(s)
             n == Len(t)
  <1>1. /\ w \in Seq(Cells) /\ m \in Nat /\ n \in Nat
        /\ \A k \in 1..m : w[k] = s[k] /\ s[k] \in Cells
        /\ \A k \in 1..n : w[m + k] = t[k] /\ t[k] \in Cells
    OBVIOUS
  <1> HIDE DEF w, m, n
  <1>2. ASSUME NEW b \in Nat, NEW e \in Nat, b <= e, e <= m, Framed(s, b, e)
        PROVE  Framed(w, b, e)
    <2> DEFINE x == e - b
    <2>1. x \in Nat /\ b + x = e
      BY <1>2
    <2> HIDE DEF x
    <2>2. \A i \in 1..x : w[b + i] = s[b + i] /\ s[b + i] \in Cells
      <3> SUFFICES ASSUME NEW i \in 1..x
                   PROVE  w[b + i] = s[b + i] /\ s[b + i] \in Cells
        OBVIOUS
      <3>1. b + i \in 1..m
        BY <1>1, <1>2, <2>1
      <3> QED BY <1>1, <3>1
    <2>3. Framed(s, b, b + x)
      BY <1>2, <2>1
    <2>4. Framed(w, b, b + x)
      BY <2>1, <2>2, <2>3, FramedMoved
    <2> QED BY <2>1, <2>4
  <1>3. ASSUME Framed(t, 0, n)
        PROVE  Framed(w, m, m + n)
    <2>1. \A i \in 1..n : w[m + i] = t[0 + i] /\ t[0 + i] \in Cells
      BY <1>1
    <2>2. Framed(t, 0, 0 + n) /\ 0 \in Nat
      BY <1>1, <1>3
    <2> QED BY <1>1, <2>1, <2>2, FramedMoved
  <1>4. ASSUME Framed(s, 0, m), Framed(t, 0, n)
        PROVE  Framed(w, 0, m + n)
    <2>1. /\ 0 \in Nat /\ m \in Nat /\ m + n \in Nat /\ 0 <= m /\ m <= m + n
          /\ m <= m
      BY <1>1
    <2>2. Framed(w, 0, m)
      BY <1>2, <1>4, <2>1
    <2>3. Framed(w, m, m + n)
      BY <1>3, <1>4
    <2>4. \A k \in (0 + 1)..m : w[k] \in Cells
      BY <1>1
    <2> QED BY <2>1, <2>2, <2>3, <2>4, FramedGlued
  <1> QED BY <1>2, <1>3, <1>4 DEF w, m, n

\* What Framed is for.
LEMMA FramedAgrees ==
  ASSUME NEW s \in Seq(Cells), Framed(s, 0, Len(s)), NEW k \in 1..Len(s),
         s[k].is = "chunk", s[k].type # JBIG, s[k].n > 0
  PROVE  LET items == (k + 1)..(k + s[k].n)
             bihs == {j \in items : s[j].is = "bih"}
         IN  s[k + 1].n = 12 * Cardinality(items) + 16 * Cardinality(bihs)
  <1> DEFINE n == s[k].n
             items == (k + 1)..(k + n)
             bihs == {j \in items : s[j].is = "bih"}
             more == IF n >= 3 /\ s[k + 3].is = "bih" THEN 16 ELSE 0
  <1>1. s[k] \in Cells /\ k \in Nat
    OBVIOUS
  <1>2. n \in Nat /\ n > 0
    BY <1>1, CellIs
  <1>3. /\ \A j \in items : s[j].is = "bih" => j = k + 3
        /\ s[k + 1].n = 12 * n + more
    <2>1. k \in (0 + 1)..Len(s)
      OBVIOUS
    <2> QED BY <2>1 DEF Framed
  <1> HIDE DEF n
  <1>4. Cardinality(items) = n
    <2>1. k + 1 \in Int /\ k + n \in Int
      BY <1>1, <1>2
    <2>2. Cardinality(items) =
            IF k + 1 > k + n THEN 0 ELSE (k + n) - (k + 1) + 1
      BY <2>1, FS_Interval
    <2> HIDE DEF items
    <2> QED BY <1>1, <1>2, <2>2
  <1>5. 16 * Cardinality(bihs) = more
    <2>1. CASE n >= 3 /\ s[k + 3].is = "bih"
      <3>1. bihs = {k + 3}
        <4>1. k + 3 \in items
          BY <1>1, <1>2, <2>1
        <4> QED BY <1>3, <2>1, <4>1
      <3> HIDE DEF bihs
      <3>2. Cardinality(bihs) = 1
        BY <3>1, FS_Singleton
      <3> QED BY <2>1, <3>2
    <2>2. CASE ~(n >= 3 /\ s[k + 3].is = "bih")
      <3>1. bihs = {}
        <4> SUFFICES ASSUME NEW j \in items, s[j].is = "bih" PROVE FALSE
          OBVIOUS
        <4>1. j = k + 3
          BY <1>3
        <4>2. n >= 3
          BY <1>1, <1>2, <4>1
        <4> QED BY <2>2, <4>1, <4>2
      <3> HIDE DEF bihs
      <3>2. Cardinality(bihs) = 0
        BY <3>1, FS_EmptySet
      <3> QED BY <2>2, <3>2
    <2> QED BY <2>1, <2>2
  <1> HIDE DEF items, bihs, more
  <1>6. s[k + 1].n = 12 * Cardinality(items) + 16 * Cardinality(bihs)
    BY <1>3, <1>4, <1>5
  <1> QED BY <1>6 DEF items, bihs, n

\* Framed pieces make a framed file.
LEMMA FramedFlat ==
  ASSUME NEW s \in Seq(Seq(Cells)),
         \A k \in 1..Len(s) : Framed(s[k], 0, Len(s[k]))
  PROVE  /\ FlattenSeq(s) \in Seq(Cells)
         /\ Framed(FlattenSeq(s), 0, Len(FlattenSeq(s)))
  <1> DEFINE C == {u \in Seq(Cells) : Framed(u, 0, Len(u))}
  <1>1. <<>> \in C
    BY DEF Framed
  <1>2. \A k \in 1..Len(s) : s[k] \in C
    OBVIOUS
  <1>3. \A u \in Seq(Cells) \cap C, v \in Seq(Cells) \cap C : u \o v \in C
    <2> SUFFICES ASSUME NEW u \in Seq(Cells), NEW v \in Seq(Cells),
                        Framed(u, 0, Len(u)), Framed(v, 0, Len(v))
                 PROVE  u \o v \in Seq(Cells) /\ Framed(u \o v, 0, Len(u \o v))
      OBVIOUS
    <2>1. u \o v \in Seq(Cells) /\ Len(u \o v) = Len(u) + Len(v)
      BY Joined
    <2>2. Framed(u \o v, 0, Len(u) + Len(v))
      BY FramedJoined
    <2> QED BY <2>1, <2>2
  <1> HIDE DEF C
  <1>4. FlattenSeq(s) \in C
    BY <1>1, <1>2, <1>3, FlattenKeeps
  <1> QED BY <1>4 DEF C

\* What write_plane and start_page write is framed, with the literals they use.
LEMMA PieceFramed ==
  ASSUME NEW id \in Ids, NEW node \in Buffer, NEW first \in BOOLEAN
  PROVE  Framed(Piece(id, node, first), 0, Len(Piece(id, node, first)))
  <1> DEFINE w == Piece(id, node, first)
  <1>1. /\ Len(w) = 8
        /\ w[1] = Chunk(START_PLANE, 4)
        /\ w[2] = Item("length", IF first THEN 64 ELSE 48)
        /\ w[3] = Item("other", 0)
        /\ w[4] = IF first THEN Bih(id) ELSE Item("other", 1)
        /\ w[5] = Item("end", 0)
        /\ w[6] = Chunk(JBIG, node.len)
        /\ w[7] = Data(id, node)
        /\ w[8] = Chunk(END_PLANE, 0)
    BY PieceIs
  <1> HIDE DEF w
  <1>2. /\ w[1].n = 4 /\ w[2].is = "item" /\ w[2].name = "length"
        /\ w[2].n = IF first THEN 64 ELSE 48
        /\ w[3].is = "item" /\ w[4].is = (IF first THEN "bih" ELSE "item")
        /\ w[5].is = "item" /\ w[6].type = JBIG /\ w[7].is = "data"
        /\ w[8].n = 0
    BY <1>1 DEF Chunk, Item, Bih, Data
  <1> SUFFICES ASSUME NEW k \in 1..8,
                      w[k].is = "chunk", w[k].type # JBIG, w[k].n > 0
               PROVE  /\ k + w[k].n <= 8
                      /\ w[k + 1].is = "item" /\ w[k + 1].name = "length"
                      /\ \A j \in (k + 1)..(k + w[k].n) :
                           w[j].is = "bih" => j = k + 3
                      /\ w[k + 1].n = 12 * w[k].n
                           + IF w[k].n >= 3 /\ w[k + 3].is = "bih"
                               THEN 16 ELSE 0
    BY <1>1 DEF Framed, w
  <1>3. k = 1
    BY <1>2
  <1>4. \A j \in 2..5 : w[j].is = "bih" => j = 4
    BY <1>2
  <1> QED BY <1>2, <1>3, <1>4

LEMMA StartPageFramed ==
  ASSUME NEW v \in Nat, Duplex \in BOOLEAN
  PROVE  Framed(StartPage(v), 0, Len(StartPage(v)))
  <1> DEFINE s == StartPage(v)
             n == IF Duplex THEN 16 ELSE 15
  <1>1. /\ Len(s) = n + 1
        /\ s[1] = Chunk(START_PAGE, n)
        /\ s[2] = Item("length", 12 * n)
        /\ \A k \in 3..(n + 1) :
             s[k] = IF k = PausePlace /\ Duplex THEN Item("pause", v)
                    ELSE IF k = n + 1 THEN Item("end", 0)
                    ELSE Item("other", 0)
    BY StartPageIs
  <1>2. n \in {15, 16}
    OBVIOUS
  <1> HIDE DEF s, n
  <1>3. /\ s[1].n = n /\ s[2].is = "item" /\ s[2].name = "length"
        /\ s[2].n = 12 * n
        /\ \A k \in 3..(n + 1) : s[k].is = "item"
    BY <1>1 DEF Chunk, Item
  <1> SUFFICES ASSUME NEW k \in 1..(n + 1),
                      s[k].is = "chunk", s[k].type # JBIG, s[k].n > 0
               PROVE  /\ k + s[k].n <= n + 1
                      /\ s[k + 1].is = "item" /\ s[k + 1].name = "length"
                      /\ \A j \in (k + 1)..(k + s[k].n) :
                           s[j].is = "bih" => j = k + 3
                      /\ s[k + 1].n = 12 * s[k].n
                           + IF s[k].n >= 3 /\ s[k + 3].is = "bih"
                               THEN 16 ELSE 0
    BY <1>1 DEF Framed, s
  <1>4. k = 1
    BY <1>2, <1>3
  <1>5. \A j \in 2..(n + 1) : s[j].is = "item"
    BY <1>2, <1>3
  <1>6. s[4].is = "item"
    BY <1>2, <1>5
  <1> QED BY <1>2, <1>3, <1>4, <1>5, <1>6

LEMMA PlaneFramed ==
  ASSUME NEW id \in Ids, NEW c, Complete(c)
  PROVE  /\ Plane(id, c) \in Seq(Cells)
         /\ Framed(Plane(id, c), 0, Len(Plane(id, c)))
  <1>1. PICK m \in 1..(Len(c) - 1) :
          Plane(id, c) = FlattenSeq(Pieces(id, c, m))
    BY PlaneIs
  <1> DEFINE s == Pieces(id, c, m)
  <1> HIDE DEF s
  <1>2. /\ s \in Seq(Seq(Cells)) /\ Len(s) = m
        /\ \A k \in 1..m : s[k] = Piece(id, c[k + 1], k = 1)
        /\ \A k \in 1..m : c[k + 1] \in Buffer
    <2>1. /\ Pieces(id, c, m) \in Seq(Seq(Cells))
          /\ Len(Pieces(id, c, m)) = m
          /\ \A k \in 1..m : Pieces(id, c, m)[k] = Piece(id, c[k + 1], k = 1)
          /\ \A k \in 1..m : c[k + 1] \in Buffer
      BY PiecesAreCells
    <2> QED BY <2>1 DEF s
  <1>3. ASSUME NEW k \in 1..Len(s) PROVE Framed(s[k], 0, Len(s[k]))
    <2>1. c[k + 1] \in Buffer /\ (k = 1) \in BOOLEAN
      BY <1>2
    <2> DEFINE w == Piece(id, c[k + 1], k = 1)
    <2>2. Framed(w, 0, Len(w))
      BY <2>1, PieceFramed
    <2>3. s[k] = w
      BY <1>2
    <2> QED BY <2>2, <2>3
  <1> QED BY <1>1, <1>2, <1>3, FramedFlat DEF s

-----------------------------------------------------------------------------
(* Pages                                                                   *)

\* What write_page puts between the start of a page and its end, and what it
\* was given.
PlaneId(k) == <<Len(doc) + 1, k>>
Body(order) ==
  FlattenSeq([k \in 1..Len(order) |->
                Plane(PlaneId(order[k]), chains[order[k]])])
Given(order) ==
  [k \in 1..Len(order) |->
     [id |-> PlaneId(order[k]), bytes |-> Bytes(chains[order[k]])]]

\* The decoder reads t, after the start of a page, as its planes p.
ReadsAs(t, p) ==
  /\ t \in Seq(Cells)
  /\ p \in PlanesRead
  /\ \A ps \in PagesRead, v \in Nat :
       Read(InPage(ps, v, <<>>), t) = InPage(ps, v, p)

\* All planes of a page are read in the order they are written in.
LEMMA ReadBody ==
  ASSUME Len(doc) \in Nat, NEW order \in Seq(1..4),
         \A k \in 1..Len(order) : Complete(chains[order[k]])
  PROVE  /\ ReadsAs(Body(order), Given(order))
         /\ Framed(Body(order), 0, Len(Body(order)))
  <1> DEFINE m == Len(order)
             id(k) == PlaneId(order[k])
             c(k) == chains[order[k]]
             s == [k \in 1..m |-> Plane(id(k), c(k))]
             p == [k \in 1..m |-> [id |-> id(k), bytes |-> Bytes(c(k))]]
             F(n) == FlattenSeq(Prefix(s, n))
             P(n) == Prefix(p, n)
  <1>1. m \in Nat /\ \A k \in 1..m : id(k) \in Ids /\ Complete(c(k))
    <2> SUFFICES ASSUME NEW k \in 1..m PROVE id(k) \in Ids
      OBVIOUS
    <2>1. order[k] \in 1..4 /\ Len(doc) + 1 \in Nat
      OBVIOUS
    <2> QED BY <2>1 DEF PlaneId, Ids
  <1> HIDE DEF id, c, m
  <1>2. /\ \A k \in 1..m : Plane(id(k), c(k)) \in Seq(Cells)
        /\ \A k \in 1..m : [id |-> id(k), bytes |-> Bytes(c(k))] \in PlaneRead
        /\ \A k \in 1..m :
             Framed(Plane(id(k), c(k)), 0, Len(Plane(id(k), c(k))))
    <2> SUFFICES ASSUME NEW k \in 1..m
                 PROVE  /\ Plane(id(k), c(k)) \in Seq(Cells)
                        /\ Bytes(c(k)) \in Nat /\ id(k) \in Ids
                        /\ Framed(Plane(id(k), c(k)), 0,
                                  Len(Plane(id(k), c(k))))
      BY DEF PlaneRead
    <2> DEFINE i == id(k)
               d == c(k)
    <2>1. i \in Ids /\ Complete(d)
      BY <1>1
    <2> HIDE DEF i, d
    <2>2. <<>> \in PagesRead /\ 0 \in Nat /\ <<>> \in PlanesRead
      BY DEF PagesRead, PlanesRead
    <2>3. Plane(i, d) \in Seq(Cells) /\ Bytes(d) \in Nat
      BY <2>1, <2>2, ReadPlane
    <2>4. Framed(Plane(i, d), 0, Len(Plane(i, d)))
      BY <2>1, PlaneFramed
    <2> QED BY <2>1, <2>3, <2>4 DEF i, d
  <1>3. /\ s \in Seq(Seq(Cells)) /\ Len(s) = m
        /\ \A k \in 1..m : s[k] = Plane(id(k), c(k))
    BY <1>1, <1>2, IsASeq, LenProperties
  <1>4. /\ p \in Seq(PlaneRead) /\ Len(p) = m
        /\ \A k \in 1..m : p[k] = [id |-> id(k), bytes |-> Bytes(c(k))]
    BY <1>1, <1>2, IsASeq, LenProperties
  <1>5. Body(order) = FlattenSeq(s) /\ Given(order) = p
    BY DEF Body, Given, id, c, m
  <1> HIDE DEF s, p
  <1>6. /\ FlattenSeq(s) \in Seq(Cells)
        /\ Framed(FlattenSeq(s), 0, Len(FlattenSeq(s)))
    <2>1. \A k \in 1..Len(s) : Framed(s[k], 0, Len(s[k]))
      BY <1>2, <1>3
    <2> QED BY <1>3, <2>1, FramedFlat
  <1>7. /\ F(0) = <<>> /\ F(m) = FlattenSeq(s)
        /\ \A n \in 0..m : F(n) \in Seq(Cells)
        /\ \A n \in 0..(m - 1) : F(n + 1) = F(n) \o s[n + 1]
    <2>1. /\ FlattenSeq(Prefix(s, 0)) = <<>>
          /\ Prefix(s, Len(s)) = s
          /\ \A n \in 0..Len(s) : FlattenSeq(Prefix(s, n)) \in Seq(Cells)
          /\ \A n \in 0..(Len(s) - 1) :
               FlattenSeq(Prefix(s, n + 1)) =
                 FlattenSeq(Prefix(s, n)) \o s[n + 1]
      BY <1>3, FlattenStep
    <2> QED BY <1>3, <2>1
  <1>8. /\ P(0) = <<>> /\ P(m) = p
        /\ \A n \in 0..m : P(n) \in PlanesRead
        /\ \A n \in 0..(m - 1) : P(n + 1) = Append(P(n), p[n + 1])
    <2>1. /\ Prefix(p, 0) = <<>>
          /\ Prefix(p, Len(p)) = p
          /\ \A n \in 0..Len(p) :
               Prefix(p, n) \in Seq(PlaneRead) /\ Len(Prefix(p, n)) = n
          /\ \A n \in 0..(Len(p) - 1) :
               Prefix(p, n + 1) = Append(Prefix(p, n), p[n + 1])
      BY <1>4, PrefixGrows
    <2> QED BY <1>4, <2>1 DEF PlanesRead
  <1> HIDE DEF F, P
  <1>9. ASSUME NEW ps \in PagesRead, NEW v \in Nat
        PROVE  Read(InPage(ps, v, <<>>), FlattenSeq(s)) = InPage(ps, v, p)
    <2> DEFINE d == InPage(ps, v, <<>>)
               S == {n \in Nat : Read(d, F(n)) = InPage(ps, v, P(n))}
    <2>1. 0 \in S
      BY <1>7, <1>8, ReadNothing
    <2> HIDE DEF d
    <2>2. ASSUME NEW n \in 0..(m - 1), n \in S PROVE n + 1 \in S
      <3> DEFINE i == id(n + 1)
                 b == c(n + 1)
                 x == F(n)
                 y == s[n + 1]
                 q == P(n)
      <3>1. /\ n \in 0..m /\ n + 1 \in 1..m /\ n + 1 \in Nat
        BY <1>1
      <3>2. /\ i \in Ids /\ Complete(b) /\ y = Plane(i, b)
            /\ p[n + 1] = [id |-> i, bytes |-> Bytes(b)]
        BY <1>1, <1>3, <1>4, <3>1
      <3>3. /\ x \in Seq(Cells) /\ F(n + 1) = x \o y
            /\ q \in PlanesRead /\ P(n + 1) = Append(q, p[n + 1])
        BY <1>7, <1>8, <3>1
      <3>4. Read(d, x) = InPage(ps, v, q)
        BY <2>2
      <3> HIDE DEF i, b, x, y, q
      <3>5. /\ y \in Seq(Cells)
            /\ Read(InPage(ps, v, q), y) = InPage(ps, v, Grown(q, i, Bytes(b)))
        BY <3>2, <3>3, ReadPlane
      <3>6. Read(d, x \o y) = Read(Read(d, x), y)
        BY <3>3, <3>5, ReadConcat
      <3>7. Grown(q, i, Bytes(b)) = P(n + 1)
        BY <3>2, <3>3 DEF Grown
      <3>8. Read(d, F(n + 1)) = InPage(ps, v, P(n + 1))
        BY <3>3, <3>4, <3>5, <3>6, <3>7
      <3> QED BY <3>1, <3>8
    <2> HIDE DEF S
    <2>3. m \in 0..m
      BY <1>1
    <2>4. m \in S
      BY <1>1, <2>1, <2>2, <2>3, UpTo
    <2> QED BY <1>7, <1>8, <2>4 DEF S, d
  <1>10. p \in PlanesRead
    BY <1>4 DEF PlanesRead
  <1> QED BY <1>5, <1>6, <1>9, <1>10 DEF ReadsAs

\* The cells of one page, and what follows its start.
PageCells(v, order) ==
  StartPage(v) \o Body(order) \o <<Chunk(END_PAGE, 0)>>
Rest(order) == Body(order) \o <<Chunk(END_PAGE, 0)>>

\* The end of a page is nothing to the decoder.
LEMMA EndPageIs ==
  /\ <<Chunk(END_PAGE, 0)>> \in Seq(Cells)
  /\ Framed(<<Chunk(END_PAGE, 0)>>, 0, Len(<<Chunk(END_PAGE, 0)>>))
  /\ \A ps : Read(Chunks(ps), <<Chunk(END_PAGE, 0)>>) = Chunks(ps)
  <1> DEFINE c == Chunk(END_PAGE, 0)
             s == <<c>>
  <1>1. c \in Cells /\ c.n = 0
    BY DEF Chunk, Cells, END_PAGE
  <1>2. \A ps : DecodeCell(Chunks(ps), c) = Chunks(ps)
    <2> TAKE ps
    <2>1. DecodeCell(Chunks(ps), c) = Items(ps, 0)
      BY DecodeHeader DEF START_PAGE, END_PAGE, JBIG, END_DOC
    <2> QED BY <2>1 DEF Items, Chunks
  <1> HIDE DEF c
  <1>3. s \in Seq(Cells) /\ Len(s) = 1 /\ s[1] = c
    BY <1>1
  <1>4. \A ps : Read(Chunks(ps), s) = Chunks(ps)
    BY <1>1, <1>2, ReadOne
  <1> HIDE DEF s
  <1>5. Framed(s, 0, Len(s))
    BY <1>1, <1>3 DEF Framed
  <1> QED BY <1>3, <1>4, <1>5 DEF s, c

\* What write_page writes is framed, and read as the planes that were given.
LEMMA PageIs ==
  ASSUME Len(doc) \in Nat, Duplex \in BOOLEAN, NEW v \in Nat,
         NEW order \in Seq(1..4),
         \A k \in 1..Len(order) : Complete(chains[order[k]])
  PROVE  /\ ReadsAs(Rest(order), Given(order))
         /\ PageCells(v, order) = StartPage(v) \o Rest(order)
         /\ PageCells(v, order) \in Seq(Cells)
         /\ Framed(PageCells(v, order), 0, Len(PageCells(v, order)))
  <1> DEFINE a == StartPage(v)
             b == Body(order)
             c == <<Chunk(END_PAGE, 0)>>
             p == Given(order)
             r == b \o c
  <1>1. /\ b \in Seq(Cells) /\ p \in PlanesRead /\ Framed(b, 0, Len(b))
        /\ \A ps \in PagesRead, w \in Nat :
             Read(InPage(ps, w, <<>>), b) = InPage(ps, w, p)
    BY ReadBody DEF ReadsAs
  <1>2. /\ c \in Seq(Cells) /\ Framed(c, 0, Len(c))
        /\ \A ps : Read(Chunks(ps), c) = Chunks(ps)
    BY EndPageIs
  <1>3. a \in Seq(Cells) /\ Framed(a, 0, Len(a))
    BY StartPageIs, StartPageFramed
  <1>4. PageCells(v, order) = a \o b \o c /\ Rest(order) = r
    BY DEF PageCells, Rest
  <1> HIDE DEF a, b, c, p
  <1>5. /\ r \in Seq(Cells) /\ Len(r) = Len(b) + Len(c)
    BY <1>1, <1>2, Joined
  <1>6. Framed(r, 0, Len(b) + Len(c))
    BY <1>1, <1>2, FramedJoined
  <1>7. ASSUME NEW ps \in PagesRead, NEW w \in Nat
        PROVE  Read(InPage(ps, w, <<>>), r) = InPage(ps, w, p)
    <2> DEFINE d == InPage(ps, w, <<>>)
    <2>1. Read(d, b) = InPage(ps, w, p)
      BY <1>1
    <2>2. Read(InPage(ps, w, p), c) = InPage(ps, w, p)
      BY <1>2 DEF InPage
    <2> HIDE DEF d
    <2>3. Read(d, b \o c) = Read(Read(d, b), c)
      BY <1>1, <1>2, ReadConcat
    <2>4. Read(d, r) = InPage(ps, w, p)
      BY <2>1, <2>2, <2>3
    <2> QED BY <2>4 DEF d
  <1>8. a \o b \o c = a \o r
    BY <1>1, <1>2, <1>3, ConcatAssociative
  <1> HIDE DEF r
  <1>9. a \o r \in Seq(Cells) /\ Len(a \o r) = Len(a) + Len(r)
    BY <1>3, <1>5, Joined
  <1>10. Framed(a \o r, 0, Len(a) + Len(r))
    <2>1. Framed(r, 0, Len(r))
      BY <1>5, <1>6
    <2> QED BY <1>3, <1>5, <2>1, FramedJoined
  <1>11. ReadsAs(r, p)
    BY <1>1, <1>5, <1>7 DEF ReadsAs
  <1> QED BY <1>4, <1>8, <1>9, <1>10, <1>11 DEF a, p

\* A page that is read comes out with its planes and, with duplex, its pause.
LEMMA ReadAPage ==
  ASSUME NEW ps \in PagesRead, NEW v \in Nat, Duplex \in BOOLEAN,
         NEW t, NEW p, ReadsAs(t, p)
  PROVE  /\ StartPage(v) \o t \in Seq(Cells)
         /\ Read(Chunks(ps), StartPage(v) \o t) =
              InPage(ps, IF Duplex THEN v ELSE 0, p)
  <1> DEFINE a == StartPage(v)
             w == IF Duplex THEN v ELSE 0
             d == Chunks(ps)
  <1>1. a \in Seq(Cells) /\ Read(d, a) = InPage(ps, w, <<>>)
    BY StartPageIs, ReadStartPage
  <1>2. t \in Seq(Cells) /\ w \in Nat
    BY DEF ReadsAs
  <1> HIDE DEF a, w, d
  <1>3. Read(InPage(ps, w, <<>>), t) = InPage(ps, w, p)
    BY <1>2 DEF ReadsAs
  <1>4. Read(d, a \o t) = Read(Read(d, a), t) /\ a \o t \in Seq(Cells)
    BY <1>1, <1>2, ReadConcat
  <1>5. Read(d, a \o t) = InPage(ps, w, p)
    BY <1>1, <1>3, <1>4
  <1> QED BY <1>4, <1>5 DEF a, w, d

\* A part of a file.
LEMMA Slice ==
  ASSUME NEW s \in Seq(Cells), NEW b \in Nat, NEW n \in Nat, b + n <= Len(s)
  PROVE  /\ SubSeq(s, b + 1, b + n) \in Seq(Cells)
         /\ Len(SubSeq(s, b + 1, b + n)) = n
         /\ \A i \in 1..n : SubSeq(s, b + 1, b + n)[i] = s[b + i]
  <1> DEFINE e == b + n
             t == SubSeq(s, b + 1, e)
  <1>1. \A i \in (b + 1)..e : s[i] \in Cells
    OBVIOUS
  <1>2. /\ t \in Seq(Cells)
        /\ Len(t) = IF b + 1 <= e THEN e - (b + 1) + 1 ELSE 0
        /\ \A i \in 1..(e - (b + 1) + 1) : t[i] = s[(b + 1) + i - 1]
    BY <1>1, SubSeqProperties
  <1> HIDE DEF t
  <1>3. e - (b + 1) + 1 = n
    OBVIOUS
  <1>4. \A i \in 1..n : (b + 1) + i - 1 = b + i
    OBVIOUS
  <1> QED BY <1>2, <1>3, <1>4 DEF t

-----------------------------------------------------------------------------
(* The file of the even pages                                              *)

IsPause(c) == c.is = "item" /\ c.name = "pause"

Records == [b : Nat, e : Nat, pause : Nat]

\* One of its pages, and the place that is patched before it is copied.
InFile(f, r) ==
  /\ r.b + 17 <= r.e
  /\ r.e <= Len(f)
  /\ Framed(f, r.b, r.e)
  /\ r.pause \in {0, r.b + PausePlace}
  /\ r.pause # 0 => IsPause(f[r.pause])

EvenFile(f, q) ==
  /\ f \in Seq(Cells)
  /\ q \in Seq(Records)
  /\ q = <<>> => f = <<>>
  /\ q # <<>> => f[1].is = "chunk" /\ f[1].type # JBIG
  /\ \A j \in 1..Len(q) : InFile(f, q[j])
  /\ \A i, j \in 1..Len(q) : i < j => q[i].e <= q[j].b

\* A page that is put at the end of the file leaves the others as they are.
LEMMA AppendPage ==
  ASSUME NEW f, NEW q, EvenFile(f, q), NEW cells \in Seq(Cells),
         Len(cells) >= 17, Framed(cells, 0, Len(cells)),
         cells[1].is = "chunk", cells[1].type # JBIG,
         IsPause(cells[PausePlace]), NEW noted \in BOOLEAN
  PROVE  EvenFile(f \o cells,
                  Append(q, [b |-> Len(f), e |-> Len(f \o cells),
                             pause |-> IF noted THEN Len(f) + PausePlace
                                                ELSE 0]))
  <1> DEFINE g == f \o cells
             m == Len(f)
             n == Len(cells)
             r == [b |-> m, e |-> Len(g),
                   pause |-> IF noted THEN m + PausePlace ELSE 0]
             p == Append(q, r)
  <1>1. /\ f \in Seq(Cells) /\ m \in Nat /\ n \in Nat /\ Len(g) = m + n
        /\ g \in Seq(Cells)
        /\ \A k \in 1..(m + n) : g[k] = IF k <= m THEN f[k] ELSE cells[k - m]
    <2>1. f \in Seq(Cells)
      BY DEF EvenFile
    <2> QED BY <2>1, Joined
  <1>2. r \in Records
    <2>1. m + n \in Nat /\ m + PausePlace \in Nat
      BY <1>1 DEF PausePlace
    <2> QED BY <1>1, <2>1 DEF Records
  <1>3. /\ r.b = m /\ r.e = m + n
        /\ r.pause = IF noted THEN m + PausePlace ELSE 0
    BY <1>1
  <1>4. /\ q \in Seq(Records) /\ p \in Seq(Records) /\ Len(q) \in Nat
        /\ Len(p) = Len(q) + 1 /\ p[Len(q) + 1] = r
        /\ \A j \in 1..Len(q) : p[j] = q[j] /\ q[j] \in Records
    <2>1. q \in Seq(Records)
      BY DEF EvenFile
    <2> HIDE DEF r
    <2> QED BY <1>2, <2>1
  <1> HIDE DEF g, m, n, r, p
  <1>5. ASSUME NEW x \in Records, InFile(f, x)
        PROVE  InFile(g, x)
    <2>1. /\ x.b \in Nat /\ x.e \in Nat /\ x.pause \in Nat
      BY DEF Records
    <2>2. /\ x.b + 17 <= x.e /\ x.e <= m /\ Framed(f, x.b, x.e)
          /\ x.pause \in {0, x.b + PausePlace}
          /\ x.pause # 0 => IsPause(f[x.pause])
      BY <1>5 DEF InFile, m
    <2>3. Framed(g, x.b, x.e)
      <3> DEFINE b == x.b
                 e == x.e
      <3>1. /\ b \in Nat /\ e \in Nat /\ b <= e /\ e <= Len(f)
            /\ Framed(f, b, e)
        BY <1>1, <2>1, <2>2 DEF m
      <3> HIDE DEF b, e
      <3>2. Framed(f \o cells, b, e)
        BY <1>1, <3>1, FramedJoined
      <3> QED BY <3>2 DEF b, e, g
    <2>4. x.e <= Len(g)
      BY <1>1, <2>1, <2>2
    <2>5. x.pause # 0 => g[x.pause] = f[x.pause]
      <3> DEFINE b == x.b
                 e == x.e
                 y == x.pause
      <3>3. /\ b \in Nat /\ e \in Nat /\ y \in Nat /\ b + 17 <= e /\ e <= m
            /\ y \in {0, b + 15} /\ m \in Nat
        BY <1>1, <2>1, <2>2 DEF PausePlace
      <3> HIDE DEF b, e, y
      <3>4. y # 0 => y \in 1..m
        BY <3>3
      <3>1. x.pause # 0 => x.pause \in 1..m
        BY <3>4 DEF y
      <3>2. \A k \in 1..m : g[k] = f[k]
        BY <1>1
      <3> QED BY <3>1, <3>2
    <2> QED BY <2>2, <2>3, <2>4, <2>5 DEF InFile
  <1>6. InFile(g, r)
    <2>1. Framed(g, m, m + n)
      BY <1>1, FramedJoined DEF g, m, n
    <2>2. noted => g[r.pause] = cells[PausePlace]
      <3>1. n >= 17
        BY DEF n
      <3> QED BY <1>1, <1>3, <3>1 DEF PausePlace
    <2>3. m + 17 <= m + n
      BY <1>1 DEF n
    <2> QED BY <1>1, <1>3, <2>1, <2>2, <2>3 DEF InFile
  <1>7. \A j \in 1..Len(p) : InFile(g, p[j])
    <2> SUFFICES ASSUME NEW j \in 1..Len(p) PROVE InFile(g, p[j])
      OBVIOUS
    <2>1. CASE j = Len(q) + 1
      BY <1>4, <1>6, <2>1
    <2>2. CASE j # Len(q) + 1
      <3>1. j \in 1..Len(q)
        BY <1>4, <2>2
      <3>2. InFile(f, q[j])
        BY <3>1 DEF EvenFile
      <3> QED BY <1>4, <1>5, <3>1, <3>2
    <2> QED BY <2>1, <2>2
  <1>8. \A i, j \in 1..Len(p) : i < j => p[i].e <= p[j].b
    <2> SUFFICES ASSUME NEW i \in 1..Len(p), NEW j \in 1..Len(p), i < j
                 PROVE  p[i].e <= p[j].b
      OBVIOUS
    <2>0. i \in 1..Len(q)
      BY <1>4
    <2>1. CASE j = Len(q) + 1
      <3>1. p[i] = q[i] /\ InFile(f, q[i]) /\ p[j] = r
        BY <1>4, <2>0, <2>1 DEF EvenFile
      <3> QED BY <1>3, <3>1 DEF InFile, m
    <2>2. CASE j # Len(q) + 1
      <3>1. j \in 1..Len(q)
        BY <1>4, <2>2
      <3> QED BY <1>4, <2>0, <3>1 DEF EvenFile
    <2> QED BY <2>1, <2>2
  <1>9. g[1].is = "chunk" /\ g[1].type # JBIG
    <2>1. CASE m = 0
      <3>1. g[1] = cells[1]
        BY <1>1, <2>1 DEF n
      <3> QED BY <3>1
    <2>2. CASE m # 0
      <3>1. g[1] = f[1]
        BY <1>1, <2>2
      <3>2. f # <<>>
        BY <2>2 DEF m
      <3>3. q # <<>>
        BY <3>2 DEF EvenFile
      <3> QED BY <3>1, <3>3 DEF EvenFile
    <2> QED BY <2>1, <2>2
  <1>10. p # <<>>
    BY <1>4
  <1>11. EvenFile(g, p)
    BY <1>1, <1>4, <1>7, <1>8, <1>9, <1>10 DEF EvenFile
  <1> QED BY <1>11 DEF g, p, r, m

\* What CopyEven writes into the file.
PatchedFile(f, place, value) ==
  IF place = 0 THEN [f EXCEPT ![1].type = value]
               ELSE [f EXCEPT ![place].n = value]

\* A page's type and the pause are nothing that the frame depends on.
LEMMA FramedPatched ==
  ASSUME NEW f \in Seq(Cells), NEW g \in Seq(Cells), NEW b \in Nat,
         NEW e \in Nat, e <= Len(f), Framed(f, b, e), NEW place \in 1..Len(f),
         \A k \in 1..Len(f) : k # place => g[k] = f[k],
         \/ /\ IsPause(f[place]) /\ IsPause(g[place])
         \/ /\ f[place].is = "chunk" /\ f[place].type # JBIG
            /\ g[place].is = "chunk" /\ g[place].n = f[place].n
  PROVE  Framed(g, b, e)
  <1> SUFFICES ASSUME NEW k \in (b + 1)..e,
                      g[k].is = "chunk", g[k].type # JBIG, g[k].n > 0
               PROVE  /\ k + g[k].n <= e
                      /\ g[k + 1].is = "item" /\ g[k + 1].name = "length"
                      /\ \A j \in (k + 1)..(k + g[k].n) :
                           g[j].is = "bih" => j = k + 3
                      /\ g[k + 1].n = 12 * g[k].n
                           + IF g[k].n >= 3 /\ g[k + 3].is = "bih"
                               THEN 16 ELSE 0
    BY DEF Framed
  <1> DEFINE L == Len(f)
  <1>0. L \in Nat
    OBVIOUS
  <1>1. k \in 1..L
    OBVIOUS
  <1> HIDE DEF L
  <1>2. f[k].is = "chunk" /\ f[k].type # JBIG /\ f[k].n = g[k].n
    <2>1. CASE k = place
      BY <2>1 DEF IsPause
    <2>2. CASE k # place
      BY <1>1, <2>2 DEF L
    <2> QED BY <2>1, <2>2
  <1> DEFINE n == g[k].n
  <1>3. f[k] \in Cells
    BY <1>1 DEF L
  <1>4. n \in Nat /\ n > 0
    BY <1>2, <1>3, CellIs
  <1>5. /\ k + n <= e
        /\ f[k + 1].is = "item" /\ f[k + 1].name = "length"
        /\ \A j \in (k + 1)..(k + n) : f[j].is = "bih" => j = k + 3
        /\ f[k + 1].n = 12 * n
             + IF n >= 3 /\ f[k + 3].is = "bih" THEN 16 ELSE 0
    BY <1>2 DEF Framed
  <1> HIDE DEF n
  <1>6. /\ k + 1 \in 1..L /\ (n >= 3 => k + 3 \in 1..L)
        /\ (k + 1)..(k + n) \subseteq 1..L
    <2>1. e <= L
      BY DEF L
    <2>2. k \in Nat /\ k + n <= L
      BY <1>0, <1>1, <1>4, <1>5, <2>1
    <2>3. k + 1 \in 1..L /\ (n >= 3 => k + 3 \in 1..L)
      BY <1>0, <1>4, <2>2
    <2>4. ASSUME NEW j \in (k + 1)..(k + n) PROVE j \in 1..L
      BY <1>0, <1>4, <2>2
    <2> QED BY <2>3, <2>4
  <1>7. \A j \in 1..L : g[j].is = f[j].is
    BY DEF IsPause, L
  <1>8. g[k + 1] = f[k + 1]
    <2>1. k + 1 # place
      BY <1>5 DEF IsPause
    <2> QED BY <1>6, <2>1 DEF L
  <1>9. \A j \in (k + 1)..(k + n) : g[j].is = "bih" => j = k + 3
    BY <1>5, <1>6, <1>7
  <1> QED BY <1>5, <1>6, <1>7, <1>8, <1>9 DEF n

\* What becomes of the file: only that place changes.
Patches(f, g, p, v) ==
  LET place == IF p = 0 THEN 1 ELSE p
  IN  /\ g \in Seq(Cells) /\ Len(g) = Len(f)
      /\ place \in 1..Len(f)
      /\ \A k \in 1..Len(f) : k # place => g[k] = f[k]
      /\ IF p = 0
           THEN /\ f[1].is = "chunk" /\ f[1].type # JBIG
                /\ g[1].is = "chunk" /\ g[1].type # JBIG
                /\ g[1].n = f[1].n
           ELSE /\ IsPause(f[place])
                /\ g[place] = [f[place] EXCEPT !.n = v]
                /\ IsPause(g[place])

\* What the patch does to a page of the file.
LEMMA PatchIs ==
  ASSUME NEW f, NEW q, EvenFile(f, q), NEW j \in 1..Len(q), NEW v \in {2, 3}
  PROVE  Patches(f, PatchedFile(f, q[j].pause, v), q[j].pause, v)
  <1> DEFINE r == q[j]
             g == PatchedFile(f, r.pause, v)
             place == IF r.pause = 0 THEN 1 ELSE r.pause
             L == Len(f)
  <1>1. /\ f \in Seq(Cells) /\ r \in Records /\ InFile(f, r) /\ q # <<>>
        /\ L \in Nat
    BY DEF EvenFile
  <1>2. r.b \in Nat /\ r.e \in Nat /\ r.pause \in Nat
    BY <1>1 DEF Records
  <1>3. /\ r.b + 17 <= r.e /\ r.e <= L /\ r.pause \in {0, r.b + PausePlace}
        /\ r.pause # 0 => IsPause(f[r.pause])
        /\ f[1].is = "chunk" /\ f[1].type # JBIG
    BY <1>1 DEF InFile, EvenFile
  <1> HIDE DEF r, L
  <1>4. place \in 1..L
    BY <1>1, <1>2, <1>3 DEF PausePlace
  <1>5. f[place] \in Cells
    BY <1>1, <1>4 DEF L
  <1>6. CASE r.pause = 0
    <2> DEFINE y == [f[1] EXCEPT !.type = v]
               h == [f EXCEPT ![1] = y]
    <2>1. /\ y \in Cells /\ y.is = "chunk" /\ y.type = v /\ y.n = f[1].n
      <3>1. f[1] \in [is : {"chunk"}, type : Nat, n : Nat]
        BY <1>3, <1>5, <1>6 DEF Cells
      <3>2. y \in [is : {"chunk"}, type : Nat, n : Nat]
        BY <3>1
      <3>3. y.is = "chunk" /\ y.type = v /\ y.n = f[1].n
        BY <3>1
      <3> HIDE DEF y
      <3> QED BY <3>2, <3>3 DEF Cells
    <2>2. g = h
      BY <1>6 DEF PatchedFile
    <2> HIDE DEF y, g
    <2>3. /\ h \in Seq(Cells) /\ Len(h) = L /\ h[1] = y
          /\ \A k \in 1..L : k # 1 => h[k] = f[k]
      <3>1. 1 \in 1..Len(f)
        BY <1>4, <1>6 DEF L
      <3>2. h \in Seq(Cells) /\ Len(h) = Len(f)
        BY <1>1, <2>1, <3>1, ExceptSeq
      <3>3. DOMAIN f = 1..Len(f)
        BY <1>1, LenProperties
      <3> QED BY <3>1, <3>2, <3>3 DEF L
    <2> HIDE DEF h
    <2> QED BY <1>3, <1>4, <1>6, <2>1, <2>2, <2>3 DEF g, r, L, JBIG, Patches
  <1>7. CASE r.pause # 0
    <2> DEFINE p == r.pause
               y == [f[p] EXCEPT !.n = v]
               h == [f EXCEPT ![p] = y]
    <2>1. y \in Cells /\ IsPause(y) /\ IsPause(f[p])
      <3>1. IsPause(f[p]) /\ f[p] \in Cells
        BY <1>3, <1>5, <1>7
      <3>2. f[p] \in [is : {"item"},
                      name : {"length", "other", "pause", "end"}, n : Nat]
        BY <3>1 DEF Cells, IsPause
      <3> HIDE DEF p
      <3>3. y \in [is : {"item"},
                   name : {"length", "other", "pause", "end"}, n : Nat]
        BY <3>2
      <3>4. y.is = f[p].is /\ y.name = f[p].name
        BY <3>2
      <3> HIDE DEF y
      <3> QED BY <3>1, <3>3, <3>4 DEF Cells, IsPause
    <2>2. g = h /\ place = p
      BY <1>7 DEF PatchedFile
    <2>3. /\ h \in Seq(Cells) /\ Len(h) = L /\ h[p] = y
          /\ \A k \in 1..L : k # p => h[k] = f[k]
      <3>1. p \in 1..Len(f)
        BY <1>4, <1>7 DEF L
      <3> HIDE DEF p, y
      <3>2. h \in Seq(Cells) /\ Len(h) = Len(f)
        BY <1>1, <2>1, <3>1, ExceptSeq
      <3>3. DOMAIN f = 1..Len(f)
        BY <1>1, LenProperties
      <3> QED BY <3>1, <3>2, <3>3 DEF L
    <2>4. g[place] = [f[place] EXCEPT !.n = v]
      <3> HIDE DEF h, g, place
      <3> QED BY <2>2, <2>3
    <2> HIDE DEF h, y, g, place
    <2>5. /\ g \in Seq(Cells) /\ Len(g) = L /\ place \in 1..L
          /\ \A k \in 1..L : k # place => g[k] = f[k]
          /\ IsPause(f[place]) /\ IsPause(g[place])
      BY <1>4, <2>1, <2>2, <2>3
    <2> QED BY <1>7, <2>4, <2>5 DEF g, r, L, place, Patches
  <1> QED BY <1>6, <1>7

\* The patch keeps all pages framed.
LEMMA PatchKeeps ==
  ASSUME NEW f, NEW q, EvenFile(f, q), NEW j \in 1..Len(q), NEW v \in {2, 3}
  PROVE  EvenFile(PatchedFile(f, q[j].pause, v), q)
  <1> DEFINE p == q[j].pause
             g == PatchedFile(f, p, v)
             place == IF p = 0 THEN 1 ELSE p
  <1>1. /\ g \in Seq(Cells) /\ Len(g) = Len(f)
        /\ place \in 1..Len(f)
        /\ \A k \in 1..Len(f) : k # place => g[k] = f[k]
        /\ IF p = 0
             THEN /\ f[1].is = "chunk" /\ f[1].type # JBIG
                  /\ g[1].is = "chunk" /\ g[1].type # JBIG
                  /\ g[1].n = f[1].n
             ELSE /\ IsPause(f[place])
                  /\ g[place] = [f[place] EXCEPT !.n = v]
                  /\ IsPause(g[place])
    <2>1. Patches(f, g, p, v)
      BY PatchIs
    <2> QED BY <2>1 DEF Patches
  <1>2. f \in Seq(Cells) /\ q # <<>> /\ q \in Seq(Records) /\ Len(f) \in Nat
    BY DEF EvenFile
  <1>3. \/ /\ IsPause(f[place]) /\ IsPause(g[place])
        \/ /\ f[place].is = "chunk" /\ f[place].type # JBIG
           /\ g[place].is = "chunk" /\ g[place].n = f[place].n
    <2> HIDE DEF g
    <2> QED BY <1>1
  <1>4. \A k \in 1..Len(f) : IsPause(f[k]) => IsPause(g[k])
    <2> HIDE DEF g, place
    <2> QED BY <1>1, <1>3 DEF IsPause
  <1>5. g[1].is = "chunk" /\ g[1].type # JBIG
    <2> HIDE DEF g
    <2>1. CASE p = 0
      BY <1>1, <2>1
    <2>2. CASE p # 0
      <3>1. f[1].is = "chunk" /\ f[1].type # JBIG
        BY <1>2 DEF EvenFile
      <3>2. 1 # place
        BY <1>1, <2>2, <3>1 DEF IsPause
      <3>3. 1 \in 1..Len(f)
        BY <1>1, <1>2
      <3>4. g[1] = f[1]
        BY <1>1, <3>2, <3>3
      <3> QED BY <3>1, <3>4
    <2> QED BY <2>1, <2>2
  <1> HIDE DEF g, place, p
  <1>6. ASSUME NEW i \in 1..Len(q) PROVE InFile(g, q[i])
    <2> DEFINE r == q[i]
    <2>1. InFile(f, r) /\ r \in Records
      BY <1>2 DEF EvenFile
    <2> HIDE DEF r
    <2> DEFINE b == r.b
               e == r.e
    <2>2. /\ b \in Nat /\ e \in Nat /\ r.pause \in Nat
      BY <2>1 DEF Records
    <2>3. /\ b + 17 <= e /\ e <= Len(f) /\ Framed(f, b, e)
          /\ r.pause \in {0, b + PausePlace}
          /\ r.pause # 0 => IsPause(f[r.pause])
      BY <2>1 DEF InFile
    <2>4. Framed(g, b, e)
      <3> HIDE DEF b, e
      <3> QED BY <1>1, <1>2, <1>3, <2>2, <2>3, FramedPatched
    <2>5. r.pause # 0 => IsPause(g[r.pause])
      <3>1. r.pause # 0 => r.pause \in 1..Len(f)
        BY <1>2, <2>2, <2>3 DEF PausePlace
      <3> QED BY <1>4, <2>3, <3>1
    <2>6. InFile(g, r)
      BY <1>1, <2>3, <2>4, <2>5 DEF InFile
    <2> QED BY <2>6 DEF r
  <1>7. EvenFile(g, q)
    BY <1>1, <1>2, <1>5, <1>6 DEF EvenFile
  <1> QED BY <1>7 DEF g, p

-----------------------------------------------------------------------------
(* The buffers of output_jbig                                              *)

\* Buffers that are followed by another one are full.
LinkedInv ==
  /\ chain # <<>> => chain[1].from = 0
  /\ \A k \in 1..(Len(chain) - 1) :
       /\ chain[k].len = Room(k)
       /\ chain[k + 1].from = chain[k].from + chain[k].len

SumInv ==
  /\ chain = <<>> => fed = 0
  /\ chain # <<>> => Last(chain).from + Last(chain).len + len = fed

\* What output_jbig finds in each turn of its loop.  Its local `size` is right
\* for the last buffer only because the header fills the first one exactly.
TurnInv ==
  /\ pc \in {"start", "pages", "write", "even", "done"} =>
       chain = <<>> /\ len = 0
  /\ pc = "jbig" =>
       /\ len = 0
       /\ chain # <<>> => Len(chain) > 1 /\ Last(chain).len < Size
  /\ pc = "copy" =>
       /\ chain # <<>>
       /\ len > 0
       /\ limit = Room(Len(chain))
       /\ Last(chain).len < limit
       /\ Len(chain) = 1 => Last(chain).len + len = BihSize

IInv == TypeOK /\ LinkedInv /\ SumInv /\ TurnInv

\* The length SubSeq gives to a sequence of n elements without its last.
LEMMA Shortened ==
  ASSUME NEW n \in Nat, n >= 1
  PROVE  (IF 1 <= n - 1 THEN (n - 1) - 1 + 1 ELSE 0) = n - 1
  OBVIOUS

\* Changing the last buffer keeps the others.
LEMMA LastChanged ==
  ASSUME NEW s \in Seq(Buffer), s # <<>>, NEW b \in Buffer
  PROVE  LET t == Append(Front(s), b)
         IN  /\ t \in Seq(Buffer)
             /\ Len(t) = Len(s)
             /\ t[Len(s)] = b
             /\ \A k \in 1..(Len(s) - 1) : t[k] = s[k]
  <1>1. Len(s) \in Nat /\ Len(s) >= 1
    OBVIOUS
  <1>2. /\ Front(s) \in Seq(Buffer)
        /\ Len(Front(s)) = Len(s) - 1
        /\ \A k \in 1..(Len(s) - 1) : Front(s)[k] = s[k]
    <2>1. \A i \in 1..(Len(s) - 1) : s[i] \in Buffer
      BY <1>1
    <2>2. /\ SubSeq(s, 1, Len(s) - 1) \in Seq(Buffer)
          /\ Len(SubSeq(s, 1, Len(s) - 1)) =
               IF 1 <= Len(s) - 1 THEN (Len(s) - 1) - 1 + 1 ELSE 0
          /\ \A i \in 1..((Len(s) - 1) - 1 + 1) :
               SubSeq(s, 1, Len(s) - 1)[i] = s[1 + i - 1]
      BY <1>1, <2>1, SubSeqProperties
    <2>3. /\ Len(Front(s)) = Len(s) - 1
          /\ \A k \in 1..(Len(s) - 1) : Front(s)[k] = s[k]
      <3>1. Len(Front(s)) = Len(s) - 1
        <4>1. (IF 1 <= Len(s) - 1 THEN (Len(s) - 1) - 1 + 1 ELSE 0)
              = Len(s) - 1
          BY <1>1, Shortened
        <4> QED  BY <2>2, <4>1 DEF Front
      <3>2. ASSUME NEW k \in 1..(Len(s) - 1)
            PROVE  Front(s)[k] = s[k]
        <4>1. k \in 1..((Len(s) - 1) - 1 + 1) /\ 1 + k - 1 = k
          BY <1>1
        <4> QED  BY <2>2, <4>1 DEF Front
      <3> QED  BY <3>1, <3>2
    <2>4. QED  BY <2>2, <2>3 DEF Front
  <1> QED  BY <1>1, <1>2

\* Changing the last buffer and adding one keeps the others.
LEMMA LastChangedAndNext ==
  ASSUME NEW s \in Seq(Buffer), s # <<>>, NEW b \in Buffer, NEW c \in Buffer
  PROVE  LET t == Front(s) \o <<b, c>>
         IN  /\ t \in Seq(Buffer)
             /\ Len(t) = Len(s) + 1
             /\ t[Len(s)] = b
             /\ t[Len(s) + 1] = c
             /\ \A k \in 1..(Len(s) - 1) : t[k] = s[k]
  <1>1. Len(s) \in Nat /\ Len(s) >= 1
    OBVIOUS
  <1>2. /\ Front(s) \in Seq(Buffer)
        /\ Len(Front(s)) = Len(s) - 1
        /\ \A k \in 1..(Len(s) - 1) : Front(s)[k] = s[k]
    <2>1. \A i \in 1..(Len(s) - 1) : s[i] \in Buffer
      BY <1>1
    <2>2. /\ SubSeq(s, 1, Len(s) - 1) \in Seq(Buffer)
          /\ Len(SubSeq(s, 1, Len(s) - 1)) =
               IF 1 <= Len(s) - 1 THEN (Len(s) - 1) - 1 + 1 ELSE 0
          /\ \A i \in 1..((Len(s) - 1) - 1 + 1) :
               SubSeq(s, 1, Len(s) - 1)[i] = s[1 + i - 1]
      BY <1>1, <2>1, SubSeqProperties
    <2>3. /\ Len(Front(s)) = Len(s) - 1
          /\ \A k \in 1..(Len(s) - 1) : Front(s)[k] = s[k]
      <3>1. Len(Front(s)) = Len(s) - 1
        <4>1. (IF 1 <= Len(s) - 1 THEN (Len(s) - 1) - 1 + 1 ELSE 0)
              = Len(s) - 1
          BY <1>1, Shortened
        <4> QED  BY <2>2, <4>1 DEF Front
      <3>2. ASSUME NEW k \in 1..(Len(s) - 1)
            PROVE  Front(s)[k] = s[k]
        <4>1. k \in 1..((Len(s) - 1) - 1 + 1) /\ 1 + k - 1 = k
          BY <1>1
        <4> QED  BY <2>2, <4>1 DEF Front
      <3> QED  BY <3>1, <3>2
    <2>4. QED  BY <2>2, <2>3 DEF Front
  <1>3. <<b, c>> \in Seq(Buffer) /\ Len(<<b, c>>) = 2
    OBVIOUS
  <1>4. \A k \in 1..(Len(s) + 1) : (Front(s) \o <<b, c>>)[k] =
          IF k <= Len(s) - 1 THEN Front(s)[k] ELSE <<b, c>>[k - (Len(s) - 1)]
    BY <1>1, <1>2, <1>3
  <1> QED  BY <1>1, <1>2, <1>3, <1>4

\* The options of a document are flags.
LEMMA DocumentTypes ==
  ASSUME document \in Documents
  PROVE  Duplex \in BOOLEAN /\ Color \in BOOLEAN
  BY DocumentsAssumption DEF Duplex, Color

\* The invariant holds at the start.
LEMMA InitEstablishes == Init => IInv
  <1> SUFFICES ASSUME Init PROVE IInv
    OBVIOUS
  <1> USE XqxStreamAssumption DEF Init
  <1>1. TypeOK
    <2>1. /\ chain = <<>> /\ Len(chain) = 0
          /\ chain \in Seq([from : Nat, len : Nat])
      OBVIOUS
    <2>2. \A k \in 1..Len(chain) :
            chain[k].len <= IF k = 1 THEN BihSize ELSE Size
      BY <2>1
    <2> QED  BY <2>1, <2>2 DEF TypeOK, Pcs
  <1>2. LinkedInv /\ SumInv /\ TurnInv
    BY DEF LinkedInv, SumInv, TurnInv
  <1> QED  BY <1>1, <1>2 DEF IInv

\* The first piece of a plane starts a chain with its header's buffer.
LEMMA OutputPreserves ==
  ASSUME IInv, NEW n \in 1..(BihSize + MaxData), Output(n)
  PROVE  IInv'
  <1> USE XqxStreamAssumption
  <1>1. CASE chain = <<>>
    <2>1. /\ chain' = <<[from |-> 0, len |-> 0]>>
          /\ limit' = BihSize /\ len' = BihSize /\ fed' = BihSize
          /\ pc' = "copy" /\ UNCHANGED <<page_num, blank, copied>>
          /\ UNCHANGED <<document, even_pages>>
      BY <1>1 DEF IInv, TypeOK, SumInv, Output, files
    <2>2. /\ chain' \in Seq(Buffer) /\ Len(chain') = 1 /\ chain' # <<>>
          /\ chain'[1] = [from |-> 0, len |-> 0]
      BY <2>1 DEF Buffer
    <2>3. TypeOK'
      BY <2>1, <2>2 DEF IInv, TypeOK, Pcs, Buffer
    <2>4. LinkedInv' /\ SumInv' /\ TurnInv'
      BY <2>1, <2>2 DEF LinkedInv, SumInv, TurnInv, Room, Last
    <2> QED  BY <2>3, <2>4 DEF IInv
  <1>2. CASE chain # <<>>
    <2>1. /\ limit' = Size /\ len' = n /\ fed' = fed + n
          /\ pc = "jbig" /\ pc' = "copy"
          /\ UNCHANGED <<chain, page_num, blank, copied, document, even_pages>>
      BY <1>2 DEF Output, files
    <2>2. TypeOK'
      BY <2>1, SMTT(40) DEF IInv, TypeOK, Pcs
    <2>3. /\ len = 0 /\ Len(chain) > 1 /\ Last(chain).len < Size
          /\ Last(chain).from + Last(chain).len + len = fed
      BY <1>2, <2>1 DEF IInv, TurnInv, SumInv
    <2>4. Last(chain).from \in Nat /\ Last(chain).len \in Nat
      <3>1. chain \in Seq(Buffer)
        BY DEF IInv, TypeOK, Buffer
      <3>2. Last(chain) \in Buffer
        BY <2>3, <3>1 DEF Last
      <3> QED  BY <3>2 DEF Buffer
    <2>5. SumInv'
      BY <1>2, <2>1, <2>3, <2>4 DEF IInv, TypeOK, SumInv
    <2>6. LinkedInv' /\ TurnInv'
      BY <1>2, <2>1, <2>3 DEF IInv, LinkedInv, TurnInv, Room
    <2> QED  BY <2>2, <2>5, <2>6 DEF IInv
  <1> QED  BY <1>1, <1>2

\* A turn of the loop either fills the last buffer and opens the next one, or
\* ends with room left.
LEMMA CopyPreserves ==
  ASSUME IInv, Copy
  PROVE  IInv'
  <1> USE XqxStreamAssumption
  <1> DEFINE last == Last(chain)
             left == limit - last.len
             amt == IF len > left THEN left ELSE len
             filled == [from |-> last.from, len |-> last.len + amt]
             next == [from |-> last.from + limit, len |-> 0]
             L == Len(chain)
  <1>1. /\ chain \in Seq(Buffer) /\ chain # <<>>
        /\ limit \in Nat /\ len \in Nat /\ fed \in Nat
        /\ len > 0 /\ limit = Room(L) /\ last.len < limit
        /\ L = 1 => last.len + len = BihSize
        /\ last.from + last.len + len = fed
    BY DEF IInv, TypeOK, SumInv, TurnInv, Copy, Buffer
  <1>2. L \in Nat /\ L >= 1 /\ last = chain[L] /\ last \in Buffer
    BY <1>1 DEF Last
  <1>3. /\ last.from \in Nat /\ last.len \in Nat
        /\ amt \in Nat /\ amt <= len /\ last.len + amt <= limit
        /\ amt < len => last.len + amt = limit
    BY <1>1, <1>2 DEF Buffer
  <1>4. /\ filled = [from |-> last.from, len |-> last.len + amt]
        /\ filled \in Buffer /\ next \in Buffer
    BY <1>1, <1>2, <1>3, SMTT(40) DEF Buffer
  <1>5. /\ len' = len - amt
        /\ pc' = IF len' = 0 THEN "jbig" ELSE "copy"
        /\ UNCHANGED <<page_num, blank, copied, limit, fed, document,
                       even_pages>>
        /\ chain' = IF filled.len = limit THEN Front(chain) \o <<filled, next>>
                                          ELSE Append(Front(chain), filled)
    BY DEF Copy, files
  <1> HIDE DEF amt
  <1>6. last.len + amt + len' = last.len + len /\ len' \in Nat
    BY <1>1, <1>3, <1>5
  <1>7. CASE last.len + amt = limit
    <2>1. /\ chain' \in Seq(Buffer) /\ Len(chain') = L + 1
          /\ chain'[L] = filled /\ chain'[L + 1] = next
          /\ \A k \in 1..(L - 1) : chain'[k] = chain[k]
      <3>1. chain' = Front(chain) \o <<filled, next>>
        BY <1>4, <1>5, <1>7
      <3>2. QED  BY <1>1, <1>4, <3>1, LastChangedAndNext
    <2>2. chain' # <<>> /\ Last(chain') = next /\ Len(chain') > 1
      BY <1>2, <2>1 DEF Last
    <2>3. TypeOK'
      <3>1. ASSUME NEW k \in 1..Len(chain')
            PROVE  chain'[k].len <= Room(k)
        <4>1. CASE k = L
          BY <1>1, <1>3, <1>7, <2>1, <4>1
        <4>2. CASE k = L + 1
          BY <2>1, <4>2 DEF Room
        <4>3. CASE k < L
          <5>1. k \in 1..(L - 1) /\ k \in 1..L
            BY <1>2, <2>1, <4>3
          <5>2. chain'[k] = chain[k]
            BY <2>1, <5>1
          <5> QED  BY <5>1, <5>2 DEF IInv, TypeOK, Room
        <4> QED  BY <1>2, <2>1, <4>1, <4>2, <4>3
      <3>2. QED  BY <1>5, <1>6, <2>1, <3>1 DEF IInv, TypeOK, Pcs, Room, Buffer
    <2>4. LinkedInv'
      <3>1. chain'[1].from = 0
        BY <1>1, <1>2, <1>4, <2>1 DEF IInv, LinkedInv
      <3>2. ASSUME NEW k \in 1..L
            PROVE  /\ chain'[k].len = Room(k)
                   /\ chain'[k + 1].from = chain'[k].from + chain'[k].len
        <4>1. CASE k = L
          BY <1>1, <1>2, <1>3, <1>4, <1>7, <2>1, <4>1
        <4>2. CASE k < L - 1
          <5>1. k \in 1..(L - 1) /\ k + 1 \in 1..(L - 1)
            BY <1>2, <4>2
          <5>2. chain'[k] = chain[k] /\ chain'[k + 1] = chain[k + 1]
            BY <2>1, <5>1
          <5> QED  BY <5>1, <5>2 DEF IInv, LinkedInv
        <4>3. CASE k = L - 1
          <5>1. chain'[k] = chain[k] /\ chain'[k + 1].from = chain[k + 1].from
            BY <1>2, <1>4, <2>1, <4>3
          <5>2. QED  BY <1>2, <4>3, <5>1 DEF IInv, LinkedInv
        <4> QED  BY <1>2, <4>1, <4>2, <4>3
      <3> QED  BY <1>2, <2>1, <3>1, <3>2 DEF LinkedInv
    <2>5. SumInv'
      <3>1. fed' = fed /\ chain' # <<>>
        BY <1>5, <2>2
      <3>2. Last(chain').from = last.from + limit /\ Last(chain').len = 0
        BY <2>2
      <3>3. last.from + limit + 0 + len' = fed
        <4>1. limit + len' = last.len + len
          BY <1>6, <1>7
        <4>2. last.from + (last.len + len) = fed
          BY <1>1, <1>3
        <4>3. last.from + (limit + len') = fed
          BY <4>1, <4>2
        <4>4. last.from \in Nat /\ limit \in Nat /\ len' \in Nat
          BY <1>1, <1>3, <1>6
        <4> HIDE DEF last, L
        <4> QED  BY <4>3, <4>4
      <3> QED  BY <3>1, <3>2, <3>3 DEF SumInv
    <2>6. TurnInv'
      <3>1. limit = Size \/ len' = 0
        BY <1>1, <1>2, <1>3, <1>5, <1>7 DEF Room
      <3>2. Room(Len(chain')) = Size
        BY <1>2, <2>1 DEF Room
      <3> QED  BY <1>5, <1>6, <2>2, <3>1, <3>2 DEF TurnInv
    <2> QED  BY <2>3, <2>4, <2>5, <2>6 DEF IInv
  <1>8. CASE last.len + amt # limit
    <2>1. /\ chain' \in Seq(Buffer) /\ Len(chain') = L
          /\ chain'[L] = filled
          /\ \A k \in 1..(L - 1) : chain'[k] = chain[k]
      <3>1. chain' = Append(Front(chain), filled)
        BY <1>4, <1>5, <1>8
      <3>2. QED  BY <1>1, <1>4, <3>1, LastChanged
    <2>2. /\ len' = 0 /\ pc' = "jbig" /\ amt = len
          /\ last.len + amt < limit /\ L > 1 /\ limit = Size
      <3>1. amt = len /\ last.len + amt < limit
        BY <1>1, <1>3, <1>8
      <3>2. len' = 0 /\ pc' = "jbig"
        BY <1>1, <1>5, <3>1
      <3>3. L > 1
        <4>1. L = 1 => limit = BihSize /\ last.len + len = BihSize
          BY <1>1 DEF Room
        <4>2. last.len + len < limit
          BY <3>1
        <4>3. L # 1
          BY <1>1, <1>3, <4>1, <4>2, XqxStreamAssumption
        <4>4. L \in Nat /\ L >= 1
          BY <1>2
        <4> HIDE DEF L
        <4> QED  BY <4>3, <4>4
      <3> QED  BY <1>1, <3>1, <3>2, <3>3 DEF Room
    <2>3. chain' # <<>> /\ Last(chain') = filled
      BY <1>2, <2>1 DEF Last
    <2>4. TypeOK'
      <3>1. ASSUME NEW k \in 1..Len(chain')
            PROVE  chain'[k].len <= Room(k)
        <4>1. CASE k = L
          <5>1. chain'[k].len = last.len + amt
            BY <2>1, <4>1
          <5>2. last.len + amt <= Room(k)
            BY <1>1, <1>3, <4>1
          <5> QED  BY <5>1, <5>2
        <4>2. CASE k < L
          <5>1. k \in 1..(L - 1) /\ k \in 1..L
            BY <1>2, <2>1, <4>2
          <5>2. chain'[k] = chain[k]
            BY <2>1, <5>1
          <5> QED  BY <5>1, <5>2 DEF IInv, TypeOK, Room
        <4> QED  BY <1>2, <2>1, <4>1, <4>2
      <3>2. QED  BY <1>5, <1>6, <2>1, <3>1 DEF IInv, TypeOK, Pcs, Room, Buffer
    <2>5. LinkedInv'
      <3>1. chain'[1].from = 0
        BY <1>1, <1>2, <2>1, <2>2 DEF IInv, LinkedInv
      <3>2. ASSUME NEW k \in 1..(L - 1)
            PROVE  /\ chain'[k].len = Room(k)
                   /\ chain'[k + 1].from = chain'[k].from + chain'[k].len
        <4>1. chain'[k] = chain[k] /\ chain'[k + 1].from = chain[k + 1].from
          BY <1>2, <1>4, <2>1
        <4>2. QED  BY <4>1 DEF IInv, LinkedInv
      <3> QED  BY <1>2, <2>1, <3>1, <3>2 DEF LinkedInv
    <2>6. SumInv'
      <3>1. fed' = fed /\ chain' # <<>> /\ Last(chain') = filled
        BY <1>5, <2>3
      <3>2. filled.from = last.from /\ filled.len = last.len + len
        BY <2>2
      <3>3. last.from + (last.len + len) + 0 = fed
        <4>1. last.from \in Nat /\ last.len \in Nat /\ len \in Nat
          BY <1>1, <1>3
        <4>2. last.from + last.len + len = fed
          BY <1>1
        <4> HIDE DEF last
        <4> QED  BY <4>1, <4>2
      <3> QED  BY <2>2, <3>1, <3>2, <3>3 DEF SumInv
    <2>7. TurnInv'
      <3>1. Len(chain') > 1 /\ Last(chain').len < Size
        BY <2>1, <2>2, <2>3
      <3> QED  BY <2>2, <3>1 DEF TurnInv
    <2> QED  BY <2>4, <2>5, <2>6, <2>7 DEF IInv
  <1> QED  BY <1>7, <1>8

\* Every other step leaves the chain alone, or has just completed it.
LEMMA NextPreserves == IInv /\ [Next]_vars => IInv'
  <1> SUFFICES ASSUME IInv, [Next]_vars PROVE IInv'
    OBVIOUS
  <1> USE XqxStreamAssumption DEF IInv, compress, files
  <1>1. CASE UNCHANGED vars
    BY <1>1 DEF vars, TypeOK, LinkedInv, SumInv, TurnInv
  <1>2. CASE Start \/ ReadPage \/ EndInput \/ Fails
    <2>1. /\ UNCHANGED <<document, chain, limit, len, fed, copied>>
          /\ page_num' \in Nat /\ pc' \in Pcs
      <3>1. UNCHANGED <<document, chain, limit, len, fed, copied>>
        BY <1>2 DEF Start, ReadPage, EndInput, Fails
      <3>2. page_num' = page_num \/ page_num' = page_num + 1
        BY <1>2 DEF Start, ReadPage, EndInput, Fails
      <3>3. pc' \in {"pages", "jbig", "even", "overrun", "failed"}
        BY <1>2 DEF Start, ReadPage, EndInput, Fails
      <3> QED BY <3>1, <3>2, <3>3 DEF TypeOK, Pcs
    <2>3. blank' \in BOOLEAN /\ even_pages' \in BOOLEAN
      <3>1. CASE EndInput
        BY <3>1 DEF EndInput, TypeOK
      <3>2. CASE ReadPage \/ Fails
        BY <3>2 DEF ReadPage, Fails, TypeOK
      <3>3. CASE Start
        <4>1. Duplex \in BOOLEAN
          BY DocumentTypes DEF TypeOK
        <4> QED BY <3>3, <4>1 DEF Start, TypeOK
      <3> QED  BY <1>2, <3>1, <3>2, <3>3
    <2>2. \/ pc' \in {"failed", "overrun"}
          \/ chain = <<>> /\ len = 0 /\ pc' \in {"pages", "jbig", "even"}
      BY <1>2 DEF Start, ReadPage, EndInput, Fails, TurnInv
    <2> QED
      BY <2>1, <2>2, <2>3 DEF TypeOK, LinkedInv, SumInv, TurnInv
  <1>3. CASE \E n \in 1..(BihSize + MaxData) : Output(n)
    BY <1>3, OutputPreserves
  <1>4. CASE Copy
    BY <1>4, CopyPreserves
  <1>5. CASE PlaneEnds
    <2>1. chain' = <<>> /\ fed' = 0 /\ pc' \in {"write", "jbig"} /\ len = 0
      BY <1>5 DEF PlaneEnds, TurnInv
    <2> QED
      BY <1>5, <2>1 DEF PlaneEnds, Pcs, TypeOK, LinkedInv, SumInv, TurnInv
  <1>6. CASE \E colored \in BOOLEAN : WritePage(colored)
    <2>1. /\ UNCHANGED <<document, even_pages, blank, chain, limit, len, fed,
                         copied>>
          /\ pc = "write" /\ pc' \in {"even", "pages"} /\ page_num' \in Nat
      BY <1>6 DEF WritePage, TypeOK
    <2> QED
      BY <2>1 DEF Pcs, TypeOK, LinkedInv, SumInv, TurnInv
  <1>7. CASE CopyEven \/ EndDoc
    <2>1. /\ UNCHANGED <<document, even_pages, page_num, blank, chain, limit,
                         len, fed>>
          /\ pc = "even" /\ pc' \in {"even", "done"} /\ copied' \in Nat
      BY <1>7 DEF CopyEven, EndDoc, TypeOK
    <2> QED
      BY <2>1 DEF Pcs, TypeOK, LinkedInv, SumInv, TurnInv
  <1> QED
    BY <1>1, <1>2, <1>3, <1>4, <1>5, <1>6, <1>7 DEF Next

\* TypeOK holds always: in particular output_jbig never writes past the end of
\* a buffer.
THEOREM TypeCorrect == Spec => []TypeOK
  <1>1. IInv => TypeOK
    BY DEF IInv
  <1> QED
    BY <1>1, InitEstablishes, NextPreserves, PTL DEF Spec

\* The chain holds what JBIG delivered, every byte once and in order, for all
\* sizes of header and buffer and all pieces.
THEOREM ChainHoldsEverything == Spec => []ChainIsWhole
  <1>1. IInv => ChainIsWhole
    BY DEF IInv, LinkedInv, SumInv, ChainIsWhole, Room
  <1> QED
    BY <1>1, InitEstablishes, NextPreserves, PTL DEF Spec

-----------------------------------------------------------------------------
(* The framed stream                                                       *)

Planes == IF Color /\ ~blank THEN 4 ELSE 1

\* The chains of a page are complete, and all there when it is written.
ChainsInv ==
  /\ chains \in Seq(Seq(Buffer))
  /\ \A k \in 1..Len(chains) : Complete(chains[k])
  /\ pc \in {"jbig", "copy"} => Len(chains) < Planes
  /\ pc = "write" => Len(chains) = Planes
  /\ pc \in {"start", "pages", "even", "done"} => chains = <<>>

FilesInv ==
  /\ document \in Documents
  /\ doc \in Seq(PlanesRead)
  /\ out \in Seq(Cells)
  /\ Framed(out, 0, Len(out))
  /\ EvenFile(even, seek)
  /\ seek # <<>> \/ blank => even_pages
  /\ even_pages => Duplex
  /\ pc = "start" => ~even_pages

StreamInv == IInv /\ ChainsInv /\ FilesInv

\* The invariant holds at the start, and every step keeps it.
LEMMA StreamInit == Init => StreamInv
  <1> SUFFICES ASSUME Init PROVE StreamInv
    OBVIOUS
  <1>1. IInv
    BY InitEstablishes
  <1>2. ChainsInv
    <2>1. chains = <<>> /\ Len(chains) = 0 /\ pc = "start"
      BY DEF Init
    <2>2. chains \in Seq(Seq(Buffer))
      BY <2>1
    <2>3. \A k \in 1..Len(chains) : Complete(chains[k])
      BY <2>1
    <2> QED BY <2>1, <2>2, <2>3 DEF ChainsInv
  <1>3. FilesInv
    <2>1. /\ document \in Documents /\ doc = <<>> /\ out = <<>>
          /\ even = <<>> /\ seek = <<>> /\ blank = FALSE /\ even_pages = FALSE
      BY DEF Init
    <2>2. doc \in Seq(PlanesRead) /\ out \in Seq(Cells) /\ Len(out) = 0
      BY <2>1
    <2>3. Framed(out, 0, Len(out))
      BY <2>2 DEF Framed
    <2>4. EvenFile(even, seek)
      <3>1. /\ even \in Seq(Cells) /\ seek \in Seq(Records)
            /\ Len(seek) = 0
        BY <2>1
      <3> QED BY <2>1, <3>1 DEF EvenFile
    <2> QED BY <2>1, <2>2, <2>3, <2>4 DEF FilesInv
  <1> QED BY <1>1, <1>2, <1>3 DEF StreamInv

\* What is put out framed stays framed.
LEMMA PutKeeps ==
  ASSUME out \in Seq(Cells), Framed(out, 0, Len(out)),
         NEW cells \in Seq(Cells), Framed(cells, 0, Len(cells)), Put(cells)
  PROVE  out' \in Seq(Cells) /\ Framed(out', 0, Len(out'))
  <1>1. out' = out \o cells
    BY DEF Put
  <1>2. /\ out \o cells \in Seq(Cells)
        /\ Len(out \o cells) = Len(out) + Len(cells)
    BY Joined
  <1>3. Framed(out \o cells, 0, Len(out) + Len(cells))
    BY FramedJoined
  <1> QED BY <1>1, <1>2, <1>3

\* The first and the last cells of the stream are framed.
LEMMA StartDocFramed ==
  StartDoc \in Seq(Cells) /\ Framed(StartDoc, 0, Len(StartDoc))
  <1> DEFINE a == <<Text, Magic, Chunk(START_DOC, 7), Item("length", 84)>>
             o == Others(5)
             e == <<Item("end", 0)>>
             b == a \o o
             s == b \o e
  <1>1. StartDoc = s
    BY DEF StartDoc
  <1>2. /\ Text \in Cells /\ Magic \in Cells /\ Chunk(START_DOC, 7) \in Cells
        /\ Item("length", 84) \in Cells /\ Item("end", 0) \in Cells
    BY DEF Text, Magic, Chunk, Item, Cells, START_DOC
  <1>3. /\ a \in Seq(Cells) /\ Len(a) = 4
        /\ a[1].is = "text" /\ a[2].is = "magic" /\ a[3].n = 7
        /\ a[4].is = "item" /\ a[4].name = "length" /\ a[4].n = 84
    <2>1. a \in Seq(Cells) /\ Len(a) = 4
      BY <1>2
    <2>2. a[1] = Text /\ a[2] = Magic /\ a[3] = Chunk(START_DOC, 7)
          /\ a[4] = Item("length", 84)
      OBVIOUS
    <2> HIDE DEF a
    <2> QED BY <2>1, <2>2 DEF Text, Magic, Chunk, Item
  <1>4. /\ o \in Seq(Cells) /\ Len(o) = 5 /\ \A k \in 1..5 : o[k].is = "item"
    <2>1. /\ o \in Seq(Cells) /\ Len(o) = 5
          /\ \A k \in 1..5 : o[k] = Item("other", 0)
      BY OthersAreCells
    <2> HIDE DEF o
    <2> QED BY <2>1 DEF Item
  <1>5. e \in Seq(Cells) /\ Len(e) = 1 /\ e[1].is = "item"
    BY <1>2 DEF Item
  <1> HIDE DEF a, o, e, b, s
  <1>6. /\ b \in Seq(Cells) /\ Len(b) = 9
        /\ \A k \in 1..9 : b[k] = IF k <= 4 THEN a[k] ELSE o[k - 4]
    <2>1. /\ a \o o \in Seq(Cells) /\ Len(a \o o) = Len(a) + Len(o)
          /\ \A k \in 1..(Len(a) + Len(o)) :
               (a \o o)[k] = IF k <= Len(a) THEN a[k] ELSE o[k - Len(a)]
      <3>1. a \in Seq(Cells) /\ o \in Seq(Cells)
        BY <1>3, <1>4
      <3> QED BY <3>1, Joined
    <2>2. Len(a) = 4 /\ Len(a) + Len(o) = 9
      BY <1>3, <1>4
    <2> QED BY <2>1, <2>2 DEF b
  <1>7. /\ s \in Seq(Cells) /\ Len(s) = 10
        /\ \A k \in 1..10 : s[k] = IF k <= 9 THEN b[k] ELSE e[k - 9]
    <2>1. /\ b \o e \in Seq(Cells) /\ Len(b \o e) = Len(b) + Len(e)
          /\ \A k \in 1..(Len(b) + Len(e)) :
               (b \o e)[k] = IF k <= Len(b) THEN b[k] ELSE e[k - Len(b)]
      BY <1>5, <1>6, Joined
    <2>2. Len(b) = 9 /\ Len(b) + Len(e) = 10
      BY <1>5, <1>6
    <2> QED BY <2>1, <2>2 DEF s
  <1>8. /\ s[1] = a[1] /\ s[2] = a[2] /\ s[3] = a[3] /\ s[4] = a[4]
        /\ \A k \in 5..10 : s[k].is = "item"
    <2>1. s[1] = a[1] /\ s[2] = a[2] /\ s[3] = a[3] /\ s[4] = a[4]
      BY <1>6, <1>7
    <2>2. ASSUME NEW k \in 5..9 PROVE s[k].is = "item"
      <3>1. s[k] = b[k] /\ b[k] = o[k - 4] /\ k - 4 \in 1..5
        BY <1>6, <1>7
      <3> QED BY <1>4, <3>1
    <2>3. s[10].is = "item"
      BY <1>5, <1>7
    <2> QED BY <2>1, <2>2, <2>3
  <1>9. Framed(s, 0, Len(s))
    <2> SUFFICES ASSUME NEW k \in 1..10,
                        s[k].is = "chunk", s[k].type # JBIG, s[k].n > 0
                 PROVE  /\ k + s[k].n <= 10
                        /\ s[k + 1].is = "item" /\ s[k + 1].name = "length"
                        /\ \A j \in (k + 1)..(k + s[k].n) :
                             s[j].is = "bih" => j = k + 3
                        /\ s[k + 1].n = 12 * s[k].n
                             + IF s[k].n >= 3 /\ s[k + 3].is = "bih"
                                 THEN 16 ELSE 0
      <3>1. Len(s) = 10
        BY <1>7
      <3> QED BY <3>1 DEF Framed
    <2>1. k = 3
      BY <1>3, <1>8
    <2>2. \A j \in 4..10 : s[j].is = "item"
      BY <1>3, <1>8
    <2> QED BY <1>3, <1>8, <2>1, <2>2, SMTT(40)
  <1> QED BY <1>1, <1>7, <1>9

LEMMA EndDocFramed ==
  LET s == <<Chunk(END_DOC, 0), Text>>
  IN  s \in Seq(Cells) /\ Framed(s, 0, Len(s))
  <1> DEFINE s == <<Chunk(END_DOC, 0), Text>>
  <1>1. Chunk(END_DOC, 0) \in Cells /\ Text \in Cells
    BY DEF Chunk, Text, Cells, END_DOC
  <1>2. /\ s \in Seq(Cells) /\ Len(s) = 2 /\ s[1] = Chunk(END_DOC, 0)
        /\ s[2] = Text
    BY <1>1
  <1> HIDE DEF s
  <1>3. s[1].n = 0 /\ s[2].is = "text"
    BY <1>2 DEF Chunk, Text
  <1>4. Framed(s, 0, Len(s))
    BY <1>2, <1>3 DEF Framed
  <1> QED BY <1>2, <1>4 DEF s

\* The page that write_page puts out, and the planes it is made of.
LEMMA WrittenPage ==
  ASSUME StreamInv, pc = "write", NEW colored \in BOOLEAN
  PROVE  LET order == Written(colored)
         IN  /\ order \in Seq(1..4)
             /\ \A k \in 1..Len(order) : Complete(chains[order[k]])
             /\ Len(doc) \in Nat /\ Duplex \in BOOLEAN
  <1> DEFINE order == Written(colored)
  <1>1. /\ chains \in Seq(Seq(Buffer)) /\ Len(chains) \in {1, 4}
        /\ \A k \in 1..Len(chains) : Complete(chains[k])
        /\ doc \in Seq(PlanesRead) /\ document \in Documents
    BY DEF StreamInv, ChainsInv, FilesInv, Planes
  <1>2. /\ order \in Seq(1..4)
        /\ \A k \in 1..Len(order) : order[k] \in 1..Len(chains)
    <2>1. CASE Len(chains) = 1
      <3>1. order = <<1>>
        BY <2>1 DEF Written
      <3> QED BY <2>1, <3>1
    <2>2. CASE Len(chains) = 4 /\ document.mono = 0 /\ colored
      <3>1. order = <<3, 2, 1, 4>>
        BY <2>2 DEF Written
      <3>2. /\ order \in Seq(1..4) /\ Len(order) = 4 /\ order[1] = 3
            /\ order[2] = 2 /\ order[3] = 1 /\ order[4] = 4
        BY <3>1
      <3> HIDE DEF order
      <3> QED BY <2>2, <3>2
    <2>3. CASE Len(chains) = 4 /\ document.mono = 0 /\ ~colored
      <3>1. order = <<4>>
        BY <2>3 DEF Written
      <3> QED BY <2>3, <3>1
    <2>4. CASE Len(chains) = 4 /\ document.mono # 0
      <3>1. document.mono \in 1..4
        BY <1>1, <2>4, DocumentsAssumption
      <3>2. order = <<document.mono>>
        BY <2>4, <3>1 DEF Written
      <3> HIDE DEF order
      <3> QED BY <2>4, <3>1, <3>2
    <2> QED BY <1>1, <2>1, <2>2, <2>3, <2>4
  <1> HIDE DEF order
  <1>3. \A k \in 1..Len(order) : Complete(chains[order[k]])
    BY <1>1, <1>2
  <1>4. Len(doc) \in Nat /\ Duplex \in BOOLEAN
    BY <1>1, DocumentTypes
  <1> QED BY <1>2, <1>3, <1>4 DEF order

\* A page goes out framed, or into the file of the even pages.
LEMMA WriteKeeps ==
  ASSUME StreamInv, NEW colored \in BOOLEAN, WritePage(colored)
  PROVE  ChainsInv' /\ FilesInv'
  <1> DEFINE order == Written(colored)
             v == IF page_num = 1 THEN 0 ELSE 1
             cells == PageCells(v, order)
             noted == Noted(page_num)
             r == [b |-> Len(even), e |-> Len(even \o cells),
                   pause |-> IF noted THEN Len(even) + PausePlace ELSE 0]
  <1>1. /\ pc = "write" /\ chains' = <<>> /\ pc' \in {"even", "pages"}
        /\ doc' = Append(doc, Given(order))
        /\ UNCHANGED <<document, blank, even_pages>>
    BY DEF WritePage, Given, PlaneId
  <1>2. \/ /\ blank \/ noted
           /\ even' = even \o cells
           /\ seek' = Append(seek, [b |-> Len(even), e |-> Len(even'),
                        pause |-> IF noted THEN Len(even) + PausePlace
                                           ELSE 0])
           /\ out' = out
        \/ /\ ~(blank \/ noted)
           /\ Put(cells)
           /\ UNCHANGED <<even, seek>>
    BY DEF WritePage, PageCells, Body, PlaneId
  <1>3. /\ order \in Seq(1..4)
        /\ \A k \in 1..Len(order) : Complete(chains[order[k]])
        /\ Len(doc) \in Nat /\ Duplex \in BOOLEAN
    BY <1>1, WrittenPage
  <1>4. v \in Nat
    OBVIOUS
  <1> HIDE DEF order, v
  <1>5. /\ ReadsAs(Rest(order), Given(order))
        /\ cells = StartPage(v) \o Rest(order)
        /\ cells \in Seq(Cells) /\ Framed(cells, 0, Len(cells))
    BY <1>3, <1>4, PageIs
  <1> HIDE DEF cells
  <1>6. /\ document \in Documents /\ doc \in Seq(PlanesRead)
        /\ out \in Seq(Cells) /\ Framed(out, 0, Len(out))
        /\ EvenFile(even, seek)
        /\ seek # <<>> \/ blank => even_pages
        /\ even_pages => Duplex
    BY DEF StreamInv, FilesInv
  <1>7. doc' \in Seq(PlanesRead)
    <2>1. Given(order) \in PlanesRead
      BY <1>5 DEF ReadsAs
    <2> DEFINE g == Given(order)
    <2> HIDE DEF g
    <2>2. Append(doc, g) \in Seq(PlanesRead)
      BY <1>6, <2>1 DEF g
    <2> QED BY <1>1, <2>2 DEF g
  <1>8. ChainsInv'
    <2>1. chains' \in Seq(Seq(Buffer)) /\ Len(chains') = 0
      BY <1>1
    <2>2. \A k \in 1..Len(chains') : Complete(chains'[k])
      BY <2>1
    <2> QED BY <1>1, <2>1, <2>2 DEF ChainsInv
  <1>9. CASE blank \/ noted
    <2>1. /\ even' = even \o cells
          /\ seek' = Append(seek, r)
          /\ out' = out /\ even_pages /\ Duplex
      BY <1>2, <1>6, <1>9 DEF Noted
    <2>2. /\ Len(cells) >= 17 /\ cells[1].is = "chunk" /\ cells[1].type # JBIG
          /\ IsPause(cells[PausePlace])
      <3> DEFINE s == StartPage(v)
                 t == Rest(order)
      <3>1. /\ s \in Seq(Cells) /\ Len(s) = 17
            /\ s[1] = Chunk(START_PAGE, 16)
            /\ s[PausePlace] = Item("pause", v)
        BY <1>3, <1>4, <2>1, StartPageIs DEF PausePlace
      <3>2. t \in Seq(Cells)
        BY <1>5 DEF ReadsAs
      <3> HIDE DEF s, t
      <3>3. /\ Len(s) \in Nat /\ Len(t) \in Nat
            /\ Len(s \o t) = Len(s) + Len(t)
            /\ \A k \in 1..(Len(s) + Len(t)) :
                 (s \o t)[k] = IF k <= Len(s) THEN s[k] ELSE t[k - Len(s)]
        BY <3>1, <3>2, Joined
      <3>4. (s \o t)[1] = s[1] /\ (s \o t)[PausePlace] = s[PausePlace]
        BY <3>1, <3>3 DEF PausePlace
      <3>5. cells = s \o t
        BY <1>5 DEF s, t
      <3>6. Len(cells) >= 17
        BY <3>1, <3>3, <3>5
      <3>7. /\ cells[1] = Chunk(START_PAGE, 16)
            /\ cells[PausePlace] = Item("pause", v)
        BY <3>1, <3>4, <3>5
      <3>8. cells[1].is = "chunk" /\ cells[1].type # JBIG
        BY <3>7 DEF Chunk, START_PAGE, JBIG
      <3>9. IsPause(cells[PausePlace])
        BY <3>7 DEF Item, IsPause
      <3> QED BY <3>6, <3>8, <3>9
    <2>3. noted \in BOOLEAN
      BY DEF Noted
    <2> HIDE DEF noted
    <2>4. EvenFile(even \o cells, Append(seek, r))
      BY <1>5, <1>6, <2>2, <2>3, AppendPage
    <2>5. EvenFile(even', seek')
      BY <2>1, <2>4
    <2>6. (seek' # <<>> \/ blank' => even_pages') /\ (even_pages' => Duplex')
      BY <1>1, <2>1 DEF Duplex
    <2> QED BY <1>1, <1>6, <1>7, <1>8, <2>1, <2>5, <2>6 DEF FilesInv
  <1>10. CASE ~(blank \/ noted)
    <2>1. Put(cells) /\ UNCHANGED <<even, seek>>
      BY <1>2, <1>10
    <2>2. out' \in Seq(Cells) /\ Framed(out', 0, Len(out'))
      BY <1>5, <1>6, <2>1, PutKeeps
    <2> QED BY <1>1, <1>6, <1>7, <1>8, <2>1, <2>2 DEF FilesInv, Duplex
  <1> QED BY <1>9, <1>10

\* A page that is copied is framed, patched or not.
LEMMA CopyEvenKeeps ==
  ASSUME StreamInv, CopyEven
  PROVE  ChainsInv' /\ FilesInv'
  <1> DEFINE j == Len(seek) - copied
             v == IF copied = 0 THEN 2 ELSE 3
             g == PatchedFile(even, seek[j].pause, v)
             cells == SubSeq(g, seek[j].b + 1, seek[j].e)
  <1>1. /\ pc = "even" /\ pc' = "even" /\ copied < Len(seek)
        /\ even' = g /\ Put(cells)
        /\ UNCHANGED <<document, seek, doc, blank, chains, even_pages>>
    BY DEF CopyEven, Patched, PatchedFile, compress
  <1>2. /\ document \in Documents /\ doc \in Seq(PlanesRead)
        /\ out \in Seq(Cells) /\ Framed(out, 0, Len(out))
        /\ EvenFile(even, seek)
        /\ seek # <<>> \/ blank => even_pages
        /\ even_pages => Duplex
        /\ copied \in Nat
    BY DEF StreamInv, FilesInv, IInv, TypeOK
  <1>3. j \in 1..Len(seek) /\ v \in {2, 3}
    <2>1. seek \in Seq(Records) /\ copied \in Nat
      BY <1>2 DEF EvenFile, StreamInv, IInv, TypeOK
    <2> QED BY <1>1, <2>1
  <1> HIDE DEF j, v
  <1>4. EvenFile(g, seek)
    BY <1>2, <1>3, PatchKeeps
  <1> HIDE DEF g
  <1>5. cells \in Seq(Cells) /\ Framed(cells, 0, Len(cells))
    <2> DEFINE b == seek[j].b
               e == seek[j].e
               n == e - b
    <2>1. seek[j] \in Records /\ InFile(g, seek[j]) /\ g \in Seq(Cells)
      BY <1>3, <1>4 DEF EvenFile
    <2>2. b \in Nat /\ e \in Nat
      BY <2>1 DEF Records
    <2>3. b + 17 <= e /\ e <= Len(g) /\ Framed(g, b, e)
      BY <2>1 DEF InFile
    <2> HIDE DEF b, e
    <2>4. /\ n \in Nat /\ b + n = e
          /\ SubSeq(g, b + 1, e) \in Seq(Cells) /\ Len(SubSeq(g, b + 1, e)) = n
          /\ \A i \in 1..n : /\ SubSeq(g, b + 1, e)[i] = g[b + i]
                             /\ g[b + i] \in Cells
      <3>1. n \in Nat /\ b + n = e /\ Len(g) \in Nat
        BY <2>1, <2>2, <2>3
      <3>2. \A i \in 1..n : b + i \in 1..Len(g)
        BY <2>2, <2>3, <3>1
      <3> HIDE DEF n
      <3>3. b + n <= Len(g)
        BY <2>3, <3>1
      <3>4. /\ SubSeq(g, b + 1, b + n) \in Seq(Cells)
            /\ Len(SubSeq(g, b + 1, b + n)) = n
            /\ \A i \in 1..n : SubSeq(g, b + 1, b + n)[i] = g[b + i]
        BY <2>1, <2>2, <3>1, <3>3, Slice
      <3> QED BY <2>1, <3>1, <3>2, <3>4
    <2> HIDE DEF n
    <2>5. cells = SubSeq(g, b + 1, e)
      BY DEF b, e
    <2> HIDE DEF cells
    <2>6. \A i \in 1..n : cells[0 + i] = g[b + i] /\ g[b + i] \in Cells
      BY <2>4, <2>5
    <2>7. Framed(g, b, b + n) /\ 0 \in Nat
      BY <2>3, <2>4
    <2>8. Framed(cells, 0, 0 + n)
      BY <2>2, <2>4, <2>6, <2>7, FramedMoved
    <2> QED BY <2>4, <2>5, <2>8
  <1>6. out' \in Seq(Cells) /\ Framed(out', 0, Len(out'))
    BY <1>1, <1>2, <1>5, PutKeeps
  <1>7. ChainsInv'
    BY <1>1 DEF StreamInv, ChainsInv, Planes, Color
  <1> QED BY <1>1, <1>2, <1>4, <1>6, <1>7 DEF FilesInv, Duplex

\* A plane that ends has a complete chain.
LEMMA PlaneEndsKeeps ==
  ASSUME StreamInv, PlaneEnds
  PROVE  ChainsInv'
  <1>1. /\ pc = "jbig" /\ fed > BihSize /\ chains' = Append(chains, chain)
        /\ pc' = IF Len(chains') = Planes THEN "write" ELSE "jbig"
        /\ UNCHANGED <<document, blank>>
    BY DEF PlaneEnds, Planes
  <1>2. /\ chains \in Seq(Seq(Buffer)) /\ Len(chains) < Planes
        /\ \A k \in 1..Len(chains) : Complete(chains[k])
    BY <1>1 DEF StreamInv, ChainsInv
  <1>3. chain \in Seq(Buffer)
    BY DEF StreamInv, IInv, TypeOK, Buffer
  <1>4. Complete(chain)
    <2>1. chain # <<>>
      <3>1. BihSize \in Nat /\ BihSize # 0
        BY XqxStreamAssumption
      <3> QED BY <1>1, <3>1 DEF StreamInv, IInv, SumInv
    <2>2. Len(chain) > 1 /\ len = 0
      BY <1>1, <2>1 DEF StreamInv, IInv, TurnInv
    <2>3. Last(chain) \in Buffer
      BY <1>3, <2>1 DEF Last
    <2>4. Last(chain).from + Last(chain).len > BihSize
      <3> DEFINE a == Last(chain).from
                 b == Last(chain).len
      <3>1. a \in Nat /\ b \in Nat
        BY <2>3 DEF Buffer
      <3>2. a + b + len = fed
        BY <2>1 DEF StreamInv, IInv, SumInv
      <3> HIDE DEF a, b
      <3>3. a + b > BihSize
        BY <1>1, <2>2, <3>1, <3>2
      <3> QED BY <3>3 DEF a, b
    <2> QED
      BY <1>3, <2>1, <2>2, <2>4 DEF Complete, StreamInv, IInv, LinkedInv
  <1>5. /\ chains' \in Seq(Seq(Buffer)) /\ Len(chains') = Len(chains) + 1
        /\ Len(chains) \in Nat /\ chains'[Len(chains) + 1] = chain
        /\ \A k \in 1..Len(chains) : chains'[k] = chains[k]
    BY <1>1, <1>2, <1>3
  <1>6. \A k \in 1..Len(chains') : Complete(chains'[k])
    <2> SUFFICES ASSUME NEW k \in 1..Len(chains') PROVE Complete(chains'[k])
      OBVIOUS
    <2>1. CASE k = Len(chains) + 1
      BY <1>4, <1>5, <2>1
    <2>2. CASE k # Len(chains) + 1
      <3>1. k \in 1..Len(chains)
        BY <1>5, <2>2
      <3>2. chains'[k] = chains[k] /\ Complete(chains[k])
        BY <1>2, <1>5, <3>1
      <3> QED BY <3>2
    <2> QED BY <2>1, <2>2
  <1>7. Planes' = Planes /\ Planes \in {1, 4}
    BY <1>1 DEF Planes, Color
  <1>8. Len(chains') = Planes \/ Len(chains') < Planes
    BY <1>2, <1>5, <1>7
  <1> QED BY <1>1, <1>5, <1>6, <1>7, <1>8 DEF ChainsInv

\* Every step keeps the invariant.
LEMMA StreamNext == StreamInv /\ [Next]_vars => StreamInv'
  <1> SUFFICES ASSUME StreamInv, [Next]_vars PROVE StreamInv'
    OBVIOUS
  <1>1. IInv'
    BY NextPreserves DEF StreamInv
  <1> SUFFICES ChainsInv' /\ FilesInv'
    BY <1>1 DEF StreamInv
  <1>2. CASE UNCHANGED vars
    BY <1>2 DEF vars, compress, files, StreamInv, ChainsInv, FilesInv, Planes,
                Color, Duplex
  <1>3. CASE Start
    <2>1. /\ pc' = "pages" /\ Put(StartDoc) /\ pc = "start"
          /\ even_pages' \in {FALSE, Duplex}
          /\ UNCHANGED <<document, blank, even, seek, doc, chains>>
      BY <1>3 DEF Start, compress
    <2>2. out' \in Seq(Cells) /\ Framed(out', 0, Len(out'))
      BY <2>1, StartDocFramed, PutKeeps DEF StreamInv, FilesInv
    <2> QED
      BY <2>1, <2>2 DEF StreamInv, ChainsInv, FilesInv, Planes, Color, Duplex
  <1>4. CASE ReadPage
    <2>1. /\ pc = "pages" /\ pc' \in {"jbig", "overrun"}
          /\ UNCHANGED <<document, blank, out, even_pages, even, seek, doc,
                         chains>>
      BY <1>4 DEF ReadPage, compress, files
    <2>2. chains = <<>> /\ Len(chains) = 0 /\ Len(chains) < Planes
      BY <2>1 DEF StreamInv, ChainsInv, Planes
    <2> QED
      BY <2>1, <2>2 DEF StreamInv, ChainsInv, FilesInv, Planes, Color, Duplex
  <1>5. CASE EndInput
    <2>1. /\ pc = "pages" /\ pc' \in {"jbig", "even", "overrun"}
          /\ blank' => even_pages
          /\ UNCHANGED <<document, out, even_pages, even, seek, doc, chains>>
      BY <1>5 DEF EndInput, compress, files
    <2>2. chains = <<>> /\ Len(chains) = 0
      BY <2>1 DEF StreamInv, ChainsInv
    <2>3. ChainsInv'
      BY <2>1, <2>2 DEF StreamInv, ChainsInv, Planes
    <2> QED BY <2>1, <2>3 DEF StreamInv, FilesInv, Duplex
  <1>6. CASE Fails
    <2>1. /\ pc' = "failed"
          /\ UNCHANGED <<document, blank, out, even_pages, even, seek, doc,
                         chains>>
      BY <1>6 DEF Fails, compress, files
    <2> QED
      BY <2>1 DEF StreamInv, ChainsInv, FilesInv, Planes, Color, Duplex
  <1>7. CASE (\E n \in 1..(BihSize + MaxData) : Output(n)) \/ Copy
    <2>1. /\ pc \in {"jbig", "copy"} /\ pc' \in {"jbig", "copy"}
          /\ UNCHANGED <<document, blank, out, even_pages, even, seek, doc,
                         chains>>
      BY <1>7 DEF Output, Copy, files
    <2> QED
      BY <2>1 DEF StreamInv, ChainsInv, FilesInv, Planes, Color, Duplex
  <1>8. CASE PlaneEnds
    <2>1. /\ UNCHANGED <<document, blank, out, even_pages, even, seek, doc>>
          /\ pc' \in {"write", "jbig"}
      BY <1>8 DEF PlaneEnds, files
    <2>2. FilesInv'
      BY <2>1 DEF StreamInv, FilesInv, Duplex
    <2> QED BY <1>8, <2>2, PlaneEndsKeeps
  <1>9. CASE \E colored \in BOOLEAN : WritePage(colored)
    BY <1>9, WriteKeeps
  <1>10. CASE CopyEven
    BY <1>10, CopyEvenKeeps
  <1>11. CASE EndDoc
    <2>1. /\ pc = "even" /\ pc' = "done" /\ Put(<<Chunk(END_DOC, 0), Text>>)
          /\ UNCHANGED <<document, blank, even_pages, even, seek, doc, chains>>
      BY <1>11 DEF EndDoc, compress
    <2>2. out' \in Seq(Cells) /\ Framed(out', 0, Len(out'))
      <3> DEFINE s == <<Chunk(END_DOC, 0), Text>>
      <3>1. s \in Seq(Cells) /\ Framed(s, 0, Len(s)) /\ Put(s)
        BY <2>1, EndDocFramed
      <3> HIDE DEF s
      <3> QED BY <3>1, PutKeeps DEF StreamInv, FilesInv
    <2> QED
      BY <2>1, <2>2 DEF StreamInv, ChainsInv, FilesInv, Planes, Color, Duplex
  <1> QED
    BY <1>2, <1>3, <1>4, <1>5, <1>6, <1>7, <1>8, <1>9, <1>10, <1>11 DEF Next

\* Every chunk of the stream announces the length its items really have, after
\* any history of pages, planes, pieces and patches.
THEOREM StreamFramed == Spec => []LengthsAgree
  <1>1. StreamInv => LengthsAgree
    <2> SUFFICES ASSUME StreamInv,
                        NEW k \in 1..Len(out), out[k].is = "chunk",
                        out[k].type # JBIG, out[k].n > 0
                 PROVE  LET items == (k + 1)..(k + out[k].n)
                            bihs == {j \in items : out[j].is = "bih"}
                        IN  out[k + 1].n = 12 * Cardinality(items)
                                           + 16 * Cardinality(bihs)
      BY DEF LengthsAgree
    <2>1. out \in Seq(Cells) /\ Framed(out, 0, Len(out))
      BY DEF StreamInv, FilesInv
    <2> QED BY <2>1, FramedAgrees
  <1> QED BY <1>1, StreamInit, StreamNext, PTL DEF Spec

-----------------------------------------------------------------------------
(* The document that is read back                                          *)

\* How many pages come out before the even ones.
Half(d) == (Len(d) + 1) \div 2

\* The k-th page that comes out with a temporary file, and all of them when c
\* even ones were copied.
PageAt(d, k) ==
  IF k <= Half(d)
    THEN [pause |-> IF k = 1 THEN 0 ELSE 1, planes |-> d[2 * k - 1]]
    ELSE [pause |-> IF k = Half(d) + 1 THEN 2 ELSE 3,
          planes |-> d[2 * (Len(d) - k) + 2]]

Delivered(d, c) == [k \in 1..(Half(d) + c) |-> PageAt(d, k)]

\* The pages in the order of the input, those after the first with pause w.
InOrder(w, d) ==
  [k \in 1..Len(d) |-> [pause |-> IF k = 1 THEN 0 ELSE w, planes |-> d[k]]]

\* Half of the pages of a document.
LEMMA Halves ==
  ASSUME NEW d, NEW h \in Nat
  PROVE  /\ Len(d) = 2 * h => Half(d) = h /\ Len(d) % 2 = 0
                              /\ Len(d) \div 2 = h
         /\ Len(d) = 2 * h + 1 => Half(d) = h + 1 /\ Len(d) % 2 = 1
                                  /\ Len(d) \div 2 = h
  BY DEF Half

\* What came out is a sequence of pages.
LEMMA DeliveredIs ==
  ASSUME NEW d \in Seq(PlanesRead), NEW c \in Nat,
         NEW n \in Nat, n = Half(d) + c,
         \A k \in 1..n : PageAt(d, k) \in PageRead
  PROVE  /\ Delivered(d, c) \in PagesRead
         /\ Len(Delivered(d, c)) = n
         /\ \A k \in 1..n : Delivered(d, c)[k] = PageAt(d, k)
  <1>1. Delivered(d, c) = [k \in 1..n |-> PageAt(d, k)]
    BY DEF Delivered
  <1>2. [k \in 1..n |-> PageAt(d, k)] \in Seq(PageRead)
    BY IsASeq
  <1>3. Len([k \in 1..n |-> PageAt(d, k)]) = n
    OBVIOUS
  <1> QED BY <1>1, <1>2, <1>3 DEF PagesRead

LEMMA APage ==
  ASSUME NEW v \in Nat, NEW p \in PlanesRead
  PROVE  [pause |-> v, planes |-> p] \in PageRead
  BY DEF PageRead

\* The odd pages come first, the even ones later.
LEMMA FrontPage ==
  ASSUME NEW d \in Seq(PlanesRead), NEW k \in Nat \ {0},
         k <= Half(d), 2 * k - 1 <= Len(d)
  PROVE  /\ PageAt(d, k) =
              [pause |-> IF k = 1 THEN 0 ELSE 1, planes |-> d[2 * k - 1]]
         /\ PageAt(d, k) \in PageRead
  <1>1. 2 * k - 1 \in 1..Len(d)
    OBVIOUS
  <1> DEFINE p == d[2 * k - 1]
             v == IF k = 1 THEN 0 ELSE 1
  <1>2. p \in PlanesRead /\ v \in Nat
    BY <1>1
  <1>3. PageAt(d, k) = [pause |-> v, planes |-> p]
    BY DEF PageAt
  <1> HIDE DEF p, v
  <1>4. PageAt(d, k) \in PageRead
    BY <1>2, <1>3, APage
  <1> QED BY <1>3, <1>4 DEF p, v

LEMMA BackPage ==
  ASSUME NEW d \in Seq(PlanesRead), NEW h \in Nat, Len(d) = 2 * h,
         NEW i \in 1..h
  PROVE  /\ PageAt(d, h + i) =
              [pause |-> IF i = 1 THEN 2 ELSE 3, planes |-> d[2 * (h - i) + 2]]
         /\ PageAt(d, h + i) \in PageRead
         /\ d[2 * (h - i) + 2] \in PlanesRead
  <1>1. 2 * (h - i) + 2 \in 1..Len(d) /\ Half(d) = h
    BY Halves
  <1> DEFINE p == d[2 * (h - i) + 2]
             v == IF i = 1 THEN 2 ELSE 3
  <1>2. p \in PlanesRead /\ v \in Nat
    BY <1>1
  <1>3. PageAt(d, h + i) = [pause |-> v, planes |-> p]
    <2>1. /\ ~(h + i <= Half(d)) /\ (h + i = Half(d) + 1 <=> i = 1)
          /\ 2 * (Len(d) - (h + i)) + 2 = 2 * (h - i) + 2
      BY <1>1
    <2>2. PageAt(d, h + i) =
            [pause |-> IF h + i = Half(d) + 1 THEN 2 ELSE 3,
             planes |-> d[2 * (Len(d) - (h + i)) + 2]]
      BY <2>1 DEF PageAt
    <2> QED BY <2>1, <2>2
  <1> HIDE DEF p, v
  <1>4. PageAt(d, h + i) \in PageRead
    BY <1>2, <1>3, APage
  <1> QED BY <1>2, <1>3, <1>4 DEF p, v

\* A function on an initial segment of the numbers is a sequence.
LEMMA FunctionIsASeq ==
  ASSUME NEW S, NEW n \in Nat, NEW f \in [1..n -> S]
  PROVE  f \in Seq(S) /\ Len(f) = n
  OBVIOUS

\* What came out of a document without a temporary file.
LEMMA OneSidedOnes ==
  ASSUME NEW d \in Seq(PlanesRead), NEW w \in Nat
  PROVE  /\ InOrder(w, d) \in PagesRead
         /\ Len(InOrder(w, d)) = Len(d)
         /\ \A k \in 1..Len(d) : InOrder(w, d)[k] =
              [pause |-> IF k = 1 THEN 0 ELSE w, planes |-> d[k]]
  <1> DEFINE n == Len(d)
             page(k) == [pause |-> IF k = 1 THEN 0 ELSE w, planes |-> d[k]]
             s == InOrder(w, d)
  <1>1. n \in Nat /\ \A k \in 1..n : d[k] \in PlanesRead
    OBVIOUS
  <1>2. s = [k \in 1..n |-> page(k)]
    BY DEF InOrder
  <1> HIDE DEF n, s
  <1>3. \A k \in 1..n : page(k) \in PageRead
    <2> TAKE k \in 1..n
    <2> DEFINE v == IF k = 1 THEN 0 ELSE w
    <2>1. v \in Nat /\ d[k] \in PlanesRead
      BY <1>1
    <2> HIDE DEF v
    <2>2. [pause |-> v, planes |-> d[k]] \in PageRead
      BY <2>1, APage
    <2> QED BY <2>2 DEF v
  <1> HIDE DEF page
  <1>4. \A k \in 1..n : s[k] = page(k)
    BY <1>2, Zenon
  <1>5. s \in [1..n -> PageRead]
    BY <1>2, <1>3, Zenon
  <1>6. s \in PagesRead /\ Len(s) = n
    BY <1>1, <1>5, FunctionIsASeq DEF PagesRead
  <1> QED BY <1>4, <1>6 DEF n, s, page

\* What came out of a document with h pages on either side, c even ones
\* copied, and of one that has an odd page more.
LEMMA EvenOnes ==
  ASSUME NEW d \in Seq(PlanesRead), NEW h \in Nat, Len(d) = 2 * h,
         NEW c \in 0..h
  PROVE  /\ Delivered(d, c) \in PagesRead
         /\ Len(Delivered(d, c)) = h + c
         /\ \A k \in 1..h : Delivered(d, c)[k] =
              [pause |-> IF k = 1 THEN 0 ELSE 1, planes |-> d[2 * k - 1]]
         /\ \A i \in 1..c : Delivered(d, c)[h + i] =
              [pause |-> IF i = 1 THEN 2 ELSE 3, planes |-> d[2 * (h - i) + 2]]
  <1> DEFINE n == h + c
             s == Delivered(d, c)
  <1>1. /\ Half(d) = h /\ n \in Nat /\ c \in Nat
        /\ n = Half(d) + c
    <2>1. Half(d) = h
      BY Halves
    <2> QED BY <2>1
  <1>2. \A k \in 1..h :
          /\ PageAt(d, k) =
               [pause |-> IF k = 1 THEN 0 ELSE 1, planes |-> d[2 * k - 1]]
          /\ PageAt(d, k) \in PageRead
    <2> TAKE k \in 1..h
    <2>1. k <= Half(d) /\ 2 * k - 1 <= Len(d) /\ k \in Nat \ {0}
      BY <1>1
    <2> QED BY <2>1, FrontPage
  <1>3. \A i \in 1..c :
          /\ PageAt(d, h + i) =
               [pause |-> IF i = 1 THEN 2 ELSE 3,
                planes |-> d[2 * (h - i) + 2]]
          /\ PageAt(d, h + i) \in PageRead
    <2> TAKE i \in 1..c
    <2>1. i \in 1..h
      OBVIOUS
    <2> QED BY <2>1, BackPage
  <1>4. \A k \in 1..n : PageAt(d, k) \in PageRead
    <2> TAKE k \in 1..n
    <2>1. CASE k <= h
      <3>1. k \in 1..h
        BY <2>1
      <3> QED BY <1>2, <3>1
    <2>2. CASE ~(k <= h)
      <3>1. k - h \in 1..c /\ h + (k - h) = k
        BY <2>2
      <3>2. PageAt(d, h + (k - h)) \in PageRead
        BY <1>3, <3>1
      <3> QED BY <3>1, <3>2
    <2> QED BY <2>1, <2>2
  <1> HIDE DEF n
  <1>5. /\ s \in PagesRead /\ Len(s) = n
        /\ \A k \in 1..n : s[k] = PageAt(d, k)
    BY <1>1, <1>4, DeliveredIs
  <1> HIDE DEF s
  <1>6. /\ \A k \in 1..h : k \in 1..n
        /\ \A i \in 1..c : h + i \in 1..n
    BY DEF n
  <1> QED BY <1>2, <1>3, <1>5, <1>6 DEF n, s

LEMMA OddOnes ==
  ASSUME NEW d \in Seq(PlanesRead), NEW h \in Nat, Len(d) = 2 * h + 1
  PROVE  /\ Delivered(d, 0) \in PagesRead
         /\ Len(Delivered(d, 0)) = h + 1
         /\ \A k \in 1..(h + 1) : Delivered(d, 0)[k] =
              [pause |-> IF k = 1 THEN 0 ELSE 1, planes |-> d[2 * k - 1]]
  <1> DEFINE n == h + 1
             s == Delivered(d, 0)
  <1>1. /\ Half(d) = n /\ n \in Nat /\ 0 \in Nat
        /\ n = Half(d) + 0
    <2>1. Half(d) = n
      BY Halves
    <2> QED BY <2>1
  <1>2. \A k \in 1..n :
          /\ PageAt(d, k) =
               [pause |-> IF k = 1 THEN 0 ELSE 1, planes |-> d[2 * k - 1]]
          /\ PageAt(d, k) \in PageRead
    <2> TAKE k \in 1..n
    <2>1. k <= Half(d) /\ 2 * k - 1 <= Len(d) /\ k \in Nat \ {0}
      BY <1>1
    <2> QED BY <2>1, FrontPage
  <1> HIDE DEF n
  <1>3. /\ s \in PagesRead /\ Len(s) = n
        /\ \A k \in 1..n : s[k] = PageAt(d, k)
    BY <1>1, <1>2, DeliveredIs, ZenonT(40)
  <1> QED BY <1>2, <1>3 DEF n

\* One page more has come out.
LEMMA OneMore ==
  ASSUME NEW s \in PagesRead, NEW t \in PagesRead, NEW x \in PageRead,
         Len(t) = Len(s) + 1, t[Len(s) + 1] = x,
         \A k \in 1..Len(s) : t[k] = s[k]
  PROVE  t = Append(s, x)
  <1> DEFINE a == Append(s, x)
             n == Len(s)
  <1>1. /\ n \in Nat /\ a \in Seq(PageRead) /\ t \in Seq(PageRead)
        /\ Len(a) = n + 1 /\ a[n + 1] = x /\ \A k \in 1..n : a[k] = s[k]
    BY DEF PagesRead
  <1> HIDE DEF a, n
  <1>2. \A k \in 1..Len(t) : t[k] = a[k]
    <2> SUFFICES ASSUME NEW k \in 1..Len(t) PROVE t[k] = a[k]
      OBVIOUS
    <2>1. CASE k = n + 1
      BY <1>1, <2>1 DEF n
    <2>2. CASE k # n + 1
      <3>1. k \in 1..n
        BY <1>1, <2>2 DEF n
      <3> QED BY <1>1, <3>1 DEF n
    <2> QED BY <2>1, <2>2
  <1>3. t = a
    BY <1>1, <1>2, SeqEqual DEF n
  <1> QED BY <1>3 DEF a

\* A page that goes out at once.
LEMMA OneSided ==
  ASSUME NEW d \in Seq(PlanesRead), NEW p \in PlanesRead, NEW w \in Nat
  PROVE  InOrder(w, Append(d, p)) =
           Append(InOrder(w, d),
                  [pause |-> IF Len(d) = 0 THEN 0 ELSE w, planes |-> p])
  <1> DEFINE a == Append(d, p)
             n == Len(d)
             s == InOrder(w, d)
             t == InOrder(w, a)
             x == [pause |-> IF n = 0 THEN 0 ELSE w, planes |-> p]
  <1>1. /\ a \in Seq(PlanesRead) /\ n \in Nat /\ Len(a) = n + 1
        /\ a[n + 1] = p /\ \A k \in 1..n : a[k] = d[k]
    BY Appended
  <1> HIDE DEF a
  <1>2. /\ s \in PagesRead /\ Len(s) = n
        /\ \A k \in 1..n : s[k] =
             [pause |-> IF k = 1 THEN 0 ELSE w, planes |-> d[k]]
    BY OneSidedOnes
  <1>3. /\ t \in PagesRead /\ Len(t) = n + 1
        /\ \A k \in 1..(n + 1) : t[k] =
             [pause |-> IF k = 1 THEN 0 ELSE w, planes |-> a[k]]
    BY <1>1, OneSidedOnes
  <1> HIDE DEF s, t, n
  <1>4. \A k \in 1..Len(s) : t[k] = s[k]
    BY <1>1, <1>2, <1>3
  <1>5. t[Len(s) + 1] = x
    <2>1. n + 1 \in 1..(n + 1) /\ (n + 1 = 1 <=> n = 0)
      BY <1>1
    <2> QED BY <1>1, <1>2, <1>3, <2>1
  <1>6. x \in PageRead
    BY DEF PageRead
  <1> HIDE DEF x
  <1>7. t = Append(s, x)
    BY <1>1, <1>2, <1>3, <1>4, <1>5, <1>6, OneMore
  <1> QED BY <1>7 DEF a, s, t, x, n

\* An odd page of a document that is printed on both sides, and an even one.
LEMMA OddPage ==
  ASSUME NEW d \in Seq(PlanesRead), NEW p \in PlanesRead, NEW h \in Nat,
         Len(d) = 2 * h
  PROVE  Delivered(Append(d, p), 0) =
           Append(Delivered(d, 0),
                  [pause |-> IF Len(d) = 0 THEN 0 ELSE 1, planes |-> p])
  <1> DEFINE a == Append(d, p)
             s == Delivered(d, 0)
             t == Delivered(a, 0)
             x == [pause |-> IF Len(d) = 0 THEN 0 ELSE 1, planes |-> p]
  <1>1. /\ a \in Seq(PlanesRead) /\ Len(d) \in Nat /\ Len(a) = Len(d) + 1
        /\ a[Len(d) + 1] = p /\ \A k \in 1..Len(d) : a[k] = d[k]
    BY Appended
  <1> HIDE DEF a
  <1>2. /\ s \in PagesRead /\ Len(s) = h + 0
        /\ \A k \in 1..h : s[k] =
             [pause |-> IF k = 1 THEN 0 ELSE 1, planes |-> d[2 * k - 1]]
    <2>1. 0 \in 0..h
      OBVIOUS
    <2> QED BY <2>1, EvenOnes, ZenonT(40)
  <1>3. /\ t \in PagesRead /\ Len(t) = h + 1
        /\ \A k \in 1..(h + 1) : t[k] =
             [pause |-> IF k = 1 THEN 0 ELSE 1, planes |-> a[2 * k - 1]]
    <2>1. Len(a) = 2 * h + 1
      BY <1>1
    <2> QED BY <1>1, <2>1, OddOnes
  <1> HIDE DEF s, t
  <1>4. \A k \in 1..h : t[k] = s[k]
    <2> TAKE k \in 1..h
    <2>1. 2 * k - 1 \in 1..Len(d) /\ k \in 1..(h + 1)
      OBVIOUS
    <2>2. a[2 * k - 1] = d[2 * k - 1]
      BY <1>1, <2>1
    <2> QED BY <1>2, <1>3, <2>1, <2>2
  <1>5. t[h + 1] = x
    <2>1. /\ 2 * (h + 1) - 1 = Len(d) + 1
          /\ h + 1 \in 1..(h + 1) /\ (h + 1 = 1 <=> Len(d) = 0)
      OBVIOUS
    <2> QED BY <1>1, <1>3, <2>1
  <1>6. x \in PageRead
    BY DEF PageRead
  <1>7. Len(s) = h
    BY <1>2
  <1> HIDE DEF x
  <1>8. t = Append(s, x)
    BY <1>2, <1>3, <1>4, <1>5, <1>6, <1>7, OneMore
  <1> QED BY <1>8 DEF a, s, t, x

LEMMA EvenPage ==
  ASSUME NEW d \in Seq(PlanesRead), NEW p \in PlanesRead, NEW h \in Nat,
         Len(d) = 2 * h + 1
  PROVE  Delivered(Append(d, p), 0) = Delivered(d, 0)
  <1> DEFINE a == Append(d, p)
             s == Delivered(d, 0)
             t == Delivered(a, 0)
             g == h + 1
  <1>1. /\ a \in Seq(PlanesRead) /\ Len(d) \in Nat /\ Len(a) = Len(d) + 1
        /\ a[Len(d) + 1] = p /\ \A k \in 1..Len(d) : a[k] = d[k]
    BY Appended
  <1> HIDE DEF a
  <1>2. /\ s \in PagesRead /\ Len(s) = h + 1
        /\ \A k \in 1..(h + 1) : s[k] =
             [pause |-> IF k = 1 THEN 0 ELSE 1, planes |-> d[2 * k - 1]]
    BY OddOnes
  <1>3. /\ t \in PagesRead /\ Len(t) = g + 0
        /\ \A k \in 1..g : t[k] =
             [pause |-> IF k = 1 THEN 0 ELSE 1, planes |-> a[2 * k - 1]]
    <2>1. Len(a) = 2 * g /\ g \in Nat /\ 0 \in 0..g
      BY <1>1
    <2> HIDE DEF g
    <2> QED BY <1>1, <2>1, EvenOnes, ZenonT(40)
  <1> HIDE DEF s, t
  <1>4. \A k \in 1..(h + 1) : t[k] = s[k]
    <2> TAKE k \in 1..(h + 1)
    <2>1. 2 * k - 1 \in 1..Len(d)
      OBVIOUS
    <2>2. a[2 * k - 1] = d[2 * k - 1]
      BY <1>1, <2>1
    <2> QED BY <1>2, <1>3, <2>2
  <1>5. t = s
    BY <1>2, <1>3, <1>4, SeqEqual DEF PagesRead
  <1> QED BY <1>5 DEF a, s, t

\* An even page that is copied, the last one first.
LEMMA CopiedPage ==
  ASSUME NEW d \in Seq(PlanesRead), NEW h \in Nat, Len(d) = 2 * h,
         NEW c \in Nat, c < h
  PROVE  /\ d[2 * (h - c)] \in PlanesRead
         /\ Delivered(d, c) \in PagesRead
         /\ Delivered(d, c + 1) =
              Append(Delivered(d, c),
                     [pause |-> IF c = 0 THEN 2 ELSE 3,
                      planes |-> d[2 * (h - c)]])
  <1> DEFINE e == c + 1
             s == Delivered(d, c)
             t == Delivered(d, e)
             x == [pause |-> IF c = 0 THEN 2 ELSE 3, planes |-> d[2 * (h - c)]]
  <1>1. c \in 0..h /\ e \in 0..h /\ e \in 1..h /\ e = c + 1
    OBVIOUS
  <1> HIDE DEF e
  <1>2. /\ s \in PagesRead /\ Len(s) = h + c
        /\ \A k \in 1..h : s[k] =
             [pause |-> IF k = 1 THEN 0 ELSE 1, planes |-> d[2 * k - 1]]
        /\ \A i \in 1..c : s[h + i] =
             [pause |-> IF i = 1 THEN 2 ELSE 3, planes |-> d[2 * (h - i) + 2]]
    BY <1>1, EvenOnes, ZenonT(120)
  <1>3. /\ t \in PagesRead /\ Len(t) = h + e
        /\ \A k \in 1..h : t[k] =
             [pause |-> IF k = 1 THEN 0 ELSE 1, planes |-> d[2 * k - 1]]
        /\ \A i \in 1..e : t[h + i] =
             [pause |-> IF i = 1 THEN 2 ELSE 3, planes |-> d[2 * (h - i) + 2]]
    BY <1>1, EvenOnes, ZenonT(120)
  <1> HIDE DEF s, t
  <1>4. \A k \in 1..(h + c) : t[k] = s[k]
    <2> TAKE k \in 1..(h + c)
    <2>1. CASE k <= h
      <3>1. k \in 1..h
        BY <2>1
      <3> QED BY <1>2, <1>3, <3>1
    <2>2. CASE ~(k <= h)
      <3> DEFINE i == k - h
      <3>1. i \in 1..c /\ i \in 1..e /\ h + i = k
        BY <1>1, <2>2
      <3> HIDE DEF i
      <3>2. t[h + i] = s[h + i]
        BY <1>2, <1>3, <3>1
      <3> QED BY <3>1, <3>2
    <2> QED BY <2>1, <2>2
  <1>5. t[(h + c) + 1] = x
    <2>1. /\ e \in 1..e /\ h + e = (h + c) + 1 /\ (e = 1 <=> c = 0)
          /\ 2 * (h - e) + 2 = 2 * (h - c)
      BY <1>1
    <2> QED BY <1>3, <2>1
  <1>6. d[2 * (h - c)] \in PlanesRead
    <2>1. 2 * (h - c) \in 1..Len(d)
      OBVIOUS
    <2> QED BY <2>1
  <1>7. x \in PageRead
    BY <1>6 DEF PageRead
  <1>8. Len(t) = Len(s) + 1 /\ t[Len(s) + 1] = x
    BY <1>1, <1>2, <1>3, <1>5
  <1>9. \A k \in 1..Len(s) : t[k] = s[k]
    BY <1>2, <1>4
  <1> HIDE DEF x
  <1>10. t = Append(s, x)
    BY <1>2, <1>3, <1>7, <1>8, <1>9, OneMore
  <1> QED BY <1>1, <1>2, <1>6, <1>10 DEF s, t, x

-----------------------------------------------------------------------------
(* The pages in the temporary file                                         *)

\* Two files that agree there have the same slice.
LEMMA SameSlice ==
  ASSUME NEW s \in Seq(Cells), NEW u \in Seq(Cells),
         NEW b \in Nat, NEW e \in Nat,
         b <= e, e <= Len(s), e <= Len(u),
         \A k \in (b + 1)..e : u[k] = s[k]
  PROVE  SubSeq(u, b + 1, e) = SubSeq(s, b + 1, e)
  <1> DEFINE n == e - b
             t == SubSeq(s, b + 1, b + n)
             w == SubSeq(u, b + 1, b + n)
  <1>1. n \in Nat /\ b + n = e /\ b + n <= Len(s) /\ b + n <= Len(u)
    OBVIOUS
  <1> HIDE DEF n
  <1>2. t \in Seq(Cells) /\ Len(t) = n /\ \A i \in 1..n : t[i] = s[b + i]
    BY <1>1, Slice
  <1>3. w \in Seq(Cells) /\ Len(w) = n /\ \A i \in 1..n : w[i] = u[b + i]
    BY <1>1, Slice
  <1> HIDE DEF t, w
  <1>4. \A i \in 1..n : w[i] = t[i]
    <2> TAKE i \in 1..n
    <2>1. b + i \in (b + 1)..e
      BY <1>1
    <2> QED BY <1>2, <1>3, <2>1
  <1>5. w = t
    BY <1>2, <1>3, <1>4, SeqEqual
  <1> QED BY <1>1, <1>5 DEF t, w

\* What was put at the end of a file.
LEMMA LastSlice ==
  ASSUME NEW s \in Seq(Cells), NEW t \in Seq(Cells)
  PROVE  SubSeq(s \o t, Len(s) + 1, Len(s \o t)) = t
  <1> DEFINE u == s \o t
             b == Len(s)
             n == Len(t)
             w == SubSeq(u, b + 1, b + n)
  <1>1. /\ u \in Seq(Cells) /\ b \in Nat /\ n \in Nat /\ Len(u) = b + n
        /\ \A k \in 1..(b + n) : u[k] = IF k <= b THEN s[k] ELSE t[k - b]
    BY Joined
  <1> HIDE DEF u, b, n
  <1>2. w \in Seq(Cells) /\ Len(w) = n /\ \A i \in 1..n : w[i] = u[b + i]
    <2>1. b + n <= Len(u)
      BY <1>1
    <2> QED BY <1>1, <2>1, Slice
  <1> HIDE DEF w
  <1>3. \A i \in 1..n : w[i] = t[i]
    <2> TAKE i \in 1..n
    <2>1. b + i \in 1..(b + n) /\ ~(b + i <= b) /\ b + i - b = i
      BY <1>1
    <2> QED BY <1>1, <1>2, <2>1
  <1>4. w = t
    BY <1>2, <1>3, SeqEqual DEF n
  <1> QED BY <1>1, <1>4 DEF u, b, w

\* A page that starts with s and has the planes p is in the file, where r
\* says, and its pause where it is patched.
PageIn(s, f, r, p) ==
  \E t : ReadsAs(t, p) /\ SubSeq(f, r.b + 1, r.e) = s \o t

StoredAs(s, f, r, p) == r.pause = r.b + PausePlace /\ PageIn(s, f, r, p)

\* A page stays where nothing is changed.
LEMMA StoredStays ==
  ASSUME NEW s, NEW p, NEW f \in Seq(Cells), NEW g \in Seq(Cells),
         NEW r \in Records, StoredAs(s, f, r, p), r.b <= r.e,
         r.e <= Len(f), r.e <= Len(g),
         \A k \in (r.b + 1)..r.e : g[k] = f[k]
  PROVE  StoredAs(s, g, r, p)
  <1> DEFINE b == r.b
             e == r.e
  <1>1. b \in Nat /\ e \in Nat
    BY DEF Records
  <1>2. /\ b <= e /\ e <= Len(f) /\ e <= Len(g)
        /\ \A k \in (b + 1)..e : g[k] = f[k]
    OBVIOUS
  <1> HIDE DEF b, e
  <1>3. SubSeq(g, b + 1, e) = SubSeq(f, b + 1, e)
    BY <1>1, <1>2, SameSlice
  <1>4. SubSeq(g, r.b + 1, r.e) = SubSeq(f, r.b + 1, r.e)
    BY <1>3 DEF b, e
  <1> QED BY <1>4 DEF StoredAs, PageIn

\* With duplex a page starts with 17 cells, the 15th has the pause.
LEMMA DuplexStart ==
  ASSUME NEW v \in Nat, Duplex, Duplex \in BOOLEAN
  PROVE  /\ StartPage(v) \in Seq(Cells) /\ Len(StartPage(v)) = 17
         /\ StartPage(v)[1] = Chunk(START_PAGE, 16)
         /\ StartPage(v)[2] = Item("length", 192)
         /\ \A k \in 3..17 :
              StartPage(v)[k] = IF k = PausePlace THEN Item("pause", v)
                                ELSE IF k = 17 THEN Item("end", 0)
                                ELSE Item("other", 0)
  <1> DEFINE s == StartPage(v)
             n == IF Duplex THEN 16 ELSE 15
  <1>1. n = 16 /\ n + 1 = 17 /\ 12 * n = 192
    OBVIOUS
  <1>2. /\ s \in Seq(Cells) /\ Len(s) = n + 1
        /\ s[1] = Chunk(START_PAGE, n)
        /\ s[2] = Item("length", 12 * n)
        /\ \A k \in 3..(n + 1) :
             s[k] = IF k = PausePlace /\ Duplex THEN Item("pause", v)
                    ELSE IF k = n + 1 THEN Item("end", 0)
                    ELSE Item("other", 0)
    BY StartPageIs
  <1> HIDE DEF s, n
  <1>3. /\ Len(s) = 17 /\ s[1] = Chunk(START_PAGE, 16)
        /\ s[2] = Item("length", 192)
    BY <1>1, <1>2
  <1>4. \A k \in 3..17 :
             s[k] = IF k = PausePlace THEN Item("pause", v)
                    ELSE IF k = 17 THEN Item("end", 0)
                    ELSE Item("other", 0)
    <2> TAKE k \in 3..17
    <2>1. k \in 3..(n + 1)
      BY <1>1
    <2>2. s[k] = IF k = PausePlace /\ Duplex THEN Item("pause", v)
                 ELSE IF k = n + 1 THEN Item("end", 0)
                 ELSE Item("other", 0)
      BY <1>2, <2>1, Zenon
    <2> QED BY <1>1, <2>2
  <1> QED BY <1>2, <1>3, <1>4 DEF s

\* The page with another pause in it is the page that start_page would have
\* begun with that pause.
LEMMA StoredPatched ==
  ASSUME NEW p, NEW f \in Seq(Cells), NEW g \in Seq(Cells), NEW r \in Records,
         Duplex, Duplex \in BOOLEAN, StoredAs(StartPage(1), f, r, p),
         r.b + 17 <= r.e, r.e <= Len(f), NEW v \in Nat,
         Patches(f, g, r.pause, v)
  PROVE  PageIn(StartPage(v), g, r, p)
  <1> DEFINE b == r.b
             e == r.e
             n == e - b
             place == b + PausePlace
             x == SubSeq(f, b + 1, b + n)
             y == SubSeq(g, b + 1, b + n)
             s == StartPage(1)
             w == StartPage(v)
  <1>1. b \in Nat /\ e \in Nat /\ b + 17 <= e /\ e <= Len(f)
    BY DEF Records
  <1>2. PICK t : ReadsAs(t, p) /\ SubSeq(f, b + 1, e) = s \o t
    BY DEF StoredAs, PageIn
  <1>3. /\ Len(g) = Len(f) /\ place \in 1..Len(f)
        /\ \A k \in 1..Len(f) : k # place => g[k] = f[k]
        /\ g[place] = [f[place] EXCEPT !.n = v]
    <2>1. r.pause = place
      BY DEF StoredAs
    <2>2. r.pause # 0
      BY <1>1, <2>1 DEF PausePlace
    <2> HIDE DEF place
    <2> QED BY <2>1, <2>2 DEF Patches
  <1>4. /\ s \in Seq(Cells) /\ Len(s) = 17
        /\ s[1] = Chunk(START_PAGE, 16) /\ s[2] = Item("length", 192)
        /\ \A k \in 3..17 :
             s[k] = IF k = PausePlace THEN Item("pause", 1)
                    ELSE IF k = 17 THEN Item("end", 0) ELSE Item("other", 0)
    BY DuplexStart
  <1>5. /\ w \in Seq(Cells) /\ Len(w) = 17
        /\ w[1] = Chunk(START_PAGE, 16) /\ w[2] = Item("length", 192)
        /\ \A k \in 3..17 :
             w[k] = IF k = PausePlace THEN Item("pause", v)
                    ELSE IF k = 17 THEN Item("end", 0) ELSE Item("other", 0)
    BY DuplexStart
  <1>6. t \in Seq(Cells)
    BY <1>2 DEF ReadsAs
  <1> HIDE DEF s, w, b, e
  <1>7. n \in Nat /\ b + n = e /\ n >= 17
    BY <1>1
  <1> HIDE DEF n
  <1>8. x \in Seq(Cells) /\ Len(x) = n /\ \A i \in 1..n : x[i] = f[b + i]
    BY <1>1, <1>7, Slice
  <1>9. y \in Seq(Cells) /\ Len(y) = n /\ \A i \in 1..n : y[i] = g[b + i]
    <2>1. b + n <= Len(g)
      BY <1>1, <1>3, <1>7
    <2> QED BY <1>1, <1>7, <2>1, Slice
  <1>10. x = s \o t
    BY <1>2, <1>7
  <1> HIDE DEF x, y
  <1>11. /\ Len(t) \in Nat /\ Len(s \o t) = 17 + Len(t)
         /\ \A k \in 1..(17 + Len(t)) :
              (s \o t)[k] = IF k <= 17 THEN s[k] ELSE t[k - 17]
    <2>1. /\ Len(t) \in Nat /\ Len(s \o t) = Len(s) + Len(t)
          /\ \A k \in 1..(Len(s) + Len(t)) :
               (s \o t)[k] = IF k <= Len(s) THEN s[k] ELSE t[k - Len(s)]
      <3>1. s \in Seq(Cells)
        BY <1>4
      <3> QED BY <1>6, <3>1, Joined
    <2> QED BY <1>4, <2>1, SMTT(40)
  <1>12. /\ w \o t \in Seq(Cells) /\ Len(w \o t) = 17 + Len(t)
         /\ \A k \in 1..(17 + Len(t)) :
              (w \o t)[k] = IF k <= 17 THEN w[k] ELSE t[k - 17]
    <2>1. /\ w \o t \in Seq(Cells) /\ Len(w \o t) = Len(w) + Len(t)
          /\ \A k \in 1..(Len(w) + Len(t)) :
               (w \o t)[k] = IF k <= Len(w) THEN w[k] ELSE t[k - Len(w)]
      <3>1. w \in Seq(Cells)
        BY <1>5
      <3> QED BY <1>6, <3>1, Joined
    <2> QED BY <1>5, <2>1, SMTT(40)
  <1> DEFINE z == w \o t
  <1>13. /\ n = 17 + Len(t)
         /\ \A k \in 1..n : x[k] = IF k <= 17 THEN s[k] ELSE t[k - 17]
    BY <1>8, <1>10, <1>11
  <1>14. /\ z \in Seq(Cells) /\ Len(z) = n
         /\ \A k \in 1..n : z[k] = IF k <= 17 THEN w[k] ELSE t[k - 17]
    BY <1>12, <1>13
  <1> HIDE DEF z
  <1>15. \A k \in 1..17 : k # PausePlace => w[k] = s[k]
    <2> TAKE k \in 1..17
    <2> HAVE k # PausePlace
    <2>1. CASE k = 1
      BY <1>4, <1>5, <2>1
    <2>2. CASE k = 2
      BY <1>4, <1>5, <2>2
    <2>3. CASE k \notin {1, 2}
      <3>1. k \in 3..17
        BY <2>3
      <3>2. s[k] = IF k = 17 THEN Item("end", 0) ELSE Item("other", 0)
        BY <1>4, <3>1
      <3>3. w[k] = IF k = 17 THEN Item("end", 0) ELSE Item("other", 0)
        BY <1>5, <3>1
      <3> QED BY <3>2, <3>3
    <2> QED BY <2>1, <2>2, <2>3
  <1>16. w[PausePlace] = [s[PausePlace] EXCEPT !.n = v]
    <2>1. PausePlace \in 3..17
      BY DEF PausePlace
    <2>2. s[PausePlace] = Item("pause", 1) /\ w[PausePlace] = Item("pause", v)
      BY <1>4, <1>5, <2>1
    <2> QED BY <2>2 DEF Item
  <1>17. \A k \in 1..n : y[k] = z[k]
    <2> TAKE k \in 1..n
    <2>1. b + k \in 1..Len(f) /\ y[k] = g[b + k] /\ x[k] = f[b + k]
      BY <1>1, <1>7, <1>8, <1>9
    <2>2. CASE k = PausePlace
      <3>1. k <= 17 /\ b + k = place
        BY <2>2 DEF PausePlace
      <3>2. y[k] = [x[k] EXCEPT !.n = v]
        BY <1>3, <2>1, <3>1
      <3>3. x[k] = s[k] /\ z[k] = w[k]
        BY <1>13, <1>14, <3>1
      <3> QED BY <1>16, <2>2, <3>2, <3>3
    <2>3. CASE k # PausePlace
      <3>1. b + k # place
        BY <1>1, <2>3 DEF PausePlace
      <3>2. y[k] = x[k]
        BY <1>3, <2>1, <3>1
      <3>3. CASE k <= 17
        <4>1. k \in 1..17
          BY <3>3
        <4>2. x[k] = s[k] /\ z[k] = w[k]
          BY <1>13, <1>14, <3>3
        <4>3. w[k] = s[k]
          BY <1>15, <2>3, <4>1
        <4> QED BY <3>2, <4>2, <4>3
      <3>4. CASE ~(k <= 17)
        <4>1. x[k] = t[k - 17] /\ z[k] = t[k - 17]
          BY <1>13, <1>14, <3>4
        <4> QED BY <3>2, <4>1
      <3> QED BY <3>3, <3>4
    <2> QED BY <2>2, <2>3
  <1>18. y = z
    BY <1>9, <1>14, <1>17, SeqEqual
  <1>19. SubSeq(g, b + 1, e) = w \o t
    BY <1>7, <1>18 DEF y, z
  <1> QED BY <1>2, <1>19 DEF b, e, w, PageIn

-----------------------------------------------------------------------------
(* What the decoder has read                                               *)

\* The start and the end of a document.
LEMMA ReadStartDoc == Read(Fresh, StartDoc) = Chunks(<<>>)
  <1> DEFINE h == Chunk(START_DOC, 7)
             l == Item("length", 84)
             x == Item("end", 0)
             a == <<Text, Magic>>
             b == <<h, l>>
             o == Others(5)
             e == <<x>>
  <1>1. StartDoc = <<Text, Magic, h, l>> \o o \o e
    BY DEF StartDoc
  <1>2. /\ Text \in Cells /\ Magic \in Cells /\ h \in Cells /\ l \in Cells
        /\ x \in Cells
    BY DEF Text, Magic, Chunk, Item, Cells, START_DOC
  <1>3. Read(Fresh, a) = Chunks(<<>>) /\ a \in Seq(Cells)
    BY <1>2, DecodeText, ReadTwo
  <1>4. Read(Chunks(<<>>), b) = Items(<<>>, 6) /\ b \in Seq(Cells)
    <2>1. DecodeCell(Chunks(<<>>), h) = Items(<<>>, 7)
      BY DecodeHeader DEF START_PAGE, START_DOC, JBIG, END_DOC
    <2>2. DecodeCell(Items(<<>>, 7), l) = Items(<<>>, 6)
      <3>1. DecodeCell(Items(<<>>, 6 + 1), l) = Items(<<>>, 6)
        BY DecodeItem
      <3>2. 6 + 1 = 7
        OBVIOUS
      <3> QED BY <3>1, <3>2
    <2> DEFINE f == Chunks(<<>>)
               g == Items(<<>>, 7)
               w == Items(<<>>, 6)
    <2>3. DecodeCell(f, h) = g /\ DecodeCell(g, l) = w
      BY <2>1, <2>2
    <2> HIDE DEF h, l, f, g, w
    <2>4. Read(f, <<h, l>>) = w /\ <<h, l>> \in Seq(Cells)
      BY <1>2, <2>3, ReadTwo
    <2> QED BY <2>4 DEF f, w
  <1>5. Read(Items(<<>>, 6), o) = Items(<<>>, 1) /\ o \in Seq(Cells)
    <2>1. \A n \in Nat : Read(Items(<<>>, 1 + n), Others(n)) = Items(<<>>, 1)
      BY ReadOthers
    <2>2. 1 + 5 = 6 /\ 5 \in Nat
      OBVIOUS
    <2>3. Read(Items(<<>>, 1 + 5), Others(5)) = Items(<<>>, 1)
      BY <2>1, <2>2
    <2>4. Others(5) \in Seq(Cells)
      BY OthersAreCells
    <2> QED BY <2>2, <2>3, <2>4
  <1>6. Read(Items(<<>>, 1), e) = Chunks(<<>>) /\ e \in Seq(Cells)
    <2>1. DecodeCell(Items(<<>>, 0 + 1), x) = Items(<<>>, 0)
      BY DecodeItem
    <2>2. Items(<<>>, 0) = Chunks(<<>>) /\ 0 + 1 = 1
      BY DEF Items, Chunks
    <2> HIDE DEF x
    <2> QED BY <1>2, <2>1, <2>2, ReadOne
  <1>7. StartDoc = a \o b \o o \o e
    <2> HIDE DEF h, l, x, o, e
    <2> DEFINE f == <<Text, Magic, h, l>>
    <2>1. /\ a \in Seq(Cells) /\ Len(a) = 2 /\ a[1] = Text /\ a[2] = Magic
          /\ b \in Seq(Cells) /\ Len(b) = 2 /\ b[1] = h /\ b[2] = l
      BY <1>2
    <2>2. /\ f \in Seq(Cells) /\ Len(f) = 4
          /\ f[1] = Text /\ f[2] = Magic /\ f[3] = h /\ f[4] = l
      BY <1>2
    <2> HIDE DEF a, b, f
    <2>3. /\ a \o b \in Seq(Cells) /\ Len(a \o b) = 4
          /\ (a \o b)[1] = a[1] /\ (a \o b)[2] = a[2]
          /\ (a \o b)[3] = b[1] /\ (a \o b)[4] = b[2]
      <3>1. a \in Seq(Cells) /\ b \in Seq(Cells)
        BY <2>1
      <3>2. /\ a \o b \in Seq(Cells) /\ Len(a \o b) = Len(a) + Len(b)
            /\ \A k \in 1..(Len(a) + Len(b)) :
                 (a \o b)[k] = IF k <= Len(a) THEN a[k] ELSE b[k - Len(a)]
        BY <3>1, Joined
      <3>3. Len(a) = 2 /\ Len(b) = 2
        BY <2>1
      <3> HIDE DEF a, b
      <3> QED BY <3>2, <3>3
    <2>4. a \o b = f
      BY <2>1, <2>2, <2>3, SeqEqual
    <2> QED BY <1>1, <2>4 DEF f
  <1> HIDE DEF a, b, o, e
  <1>8. Read(Fresh, a \o b \o o \o e) =
          Read(Read(Read(Read(Fresh, a), b), o), e)
    BY <1>3, <1>4, <1>5, <1>6, ReadFour
  <1> QED BY <1>3, <1>4, <1>5, <1>6, <1>7, <1>8

LEMMA ReadEndDoc ==
  ASSUME NEW ps
  PROVE  LET d == Read(Chunks(ps), <<Chunk(END_DOC, 0), Text>>)
         IN  d.at = "end" /\ d.pages = ps
  <1> DEFINE d == [at |-> "end", want |-> 0, pages |-> ps]
  <1>1. Chunk(END_DOC, 0) \in Cells /\ Text \in Cells
    BY DEF Text, Chunk, Cells, END_DOC
  <1>2. /\ DecodeCell(Chunks(ps), Chunk(END_DOC, 0)) = d
        /\ DecodeCell(d, Text) = d
    BY DecodeEnd
  <1>4. d.at = "end" /\ d.pages = ps
    OBVIOUS
  <1> HIDE DEF d
  <1>5. Read(Chunks(ps), <<Chunk(END_DOC, 0), Text>>) = d
    BY <1>1, <1>2, ReadTwo
  <1> QED BY <1>4, <1>5

\* How the counters of a document that got no blank page go together.
CountInv ==
  /\ pc \in {"start", "pages"} => page_num = Len(doc)
  /\ pc \in {"jbig", "copy", "write"} => page_num = Len(doc) + 1
  /\ pc \in {"start", "pages", "jbig", "copy", "write"} => copied = 0
  /\ copied <= Len(seek)
  /\ pc = "done" => copied = Len(seek)
  /\ even_pages => Len(doc) = 2 * Len(seek) \/ Len(doc) = 2 * Len(seek) + 1
  /\ even_pages /\ pc \in {"even", "done"} => Len(doc) = 2 * Len(seek)
  /\ pc \in {"even", "done"} => Len(doc) = document.pages

\* What came out of the document.
Later == IF Duplex THEN 1 ELSE 0
Came == IF even_pages THEN Delivered(doc, copied) ELSE InOrder(Later, doc)

DecoderInv ==
  /\ pc = "start" => decoder = Fresh /\ doc = <<>>
  /\ pc \in {"pages", "jbig", "copy", "write", "even"} => decoder = Chunks(Came)
  /\ pc = "done" => decoder.at = "end" /\ decoder.pages = Came

\* The even pages that are not copied yet.
SeekInv ==
  \A j \in 1..(Len(seek) - copied) :
    StoredAs(StartPage(1), even, seek[j], doc[2 * j])

\* Only a document with many pages can fill SeekRec, with or without a blank
\* page.
PlacesInv ==
  /\ Len(seek) <= MaxSeek
  /\ 2 * Len(seek) <= page_num
  /\ pc \in {"jbig", "copy", "write"} =>
       /\ 2 * Len(seek) < page_num
       /\ blank \/ Noted(page_num) => Len(seek) < MaxSeek
  /\ pc \in {"start", "pages", "jbig", "copy", "write"} =>
       page_num <= document.pages
  /\ pc = "overrun" => document.pages > 2 * MaxSeek

ReadInv ==
  /\ StreamInv
  /\ PlacesInv
  /\ pc \in {"start", "pages"} => ~blank
  /\ ~blank => CountInv /\ DecoderInv /\ SeekInv

\* The invariant holds at the start.
LEMMA ReadInit == Init => ReadInv
  <1> SUFFICES ASSUME Init PROVE ReadInv
    OBVIOUS
  <1>1. /\ pc = "start" /\ page_num = 0 /\ doc = <<>> /\ seek = <<>>
        /\ copied = 0 /\ decoder = Fresh /\ ~blank /\ ~even_pages
        /\ document \in Documents
    BY DEF Init
  <1>2. Len(doc) = 0 /\ Len(seek) = 0
    BY <1>1
  <1>3. CountInv
    BY <1>1, <1>2 DEF CountInv
  <1>4. DecoderInv
    BY <1>1 DEF DecoderInv
  <1>5. SeekInv
    BY <1>1, <1>2 DEF SeekInv
  <1>6. PlacesInv
    <2>1. document.pages \in Nat /\ MaxSeek \in Nat
      BY <1>1, DocumentsAssumption, XqxStreamAssumption
    <2> QED BY <1>1, <1>2, <2>1 DEF PlacesInv
  <1> QED BY <1>1, <1>3, <1>4, <1>5, <1>6, StreamInit DEF ReadInv

\* What is known of the variables when pages are written or copied.
LEMMA ReadTypes ==
  ASSUME ReadInv
  PROVE  /\ doc \in Seq(PlanesRead) /\ Len(doc) \in Nat
         /\ seek \in Seq(Records) /\ Len(seek) \in Nat
         /\ EvenFile(even, seek) /\ even \in Seq(Cells)
         /\ Duplex \in BOOLEAN /\ copied \in Nat /\ page_num \in Nat
         /\ even_pages \in BOOLEAN
         /\ even_pages => Duplex
         /\ ~even_pages => seek = <<>> /\ Len(seek) = 0
  <1>1. /\ doc \in Seq(PlanesRead) /\ EvenFile(even, seek)
        /\ document \in Documents
        /\ seek # <<>> \/ blank => even_pages
        /\ even_pages => Duplex
    BY DEF ReadInv, StreamInv, FilesInv
  <1>2. copied \in Nat /\ page_num \in Nat /\ even_pages \in BOOLEAN
    BY DEF ReadInv, StreamInv, IInv, TypeOK
  <1>3. seek \in Seq(Records) /\ even \in Seq(Cells)
    BY <1>1 DEF EvenFile
  <1>4. ~even_pages => seek = <<>>
    BY <1>1
  <1> QED BY <1>1, <1>2, <1>3, <1>4, DocumentTypes

\* The start of the document.
LEMMA StartReads ==
  ASSUME ReadInv, Start
  PROVE  ~blank' /\ CountInv' /\ DecoderInv' /\ SeekInv'
  <1>1. /\ pc = "start" /\ pc' = "pages" /\ Put(StartDoc)
        /\ UNCHANGED <<document, page_num, blank, even, seek, copied, doc>>
    BY DEF Start
  <1>2. ~blank /\ CountInv /\ DecoderInv /\ SeekInv /\ ~even_pages
    BY <1>1 DEF ReadInv, StreamInv, FilesInv
  <1>3. decoder = Fresh /\ doc = <<>> /\ copied = 0 /\ Len(doc) = 0
    BY <1>1, <1>2 DEF DecoderInv, CountInv
  <1>4. decoder' = Chunks(<<>>)
    BY <1>1, <1>3, ReadStartDoc DEF Put
  <1>5. Came' = <<>>
    <2>1. doc' = <<>> /\ copied' = 0
      BY <1>1, <1>3
    <2>2. Delivered(<<>>, 0) = <<>>
      <3>1. Half(<<>>) = 0
        BY DEF Half
      <3>2. Delivered(<<>>, 0) = [k \in 1..0 |-> PageAt(<<>>, k)]
        BY <3>1 DEF Delivered
      <3> QED BY <3>2
    <2>3. InOrder(Later', <<>>) = <<>>
      <3> DEFINE w == Later'
      <3> HIDE DEF w
      <3>1. InOrder(w, <<>>) = <<>>
        BY DEF InOrder
      <3> QED BY <3>1 DEF w
    <2>4. Came' = IF even_pages' THEN Delivered(doc', copied')
                                 ELSE InOrder(Later', doc')
      BY DEF Came
    <2> QED BY <2>1, <2>2, <2>3, <2>4, Zenon
  <1>6. DecoderInv'
    BY <1>1, <1>4, <1>5 DEF DecoderInv
  <1>7. CountInv'
    <2>1. Len(seek) = 0
      BY <1>2, ReadTypes
    <2> QED BY <1>1, <1>2, <1>3, <2>1 DEF CountInv
  <1>8. SeekInv'
    <2>1. StartPage(1)' = StartPage(1)
      BY <1>1 DEF StartPage, Duplex
    <2> QED BY <1>1, <1>2, <2>1 DEF SeekInv
  <1> QED BY <1>1, <1>2, <1>6, <1>7, <1>8

\* The end of the input.
LEMMA EndInputReads ==
  ASSUME ReadInv, EndInput, ~blank'
  PROVE  CountInv' /\ DecoderInv' /\ SeekInv'
  <1>1. /\ pc = "pages" /\ pc' = "even" /\ ~(even_pages /\ page_num % 2 = 1)
        /\ page_num = document.pages
        /\ UNCHANGED <<document, page_num, decoder, even_pages, even, seek,
                       copied, doc>>
    BY DEF EndInput, files
  <1>2. ~blank /\ CountInv /\ DecoderInv /\ SeekInv
    BY <1>1 DEF ReadInv
  <1>3. CountInv'
    <2>1. even_pages => Len(doc) = 2 * Len(seek)
      <3> SUFFICES ASSUME even_pages PROVE Len(doc) = 2 * Len(seek)
        OBVIOUS
      <3>1. page_num = Len(doc) /\ page_num % 2 # 1
        BY <1>1, <1>2 DEF CountInv
      <3>2. Len(seek) \in Nat
        BY ReadTypes
      <3> DEFINE h == Len(seek)
                 n == Len(doc)
      <3>3. h \in Nat /\ (n = 2 * h \/ n = 2 * h + 1) /\ n % 2 # 1
        BY <1>2, <3>1, <3>2 DEF CountInv
      <3> HIDE DEF h, n
      <3>4. n = 2 * h
        BY <3>3
      <3> QED BY <3>4 DEF h, n
    <2> QED BY <1>1, <1>2, <2>1 DEF CountInv
  <1>4. DecoderInv'
    BY <1>1, <1>2 DEF DecoderInv, Came, Later, Duplex
  <1>5. SeekInv'
    <2>1. StartPage(1)' = StartPage(1)
      BY <1>1 DEF StartPage, Duplex
    <2> QED BY <1>1, <1>2, <2>1 DEF SeekInv
  <1> QED BY <1>3, <1>4, <1>5

\* The end of the document.
LEMMA EndDocReads ==
  ASSUME ReadInv, EndDoc, ~blank
  PROVE  CountInv' /\ DecoderInv' /\ SeekInv'
  <1>1. /\ pc = "even" /\ pc' = "done" /\ copied = Len(seek)
        /\ Put(<<Chunk(END_DOC, 0), Text>>)
        /\ UNCHANGED <<document, page_num, even_pages, even, seek, copied, doc>>
    BY DEF EndDoc
  <1>2. CountInv /\ DecoderInv /\ SeekInv
    BY DEF ReadInv
  <1>3. decoder = Chunks(Came)
    BY <1>1, <1>2 DEF DecoderInv
  <1>4. /\ decoder'.at = "end"
        /\ decoder'.pages = Came
    BY <1>1, <1>3, ReadEndDoc DEF Put
  <1>5. CountInv'
    BY <1>1, <1>2 DEF CountInv
  <1>6. DecoderInv'
    BY <1>1, <1>4 DEF DecoderInv, Came, Later, Duplex
  <1>7. SeekInv'
    <2>1. StartPage(1)' = StartPage(1)
      BY <1>1 DEF StartPage, Duplex
    <2> QED BY <1>1, <1>2, <2>1 DEF SeekInv
  <1> QED BY <1>5, <1>6, <1>7

\* A page that is written is read at once, or stored for later.
LEMMA WriteReads ==
  ASSUME ReadInv, NEW colored \in BOOLEAN, WritePage(colored), ~blank
  PROVE  CountInv' /\ DecoderInv' /\ SeekInv'
  <1> DEFINE order == Written(colored)
             v == IF page_num = 1 THEN 0 ELSE 1
             noted == Noted(page_num)
             p == Given(order)
             cells == PageCells(v, order)
             t == Rest(order)
             r == [b |-> Len(even), e |-> Len(even \o cells),
                   pause |-> Len(even) + PausePlace]
             w == Later
             D == IF even_pages THEN Delivered(doc, 0) ELSE InOrder(w, doc)
             h == Len(seek)
             n == Len(doc)
             a == Append(doc, p)
  <1>1. /\ pc = "write" /\ pc' = "pages" /\ doc' = a
        /\ UNCHANGED <<document, page_num, even_pages, copied>>
    BY DEF WritePage, Given, PlaneId
  <1>2. /\ noted => /\ even' = even \o cells
                    /\ seek' = Append(seek, r)
                    /\ decoder' = decoder
        /\ ~noted => /\ decoder' = Read(decoder, cells)
                     /\ UNCHANGED <<even, seek>>
    BY DEF WritePage, PageCells, Body, PlaneId, Put
  <1>3. /\ order \in Seq(1..4)
        /\ \A k \in 1..Len(order) : Complete(chains[order[k]])
    BY <1>1, WrittenPage DEF ReadInv
  <1>4. /\ CountInv /\ DecoderInv /\ SeekInv
    BY DEF ReadInv
  <1>5. /\ doc \in Seq(PlanesRead) /\ n \in Nat
        /\ seek \in Seq(Records) /\ h \in Nat
        /\ EvenFile(even, seek) /\ even \in Seq(Cells)
        /\ Duplex \in BOOLEAN /\ page_num \in Nat
        /\ even_pages \in BOOLEAN
        /\ even_pages => Duplex
        /\ ~even_pages => h = 0
    BY ReadTypes
  <1>6. /\ page_num = n + 1 /\ copied = 0
        /\ even_pages => n = 2 * h \/ n = 2 * h + 1
        /\ decoder = Chunks(D)
    BY <1>1, <1>4 DEF CountInv, DecoderInv, Came
  <1>7. v \in Nat /\ v = IF n = 0 THEN 0 ELSE 1
    BY <1>5, <1>6
  <1> HIDE DEF order, v
  <1>8. ReadsAs(t, p) /\ cells = StartPage(v) \o t /\ cells \in Seq(Cells)
    BY <1>3, <1>5, <1>7, PageIs
  <1>9. p \in PlanesRead
    BY <1>8 DEF ReadsAs
  <1> HIDE DEF t, p, cells
  <1>10. /\ a \in Seq(PlanesRead) /\ Len(a) = n + 1 /\ a[n + 1] = p
         /\ \A k \in 1..n : a[k] = doc[k]
    BY <1>5, <1>9, Appended
  <1>11. /\ Duplex' = Duplex /\ StartPage(1)' = StartPage(1) /\ Later' = w
         /\ document' = document /\ even_pages' = even_pages
    BY <1>1 DEF Duplex, StartPage, Later
  <1>14. w \in Nat /\ w = IF Duplex THEN 1 ELSE 0
    BY DEF Later
  <1> HIDE DEF w
  <1>12. CASE ~noted
    <2>1. even_pages => n = 2 * h /\ n + 1 = 2 * h + 1
      <3> SUFFICES ASSUME even_pages PROVE n = 2 * h
        OBVIOUS
      <3>1. (n + 1) % 2 # 0
        BY <1>6, <1>12 DEF Noted
      <3> HIDE DEF n, h
      <3> QED BY <1>5, <1>6, <3>1
    <2>2. D \in PagesRead
      <3>1. CASE ~even_pages
        BY <1>5, <1>14, <3>1, OneSidedOnes
      <3>2. CASE even_pages
        <4>1. 0 \in 0..h /\ Len(doc) = 2 * h
          BY <1>5, <2>1, <3>2
        <4> HIDE DEF h
        <4>2. Delivered(doc, 0) \in PagesRead
          BY <1>5, <4>1, EvenOnes
        <4> QED BY <3>2, <4>2
      <3> QED BY <3>1, <3>2
    <2>3. decoder' = InPage(D, IF Duplex THEN v ELSE 0, p)
      <3> HIDE DEF D
      <3>1. Read(Chunks(D), StartPage(v) \o t) =
              InPage(D, IF Duplex THEN v ELSE 0, p)
        BY <1>5, <1>7, <1>8, <2>2, ReadAPage, ZenonT(40)
      <3>2. decoder' = Read(decoder, cells)
        BY <1>2, <1>12
      <3> QED BY <1>6, <1>8, <3>1, <3>2
    <2>4. /\ even_pages => decoder' = Chunks(Delivered(a, 0))
          /\ ~even_pages => decoder' = Chunks(InOrder(w, a))
      <3>1. CASE ~even_pages
        <4>1. InOrder(w, a) =
                Append(InOrder(w, doc),
                       [pause |-> IF n = 0 THEN 0 ELSE w, planes |-> p])
          BY <1>5, <1>9, <1>14, OneSided
        <4>2. (IF Duplex THEN v ELSE 0) = IF n = 0 THEN 0 ELSE w
          BY <1>7, <1>14
        <4> QED BY <2>3, <3>1, <4>1, <4>2 DEF InPage
      <3>2. CASE even_pages
        <4>1. Delivered(a, 0) =
                Append(Delivered(doc, 0),
                       [pause |-> IF n = 0 THEN 0 ELSE 1, planes |-> p])
          <5>1. Len(doc) = 2 * h
            BY <2>1, <3>2
          <5> HIDE DEF h
          <5> QED BY <1>5, <1>9, <5>1, OddPage
        <4>2. Duplex = TRUE
          BY <1>5, <3>2
        <4>3. decoder' = InPage(D, v, p)
          BY <2>3, <4>2
        <4> QED BY <1>7, <3>2, <4>1, <4>3 DEF InPage
      <3> QED BY <3>1, <3>2
    <2>5. CountInv'
      <3>1. seek' = seek /\ page_num' = n + 1 /\ Len(doc') = n + 1
        BY <1>1, <1>2, <1>6, <1>10, <1>12
      <3>2. 0 <= Len(seek)
        BY <1>5
      <3> QED BY <1>1, <1>6, <1>11, <2>1, <3>1, <3>2 DEF CountInv
    <2>6. DecoderInv'
      <3>1. Came' = IF even_pages THEN Delivered(a, 0) ELSE InOrder(w, a)
        BY <1>1, <1>6, <1>11 DEF Came
      <3> QED BY <1>1, <2>4, <3>1 DEF DecoderInv
    <2>7. \A j \in 1..h : StoredAs(StartPage(1), even, seek[j], a[2 * j])
      <3> TAKE j \in 1..h
      <3>1. StoredAs(StartPage(1), even, seek[j], doc[2 * j])
        BY <1>4, <1>5, <1>6 DEF SeekInv
      <3>2. 2 * j \in 1..n
        <4>1. even_pages
          BY <1>5
        <4> QED BY <1>5, <2>1, <4>1
      <3>3. a[2 * j] = doc[2 * j]
        BY <1>10, <3>2
      <3> QED BY <3>1, <3>3
    <2>8. SeekInv'
      <3>1. /\ even' = even /\ seek' = seek /\ copied' = 0 /\ doc' = a
            /\ Len(seek') - copied' = h
        BY <1>1, <1>2, <1>5, <1>6, <1>12
      <3> HIDE DEF a, h
      <3> QED BY <1>11, <2>7, <3>1 DEF SeekInv
    <2> QED BY <2>5, <2>6, <2>8
  <1>13. CASE noted
    <2>1. /\ even_pages /\ Duplex
          /\ n = 2 * h + 1 /\ n + 1 = 2 * (h + 1)
      <3>1. (n + 1) % 2 = 0 /\ even_pages
        BY <1>6, <1>13 DEF Noted
      <3> HIDE DEF n, h
      <3> QED BY <1>5, <1>6, <3>1
    <2>2. /\ even' = even \o cells /\ seek' = Append(seek, r)
          /\ decoder' = decoder
      BY <1>2, <1>13
    <2>3. /\ Len(seek') = h + 1 /\ seek'[h + 1] = r
          /\ \A j \in 1..h : seek'[j] = seek[j]
      <3>1. r \in Records
        <4>1. Len(even) \in Nat /\ Len(even \o cells) \in Nat
          BY <1>5, <1>8
        <4> QED BY <4>1 DEF Records, PausePlace
      <3> HIDE DEF r
      <3> QED BY <1>5, <2>2, <3>1
    <2>4. DecoderInv'
      <3>1. Delivered(a, 0) = Delivered(doc, 0)
        <4>1. Len(doc) = 2 * h + 1
          BY <2>1
        <4> HIDE DEF h
        <4> QED BY <1>5, <1>9, <4>1, EvenPage
      <3>2. decoder' = Chunks(Delivered(a, 0))
        BY <1>6, <2>1, <2>2, <3>1
      <3>3. Came' = Delivered(a, 0)
        BY <1>1, <1>6, <1>11, <2>1 DEF Came
      <3> QED BY <1>1, <3>2, <3>3 DEF DecoderInv
    <2>5. CountInv'
      <3>1. page_num' = n + 1 /\ Len(doc') = n + 1 /\ 0 <= h + 1
        BY <1>1, <1>5, <1>6, <1>10
      <3> QED BY <1>1, <1>6, <1>11, <2>1, <2>3, <3>1 DEF CountInv
    <2>6. StoredAs(StartPage(1), even', r, p)
      <3>1. v = 1
        BY <1>5, <1>7, <2>1
      <3>2. SubSeq(even \o cells, Len(even) + 1, Len(even \o cells)) = cells
        BY <1>5, <1>8, LastSlice
      <3>3. /\ r.b = Len(even) /\ r.e = Len(even \o cells)
            /\ r.pause = Len(even) + PausePlace
        OBVIOUS
      <3> HIDE DEF r
      <3>4. SubSeq(even', r.b + 1, r.e) = StartPage(1) \o t
        BY <1>8, <2>2, <3>1, <3>2, <3>3
      <3> QED BY <1>8, <3>3, <3>4 DEF StoredAs, PageIn
    <2>7. ASSUME NEW j \in 1..h
          PROVE  StoredAs(StartPage(1), even', seek[j], a[2 * j])
      <3>1. StoredAs(StartPage(1), even, seek[j], doc[2 * j])
        BY <1>4, <1>5, <1>6 DEF SeekInv
      <3>2. 2 * j \in 1..n
        BY <1>5, <2>1
      <3>3. a[2 * j] = doc[2 * j]
        BY <1>10, <3>2
      <3>4. seek[j] \in Records /\ InFile(even, seek[j])
        BY <1>5 DEF EvenFile
      <3> DEFINE x == seek[j]
      <3> HIDE DEF x, h
      <3>5. /\ x \in Records /\ x.b + 17 <= x.e /\ x.e <= Len(even)
        BY <3>4 DEF InFile, x
      <3>6. x.b \in Nat /\ x.e \in Nat
        BY <3>5 DEF Records
      <3>7. /\ even' \in Seq(Cells) /\ Len(even) \in Nat
            /\ Len(even) <= Len(even')
            /\ \A k \in 1..Len(even) : even'[k] = even[k]
        <4>1. /\ even \o cells \in Seq(Cells)
              /\ Len(even) \in Nat /\ Len(cells) \in Nat
              /\ Len(even \o cells) = Len(even) + Len(cells)
              /\ \A k \in 1..(Len(even) + Len(cells)) :
                   (even \o cells)[k] = IF k <= Len(even) THEN even[k]
                                        ELSE cells[k - Len(even)]
          BY <1>5, <1>8, Joined
        <4> QED BY <2>2, <4>1
      <3>8. /\ x.b <= x.e /\ x.e <= Len(even')
            /\ \A k \in (x.b + 1)..x.e : even'[k] = even[k]
        <4> DEFINE m == Len(even)
                   i == x.b
                   e == x.e
        <4>1. /\ i \in Nat /\ e \in Nat /\ m \in Nat /\ i + 17 <= e /\ e <= m
          BY <3>5, <3>6, <3>7
        <4> HIDE DEF m, i, e
        <4>2. i <= e /\ \A k \in (i + 1)..e : k \in 1..m
          BY <4>1
        <4>3. e <= Len(even')
          <5>1. Len(even') \in Nat
            BY <3>7
          <5> QED BY <3>7, <4>1, <5>1 DEF m
        <4> QED BY <3>7, <4>2, <4>3 DEF m, i, e
      <3> HIDE DEF a
      <3>9. StoredAs(StartPage(1), even, x, doc[2 * j])
        BY <3>1 DEF x
      <3>10. StoredAs(StartPage(1), even', x, doc[2 * j])
        BY <1>5, <3>5, <3>7, <3>8, <3>9, StoredStays
      <3> QED BY <3>3, <3>10 DEF x
    <2>8. \A j \in 1..(h + 1) :
            StoredAs(StartPage(1), even', seek'[j], a[2 * j])
      <3> TAKE j \in 1..(h + 1)
      <3>1. CASE j = h + 1
        <4>1. a[2 * j] = p /\ seek'[j] = r
          BY <1>10, <2>1, <2>3, <3>1
        <4> HIDE DEF a, r
        <4> QED BY <2>6, <4>1
      <3>2. CASE j # h + 1
        <4>1. j \in 1..h
          BY <1>5, <3>2
        <4>2. seek'[j] = seek[j]
          BY <2>3, <4>1
        <4> QED BY <2>7, <4>1, <4>2
      <3> QED BY <3>1, <3>2
    <2>9. SeekInv'
      <3>1. copied' = 0 /\ doc' = a /\ Len(seek') - copied' = h + 1
        BY <1>1, <1>5, <1>6, <2>3
      <3> HIDE DEF a, h
      <3> QED BY <1>11, <2>8, <3>1 DEF SeekInv
    <2> QED BY <2>4, <2>5, <2>9
  <1> QED BY <1>12, <1>13

\* An even page is read when it is copied; the patch changes nothing else.
LEMMA CopyEvenReads ==
  ASSUME ReadInv, CopyEven, ~blank
  PROVE  CountInv' /\ DecoderInv' /\ SeekInv'
  <1> DEFINE h == Len(seek)
             c == copied
             j == h - c
             v == IF c = 0 THEN 2 ELSE 3
             r == seek[j]
             g == PatchedFile(even, r.pause, v)
             cells == SubSeq(g, r.b + 1, r.e)
             p == doc[2 * j]
             D == Delivered(doc, c)
  <1>1. /\ pc = "even" /\ pc' = "even" /\ c < h
        /\ even' = g /\ decoder' = Read(decoder, cells) /\ copied' = c + 1
        /\ UNCHANGED <<document, page_num, even_pages, seek, doc>>
    BY DEF CopyEven, Patched, PatchedFile, Put
  <1>2. CountInv /\ DecoderInv /\ SeekInv
    BY DEF ReadInv
  <1>3. /\ doc \in Seq(PlanesRead) /\ seek \in Seq(Records) /\ h \in Nat
        /\ EvenFile(even, seek) /\ even \in Seq(Cells) /\ c \in Nat
        /\ Duplex \in BOOLEAN
        /\ even_pages => Duplex
        /\ ~even_pages => h = 0
    BY ReadTypes
  <1>4. /\ Duplex = TRUE /\ Len(doc) = 2 * h /\ even_pages
        /\ decoder = Chunks(D)
    <2>1. even_pages /\ Duplex = TRUE
      BY <1>1, <1>3
    <2> QED BY <1>1, <1>2, <2>1 DEF CountInv, DecoderInv, Came
  <1>5. j \in 1..h /\ v \in {2, 3} /\ v \in Nat
    BY <1>1, <1>3
  <1>6. /\ Duplex' = Duplex /\ StartPage(1)' = StartPage(1)
        /\ document' = document /\ even_pages' = even_pages
    BY <1>1 DEF Duplex, StartPage
  <1> HIDE DEF v
  <1>7. /\ p \in PlanesRead /\ D \in PagesRead
        /\ Delivered(doc, c + 1) = Append(D, [pause |-> v, planes |-> p])
    <2>1. Len(doc) = 2 * h /\ c < h
      BY <1>1, <1>4
    <2> HIDE DEF h, c
    <2> QED BY <1>3, <2>1, CopiedPage DEF v
  <1>8. StoredAs(StartPage(1), even, r, p)
    <2>1. j \in 1..(Len(seek) - copied)
      BY <1>3, <1>5
    <2> QED BY <1>2, <2>1 DEF SeekInv
  <1>9. Patches(even, g, r.pause, v) /\ EvenFile(g, seek)
    <2>1. j \in 1..Len(seek)
      BY <1>5
    <2> HIDE DEF j
    <2> QED BY <1>3, <1>5, <2>1, PatchIs, PatchKeeps
  <1>10. r \in Records /\ InFile(even, r)
    <2>1. j \in 1..Len(seek)
      BY <1>5
    <2> HIDE DEF j
    <2> QED BY <1>3, <2>1 DEF EvenFile
  <1> HIDE DEF g, r, p, D
  <1>11. r.b + 17 <= r.e /\ r.e <= Len(even)
    BY <1>10 DEF InFile
  <1>12. g \in Seq(Cells) /\ Len(g) = Len(even)
    BY <1>9 DEF Patches
  <1>13. PICK t : ReadsAs(t, p) /\ cells = StartPage(v) \o t
    <2>1. Duplex /\ Duplex \in BOOLEAN
      BY <1>4
    <2>2. /\ even \in Seq(Cells) /\ g \in Seq(Cells) /\ r \in Records
          /\ v \in Nat
      BY <1>3, <1>5, <1>10, <1>12
    <2>3. PageIn(StartPage(v), g, r, p)
      BY <1>8, <1>9, <1>11, <2>1, <2>2, StoredPatched
    <2> QED BY <2>3 DEF PageIn
  <1> HIDE DEF cells
  <1>14. decoder' = Chunks(Delivered(doc, c + 1))
    <2>1. Read(Chunks(D), StartPage(v) \o t) =
            InPage(D, IF Duplex THEN v ELSE 0, p)
      BY <1>3, <1>5, <1>7, <1>13, ReadAPage
    <2>2. decoder' = InPage(D, v, p)
      BY <1>1, <1>4, <1>13, <2>1
    <2> QED BY <1>7, <2>2 DEF InPage
  <1>15. DecoderInv'
    <2>1. Came' = Delivered(doc, c + 1)
      BY <1>1, <1>4 DEF Came
    <2> QED BY <1>1, <1>14, <2>1 DEF DecoderInv
  <1>16. CountInv'
    <2>1. c + 1 <= h
      BY <1>1, <1>3
    <2> QED BY <1>1, <1>2, <1>6, <2>1 DEF CountInv
  <1>17. ASSUME NEW i \in 1..(j - 1)
         PROVE  StoredAs(StartPage(1), g, seek[i], doc[2 * i])
    <2> DEFINE x == seek[i]
               q == doc[2 * i]
               place == IF r.pause = 0 THEN 1 ELSE r.pause
    <2>1. /\ i \in 1..(Len(seek) - copied) /\ i \in 1..Len(seek)
          /\ j \in 1..Len(seek) /\ i < j
      BY <1>3, <1>5
    <2>2. StoredAs(StartPage(1), even, x, q)
      BY <1>2, <2>1 DEF SeekInv
    <2>3. x \in Records /\ InFile(even, x) /\ seek[i].e <= seek[j].b
      <3> HIDE DEF j
      <3> QED BY <1>3, <2>1 DEF EvenFile
    <2>4. x.e <= r.b
      BY <2>3 DEF r
    <2> HIDE DEF x, q
    <2>5. x.b + 17 <= x.e /\ x.e <= Len(even)
      BY <2>3 DEF InFile
    <2>6. /\ x.b \in Nat /\ x.e \in Nat /\ r.b \in Nat /\ Len(even) \in Nat
      BY <1>3, <1>10, <2>3 DEF Records
    <2>7. place = r.b + PausePlace
      <3>1. r.pause = r.b + PausePlace
        BY <1>8 DEF StoredAs
      <3> QED BY <2>6, <3>1 DEF PausePlace
    <2>8. \A k \in 1..Len(even) : k # place => g[k] = even[k]
      BY <1>9 DEF Patches
    <2> HIDE DEF place
    <2>9. /\ x.b <= x.e /\ x.e <= Len(g)
          /\ \A k \in (x.b + 1)..x.e : g[k] = even[k]
      <3> DEFINE m == Len(even)
                 b == x.b
                 e == x.e
                 w == r.b
      <3>1. /\ b \in Nat /\ e \in Nat /\ m \in Nat /\ w \in Nat
            /\ b + 17 <= e /\ e <= m /\ e <= w
        BY <2>4, <2>5, <2>6
      <3> HIDE DEF b, e, m, w
      <3>2. b <= e /\ \A k \in (b + 1)..e : k \in 1..m /\ k # w + PausePlace
        BY <3>1 DEF PausePlace
      <3> QED BY <1>12, <2>5, <2>7, <2>8, <3>2 DEF b, e, m, w
    <2>10. StoredAs(StartPage(1), g, x, q)
      BY <1>3, <1>12, <2>2, <2>3, <2>5, <2>9, StoredStays
    <2> QED BY <2>10 DEF x, q
  <1>18. SeekInv'
    <2>1. Len(seek') - copied' = j - 1
      BY <1>1, <1>3
    <2>2. seek' = seek /\ doc' = doc /\ even' = g
      BY <1>1
    <2> HIDE DEF j
    <2> QED BY <1>6, <1>17, <2>1, <2>2 DEF SeekInv
  <1> QED BY <1>15, <1>16, <1>18

\* Every step keeps the places of SeekRec.
LEMMA PlacesKept ==
  ASSUME StreamInv, PlacesInv, pc \in {"start", "pages"} => ~blank,
         [Next]_vars
  PROVE  PlacesInv'
  <1> DEFINE s == Len(seek)
             n == document.pages
  <1>1. /\ page_num \in Nat /\ s \in Nat /\ n \in Nat /\ MaxSeek \in Nat
    <2>1. document \in Documents /\ page_num \in Nat
      BY DEF StreamInv, IInv, TypeOK
    <2>2. seek \in Seq(Records)
      BY DEF StreamInv, FilesInv, EvenFile
    <2> QED BY <2>1, <2>2, DocumentsAssumption, XqxStreamAssumption
  <1>2. /\ s <= MaxSeek /\ 2 * s <= page_num
        /\ pc \in {"jbig", "copy", "write"} =>
             /\ 2 * s < page_num
             /\ blank \/ Noted(page_num) => s < MaxSeek
        /\ pc \in {"start", "pages", "jbig", "copy", "write"} => page_num <= n
        /\ pc = "overrun" => n > 2 * MaxSeek
    BY DEF PlacesInv
  <1> HIDE DEF s, n
  <1>3. SUFFICES
          /\ s' <= MaxSeek /\ 2 * s' <= page_num'
          /\ pc' \in {"jbig", "copy", "write"} =>
               /\ 2 * s' < page_num'
               /\ blank' \/ Noted(page_num)' => s' < MaxSeek
          /\ pc' \in {"start", "pages", "jbig", "copy", "write"} =>
               page_num' <= n'
          /\ pc' = "overrun" => n' > 2 * MaxSeek
    BY DEF PlacesInv, s, n
  <1>4. CASE UNCHANGED vars
    <2>1. /\ UNCHANGED <<s, n, pc, page_num, blank, even_pages>>
      BY <1>4 DEF vars, files, s, n
    <2> QED BY <1>2, <2>1 DEF Noted
  <1>5. CASE Start
    <2>1. /\ UNCHANGED <<s, n, page_num>> /\ pc = "start" /\ pc' = "pages"
      BY <1>5 DEF Start, s, n
    <2> QED BY <1>2, <2>1
  <1>6. CASE ReadPage
    <2>1. /\ UNCHANGED <<s, n, blank, even_pages>> /\ pc = "pages"
          /\ page_num < n /\ page_num' = page_num + 1
          /\ pc' = IF Noted(page_num') /\ s = MaxSeek THEN "overrun" ELSE "jbig"
      BY <1>6 DEF ReadPage, files, s, n
    <2>2. Noted(page_num)' <=> Noted(page_num')
      BY <2>1 DEF Noted
    <2>3. ~blank
      BY <2>1
    <2> QED BY <1>1, <1>2, <2>1, <2>2, <2>3
  <1>7. CASE EndInput
    <2>1. /\ UNCHANGED <<s, n, page_num, even_pages>> /\ pc = "pages"
          /\ page_num = n /\ (blank' => page_num % 2 = 1)
          /\ pc' = IF ~blank' THEN "even"
                   ELSE IF s = MaxSeek THEN "overrun" ELSE "jbig"
      BY <1>7 DEF EndInput, files, s, n
    <2>2. blank' => 2 * s < page_num
      BY <1>1, <1>2, <2>1
    <2> QED BY <1>1, <1>2, <2>1, <2>2
  <1>8. CASE Fails
    <2>1. UNCHANGED <<s, page_num>> /\ pc' = "failed"
      BY <1>8 DEF Fails, files, s
    <2> QED BY <1>2, <2>1
  <1>9. CASE \/ \E k \in 1..(BihSize + MaxData) : Output(k)
             \/ Copy \/ PlaneEnds
    <2>1. /\ UNCHANGED <<s, n, page_num, blank, even_pages>>
          /\ pc \in {"jbig", "copy"} /\ pc' \in {"jbig", "copy", "write"}
      BY <1>9 DEF Output, Copy, PlaneEnds, files, s, n
    <2>2. Noted(page_num)' <=> Noted(page_num)
      BY <2>1 DEF Noted
    <2> QED BY <1>2, <2>1, <2>2
  <1>10. CASE \E colored \in BOOLEAN : WritePage(colored)
    <2>1. /\ pc = "write" /\ n' = n
          /\ pc' = IF blank THEN "even" ELSE "pages"
          /\ page_num' = IF blank THEN page_num + 1 ELSE page_num
          /\ s' = IF blank \/ Noted(page_num) THEN s + 1 ELSE s
      <3>1. PICK colored \in BOOLEAN : WritePage(colored)
        BY <1>10
      <3>2. \E r : seek' = IF blank \/ Noted(page_num) THEN Append(seek, r)
                           ELSE seek
        BY <3>1 DEF WritePage
      <3>3. seek \in Seq(Records)
        BY DEF StreamInv, FilesInv, EvenFile
      <3>4. Len(seek') = IF blank \/ Noted(page_num) THEN Len(seek) + 1
                         ELSE Len(seek)
        BY <3>2, <3>3
      <3> QED BY <3>1, <3>4 DEF WritePage, s, n
    <2>2. 2 * s' <= page_num'
      <3>1. CASE blank \/ ~Noted(page_num)
        BY <1>1, <1>2, <2>1, <3>1
      <3>2. CASE Noted(page_num)
        <4>1. page_num % 2 = 0
          BY <3>2 DEF Noted
        <4> QED BY <1>1, <1>2, <2>1, <3>2, <4>1
      <3> QED BY <3>1, <3>2
    <2> QED BY <1>1, <1>2, <2>1, <2>2
  <1>11. CASE CopyEven \/ EndDoc
    <2>1. UNCHANGED <<s, page_num>> /\ pc' \in {"even", "done"}
      BY <1>11 DEF CopyEven, EndDoc, s
    <2> QED BY <1>2, <2>1
  <1> QED
    BY <1>4, <1>5, <1>6, <1>7, <1>8, <1>9, <1>10, <1>11 DEF Next

\* Every step keeps the invariant.
LEMMA ReadNext == ReadInv /\ [Next]_vars => ReadInv'
  <1> SUFFICES ASSUME ReadInv, [Next]_vars PROVE ReadInv'
    OBVIOUS
  <1>1. StreamInv'
    BY StreamNext DEF ReadInv
  <1>11. PlacesInv'
    BY PlacesKept DEF ReadInv
  <1> SUFFICES /\ pc' \in {"start", "pages"} => ~blank'
               /\ ~blank' => CountInv' /\ DecoderInv' /\ SeekInv'
    BY <1>1, <1>11 DEF ReadInv
  <1>2. CASE UNCHANGED vars
    BY <1>2, SMTT(40)
      DEF vars, compress, files, ReadInv, CountInv, DecoderInv, SeekInv,
                Came, Later,
          Duplex, StartPage
  <1>3. CASE Start
    BY <1>3, StartReads
  <1>4. CASE EndInput
    <2>1. pc' \in {"jbig", "even", "overrun"}
      BY <1>4 DEF EndInput
    <2> QED BY <1>4, <2>1, EndInputReads
  <1>5. CASE \E colored \in BOOLEAN : WritePage(colored)
    <2>1. PICK colored \in BOOLEAN : WritePage(colored)
      BY <1>5
    <2>2. blank' = blank /\ pc' = IF blank THEN "even" ELSE "pages"
      BY <2>1 DEF WritePage
    <2> QED BY <2>1, <2>2, WriteReads
  <1>6. CASE CopyEven
    <2>1. blank' = blank /\ pc' = "even"
      BY <1>6 DEF CopyEven
    <2> QED BY <1>6, <2>1, CopyEvenReads
  <1>7. CASE EndDoc
    <2>1. blank' = blank /\ pc' = "done"
      BY <1>7 DEF EndDoc
    <2> QED BY <1>7, <2>1, EndDocReads
  <1>8. CASE ReadPage
    <2>1. /\ pc = "pages" /\ pc' \in {"jbig", "overrun"}
          /\ page_num' = page_num + 1
          /\ UNCHANGED <<document, blank, decoder, even_pages, even, seek,
                         copied, doc>>
      BY <1>8 DEF ReadPage, files
    <2> QED
      BY <2>1, ZenonT(40)
      DEF ReadInv, CountInv, DecoderInv, SeekInv, Came, Later,
          Duplex, StartPage
  <1>9. CASE Fails
    <2>1. /\ pc' = "failed"
          /\ UNCHANGED <<document, blank, decoder, even_pages, even, seek,
                         copied, doc>>
      BY <1>9 DEF Fails, files
    <2> QED
      BY <2>1, ZenonT(40)
      DEF ReadInv, CountInv, DecoderInv, SeekInv, Came, Later,
          Duplex, StartPage
  <1>10. CASE \/ \E n \in 1..(BihSize + MaxData) : Output(n)
              \/ Copy \/ PlaneEnds
    <2>1. /\ pc \in {"jbig", "copy"} /\ pc' \in {"jbig", "copy", "write"}
          /\ UNCHANGED <<document, page_num, blank, decoder, even_pages, even,
                         seek, copied, doc>>
      BY <1>10 DEF Output, Copy, PlaneEnds, files
    <2> QED
      BY <2>1, ZenonT(40)
      DEF ReadInv, CountInv, DecoderInv, SeekInv, Came, Later,
          Duplex, StartPage
  <1> QED
    BY <1>2, <1>3, <1>4, <1>5, <1>6, <1>7, <1>8, <1>9, <1>10 DEF Next

\* All the pages that came out, in the order and with the pauses of Decodes.
LEMMA DeliveredAll ==
  ASSUME ReadInv, pc = "done", ~blank
  PROVE  Came =
           [k \in 1..Len(doc) |->
              [pause |-> Pause(k), planes |-> doc[Order(k)]]]
  <1> DEFINE n == Len(doc)
             h == Len(seek)
  <1>1. CountInv
    BY DEF ReadInv
  <1>2. /\ n \in Nat /\ h \in Nat /\ Duplex \in BOOLEAN /\ copied = h
        /\ even_pages \in BOOLEAN /\ (even_pages => Duplex)
        /\ even_pages => n = 2 * h
    BY <1>1, ReadTypes DEF CountInv
  <1>3. CASE ~even_pages
    <2>1. Came = [k \in 1..n |-> [pause |-> IF k = 1 THEN 0 ELSE Later,
                                  planes |-> doc[k]]]
      BY <1>3 DEF Came, InOrder
    <2>2. \A k \in 1..n : /\ Pause(k) = IF k = 1 THEN 0 ELSE Later
                          /\ Order(k) = k
      BY <1>3 DEF Pause, Order, Later
    <2> QED BY <2>1, <2>2
  <1>4. CASE even_pages
    <2>1. Half(doc) = h /\ n \div 2 = h /\ Half(doc) + copied = n
      <3>1. Half(doc) = h /\ Len(doc) \div 2 = h
        <4>1. Len(doc) = 2 * h
          BY <1>2, <1>4
        <4> HIDE DEF h
        <4> QED BY <1>2, <4>1, Halves
      <3> QED BY <1>2, <1>4, <3>1
    <2>2. Came = [k \in 1..n |-> PageAt(doc, k)]
      BY <1>4, <2>1 DEF Came, Delivered
    <2>3. ASSUME NEW k \in 1..n
          PROVE  PageAt(doc, k) =
                   [pause |-> Pause(k), planes |-> doc[Order(k)]]
      <3>1. 1 <= h
        BY <1>2, <1>4
      <3>2. CASE k <= h
        <4>1. PageAt(doc, k) =
                [pause |-> IF k = 1 THEN 0 ELSE 1, planes |-> doc[2 * k - 1]]
          BY <1>4, <2>1, <3>2 DEF PageAt
        <4>2. Order(k) = 2 * k - 1 /\ Pause(k) = IF k = 1 THEN 0 ELSE 1
          BY <1>2, <1>4, <2>1, <3>2 DEF Order, Pause
        <4> QED BY <4>1, <4>2
      <3>3. CASE ~(k <= h)
        <4>1. PageAt(doc, k) =
                [pause |-> IF k = h + 1 THEN 2 ELSE 3,
                 planes |-> doc[2 * (Len(doc) - k) + 2]]
          BY <1>4, <2>1, <3>3 DEF PageAt
        <4>2. k # 1
          BY <1>2, <3>1, <3>3
        <4>3. /\ Order(k) = 2 * (Len(doc) - k) + 2
              /\ Pause(k) = IF k = h + 1 THEN 2 ELSE 3
          BY <1>2, <1>4, <2>1, <3>3, <4>2 DEF Order, Pause
        <4> QED BY <4>1, <4>3
      <3> QED BY <3>2, <3>3
    <2> QED BY <2>2, <2>3
  <1> QED BY <1>2, <1>3, <1>4

\* A finished stream is read as the document that went in: every plane of every
\* page complete, with the right pauses, in printing order where tmpfile gave a
\* file and in the order of the input where it did not, for any way JBIG may
\* cut its data and any number of pages; and SeekRec is overrun by no document
\* of 2 * MaxSeek pages or less.
THEOREM DocumentRead == Spec => []DocumentDecodes
  <1>1. ASSUME ReadInv PROVE DocumentDecodes
    <2>1. pc = "done" /\ ~blank => Len(doc) = document.pages /\ Decodes
      BY <1>1, DeliveredAll DEF ReadInv, CountInv, DecoderInv, Decodes
    <2> QED BY <1>1, <2>1 DEF ReadInv, PlacesInv, DocumentDecodes
  <1> QED BY <1>1, ReadInit, ReadNext, PTL DEF Spec
=============================================================================
