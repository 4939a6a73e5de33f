-------------------------- MODULE RasterInputProofs --------------------------
(***************************************************************************)
(* Proofs about RasterInput, for every stream, cut anywhere, of any number *)
(* of images of any sizes, and for every clip that leaves some of them:    *)
(* which pages the encoder makes of it and when it says that it succeeded. *)
(*                                                                         *)
(* The images lie one after the other in the stream (LayoutIs), and so do  *)
(* the rows of an image (RowsLie).  The inductive invariant says for every *)
(* place in the code at which byte of which image the encoder is and how   *)
(* much of the image is in its buffer.                                     *)
(***************************************************************************)
EXTENDS RasterInput, SequenceLemmas

-----------------------------------------------------------------------------
(* The stream, its units and its images                                    *)

Rects == [w : Nat, h : Nat]
Bytes == [is : {"byte"}, at : Nat \X Nat \X Nat, turned : BOOLEAN]
Units == {P4, Zero} \cup {Size(s) : s \in Rects} \cup Bytes

N == Len(input.sizes)
Bpl(k) == BytesFor(input.sizes[k].w)
Hdr == IF Kind = "cmyk" THEN 0 ELSE 2

\* What the units are.
LEMMA UnitsAre ==
  /\ P4 \in Units /\ Zero \in Units
  /\ \A s \in Rects : Size(s) \in Units
  /\ \A k \in Nat, r \in Nat, c \in Nat : Byte(k, r, c) \in Bytes
  /\ Bytes \subseteq Units
  <1>1. \A k \in Nat, r \in Nat, c \in Nat : Byte(k, r, c) \in Bytes
    BY DEF Byte, Bytes
  <1>2. Bytes \subseteq Units
    BY DEF Units
  <1> QED BY <1>1, <1>2 DEF Units

\* What the assumption says of the input that is read.
LEMMA InputIs ==
  ASSUME input \in Inputs
  PROVE  /\ Kind \in {"pbm", "cmyk", "pksm"}
         /\ PixelsPerByte \in {2, 8} /\ PerPage \in {1, 4} /\ Hdr \in {0, 2}
         /\ N \in Nat \ {0}
         /\ input.sizes \in Seq(Rects)
         /\ input.cut \in Nat
         /\ input.upper \in [x : Nat, y : Nat]
         /\ input.lower \in [x : Nat, y : Nat]
         /\ \A k \in 1..N :
              /\ input.sizes[k] \in Rects
              /\ input.sizes[k].w \in Nat /\ input.sizes[k].h \in Nat
              /\ input.upper.x + input.lower.x < input.sizes[k].w
              /\ input.upper.y + input.lower.y < input.sizes[k].h
              /\ Kind = "cmyk" => input.sizes[k] = input.sizes[1]
         /\ input.looks => Kind = "cmyk"
  <1>1. /\ input.sizes \in Seq(Rects) /\ input.sizes # <<>>
        /\ input.kind \in {"pbm", "cmyk", "pksm"}
        /\ input.cut \in Nat
        /\ input.looks => input.kind = "cmyk"
        /\ {input.upper, input.lower} \subseteq [x : Nat, y : Nat]
    BY InputsAssumption DEF Rects
  <1>2. \A k \in 1..Len(input.sizes) :
         /\ input.upper.x + input.lower.x < input.sizes[k].w
         /\ input.upper.y + input.lower.y < input.sizes[k].h
         /\ input.kind = "cmyk" => input.sizes[k] = input.sizes[1]
    BY InputsAssumption
  <1>3. N \in Nat \ {0}
    BY <1>1 DEF N
  <1>4. \A k \in 1..N : input.sizes[k] \in Rects
    BY <1>1 DEF N
  <1>5. \A s \in Rects : s.w \in Nat /\ s.h \in Nat
    BY DEF Rects
  <1>6. /\ PixelsPerByte \in {2, 8} /\ PerPage \in {1, 4} /\ Hdr \in {0, 2}
        /\ Kind = input.kind
    BY DEF PixelsPerByte, PerPage, Hdr, Kind
  <1>7. /\ input.upper \in [x : Nat, y : Nat]
        /\ input.lower \in [x : Nat, y : Nat]
    BY <1>1
  <1>8. \A k \in 1..N :
         /\ input.upper.x + input.lower.x < input.sizes[k].w
         /\ input.upper.y + input.lower.y < input.sizes[k].h
         /\ input.kind = "cmyk" => input.sizes[k] = input.sizes[1]
    BY <1>2 DEF N
  <1> QED BY <1>1, <1>3, <1>4, <1>5, <1>6, <1>7, <1>8

\* Rows have bytes.
LEMMA SomeBytes ==
  ASSUME input \in Inputs, NEW w \in Nat
  PROVE  BytesFor(w) \in Nat /\ (w > 0 => BytesFor(w) > 0)
  <1>1. PixelsPerByte = 2 \/ PixelsPerByte = 8
    BY InputIs
  <1> QED BY <1>1 DEF BytesFor

\* An image in the stream: its header, if it has one, and its rows.
LEMMA ImageIs ==
  ASSUME input \in Inputs, NEW k \in 1..N
  PROVE  /\ Image(k) \in Seq(Units)
         /\ Bpl(k) \in Nat \ {0} /\ input.sizes[k].h \in Nat \ {0}
         /\ input.sizes[k].h * Bpl(k) \in Nat
         /\ Len(Image(k)) = Hdr + input.sizes[k].h * Bpl(k)
         /\ Kind # "cmyk" =>
              Image(k)[1] = P4 /\ Image(k)[2] = Size(input.sizes[k])
         /\ \A n \in 1..(input.sizes[k].h * Bpl(k)) :
              Image(k)[Hdr + n] =
                Byte(k, (n - 1) \div Bpl(k), (n - 1) % Bpl(k))
  <1> DEFINE s == input.sizes[k]
             b == Bpl(k)
             rows == [n \in 1..(s.h * b) |->
                        Byte(k, (n - 1) \div b, (n - 1) % b)]
             head == IF Kind = "cmyk" THEN <<>> ELSE <<P4, Size(s)>>
  <1>1. Image(k) = head \o rows
    BY DEF Image, Bpl
  <1>2. /\ s \in Rects /\ s.w \in Nat /\ s.h \in Nat /\ s.w > 0 /\ s.h > 0
        /\ k \in Nat
    <2>1. /\ input.upper.x \in Nat /\ input.lower.x \in Nat
          /\ input.upper.y \in Nat /\ input.lower.y \in Nat
      BY InputIs
    <2>2. /\ s \in Rects /\ s.w \in Nat /\ s.h \in Nat
          /\ input.upper.x + input.lower.x < s.w
          /\ input.upper.y + input.lower.y < s.h
      BY InputIs
    <2>3. k \in Nat
      BY InputIs
    <2> QED BY <2>1, <2>2, <2>3
  <1>3. b \in Nat \ {0}
    BY <1>2, SomeBytes DEF Bpl
  <1>4. s.h * b \in Nat
    BY <1>2, <1>3
  <1> HIDE DEF s, b
  <1>5. rows \in Seq(Units) /\ Len(rows) = s.h * b
    <2>1. ASSUME NEW n \in 1..(s.h * b)
          PROVE  Byte(k, (n - 1) \div b, (n - 1) % b) \in Units
      <3>1. (n - 1) \div b \in Nat /\ (n - 1) % b \in Nat
        <4>1. n - 1 \in Nat
          OBVIOUS
        <4> QED BY <1>3, <4>1
      <3> QED BY <1>2, <3>1, UnitsAre
    <2> DEFINE m == s.h * b
    <2>2. m \in Nat
      BY <1>4
    <2> HIDE DEF m
    <2>3. rows \in [1..m -> Units]
      BY <2>1 DEF m
    <2> HIDE DEF rows
    <2>4. rows \in Seq(Units) /\ Len(rows) = m
      BY <2>2, <2>3
    <2> QED BY <2>4 DEF m
  <1>6. /\ head \in Seq(Units) /\ Len(head) = Hdr
        /\ Kind # "cmyk" => head[1] = P4 /\ head[2] = Size(s)
    BY <1>2, UnitsAre DEF Hdr
  <1>7. \A n \in 1..(s.h * b) :
          rows[n] = Byte(k, (n - 1) \div b, (n - 1) % b)
    OBVIOUS
  <1> HIDE DEF rows, head
  <1>8. /\ head \o rows \in Seq(Units)
        /\ Len(head \o rows) = Hdr + s.h * b
        /\ Kind # "cmyk" =>
             (head \o rows)[1] = P4 /\ (head \o rows)[2] = Size(s)
    <2>1. Kind # "cmyk" => Hdr = 2
      BY DEF Hdr
    <2>2. Hdr \in Nat
      BY InputIs
    <2> QED BY <1>4, <1>5, <1>6, <2>1, <2>2
  <1>9. ASSUME NEW n \in 1..(s.h * b)
        PROVE  (head \o rows)[Hdr + n] =
                 Byte(k, (n - 1) \div b, (n - 1) % b)
    <2>1. Hdr \in Nat /\ n \in 1..Len(rows)
      BY <1>5, InputIs
    <2>2. (head \o rows)[Hdr + n] = rows[n]
      BY <1>5, <1>6, <2>1
    <2> QED BY <1>7, <2>2
  <1>10. s.h \in Nat \ {0}
    BY <1>2
  <1> QED BY <1>1, <1>3, <1>4, <1>8, <1>9, <1>10 DEF s, b

-----------------------------------------------------------------------------
(* Where the images are in the stream                                      *)

Images == [k \in 1..N |-> Image(k)]
At(n) == Place(Images, n)

\* The images lie one after the other.
LEMMA LayoutIs ==
  ASSUME input \in Inputs
  PROVE  /\ At(0) = 0
         /\ \A n \in 0..N : At(n) \in Nat
         /\ \A k \in 1..N : At(k) = At(k - 1) + Len(Image(k))
         /\ Whole \in Seq(Units) /\ Len(Whole) = At(N)
         /\ \A k \in 1..N, i \in Nat : i \in 1..Len(Image(k)) =>
              Whole[At(k - 1) + i] = Image(k)[i]
  <1>1. N \in Nat
    BY InputIs
  <1>2. Images \in Seq(Seq(Units)) /\ Len(Images) = N
    <2>1. \A k \in 1..N : Image(k) \in Seq(Units)
      BY ImageIs
    <2>2. Images \in [1..N -> Seq(Units)]
      BY <2>1 DEF Images
    <2> QED BY <1>1, <2>2
  <1>3. \A k \in 1..N : Images[k] = Image(k)
    BY DEF Images
  <1>4. Whole = FlattenSeq(Images)
    BY DEF Whole, Images, N
  <1>5. /\ FlattenSeq(Images) \in Seq(Units)
        /\ Place(Images, 0) = 0
        /\ Place(Images, N) = Len(FlattenSeq(Images))
        /\ \A n \in 0..N : Place(Images, n) \in Nat
        /\ \A n \in 1..N :
             Place(Images, n) = Place(Images, n - 1) + Len(Images[n])
        /\ \A n \in 1..N, i \in Nat : i \in 1..Len(Images[n]) =>
             FlattenSeq(Images)[Place(Images, n - 1) + i] = Images[n][i]
    BY <1>2, FlattenPlaces
  <1> QED BY <1>3, <1>4, <1>5 DEF At

\* What arrives of the stream.
LEMMA StreamIs ==
  ASSUME input \in Inputs
  PROVE  /\ Stream \in Seq(Units) /\ Len(Stream) \in Nat
         /\ Len(Stream) <= At(N)
         /\ \A i \in 1..Len(Stream) : Stream[i] = Whole[i]
  <1>1. Whole \in Seq(Units) /\ Len(Whole) = At(N) /\ input.cut \in Nat
    BY InputIs, LayoutIs
  <1>2. CASE input.cut < Len(Whole)
    <2>1. Stream = SubSeq(Whole, 1, input.cut)
      BY <1>2 DEF Stream
    <2>2. 1..input.cut \subseteq 1..Len(Whole)
      BY <1>1, <1>2
    <2>3. /\ Stream \in Seq(Units) /\ Len(Stream) = input.cut
          /\ \A i \in 1..input.cut : Stream[i] = Whole[i]
      BY <1>1, <1>2, <2>1, <2>2
    <2> QED BY <1>1, <1>2, <2>3
  <1>3. CASE ~(input.cut < Len(Whole))
    BY <1>1, <1>3 DEF Stream
  <1> QED BY <1>2, <1>3

\* No image is empty.
LEMMA Increasing ==
  ASSUME input \in Inputs
  PROVE  /\ \A k \in 1..N : At(k - 1) + Hdr < At(k) /\ At(k - 1) < At(k)
         /\ \A m \in 0..N, n \in 0..N : m < n => At(m) < At(n)
  <1>1. N \in Nat /\ Hdr \in Nat
    BY InputIs
  <1>2. ASSUME NEW k \in 1..N
        PROVE  At(k - 1) + Hdr < At(k) /\ At(k - 1) < At(k)
    <2>1. k - 1 \in 0..N /\ At(k - 1) \in Nat
      <3>1. k - 1 \in 0..N
        BY <1>1
      <3> QED BY <3>1, LayoutIs
    <2>2. At(k) = At(k - 1) + Len(Image(k))
      BY LayoutIs
    <2>3. Len(Image(k)) > Hdr
      <3> DEFINE h == input.sizes[k].h
                 b == Bpl(k)
      <3>1. /\ b \in Nat \ {0} /\ h \in Nat \ {0}
            /\ Len(Image(k)) = Hdr + h * b
        BY ImageIs
      <3> HIDE DEF h, b
      <3>2. h * b >= 1 * b
        BY <3>1
      <3> QED BY <1>1, <3>1, <3>2
    <2> QED BY <1>1, <2>1, <2>2, <2>3
  <1> DEFINE S == {n \in Nat : n <= N =>
                     \A m \in 0..N : m < n => At(m) < At(n)}
  <1>3. 0 \in S
    OBVIOUS
  <1>4. ASSUME NEW n \in Nat, n \in S PROVE n + 1 \in S
    <2>1. SUFFICES ASSUME n + 1 <= N, NEW m \in 0..N, m < n + 1
                   PROVE  At(m) < At(n + 1)
      OBVIOUS
    <2>2. n + 1 \in 1..N /\ (n + 1) - 1 = n /\ n \in 0..N /\ n + 1 \in 0..N
      BY <1>1, <2>1
    <2>3. At(n) < At(n + 1)
      <3>1. At((n + 1) - 1) < At(n + 1)
        BY <1>2, <2>2
      <3> QED BY <2>2, <3>1
    <2>4. At(m) \in Nat /\ At(n) \in Nat /\ At(n + 1) \in Nat
      BY <2>2, LayoutIs
    <2>5. m < n => At(m) < At(n)
      <3>1. n <= N
        BY <2>2
      <3>2. \A i \in 0..N : i < n => At(i) < At(n)
        BY <1>4, <3>1
      <3> QED BY <3>2
    <2>6. m < n \/ m = n
      BY <2>1, <2>2
    <2> QED BY <2>3, <2>4, <2>5, <2>6
  <1> HIDE DEF S
  <1>5. Nat \subseteq S
    BY <1>3, <1>4, SetInduction
  <1> QED BY <1>2, <1>5 DEF S

\* The end of an image in the stream.
LEMMA EndsIs ==
  ASSUME input \in Inputs, NEW n \in 0..N
  PROVE  EndsAfter(n) <=> Len(Stream) = At(n)
  <1>1. N \in Nat
    BY InputIs
  <1>2. [k \in 1..n |-> Image(k)] = Prefix(Images, n)
    <2>1. \A k \in 1..n : k \in 1..N
      BY <1>1
    <2>2. \A k \in 1..n : Images[k] = Image(k)
      BY <2>1 DEF Images
    <2> QED BY <2>2 DEF Prefix
  <1> QED BY <1>2 DEF EndsAfter, At, Place

\* A cmyk raster is made of pages of one size.
LEMMA SameSizes ==
  ASSUME input \in Inputs, Kind = "cmyk"
  PROVE  /\ Len(Image(1)) = input.sizes[1].h * Bpl(1)
         /\ \A k \in 1..N : Bpl(k) = Bpl(1) /\ input.sizes[k] = input.sizes[1]
         /\ \A n \in 0..N : At(n) = n * Len(Image(1))
  <1>1. N \in Nat /\ 1 \in 1..N /\ Hdr = 0
    BY InputIs DEF Hdr
  <1>2. \A k \in 1..N : input.sizes[k] = input.sizes[1]
    BY InputIs
  <1>3. \A k \in 1..N : Bpl(k) = Bpl(1)
    BY <1>2 DEF Bpl
  <1>4. \A k \in 1..N : Len(Image(k)) = Hdr + input.sizes[k].h * Bpl(k)
    BY ImageIs
  <1>5. \A k \in 1..N : Len(Image(k)) = Len(Image(1))
    <2> TAKE k \in 1..N
    <2>1. Len(Image(k)) = Hdr + input.sizes[k].h * Bpl(k)
      BY <1>4
    <2>2. Len(Image(1)) = Hdr + input.sizes[1].h * Bpl(1)
      BY <1>1, <1>4
    <2>3. Bpl(k) = Bpl(1) /\ input.sizes[k] = input.sizes[1]
      BY <1>2, <1>3
    <2> QED BY <2>1, <2>2, <2>3, Zenon
  <1>6. Len(Image(1)) \in Nat /\ Len(Image(1)) = input.sizes[1].h * Bpl(1)
    <2>1. input.sizes[1].h * Bpl(1) \in Nat
      BY <1>1, ImageIs
    <2>2. Len(Image(1)) = Hdr + input.sizes[1].h * Bpl(1)
      BY <1>1, <1>4
    <2> QED BY <1>1, <2>1, <2>2
  <1>7. \A k \in 1..N : Image(k) \in Seq(Units)
    BY ImageIs
  <1>8. Images \in Seq(Seq(Units)) /\ Len(Images) = N
    <2>1. Images \in [1..N -> Seq(Units)]
      BY <1>7 DEF Images
    <2> QED BY <1>1, <2>1
  <1>9. \A k \in 1..Len(Images) : Len(Images[k]) = Len(Image(1))
    BY <1>5, <1>8 DEF Images
  <1>10. \A n \in 0..N : At(n) = n * Len(Image(1))
    BY <1>6, <1>8, <1>9, FlattenEven DEF At
  <1> QED BY <1>2, <1>3, <1>6, <1>10

-----------------------------------------------------------------------------
(* Where the rows of an image are                                          *)

Pixels == Bytes \cup {Zero}

\* The clips once they are aligned, and the bytes that are clipped on the left.
Aligned ==
  /\ upper = [x |-> input.upper.x - (input.upper.x % PixelsPerByte),
              y |-> input.upper.y]
  /\ lower = [x |-> input.lower.x + (input.upper.x % PixelsPerByte),
              y |-> input.lower.y]

Left == input.upper.x \div PixelsPerByte
Width(k) == BytesFor(input.sizes[k].w - input.upper.x - input.lower.x)
Height(k) == input.sizes[k].h - input.upper.y - input.lower.y

\* Where row r of the k-th image begins.
RowAt(k, r) == At(k - 1) + Hdr + r * Bpl(k)

\* How the bytes of a row are divided.
LEMMA ClipIs ==
  ASSUME input \in Inputs, Aligned, NEW k \in 1..N
  PROVE  /\ upper.x \div PixelsPerByte = Left /\ Left \in Nat
         /\ Width(k) \in Nat \ {0} /\ Left + Width(k) <= Bpl(k)
         /\ BytesFor(input.sizes[k].w - upper.x - lower.x) = Width(k)
         /\ Left + BytesFor(input.sizes[k].w - upper.x) = Bpl(k)
         /\ upper.y = input.upper.y /\ upper.y \in Nat
         /\ lower.y = input.lower.y /\ lower.y \in Nat
         /\ Height(k) \in Nat \ {0}
         /\ Height(k) = input.sizes[k].h - upper.y - lower.y
  <1> DEFINE w == input.sizes[k].w
             h == input.sizes[k].h
             u == input.upper.x
             l == input.lower.x
             b == PixelsPerByte
  <1>1. /\ w \in Nat /\ u \in Nat /\ l \in Nat /\ u + l < w /\ b \in {2, 8}
        /\ input.upper.y \in Nat /\ input.lower.y \in Nat /\ h \in Nat
        /\ input.upper.y + input.lower.y < h
    BY InputIs
  <1>2. /\ upper.x = u - (u % b) /\ lower.x = l + (u % b)
        /\ upper.y = input.upper.y /\ lower.y = input.lower.y
    BY DEF Aligned
  <1>3. /\ Left = u \div b
        /\ Width(k) = (w - u - l + b - 1) \div b
        /\ Bpl(k) = (w + b - 1) \div b
        /\ BytesFor(w - upper.x - lower.x)
             = (w - upper.x - lower.x + b - 1) \div b
        /\ BytesFor(w - upper.x) = (w - upper.x + b - 1) \div b
        /\ Height(k) = h - input.upper.y - input.lower.y
    BY DEF Left, Width, Bpl, BytesFor, Height
  <1> HIDE DEF w, h, u, l, b
  <1>4. /\ (u - (u % b)) \div b = u \div b
        /\ u \div b \in Nat
        /\ w - (u - (u % b)) - (l + (u % b)) = w - u - l
        /\ (u \div b) + ((w - (u - (u % b))) + b - 1) \div b
              = (w + b - 1) \div b
        /\ (w - u - l + b - 1) \div b \in Nat \ {0}
        /\ (u \div b) + (w - u - l + b - 1) \div b <= (w + b - 1) \div b
    <2>1. CASE b = 2
      BY <1>1, <2>1
    <2>2. CASE b = 8
      BY <1>1, <2>2
    <2> QED BY <1>1, <2>1, <2>2
  <1>5. upper.x \div b = Left /\ Left \in Nat
    BY <1>2, <1>3, <1>4
  <1>6. Width(k) \in Nat \ {0} /\ Left + Width(k) <= Bpl(k)
    BY <1>3, <1>4
  <1>7. BytesFor(w - upper.x - lower.x) = Width(k)
    BY <1>2, <1>3, <1>4
  <1>8. Left + BytesFor(w - upper.x) = Bpl(k)
    BY <1>2, <1>3, <1>4
  <1>9. /\ Height(k) \in Nat \ {0}
        /\ Height(k) = h - upper.y - lower.y
    BY <1>1, <1>2, <1>3
  <1> QED BY <1>1, <1>2, <1>5, <1>6, <1>7, <1>8, <1>9 DEF w, h, b

\* Where the rows of an image are.
LEMMA RowsLie ==
  ASSUME input \in Inputs, NEW k \in 1..N
  PROVE  /\ RowAt(k, 0) = At(k - 1) + Hdr
         /\ RowAt(k, input.sizes[k].h) = At(k)
         /\ \A r \in 0..input.sizes[k].h :
              /\ RowAt(k, r) \in Nat /\ RowAt(k, r) <= At(k)
              /\ RowAt(k, r + 1) = RowAt(k, r) + Bpl(k)
         /\ \A r \in 1..input.sizes[k].h : At(k - 1) < RowAt(k, r)
  <1> DEFINE h == input.sizes[k].h
             b == Bpl(k)
             a == At(k - 1)
  <1>1. /\ a \in Nat /\ At(k) \in Nat /\ At(k) = a + Hdr + h * b
        /\ h \in Nat /\ b \in Nat \ {0} /\ Hdr \in Nat
    <2>1. k - 1 \in 0..N /\ k \in 0..N
      BY InputIs
    <2>2. a \in Nat /\ At(k) \in Nat /\ At(k) = a + Len(Image(k))
      BY <2>1, LayoutIs
    <2>3. Len(Image(k)) = Hdr + h * b /\ h \in Nat /\ b \in Nat \ {0}
          /\ h * b \in Nat
      BY ImageIs
    <2>4. Hdr \in Nat
      BY InputIs
    <2> HIDE DEF a, h, b
    <2> QED BY <2>2, <2>3, <2>4
  <1>2. \A r : RowAt(k, r) = a + Hdr + r * b
    BY DEF RowAt
  <1> HIDE DEF h, b, a
  <1>3. ASSUME NEW r \in 0..h
        PROVE  /\ RowAt(k, r) \in Nat /\ RowAt(k, r) <= At(k)
               /\ RowAt(k, r + 1) = RowAt(k, r) + b
    <2>1. r \in Nat /\ r * b \in Nat /\ (h - r) * b >= 0
          /\ (h - r) * b = h * b - r * b /\ h * b \in Nat
      BY <1>1
    <2>2. r * b <= h * b
      BY <1>1, <2>1
    <2>3. (r + 1) * b = r * b + b
      BY <1>1, <2>1
    <2> QED BY <1>1, <1>2, <2>1, <2>2, <2>3
  <1>4. ASSUME NEW r \in 1..h PROVE a < RowAt(k, r)
    <2>1. r * b >= 1 * b /\ r * b \in Nat
      BY <1>1
    <2> QED BY <1>1, <1>2, <2>1
  <1>5. RowAt(k, 0) = a + Hdr
    BY <1>1, <1>2
  <1>6. RowAt(k, h) = At(k)
    BY <1>1, <1>2
  <1> QED BY <1>3, <1>4, <1>5, <1>6 DEF h, b, a

\* What is read of a row.
LEMMA RowRead ==
  ASSUME input \in Inputs, Aligned, NEW k \in 1..N,
         NEW r \in 0..(input.sizes[k].h - 1),
         RowAt(k, r) + Bpl(k) <= Len(Stream)
  PROVE  SubSeq(Stream, RowAt(k, r) + Left + 1, RowAt(k, r) + Left + Width(k))
           = [c \in 1..Width(k) |-> Byte(k, r, Left + c - 1)]
  <1> DEFINE h == input.sizes[k].h
             b == Bpl(k)
             a == At(k - 1)
             p == RowAt(k, r) + Left
             m == Width(k)
  <1>1. /\ h \in Nat /\ b \in Nat \ {0} /\ h * b \in Nat
        /\ Len(Image(k)) = Hdr + h * b
        /\ \A n \in 1..(h * b) :
             Image(k)[Hdr + n] = Byte(k, (n - 1) \div b, (n - 1) % b)
    BY ImageIs
  <1>2. Left \in Nat /\ m \in Nat \ {0} /\ Left + m <= b
    BY ClipIs
  <1>3. a \in Nat /\ Hdr \in Nat
    <2>1. k - 1 \in 0..N
      BY InputIs
    <2> QED BY <2>1, InputIs, LayoutIs, SMTT(40)
  <1>4. RowAt(k, r) = a + Hdr + r * b
    BY DEF RowAt
  <1>5. p = a + Hdr + r * b + Left /\ RowAt(k, r) + b <= Len(Stream)
    BY <1>4
  <1>6. \A i \in Nat : i \in 1..Len(Image(k)) => Whole[a + i] = Image(k)[i]
    BY LayoutIs
  <1>7. /\ Stream \in Seq(Units) /\ Len(Stream) \in Nat
        /\ \A i \in 1..Len(Stream) : Stream[i] = Whole[i]
    BY StreamIs
  <1> HIDE DEF h, b, a, p, m
  <1>8. r \in Nat /\ r * b \in Nat /\ r * b + b <= h * b
    <2>1. r + 1 <= h /\ r \in Nat
      <3>1. h \in Nat
        BY <1>1
      <3> QED BY <3>1 DEF h
    <2>2. (r + 1) * b = r * b + b
      BY <1>1, <2>1
    <2>3. (h - (r + 1)) * b >= 0 /\ (h - (r + 1)) * b = h * b - (r + 1) * b
      BY <1>1, <2>1
    <2>4. r * b \in Nat
      BY <1>1, <2>1
    <2> QED BY <1>1, <2>1, <2>2, <2>3, <2>4
  <1>9. p \in Nat /\ p + m <= Len(Stream)
    BY <1>1, <1>2, <1>3, <1>4, <1>5, <1>7, <1>8
  <1> DEFINE x == r * b
             z == h * b
  <1>10. /\ x \in Nat /\ z \in Nat /\ x + b <= z /\ p = a + Hdr + x + Left
         /\ Len(Image(k)) = Hdr + z
         /\ \A n \in 1..z :
              Image(k)[Hdr + n] = Byte(k, (n - 1) \div b, (n - 1) % b)
         /\ \A c \in 0..(b - 1) : (x + c) \div b = r /\ (x + c) % b = c
    <2>1. \A c \in 0..(b - 1) : (r * b + c) \div b = r /\ (r * b + c) % b = c
      BY <1>1, <1>8, RowOf, Zenon
    <2> QED BY <1>1, <1>5, <1>8, <2>1, Zenon
  <1> HIDE DEF x, z
  <1>11. ASSUME NEW c \in 1..m
         PROVE  Stream[p + c] = Byte(k, r, Left + c - 1)
    <2> DEFINE n == x + (Left + c)
    <2>1. /\ n \in 1..z /\ n - 1 = x + (Left + c - 1)
          /\ Left + c - 1 \in 0..(b - 1)
      BY <1>1, <1>2, <1>10
    <2>2. p + c = a + (Hdr + n) /\ p + c \in 1..Len(Stream)
      BY <1>2, <1>3, <1>7, <1>9, <1>10
    <2> HIDE DEF n
    <2>3. (n - 1) \div b = r /\ (n - 1) % b = Left + c - 1
      BY <1>10, <2>1
    <2>4. Stream[p + c] = Whole[a + (Hdr + n)]
      BY <1>7, <2>2
    <2>5. Hdr + n \in Nat /\ Hdr + n \in 1..Len(Image(k))
      BY <1>3, <1>10, <2>1
    <2>6. Whole[a + (Hdr + n)] = Image(k)[Hdr + n]
      BY <1>6, <2>5
    <2> QED BY <1>10, <2>1, <2>3, <2>4, <2>6
  <1> DEFINE s == SubSeq(Stream, p + 1, p + m)
             e == [c \in 1..m |-> Byte(k, r, Left + c - 1)]
  <1>12. s = e
    <2>1. s = [c \in 1..m |-> Stream[p + c]]
      BY <1>2, <1>7, <1>9
    <2>2. [c \in 1..m |-> Stream[p + c]] = e
      BY <1>11
    <2> QED BY <2>1, <2>2
  <1> QED BY <1>12 DEF p, m

-----------------------------------------------------------------------------
(* The images as they are encoded                                          *)

\* The rows of the k-th image as they are encoded.
Rows(k) == Padded(Cropped(k))

\* The sizes of an image and of what is left of it.
LEMMA SizesAre ==
  ASSUME input \in Inputs, NEW k \in 1..N
  PROVE  /\ Left \in Nat /\ Width(k) \in Nat \ {0} /\ Height(k) \in Nat \ {0}
         /\ input.upper.y \in Nat /\ input.lower.y \in Nat /\ k \in Nat
  <1> DEFINE w == input.sizes[k].w
             h == input.sizes[k].h
             u == input.upper.x
             l == input.lower.x
             b == PixelsPerByte
  <1>1. /\ w \in Nat /\ u \in Nat /\ l \in Nat /\ u + l < w /\ b \in {2, 8}
        /\ input.upper.y \in Nat /\ input.lower.y \in Nat /\ h \in Nat
        /\ input.upper.y + input.lower.y < h /\ k \in Nat
    BY InputIs
  <1>2. /\ Left = u \div b
        /\ Width(k) = (w - u - l + b - 1) \div b
        /\ Height(k) = h - input.upper.y - input.lower.y
    BY DEF Left, Width, BytesFor, Height
  <1> HIDE DEF w, h, u, l, b
  <1>3. u \div b \in Nat /\ (w - u - l + b - 1) \div b \in Nat \ {0}
    <2>1. CASE b = 2
      BY <1>1, <2>1
    <2>2. CASE b = 8
      BY <1>1, <2>2
    <2> QED BY <1>1, <2>1, <2>2
  <1> QED BY <1>1, <1>2, <1>3

\* Padding is made of bytes, if any.
LEMMA PaddingIs ==
  ASSUME NEW b \in Nat
  PROVE  Padding(b) \in Seq(Pixels) /\ Len(Padding(b)) \in Nat
  <1>1. Bytes16 \in Nat \ {0}
    BY Bytes16Assumption
  <1>2. b % Bytes16 \in 0..(Bytes16 - 1)
    BY <1>1
  <1> DEFINE n == Bytes16 - (b % Bytes16)
  <1>3. n \in Nat
    BY <1>1, <1>2
  <1>4. Padding(b) = IF Kind = "pbm" /\ b % Bytes16 # 0
                       THEN [k \in 1..n |-> Zero] ELSE <<>>
    BY DEF Padding
  <1> HIDE DEF n
  <1>5. [k \in 1..n |-> Zero] \in [1..n -> Pixels]
    BY DEF Pixels
  <1> DEFINE p == [k \in 1..n |-> Zero]
  <1> HIDE DEF p
  <1>6. p \in [1..n -> Pixels]
    BY <1>5 DEF p
  <1>7. p \in Seq(Pixels) /\ Len(p) \in Nat
    BY <1>3, <1>6
  <1>8. <<>> \in Seq(Pixels) /\ Len(<<>>) \in Nat
    OBVIOUS
  <1> QED BY <1>4, <1>7, <1>8 DEF p

\* All rows of an image are as long.
LEMMA RowsAre ==
  ASSUME input \in Inputs, NEW k \in 1..N
  PROVE  /\ Rows(k) \in Seq(Seq(Pixels)) /\ Len(Rows(k)) = Height(k)
         /\ Width(k) + Len(Padding(Width(k))) \in Nat
         /\ \A r \in 1..Height(k) :
              /\ Rows(k)[r] = [c \in 1..Width(k) |->
                                 Byte(k, input.upper.y + r - 1, Left + c - 1)]
                              \o Padding(Width(k))
              /\ Len(Rows(k)[r]) = Width(k) + Len(Padding(Width(k)))
  <1> DEFINE m == Width(k)
             h == Height(k)
             u == input.upper.y
             row(r) == [c \in 1..m |-> Byte(k, u + r - 1, Left + c - 1)]
             pad == Padding(m)
  <1>1. /\ Left \in Nat /\ m \in Nat \ {0} /\ h \in Nat \ {0}
        /\ u \in Nat /\ k \in Nat
    BY SizesAre
  <1>2. Cropped(k) = [r \in 1..h |-> row(r)]
    BY DEF Cropped, Height, Width, Left
  <1> HIDE DEF m, h, u
  <1>3. ASSUME NEW r \in 1..h
        PROVE  row(r) \in Seq(Pixels) /\ Len(row(r)) = m
    <2>1. ASSUME NEW c \in 1..m
          PROVE  Byte(k, u + r - 1, Left + c - 1) \in Pixels
      <3>1. u + r - 1 \in Nat /\ Left + c - 1 \in Nat
        BY <1>1
      <3> QED BY <1>1, <3>1, UnitsAre DEF Pixels
    <2>2. row(r) \in [1..m -> Pixels]
      BY <2>1
    <2> DEFINE f == row(r)
    <2> HIDE DEF f
    <2>3. f \in [1..m -> Pixels]
      BY <2>2 DEF f
    <2>4. f \in Seq(Pixels) /\ Len(f) = m
      BY <1>1, <2>3
    <2> QED BY <2>4 DEF f
  <1>4. pad \in Seq(Pixels) /\ Len(pad) \in Nat
    BY <1>1, PaddingIs
  <1>5. Len(Cropped(k)) = h /\ \A r \in 1..h : Cropped(k)[r] = row(r)
    <2> HIDE DEF row
    <2> QED BY <1>1, <1>2
  <1>6. Rows(k) = [r \in 1..h |-> row(r) \o pad]
    <2>1. Rows(k) =
            [r \in 1..h |-> Cropped(k)[r] \o Padding(Len(Cropped(k)[r]))]
      BY <1>5 DEF Rows, Padded
    <2> HIDE DEF row, pad
    <2>2. \A r \in 1..h : Cropped(k)[r] \o Padding(Len(Cropped(k)[r]))
                            = row(r) \o pad
      BY <1>3, <1>5 DEF pad
    <2> QED BY <2>1, <2>2
  <1> HIDE DEF row, pad
  <1>7. ASSUME NEW r \in 1..h
        PROVE  row(r) \o pad \in Seq(Pixels)
               /\ Len(row(r) \o pad) = m + Len(pad)
    BY <1>3, <1>4, Joined
  <1>8. Rows(k) \in Seq(Seq(Pixels)) /\ Len(Rows(k)) = h
    <2>1. Rows(k) \in [1..h -> Seq(Pixels)]
      BY <1>6, <1>7
    <2> QED BY <1>1, <2>1
  <1>9. \A r \in 1..h : Rows(k)[r] = row(r) \o pad
    BY <1>6
  <1>10. m + Len(pad) \in Nat
    BY <1>1, <1>4
  <1> QED BY <1>7, <1>8, <1>9, <1>10 DEF m, h, u, row, pad

\* The images as they are handed on.
Plain(k) == FlattenSeq(Rows(k))
Turned(k) == FlattenSeq(HalfTurn(Rows(k)))

\* They are sequences of bytes.
LEMMA PlainIs ==
  ASSUME input \in Inputs, NEW k \in 1..N
  PROVE  Plain(k) \in Seq(Pixels) /\ Len(Plain(k)) \in Nat
  <1>1. Plain(k) \in Seq(Pixels)
    BY RowsAre, FlattenPlaces DEF Plain
  <1> QED BY <1>1

\* A mirrored byte is one.
LEMMA MirrorIs == \A b \in Pixels : Mirror(b) \in Pixels
  <1> TAKE b \in Pixels
  <1>1. CASE b = Zero
    BY <1>1 DEF Mirror
  <1>2. CASE b # Zero
    <2>1. b \in Bytes
      BY <1>2 DEF Pixels
    <2>2. [b EXCEPT !.turned = ~@] \in Bytes
      BY <2>1 DEF Bytes
    <2> QED BY <1>2, <2>2 DEF Mirror, Pixels
  <1> QED BY <1>1, <1>2

\* A half turn reverses the bytes and the pixels in each of them.
LEMMA TurnedIs ==
  ASSUME input \in Inputs, NEW k \in 1..N
  PROVE  /\ Turned(k) \in Seq(Pixels) /\ Len(Turned(k)) = Len(Plain(k))
         /\ \A i \in 1..Len(Plain(k)) :
              Turned(k)[i] = Mirror(Plain(k)[Len(Plain(k)) + 1 - i])
  <1> DEFINE s == Rows(k)
             t == HalfTurn(s)
             n == Height(k)
             m == Width(k) + Len(Padding(Width(k)))
             f == [b \in Pixels |-> Mirror(b)]
  <1>1. /\ s \in Seq(Seq(Pixels)) /\ Len(s) = n /\ m \in Nat
        /\ \A r \in 1..n : Len(s[r]) = m
    BY RowsAre
  <1>2. n \in Nat
    BY SizesAre
  <1>3. t = [r \in 1..Len(s) |-> [c \in 1..Len(s[r]) |->
               Mirror(s[Len(s) + 1 - r][Len(s[r]) + 1 - c])]]
    BY DEF HalfTurn
  <1>4. /\ Plain(k) = FlattenSeq(s) /\ Turned(k) = FlattenSeq(t)
    BY DEF Plain, Turned
  <1> HIDE DEF s, t, n, m
  <1>5. t = [r \in 1..n |-> [c \in 1..m |-> Mirror(s[n + 1 - r][m + 1 - c])]]
    BY <1>1, <1>3
  <1>6. \A r \in 1..n, c \in 1..m : s[r][c] \in Pixels
    BY <1>1
  <1>7. ASSUME NEW r \in 1..n, NEW c \in 1..m
        PROVE  /\ n + 1 - r \in 1..n /\ m + 1 - c \in 1..m
               /\ s[n + 1 - r][m + 1 - c] \in Pixels
    <2>1. n + 1 - r \in 1..n /\ m + 1 - c \in 1..m
      BY <1>1, <1>2
    <2> QED BY <1>6, <2>1
  <1>8. ASSUME NEW r \in 1..n
        PROVE  /\ t[r] \in Seq(Pixels) /\ Len(t[r]) = m
               /\ \A c \in 1..m : t[r][c] = f[s[n + 1 - r][m + 1 - c]]
    <2> DEFINE g == [c \in 1..m |-> Mirror(s[n + 1 - r][m + 1 - c])]
    <2>1. t[r] = g
      BY <1>5
    <2>2. g \in [1..m -> Pixels]
      BY <1>7, MirrorIs
    <2>3. \A c \in 1..m : g[c] = f[s[n + 1 - r][m + 1 - c]]
      BY <1>7
    <2> HIDE DEF g
    <2>4. g \in Seq(Pixels) /\ Len(g) = m
      BY <1>1, <2>2
    <2> QED BY <2>1, <2>3, <2>4
  <1> HIDE DEF f
  <1>9. t \in Seq(Seq(Pixels)) /\ Len(t) = n
    <2>1. t \in [1..n -> Seq(Pixels)]
      BY <1>5, <1>8
    <2> QED BY <1>2, <2>1
  <1> DEFINE u == FlattenSeq(s)
             v == FlattenSeq(t)
  <1>10. /\ u \in Seq(Pixels) /\ Len(u) = n * m
         /\ \A r \in 1..n, c \in 1..m : u[(r - 1) * m + c] = s[r][c]
    <2>1. \A r \in 1..Len(s) : Len(s[r]) = m
      BY <1>1
    <2> HIDE DEF u
    <2>2. /\ u \in Seq(Pixels) /\ Len(u) = Len(s) * m
          /\ \A r \in 1..Len(s), c \in 1..m : u[(r - 1) * m + c] = s[r][c]
      BY <1>1, <2>1, FlattenRows DEF u
    <2> QED BY <1>1, <2>2
  <1>11. /\ v \in Seq(Pixels) /\ Len(v) = n * m
         /\ \A r \in 1..n, c \in 1..m : v[(r - 1) * m + c] = t[r][c]
    <2>1. \A r \in 1..Len(t) : Len(t[r]) = m
      BY <1>8, <1>9
    <2> HIDE DEF v
    <2>2. /\ v \in Seq(Pixels) /\ Len(v) = Len(t) * m
          /\ \A r \in 1..Len(t), c \in 1..m : v[(r - 1) * m + c] = t[r][c]
      BY <1>1, <1>9, <2>1, FlattenRows DEF v
    <2> QED BY <1>9, <2>2
  <1>12. \A r \in 1..n, c \in 1..m : t[r][c] = f[s[n + 1 - r][m + 1 - c]]
    BY <1>8
  <1> HIDE DEF u, v
  <1>13. ASSUME NEW i \in 1..(n * m)
         PROVE  v[i] = Mirror(u[n * m + 1 - i])
    <2>1. PICK r \in 1..n, c \in 1..m : i = (r - 1) * m + c
      BY <1>1, <1>2, InRows
    <2>2. n + 1 - r \in 1..n /\ m + 1 - c \in 1..m
      BY <1>7
    <2>3. n * m + 1 - i = ((n + 1 - r) - 1) * m + (m + 1 - c)
      <3>1. (n + 1 - r) - 1 = n - r
        BY <1>2
      <3>2. (n - r) * m = n * m - r * m /\ (r - 1) * m = r * m - m
        BY <1>1, <1>2
      <3>3. n * m \in Int /\ r * m \in Int
        BY <1>1, <1>2
      <3> QED BY <1>1, <2>1, <3>1, <3>2, <3>3
    <2>4. u[n * m + 1 - i] = s[n + 1 - r][m + 1 - c]
      BY <1>10, <2>2, <2>3
    <2>5. v[i] = f[s[n + 1 - r][m + 1 - c]]
      BY <1>11, <1>12, <2>1
    <2>6. s[n + 1 - r][m + 1 - c] \in Pixels
      BY <1>7
    <2> QED BY <2>4, <2>5, <2>6 DEF f
  <1>14. \A i \in 1..Len(u) : v[i] = Mirror(u[Len(u) + 1 - i])
    BY <1>10, <1>13
  <1>15. v \in Seq(Pixels) /\ Len(v) = Len(u)
    BY <1>10, <1>11
  <1> QED BY <1>4, <1>14, <1>15 DEF u, v

-----------------------------------------------------------------------------
(* The inductive invariant                                                 *)

\* The images that are complete.
Done == PerPage * Len(pages) + Len(planes)

\* The p-th image of the n-th page as it is encoded.
Wanted(n, p) ==
  LET k == PerPage * (n - 1) + p
  IN  IF input.turn /\ n % 2 = 0 THEN Turned(k) ELSE Plain(k)

Places == {"begin", "header", "top", "image", "bottom", "turn", "page",
           "write", "done", "failed", "astray"}
Halted == {"begin", "done", "failed", "astray"}
Reading == {"top", "image", "bottom", "turn", "page"}

TypesInv ==
  /\ input \in Inputs
  /\ pc \in Places
  /\ pos \in Nat
  /\ p4eaten \in BOOLEAN
  /\ y \in Nat
  /\ sp \in Nat
  /\ buf \in Seq(Pixels)
  /\ planes \in Seq(Seq(Pixels))
  /\ pages \in Seq(Seq(Seq(Pixels)))

\* The first row of an image is still to be read, if there is one.
AtStart ==
  /\ pc = IF input.upper.y > 0 THEN "top" ELSE "image"
  /\ y = 0
  /\ buf = <<>>
  /\ pos = At(Done) + Hdr

\* How much of the (k-1)-th image is turned.
HalfTurned(k) ==
  /\ Len(buf) = Len(Plain(k))
  /\ sp <= Len(Plain(k))
  /\ \A i \in 1..Len(Plain(k)) :
       buf[i] = IF i <= sp \/ i > Len(Plain(k)) - sp
                THEN Mirror(Plain(k)[Len(Plain(k)) + 1 - i]) ELSE Plain(k)[i]

\* Where the encoder is in the stream.
PlaceInv ==
  /\ Len(planes) < PerPage
  /\ Aligned \/ (upper = input.upper /\ lower = input.lower)
  /\ pc = "begin" => ~p4eaten /\ pos = 0 /\ planes = <<>> /\ pages = <<>>
  /\ pc \notin Halted =>
       /\ Stream # <<>>
       /\ pos <= Len(Stream)
       /\ Done <= N
       /\ Kind = "cmyk" => ~input.looks /\ size = input.sizes[1] /\ Aligned
  /\ pc \in Reading =>
       /\ Aligned
       /\ ~p4eaten
       /\ Done = N => Kind = "cmyk" /\ AtStart
       /\ Done < N => size = input.sizes[Done + 1]
  /\ pc = "header" =>
       /\ Kind # "cmyk"
       /\ pos = IF p4eaten THEN At(Done) + 1 ELSE At(Done)
       /\ p4eaten => Done = 0
  /\ pc = "write" => ~p4eaten /\ planes = <<>> /\ pos = At(Done)

\* What is in the buffer while the k-th image is read.
BufferAt(k) ==
  /\ pc \in {"top", "image", "bottom"} => sp = 0
  /\ pc = "top" =>
       y < input.upper.y /\ pos = RowAt(k, y) /\ buf = <<>>
  /\ pc = "image" =>
       /\ y < Height(k) /\ pos = RowAt(k, input.upper.y + y)
       /\ buf = FlattenSeq(Prefix(Rows(k), y))
  /\ pc = "bottom" =>
       /\ y < input.lower.y
       /\ pos = RowAt(k, input.upper.y + Height(k) + y)
       /\ buf = Plain(k)
  /\ pc = "turn" =>
       /\ input.turn /\ Len(pages) % 2 = 1
       /\ pos = At(k) /\ HalfTurned(k)
  /\ pc = "page" =>
       /\ pos = At(k)
       /\ buf = IF input.turn /\ Len(pages) % 2 = 1
                THEN Turned(k) ELSE Plain(k)

BufferInv == Done < N => BufferAt(Done + 1)

\* What was encoded.
PagesInv ==
  /\ \A p \in 1..Len(planes) : planes[p] = Wanted(Len(pages) + 1, p)
  /\ \A n \in 1..Len(pages), p \in 1..PerPage : pages[n][p] = Wanted(n, p)

\* The images of a page are as large as its first one.
First(k) == k - ((k - 1) % PerPage)
Fits(k) == input.sizes[k] = input.sizes[First(k)]

FitInv ==
  /\ \A k \in 1..Done : Fits(k)
  /\ pc \in Reading /\ Done < N => Fits(Done + 1)
  /\ Kind # "cmyk" /\ (planes # <<>> \/ pc \in Reading) =>
       saved = input.sizes[PerPage * Len(pages) + 1]

ReadInv ==
  TypesInv /\ PlaceInv /\ BufferInv /\ PagesInv /\ FitInv /\ WholeOrError

-----------------------------------------------------------------------------
(* Facts that the steps need                                               *)

\* The input does not change, nor what is said of it.
LEMMA SameInput ==
  ASSUME input' = input
  PROVE  /\ Kind' = Kind /\ PerPage' = PerPage /\ N' = N /\ Hdr' = Hdr
         /\ Stream' = Stream /\ Sound' = Sound
         /\ \A k : At(k)' = At(k) /\ Bpl(k)' = Bpl(k)
         /\ \A k : Height(k)' = Height(k) /\ Rows(k)' = Rows(k)
         /\ \A k : Plain(k)' = Plain(k) /\ Turned(k)' = Turned(k)
         /\ \A n, p : Wanted(n, p)' = Wanted(n, p)
         /\ \A k : Fits(k)' = Fits(k) /\ EndsAfter(k)' = EndsAfter(k)
  <1>1. /\ Kind' = Kind /\ PerPage' = PerPage /\ N' = N /\ Hdr' = Hdr
        /\ PixelsPerByte' = PixelsPerByte
    BY DEF Kind, PerPage, N, Hdr, PixelsPerByte
  <1>2. Stream' = Stream
    BY DEF Stream, Whole, Kind, Image, PixelsPerByte, BytesFor
  <1>3. \A k : At(k)' = At(k)
    BY DEF At, Images, N, Kind, Image, PixelsPerByte, BytesFor
  <1>4. \A k : Bpl(k)' = Bpl(k)
    BY DEF Bpl, Kind, PixelsPerByte, BytesFor
  <1>5. \A k : Height(k)' = Height(k) /\ Rows(k)' = Rows(k)
    BY DEF Height, Rows, Padded, Cropped, Kind, PixelsPerByte, BytesFor,
           Padding
  <1>6. \A k : Plain(k)' = Plain(k) /\ Turned(k)' = Turned(k)
    BY DEF Turned, HalfTurn, Plain, Rows, Padded, Cropped, Kind,
           PixelsPerByte, BytesFor, Padding
  <1>7. \A n, p : Wanted(n, p)' = Wanted(n, p)
    BY DEF Wanted, Turned, PerPage, HalfTurn, Plain, Rows, Padded, Cropped,
           Kind, PixelsPerByte, BytesFor, Padding
  <1>8. \A k : EndsAfter(k)' = EndsAfter(k)
    BY DEF EndsAfter, Stream, Whole, Kind, Image, PixelsPerByte, BytesFor
  <1>9. \A k : Fits(k)' = Fits(k)
    BY DEF Fits, First, PerPage, Kind
  <1>10. Sound' = Sound
    BY DEF Sound, EndsAfter, PerPage, Stream, Whole, Kind, Image,
           PixelsPerByte, BytesFor
  <1> QED BY <1>1, <1>2, <1>3, <1>4, <1>5, <1>6, <1>7, <1>8, <1>9, <1>10

\* What a sound stream has in front of its end.
LEMMA SoundIs ==
  ASSUME input \in Inputs
  PROVE  Sound <=> /\ ~input.looks
                   /\ Stream = <<>> => Kind # "pbm"
                   /\ \E n \in 0..N : /\ Len(Stream) = At(n)
                                      /\ n % PerPage = 0
                                      /\ \A k \in 1..n : Fits(k)
  BY EndsIs, Zenon DEF Sound, Fits, First, N

\* A stream that ends inside an image is not sound.
LEMMA NotBetween ==
  ASSUME input \in Inputs, NEW k \in 0..(N - 1),
         At(k) < Len(Stream), Len(Stream) < At(k + 1)
  PROVE  ~Sound
  <1>1. SUFFICES ASSUME NEW n \in 0..N, Len(Stream) = At(n) PROVE FALSE
    BY SoundIs
  <1>2. N \in Nat /\ k \in 0..N /\ k + 1 \in 0..N
    BY InputIs
  <1>3. At(n) \in Nat /\ At(k) \in Nat /\ At(k + 1) \in Nat
    BY <1>2, LayoutIs
  <1>4. n < k => At(n) < At(k)
    BY <1>2, Increasing
  <1>5. k + 1 < n => At(k + 1) < At(n)
    BY <1>2, Increasing
  <1>6. n < k \/ n = k \/ n = k + 1 \/ k + 1 < n
    BY <1>2
  <1> QED BY <1>1, <1>3, <1>4, <1>5, <1>6

\* A sound stream ends with a page.
LEMMA SoundAt ==
  ASSUME input \in Inputs, NEW k \in 0..N, Len(Stream) = At(k), Sound
  PROVE  k % PerPage = 0
  <1>1. PICK n \in 0..N : Len(Stream) = At(n) /\ n % PerPage = 0
    BY SoundIs
  <1>2. N \in Nat
    BY InputIs
  <1>3. At(n) \in Nat /\ At(k) \in Nat
    BY <1>2, LayoutIs
  <1>4. (n < k => At(n) < At(k)) /\ (k < n => At(k) < At(n))
    BY <1>2, Increasing
  <1>5. n = k
    BY <1>1, <1>2, <1>3, <1>4
  <1> QED BY <1>1, <1>5

\* The images of a sound stream fit.
LEMMA SoundReaches ==
  ASSUME input \in Inputs, NEW k \in 0..(N - 1), At(k) < Len(Stream), Sound
  PROVE  Fits(k + 1)
  <1>1. PICK n \in 0..N : Len(Stream) = At(n) /\ \A j \in 1..n : Fits(j)
    BY SoundIs
  <1>2. N \in Nat /\ k \in 0..N
    BY InputIs
  <1>3. At(n) \in Nat /\ At(k) \in Nat
    BY <1>2, LayoutIs
  <1>4. n < k => At(n) < At(k)
    BY <1>2, Increasing
  <1>5. k < n
    BY <1>1, <1>2, <1>3, <1>4
  <1>6. k + 1 \in 1..n
    BY <1>2, <1>5
  <1> QED BY <1>1, <1>6

\* The numbers of the images on a page.
LEMMA Numbers ==
  ASSUME input \in Inputs, NEW n \in Nat, NEW i \in Nat, i < PerPage
  PROVE  /\ PerPage * n + i \in Nat
         /\ (PerPage * n + i) % PerPage = i
         /\ First(PerPage * n + i + 1) = PerPage * n + 1
         /\ PerPage * (n + 1) = PerPage * n + PerPage
         /\ PerPage * ((n + 1) - 1) = PerPage * n
  <1>1. PerPage = 1 \/ PerPage = 4
    BY InputIs
  <1>2. CASE PerPage = 1
    BY <1>2 DEF First
  <1>3. CASE PerPage = 4
    BY <1>3 DEF First
  <1> QED BY <1>1, <1>2, <1>3

\* Nothing is read at the beginning.
LEMMA InputInit == Init => ReadInv
  <1> SUFFICES ASSUME Init PROVE ReadInv
    OBVIOUS
  <1>1. /\ input \in Inputs /\ pc = "begin" /\ pos = 0 /\ p4eaten = FALSE
        /\ upper = input.upper /\ lower = input.lower /\ y = 0 /\ buf = <<>>
        /\ sp = 0 /\ planes = <<>> /\ pages = <<>>
    BY DEF Init
  <1>2. PerPage \in {1, 4} /\ N \in Nat \ {0}
    BY <1>1, InputIs
  <1>3. Len(planes) = 0 /\ Len(pages) = 0 /\ Done = 0
    BY <1>1, <1>2 DEF Done
  <1>4. TypesInv
    <2>1. /\ <<>> \in Seq(Pixels) /\ <<>> \in Seq(Seq(Pixels))
          /\ <<>> \in Seq(Seq(Seq(Pixels)))
      OBVIOUS
    <2>2. 0 \in Nat /\ FALSE \in BOOLEAN /\ "begin" \in Places
      BY DEF Places
    <2> QED BY <1>1, <2>1, <2>2 DEF TypesInv
  <1>5. PlaceInv
    BY <1>1, <1>2, <1>3 DEF PlaceInv, Halted, Reading
  <1>6. BufferInv
    BY <1>1 DEF BufferInv, BufferAt
  <1>7. PagesInv
    BY <1>3 DEF PagesInv
  <1>8. FitInv
    BY <1>1, <1>3 DEF FitInv, Reading
  <1>9. WholeOrError
    BY <1>1 DEF WholeOrError
  <1> QED BY <1>4, <1>5, <1>6, <1>7, <1>8, <1>9 DEF ReadInv

\* As long as the encoder goes on nothing is said of its end.
LEMMA GoesOn ==
  ASSUME pc' \notin {"done", "failed", "astray"}
  PROVE  WholeOrError'
  BY DEF WholeOrError

\* The clip, aligned now or before.
LEMMA Aligns ==
  ASSUME input \in Inputs, input' = input,
         Aligned \/ (upper = input.upper /\ lower = input.lower),
         AlignClip(PixelsPerByte)
  PROVE  Aligned'
  <1> DEFINE u == input.upper.x
             b == PixelsPerByte
  <1>1. b \in {2, 8} /\ u \in Nat /\ input.lower.x \in Nat
    BY InputIs
  <1>2. /\ input.upper = [x |-> u, y |-> input.upper.y]
        /\ input.lower = [x |-> input.lower.x, y |-> input.lower.y]
    BY InputIs
  <1>3. PixelsPerByte' = b
    BY DEF PixelsPerByte, Kind
  <1>4. /\ upper' = [upper EXCEPT !.x = @ - (@ % b)]
        /\ lower' = [lower EXCEPT !.x = @ + (upper.x % b)]
    BY DEF AlignClip
  <1> HIDE DEF u, b
  <1>5. u % b \in Nat /\ u - (u % b) \in Nat /\ (u - (u % b)) % b = 0
    <2>1. CASE b = 2
      BY <1>1, <2>1
    <2>2. CASE b = 8
      BY <1>1, <2>2
    <2> QED BY <1>1, <2>1, <2>2
  <1>6. CASE Aligned
    <2>1. /\ upper = [x |-> u - (u % b), y |-> input.upper.y]
          /\ lower = [x |-> input.lower.x + (u % b), y |-> input.lower.y]
      BY <1>6 DEF Aligned, u, b
    <2>2. upper' = upper
      BY <1>4, <1>5, <2>1
    <2>3. lower' = lower
      <3>1. upper.x % b = 0
        BY <1>5, <2>1
      <3>2. lower.x + 0 = lower.x
        BY <1>1, <1>5, <2>1
      <3>3. lower' = [lower EXCEPT !.x = lower.x]
        BY <1>4, <3>1, <3>2
      <3> QED BY <2>1, <3>3
    <2> QED BY <1>3, <2>1, <2>2, <2>3 DEF Aligned, u
  <1>7. CASE upper = input.upper /\ lower = input.lower
    <2>1. /\ upper' = [x |-> u - (u % b), y |-> input.upper.y]
          /\ lower' = [x |-> input.lower.x + (u % b), y |-> input.lower.y]
      BY <1>2, <1>4, <1>7
    <2> QED BY <1>3, <2>1 DEF Aligned, u
  <1> QED BY <1>6, <1>7

\* An image is begun.
LEMMA ImageBegins ==
  ASSUME ReadInv, input' = input, StartImage, upper.y = input.upper.y,
         Aligned', ~p4eaten', p4eaten' \in BOOLEAN,
         UNCHANGED <<planes, pages>>,
         pos' = At(Done) + Hdr, pos' <= Len(Stream), Stream # <<>>,
         Done <= N, Done = N => Kind = "cmyk",
         Kind = "cmyk" => ~input.looks /\ size' = input.sizes[1],
         Done < N => size' = input.sizes[Done + 1] /\ Fits(Done + 1),
         Kind # "cmyk" => saved' = input.sizes[PerPage * Len(pages) + 1]
  PROVE  ReadInv'
  <1>1. /\ pc' = IF input.upper.y > 0 THEN "top" ELSE "image"
        /\ y' = 0 /\ buf' = <<>> /\ sp' = 0
    BY DEF StartImage
  <1>2. input \in Inputs /\ Len(planes) < PerPage
    BY DEF ReadInv, TypesInv, PlaceInv
  <1>3. pc' \in {"top", "image"}
    BY <1>1
  <1>4. /\ Kind' = Kind /\ PerPage' = PerPage /\ N' = N /\ Hdr' = Hdr
        /\ Stream' = Stream /\ \A k : At(k)' = At(k)
        /\ \A k : Bpl(k)' = Bpl(k)
        /\ \A k : Height(k)' = Height(k) /\ Rows(k)' = Rows(k)
        /\ \A n, p : Wanted(n, p)' = Wanted(n, p)
        /\ \A k : Fits(k)' = Fits(k)
    BY SameInput
  <1>5. Done' = Done
    BY <1>4 DEF Done
  <1>6. N \in Nat \ {0} /\ PerPage \in {1, 4} /\ Hdr \in {0, 2}
    BY <1>2, InputIs
  <1>7. Len(planes) \in Nat /\ Len(pages) \in Nat
    BY DEF ReadInv, TypesInv
  <1>8. Done \in Nat
    BY <1>6, <1>7 DEF Done
  <1>9. At(Done) \in Nat
    <2>1. Done \in 0..N
      BY <1>6, <1>8
    <2> QED BY <1>2, <2>1, LayoutIs
  <1>10. TypesInv'
    <2>1. /\ input' \in Inputs /\ planes' \in Seq(Seq(Pixels))
          /\ pages' \in Seq(Seq(Seq(Pixels)))
      BY DEF ReadInv, TypesInv
    <2>2. pos' \in Nat
      BY <1>6, <1>9
    <2>3. pc' \in Places /\ y' \in Nat /\ sp' \in Nat /\ buf' \in Seq(Pixels)
      BY <1>1, <1>3 DEF Places
    <2> QED BY <2>1, <2>2, <2>3 DEF TypesInv
  <1>11. AtStart'
    <2>1. At(Done)' = At(Done')
      BY SameInput DEF At
    <2> QED BY <1>1, <1>4, <1>5 DEF AtStart
  <1>12. PlaceInv'
    <2>1. /\ pc' \notin Halted /\ pc' \in Reading
          /\ pc' \notin {"header", "write", "begin"}
      BY <1>3 DEF Halted, Reading
    <2>2. Len(planes') < PerPage'
      BY <1>2, <1>4
    <2>3. /\ Stream' # <<>> /\ pos' <= Len(Stream') /\ Done' <= N'
          /\ Kind' = "cmyk" => ~input'.looks /\ size' = input'.sizes[1]
      BY <1>4, <1>5
    <2>4. /\ Done' = N' => Kind' = "cmyk" /\ AtStart'
          /\ Done' < N' => size' = input'.sizes[Done' + 1]
      BY <1>4, <1>5, <1>11
    <2> QED BY <2>1, <2>2, <2>3, <2>4 DEF PlaceInv
  <1>13. BufferInv'
    <2>1. SUFFICES ASSUME Done < N PROVE BufferAt(Done + 1)'
      BY <1>4, <1>5 DEF BufferInv
    <2>2. PICK k \in 1..N : k = Done + 1
      BY <1>6, <1>8, <2>1
    <2>3. k = (Done + 1)' /\ k - 1 = Done
      BY <1>5, <1>8, <2>2
    <2>4. RowAt(k, 0) = pos' /\ input.upper.y \in Nat
      BY <1>2, <2>2, <2>3, RowsLie, InputIs
    <2>5. Height(k) > 0 /\ FlattenSeq(Prefix(Rows(k), 0)) = <<>>
      BY <1>2, <2>2, SizesAre, RowsAre, FlattenStep
    <2>6. Bpl(k) \in Nat /\ pos' = At(k - 1) + Hdr /\ pos' \in Nat
      BY <1>2, <1>6, <1>9, <2>2, <2>3, ImageIs, SMTT(40)
    <2>7. y' * Bpl(k) = 0
      BY <1>1, <2>6
    <2>8. RowAt(k, y)' = pos'
      BY <1>4, <1>6, <2>6, <2>7 DEF RowAt
    <2>9. pc' = "image" => input'.upper.y + y' = 0
      BY <1>1, <2>4
    <2>10. pc' = "image" => RowAt(k, input.upper.y + y)' = pos'
      BY <1>4, <1>6, <2>6, <2>9, <2>7, <1>1 DEF RowAt
    <2>11. y' < Height(k)' /\ buf' = FlattenSeq(Prefix(Rows(k)', y'))
      BY <1>1, <1>4, <2>5
    <2>12. pc' = "top" => y' < input'.upper.y
      BY <1>1, <2>4
    <2>13. BufferAt(k)'
      BY <1>1, <1>3, <2>8, <2>10, <2>11, <2>12 DEF BufferAt
    <2> QED BY <2>3, <2>13
  <1>14. PagesInv'
    BY <1>4 DEF ReadInv, PagesInv
  <1>15. FitInv'
    BY <1>4, <1>5 DEF ReadInv, FitInv
  <1>16. WholeOrError'
    BY <1>3, GoesOn
  <1> QED BY <1>10, <1>12, <1>13, <1>14, <1>15, <1>16 DEF ReadInv

-----------------------------------------------------------------------------
(* Ways on                                                                 *)

\* What holds of the numbers in every state.
LEMMA NumbersAre ==
  ASSUME ReadInv
  PROVE  /\ input \in Inputs
         /\ N \in Nat \ {0} /\ PerPage \in {1, 4} /\ Hdr \in {0, 2}
         /\ Kind \in {"pbm", "cmyk", "pksm"}
         /\ Len(planes) \in Nat /\ Len(pages) \in Nat /\ Done \in Nat
         /\ Len(planes) < PerPage
         /\ pos \in Nat /\ y \in Nat /\ sp \in Nat /\ Len(Stream) \in Nat
         /\ buf \in Seq(Pixels) /\ planes \in Seq(Seq(Pixels))
         /\ pages \in Seq(Seq(Seq(Pixels)))
         /\ p4eaten \in BOOLEAN
  <1>1. /\ input \in Inputs /\ planes \in Seq(Seq(Pixels))
        /\ pages \in Seq(Seq(Seq(Pixels))) /\ buf \in Seq(Pixels)
        /\ pos \in Nat /\ y \in Nat /\ sp \in Nat /\ p4eaten \in BOOLEAN
    BY DEF ReadInv, TypesInv
  <1>2. /\ N \in Nat \ {0} /\ PerPage \in {1, 4} /\ Hdr \in {0, 2}
        /\ Kind \in {"pbm", "cmyk", "pksm"}
    BY <1>1, InputIs
  <1>3. Len(planes) \in Nat /\ Len(pages) \in Nat
    BY <1>1
  <1>4. Len(Stream) \in Nat
    BY <1>1, StreamIs
  <1>5. Len(planes) < PerPage
    BY DEF ReadInv, PlaceInv
  <1> QED BY <1>1, <1>2, <1>3, <1>4, <1>5 DEF Done

\* The encoder stops.
LEMMA Stops ==
  ASSUME ReadInv, UNCHANGED <<input, p4eaten, clip, y, image, pages>>,
         pos' \in Nat, pc' \in {"done", "failed", "astray"},
         pc' = "failed" => ~Sound,
         pc' = "astray" => input.looks,
         pc' = "done" /\ Kind # "cmyk" =>
           Sound /\ EndsAfter(PerPage * Len(pages)),
         pc' = "done" /\ Kind = "cmyk" =>
           LET dropped == Len(Stream) - Len(pages) * Len(Image(1))
               skipped == IF input.upper.y > 0 THEN input.upper.y ELSE 1
           IN  /\ 0 <= dropped
               /\ dropped < skipped * BytesFor(input.sizes[1].w)
  PROVE  ReadInv'
  <1>1. /\ input' = input /\ p4eaten' = p4eaten /\ upper' = upper
        /\ lower' = lower /\ y' = y /\ size' = size /\ saved' = saved
        /\ buf' = buf /\ sp' = sp /\ planes' = planes /\ pages' = pages
    BY DEF clip, image
  <1>2. /\ Kind' = Kind /\ PerPage' = PerPage /\ N' = N /\ Hdr' = Hdr
        /\ Stream' = Stream /\ Sound' = Sound
        /\ \A n, p : Wanted(n, p)' = Wanted(n, p)
        /\ \A k : Fits(k)' = Fits(k) /\ EndsAfter(k)' = EndsAfter(k)
    BY <1>1, SameInput
  <1>3. Done' = Done
    BY <1>1, <1>2 DEF Done
  <1>4. pc' \notin {"begin", "header", "top", "image", "bottom", "turn",
                    "page", "write"}
    OBVIOUS
  <1>5. TypesInv'
    BY <1>1 DEF ReadInv, TypesInv, Places
  <1>6. Aligned => Aligned'
    BY <1>1 DEF Aligned, PixelsPerByte, Kind
  <1>7. PlaceInv'
    BY <1>1, <1>2, <1>4, <1>6 DEF ReadInv, PlaceInv, Halted, Reading
  <1>8. BufferInv'
    BY <1>4 DEF BufferInv, BufferAt
  <1>9. PagesInv'
    BY <1>1, <1>2 DEF ReadInv, PagesInv
  <1>10. FitInv'
    BY <1>1, <1>2, <1>3, <1>4 DEF ReadInv, FitInv, Reading
  <1>11. WholeOrError'
    <2>1. pc' = "failed" => ~Sound'
      BY <1>2
    <2>2. pc' = "done" /\ Kind' # "cmyk" =>
            Sound' /\ EndsAfter(PerPage * Len(pages))'
      BY <1>1, <1>2 DEF EndsAfter, Image, BytesFor, PixelsPerByte, Kind
    <2>3. pc' = "done" /\ Kind' = "cmyk" =>
            (LET dropped == Len(Stream) - Len(pages) * Len(Image(1))
                 skipped == IF input.upper.y > 0 THEN input.upper.y ELSE 1
             IN  /\ 0 <= dropped
                 /\ dropped < skipped * BytesFor(input.sizes[1].w))'
      BY <1>1, <1>2 DEF Image, BytesFor, PixelsPerByte, Kind
    <2>4. pc' = "astray" => input'.looks
      BY <1>1
    <2> QED BY <2>1, <2>2, <2>3, <2>4 DEF WholeOrError
  <1> QED BY <1>5, <1>7, <1>8, <1>9, <1>10, <1>11 DEF ReadInv

\* The encoder stays in the image.
LEMMA StaysInImage ==
  ASSUME ReadInv,
         UNCHANGED <<input, p4eaten, clip, size, saved, planes, pages>>,
         pc \in Reading, pc' \in Reading, Done < N,
         pos' \in Nat, pos' <= Len(Stream), y' \in Nat, sp' \in Nat,
         buf' \in Seq(Pixels),
         \A k \in 1..N : k = Done + 1 => BufferAt(k)'
  PROVE  ReadInv'
  <1>1. /\ input' = input /\ p4eaten' = p4eaten /\ upper' = upper
        /\ lower' = lower /\ size' = size /\ saved' = saved
        /\ planes' = planes /\ pages' = pages
    BY DEF clip
  <1>2. /\ Kind' = Kind /\ PerPage' = PerPage /\ N' = N /\ Hdr' = Hdr
        /\ Stream' = Stream
        /\ \A n, p : Wanted(n, p)' = Wanted(n, p)
        /\ \A k : Fits(k)' = Fits(k)
    BY <1>1, SameInput
  <1>3. Done' = Done
    BY <1>1, <1>2 DEF Done
  <1>4. /\ pc' \notin {"begin", "header", "write", "done", "failed", "astray"}
        /\ pc' \notin Halted /\ pc \notin Halted
        /\ pc' \in Places
    BY DEF Reading, Halted, Places
  <1>5. TypesInv'
    BY <1>1, <1>4 DEF ReadInv, TypesInv
  <1>6. Aligned => Aligned'
    BY <1>1 DEF Aligned, PixelsPerByte, Kind
  <1>7. PlaceInv'
    BY <1>1, <1>2, <1>3, <1>4, <1>6, NumbersAre DEF ReadInv, PlaceInv
  <1>8. BufferInv'
    <2>1. Done \in Nat /\ N \in Nat
      BY NumbersAre
    <2>2. Done + 1 \in 1..N
      BY <2>1
    <2>3. PICK k \in 1..N : k = Done + 1
      BY <2>2
    <2>4. BufferAt(k)' /\ k = (Done + 1)'
      BY <1>3, <2>3
    <2> QED BY <2>4 DEF BufferInv
  <1>9. PagesInv'
    BY <1>1, <1>2 DEF ReadInv, PagesInv
  <1>10. FitInv'
    BY <1>1, <1>2, <1>3, <1>4 DEF ReadInv, FitInv
  <1>11. WholeOrError'
    BY <1>4, GoesOn
  <1> QED BY <1>5, <1>7, <1>8, <1>9, <1>10, <1>11 DEF ReadInv

-----------------------------------------------------------------------------
(* do_one and pbm_header                                                   *)

\* Where the encoder begins.
LEMMA AtBegin ==
  ASSUME ReadInv, pc = "begin"
  PROVE  /\ ~p4eaten /\ pos = 0 /\ planes = <<>> /\ pages = <<>>
         /\ Done = 0 /\ At(Done) = 0 /\ PerPage * Len(pages) = 0
         /\ upper.y = input.upper.y
  <1>1. ~p4eaten /\ pos = 0 /\ planes = <<>> /\ pages = <<>>
    BY DEF ReadInv, PlaceInv
  <1>2. Len(planes) = 0 /\ Len(pages) = 0 /\ PerPage \in {1, 4}
    BY <1>1, NumbersAre
  <1>3. Done = 0 /\ PerPage * Len(pages) = 0
    BY <1>2 DEF Done
  <1>4. At(Done) = 0
    BY <1>3, NumbersAre, LayoutIs
  <1>5. upper.y = input.upper.y
    BY DEF ReadInv, PlaceInv, Aligned
  <1> QED BY <1>1, <1>3, <1>4, <1>5

\* do_one goes on with the rest of a header.
LEMMA BeginHeader ==
  ASSUME ReadInv, pc = "begin", Stream # <<>>, Kind # "cmyk", input' = input,
         p4eaten' = TRUE, pos' = 1, pc' = "header",
         UNCHANGED <<clip, y, image, pages>>
  PROVE  ReadInv'
  <1>1. /\ upper' = upper /\ lower' = lower /\ y' = y /\ buf' = buf
        /\ sp' = sp /\ planes' = planes /\ pages' = pages
    BY DEF clip, image
  <1>2. /\ Kind' = Kind /\ PerPage' = PerPage /\ N' = N /\ Hdr' = Hdr
        /\ Stream' = Stream /\ \A k : At(k)' = At(k)
        /\ \A n, p : Wanted(n, p)' = Wanted(n, p)
        /\ \A k : Fits(k)' = Fits(k)
    BY SameInput
  <1>3. Done' = Done /\ Done = 0 /\ At(0) = 0 /\ planes = <<>> /\ pages = <<>>
    BY <1>1, <1>2, AtBegin DEF Done
  <1>4. At(Done)' = 0
    <2>1. At(Done)' = At(0)'
      BY <1>3 DEF At
    <2> QED BY <1>2, <1>3, <2>1
  <1>5. Len(Stream) \in Nat /\ Len(Stream) # 0
    BY NumbersAre, StreamIs
  <1>6. TypesInv'
    BY <1>1 DEF ReadInv, TypesInv, Places
  <1>7. PlaceInv'
    <2>1. pc' \notin Halted /\ pc' \notin Reading
      BY DEF Halted, Reading
    <2>2. Aligned => Aligned'
      BY <1>1, <1>2 DEF Aligned, PixelsPerByte
    <2>3. /\ Len(planes') < PerPage' /\ Stream' # <<>> /\ pos' <= Len(Stream')
          /\ Done' <= N' /\ Done' = 0
      BY <1>1, <1>2, <1>3, <1>5, NumbersAre
    <2>4. Aligned \/ (upper = input.upper /\ lower = input.lower)
      BY DEF ReadInv, PlaceInv
    <2> QED BY <1>1, <1>2, <1>4, <2>1, <2>2, <2>3, <2>4 DEF PlaceInv
  <1>8. BufferInv'
    BY DEF BufferInv, BufferAt
  <1>9. PagesInv'
    BY <1>1, <1>2 DEF ReadInv, PagesInv
  <1>10. FitInv'
    BY <1>1, <1>2, <1>3, NumbersAre DEF FitInv, Reading
  <1>11. WholeOrError'
    BY GoesOn
  <1> QED BY <1>6, <1>7, <1>8, <1>9, <1>10, <1>11 DEF ReadInv

\* do_one.
LEMMA BeginStep ==
  ASSUME ReadInv, Begin
  PROVE  ReadInv'
  <1>1. pc = "begin" /\ input' = input
    BY DEF Begin
  <1>2. input \in Inputs /\ N \in Nat \ {0} /\ PerPage \in {1, 4}
    BY NumbersAre
  <1>3. CASE /\ Stream = <<>>
             /\ pc' = IF Kind = "pbm" THEN "failed" ELSE "done"
             /\ UNCHANGED <<pos, p4eaten, clip, y, image, pages>>
    <2>1. Len(Stream) = 0 /\ PerPage * Len(pages) = 0 /\ Len(pages) = 0
      BY <1>1, <1>3, AtBegin
    <2>2. UNCHANGED <<input, p4eaten, clip, y, image, pages>> /\ pos' = pos
      BY <1>1, <1>3
    <2>3. pc' = "failed" => ~Sound
      BY <1>2, <1>3, SoundIs
    <2>4. 0 \in 0..N /\ At(0) = 0 /\ 0 % PerPage = 0
      BY <1>2, LayoutIs
    <2>5. EndsAfter(0)
      BY <1>2, <2>1, <2>4, EndsIs
    <2>6. \A k \in 1..0 : Fits(k)
      OBVIOUS
    <2>7. Kind # "cmyk" /\ Kind # "pbm" => Sound
      BY <1>2, <2>1, <2>4, <2>6, SoundIs, InputIs
    <2>8. pc' = "done" /\ Kind # "cmyk" =>
            Sound /\ EndsAfter(PerPage * Len(pages))
      BY <1>3, <2>1, <2>5, <2>7
    <2>9. LET dropped == Len(Stream) - Len(pages) * Len(Image(1))
              skipped == IF input.upper.y > 0 THEN input.upper.y ELSE 1
          IN  Kind = "cmyk" =>
                /\ 0 <= dropped
                /\ dropped < skipped * BytesFor(input.sizes[1].w)
      <3> DEFINE bytes == BytesFor(input.sizes[1].w)
      <3>1. bytes \in Nat \ {0} /\ Len(Image(1)) \in Nat
        BY <1>2, ImageIs DEF Bpl
      <3>2. input.upper.y \in Nat
        BY <1>2, InputIs
      <3> HIDE DEF bytes
      <3>3. Len(Stream) - Len(pages) * Len(Image(1)) = 0
        BY <2>1, <3>1
      <3>4. 0 < (IF input.upper.y > 0 THEN input.upper.y ELSE 1) * bytes
        <4> DEFINE s == IF input.upper.y > 0 THEN input.upper.y ELSE 1
        <4>1. s \in Nat \ {0}
          BY <3>2
        <4> HIDE DEF s
        <4>2. 0 < s * bytes
          BY <3>1, <4>1
        <4> QED BY <4>2 DEF s
      <3> QED BY <3>3, <3>4 DEF bytes
    <2>10. pos' \in Nat /\ pc' \in {"done", "failed"}
      BY <1>3, NumbersAre
    <2> QED BY <2>2, <2>3, <2>8, <2>9, <2>10, Stops
  <1>4. CASE /\ Stream # <<>> /\ Kind # "cmyk"
             /\ p4eaten' = TRUE
             /\ pos' = 1
             /\ pc' = "header"
             /\ UNCHANGED <<clip, y, image, pages>>
    BY <1>1, <1>4, BeginHeader
  <1>5. CASE /\ Stream # <<>> /\ Kind = "cmyk" /\ input.looks
             /\ pos' = IF Len(Stream) = 1 THEN 1 ELSE 2
             /\ \/ pc' = "failed"
                \/ Len(Stream) > 1 /\ pc' = "astray"
             /\ UNCHANGED <<p4eaten, clip, y, image, pages>>
    <2>1. ~Sound
      BY <1>2, <1>5, SoundIs
    <2>2. pos' \in Nat
      BY <1>5
    <2>3. UNCHANGED <<input, p4eaten, clip, y, image, pages>>
      BY <1>1, <1>5
    <2>4. pc' \in {"failed", "astray"}
      BY <1>5
    <2> QED BY <1>5, <2>1, <2>2, <2>3, <2>4, Stops
  <1>6. CASE /\ Stream # <<>> /\ Kind = "cmyk" /\ ~input.looks
             /\ size' = input.sizes[1]
             /\ AlignClip(2)
             /\ StartImage
             /\ UNCHANGED <<pos, p4eaten, saved, planes, pages>>
    <2>1. PixelsPerByte = 2 /\ Hdr = 0 /\ PerPage = 1
      BY <1>6 DEF PixelsPerByte, Hdr, PerPage
    <2>2. Aligned \/ (upper = input.upper /\ lower = input.lower)
      BY DEF ReadInv, PlaceInv
    <2>3. AlignClip(PixelsPerByte)
      BY <1>6, <2>1
    <2>4. Aligned'
      BY <1>1, <1>2, <2>2, <2>3, Aligns
    <2>5. /\ Done = 0 /\ At(Done) = 0 /\ pos = 0 /\ ~p4eaten
          /\ upper.y = input.upper.y
      BY <1>1, AtBegin
    <2>6. Fits(Done + 1)
      BY <2>1, <2>5, <1>2 DEF Fits, First
    <2>7. /\ pos' = At(Done) + Hdr /\ pos' <= Len(Stream) /\ Done <= N
          /\ Done # N /\ Done + 1 = 1
      BY <1>2, <1>6, <2>1, <2>5, NumbersAre
    <2>8. ~p4eaten' /\ p4eaten' \in BOOLEAN
      <3>1. p4eaten' = p4eaten
        BY <1>6
      <3>2. p4eaten \in BOOLEAN
        BY NumbersAre
      <3> QED BY <2>5, <3>1, <3>2, Zenon
    <2> QED BY <1>1, <1>6, <2>4, <2>5, <2>6, <2>7, <2>8, ImageBegins
  <1> QED BY <1>1, <1>3, <1>4, <1>5, <1>6 DEF Begin

\* Where the encoder is when it asks for a header.
LEMMA AtHeader ==
  ASSUME ReadInv, pc = "header"
  PROVE  /\ Kind # "cmyk" /\ Kind \in {"pbm", "pksm"} /\ ~input.looks
         /\ PixelsPerByte = 8 /\ Hdr = 2
         /\ Stream # <<>> /\ pos <= Len(Stream) /\ Done \in 0..N
         /\ At(Done) \in Nat
         /\ p4eaten => pos = At(Done) + 1 /\ Done = 0
         /\ ~p4eaten => pos = At(Done)
         /\ Done % PerPage = Len(planes)
         /\ First(Done + 1) = PerPage * Len(pages) + 1
         /\ planes # <<>> => saved = input.sizes[First(Done + 1)]
         /\ planes = <<>> => Done = PerPage * Len(pages)
         /\ upper.y = input.upper.y
         /\ Aligned \/ (upper = input.upper /\ lower = input.lower)
  <1>1. pc \notin Halted
    BY DEF Halted
  <1>2. /\ Kind # "cmyk" /\ Stream # <<>> /\ pos <= Len(Stream)
        /\ Done <= N /\ pos = (IF p4eaten THEN At(Done) + 1 ELSE At(Done))
        /\ p4eaten => Done = 0
        /\ Aligned \/ (upper = input.upper /\ lower = input.lower)
    BY <1>1 DEF ReadInv, PlaceInv
  <1>3. Done \in 0..N /\ input \in Inputs
    BY <1>2, NumbersAre
  <1>4. At(Done) \in Nat
    BY <1>3, LayoutIs
  <1>5. Kind \in {"pbm", "pksm"} /\ ~input.looks
    BY <1>2, <1>3, InputIs
  <1>6. PixelsPerByte = 8 /\ Hdr = 2
    BY <1>2 DEF PixelsPerByte, Hdr
  <1>7. /\ Done % PerPage = Len(planes)
        /\ First(Done + 1) = PerPage * Len(pages) + 1
    BY <1>3, NumbersAre, Numbers DEF Done
  <1>8. planes # <<>> => saved = input.sizes[First(Done + 1)]
    BY <1>2, <1>7 DEF ReadInv, FitInv
  <1>9. planes = <<>> => Done = PerPage * Len(pages)
    <2>1. PerPage * Len(pages) \in Nat /\ (planes = <<>> => Len(planes) = 0)
      BY NumbersAre
    <2> QED BY <2>1 DEF Done
  <1>10. upper.y = input.upper.y
    BY <1>2 DEF Aligned
  <1>11. ~p4eaten => pos = At(Done)
    BY <1>2, <1>4
  <1> QED BY <1>2, <1>3, <1>4, <1>5, <1>6, <1>7, <1>8, <1>9, <1>10, <1>11

\* pbm_header at the end of the stream.
LEMMA EndOfInputStep ==
  ASSUME ReadInv, EndOfInput
  PROVE  ReadInv'
  <1>1. /\ pc = "header" /\ ~p4eaten /\ pos = Len(Stream) /\ input' = input
        /\ pc' = (IF planes = <<>> THEN "done" ELSE "failed")
        /\ UNCHANGED <<input, pos, p4eaten, clip, y, image, pages>>
    BY DEF EndOfInput, NoHeader
  <1>2. /\ Kind # "cmyk" /\ ~input.looks /\ Stream # <<>> /\ Done \in 0..N
        /\ Len(Stream) = At(Done) /\ Done % PerPage = Len(planes)
        /\ planes = <<>> => Done = PerPage * Len(pages)
    BY <1>1, AtHeader
  <1>3. input \in Inputs /\ planes \in Seq(Seq(Pixels))
    BY NumbersAre
  <1>4. planes = <<>> => Len(planes) = 0
    OBVIOUS
  <1>5. planes # <<>> => Len(planes) # 0
    BY <1>3
  <1>6. \A k \in 1..Done : Fits(k)
    BY DEF ReadInv, FitInv
  <1>7. planes = <<>> => Sound
    BY <1>2, <1>3, <1>4, <1>6, SoundIs
  <1>8. planes = <<>> => EndsAfter(PerPage * Len(pages))
    BY <1>2, <1>3, EndsIs
  <1>9. planes # <<>> => ~Sound
    BY <1>2, <1>3, <1>5, SoundAt
  <1>10. pos' \in Nat
    BY <1>1, NumbersAre
  <1> QED BY <1>1, <1>2, <1>7, <1>8, <1>9, <1>10, Stops

\* pbm_header.
LEMMA HeaderStep ==
  ASSUME ReadInv, Header
  PROVE  ReadInv'
  <1> DEFINE at == IF p4eaten THEN pos + 1 ELSE pos + 2
             found == /\ ~p4eaten => Stream[pos + 1] = P4
                      /\ at <= Len(Stream)
                      /\ Stream[at].is = "size"
             new == Stream[at].size
             fits == found /\ (planes # <<>> => new = saved)
  <1>1. pc = "header" /\ input' = input /\ ~NoHeader
    BY DEF Header
  <1>2. /\ Kind # "cmyk" /\ PixelsPerByte = 8 /\ Hdr = 2 /\ Stream # <<>>
        /\ pos <= Len(Stream) /\ Done \in 0..N /\ At(Done) \in Nat
        /\ p4eaten => pos = At(Done) + 1 /\ Done = 0
        /\ ~p4eaten => pos = At(Done)
        /\ Done % PerPage = Len(planes)
        /\ First(Done + 1) = PerPage * Len(pages) + 1
        /\ planes # <<>> => saved = input.sizes[First(Done + 1)]
        /\ planes = <<>> => Done = PerPage * Len(pages)
        /\ upper.y = input.upper.y
        /\ Aligned \/ (upper = input.upper /\ lower = input.lower)
    BY <1>1, AtHeader
  <1>3. /\ input \in Inputs /\ N \in Nat \ {0} /\ pos \in Nat
        /\ Len(Stream) \in Nat /\ Len(planes) \in Nat /\ Len(pages) \in Nat
    BY NumbersAre
  <1>4. at = At(Done) + 2
    BY <1>2, <1>3
  <1>5. At(Done) < Len(Stream)
    <2>1. CASE p4eaten
      BY <1>2, <1>3, <2>1
    <2>2. CASE ~p4eaten
      BY <1>1, <1>2, <1>3, <2>2 DEF NoHeader
    <2> QED BY <2>1, <2>2
  <1>6. Done < N
    <2>1. Len(Stream) <= At(N) /\ At(N) \in Nat
      BY <1>3, StreamIs, LayoutIs
    <2>2. At(Done) # At(N)
      BY <1>2, <1>3, <1>5, <2>1
    <2> QED BY <1>2, <1>3, <2>2
  <1>7. PICK k \in 1..N : k = Done + 1
    <2>1. Done + 1 \in 1..N
      BY <1>2, <1>3, <1>6
    <2> QED BY <2>1
  <1>8. k - 1 = Done /\ k - 1 \in 0..(N - 1) /\ k = (k - 1) + 1
    BY <1>2, <1>3, <1>6, <1>7
  <1>9. /\ Len(Image(k)) = 2 + input.sizes[k].h * Bpl(k)
        /\ input.sizes[k].h * Bpl(k) \in Nat
        /\ Image(k)[1] = P4 /\ Image(k)[2] = Size(input.sizes[k])
    BY <1>2, <1>3, <1>7, ImageIs
  <1>10. Whole[At(Done) + 1] = P4 /\ Whole[At(Done) + 2] = Size(input.sizes[k])
    <2>1. 1 \in 1..Len(Image(k)) /\ 2 \in 1..Len(Image(k))
      BY <1>9, SMTT(40)
    <2>2. \A i \in Nat : i \in 1..Len(Image(k)) =>
            Whole[At(k - 1) + i] = Image(k)[i]
      BY <1>3, <1>7, LayoutIs
    <2> QED BY <1>8, <1>9, <2>1, <2>2
  <1>11. Stream[At(Done) + 1] = P4
    <2>1. At(Done) + 1 \in 1..Len(Stream)
      BY <1>2, <1>3, <1>5
    <2> QED BY <1>3, <1>10, <2>1, StreamIs
  <1>12. at <= Len(Stream) => Stream[at] = Size(input.sizes[k])
    <2>1. ASSUME at <= Len(Stream) PROVE At(Done) + 2 \in 1..Len(Stream)
      BY <1>2, <1>3, <1>4, <2>1
    <2> QED BY <1>3, <1>4, <1>10, <2>1, StreamIs
  <1>13. /\ at <= Len(Stream) => found /\ new = input.sizes[k]
         /\ found => at <= Len(Stream)
    BY <1>2, <1>11, <1>12 DEF Size
  <1>14. Fits(k) <=> input.sizes[k] = input.sizes[First(Done + 1)]
    BY <1>7 DEF Fits
  <1> HIDE DEF at, found, new
  <1>15. CASE fits
    <2>1. /\ pos' = at /\ p4eaten' = FALSE /\ size' = new
          /\ saved' = (IF planes = <<>> THEN new ELSE saved)
          /\ AlignClip(8) /\ StartImage /\ UNCHANGED <<planes, pages>>
      BY <1>15 DEF Header, at, found, new
    <2>2. at <= Len(Stream) /\ new = input.sizes[k]
      BY <1>13, <1>15
    <2>3. AlignClip(PixelsPerByte)
      BY <1>2, <2>1
    <2>4. Aligned'
      BY <1>1, <1>2, <1>3, <2>3, Aligns
    <2>5. Fits(k)
      <3>1. CASE planes = <<>>
        BY <1>2, <1>7, <3>1 DEF Fits
      <3>2. CASE planes # <<>>
        BY <1>2, <1>14, <1>15, <2>2, <3>2
      <3> QED BY <3>1, <3>2
    <2>6. saved' = input.sizes[PerPage * Len(pages) + 1]
      <3>1. CASE planes = <<>>
        BY <1>2, <1>7, <2>1, <2>2, <3>1
      <3>2. CASE planes # <<>>
        BY <1>2, <2>1, <3>2
      <3> QED BY <3>1, <3>2
    <2>7. pos' = At(Done) + Hdr /\ pos' <= Len(Stream) /\ Done <= N /\ Done # N
      BY <1>2, <1>3, <1>4, <1>6, <2>1, <2>2
    <2>8. size' = input.sizes[Done + 1] /\ Fits(Done + 1)
      BY <1>7, <2>1, <2>2, <2>5
    <2>9. ~p4eaten' /\ p4eaten' \in BOOLEAN
      BY <2>1
    <2> QED BY <1>1, <1>2, <2>1, <2>4, <2>6, <2>7, <2>8, <2>9, ImageBegins
  <1>16. CASE ~fits
    <2>1. pos' = Len(Stream) /\ Fail
      BY <1>16 DEF Header, at, found, new
    <2>2. ~Sound
      <3>1. CASE ~(at <= Len(Stream))
        <4>1. Len(Stream) < At(k)
          <5>1. At(k - 1) + Hdr < At(k) /\ At(k) \in Nat
            BY <1>3, <1>7, Increasing, LayoutIs
          <5> QED BY <1>2, <1>3, <1>4, <1>8, <3>1, <5>1
        <4>2. At(k - 1) < Len(Stream) /\ Len(Stream) < At((k - 1) + 1)
          BY <1>5, <1>8, <4>1
        <4> QED BY <1>3, <1>8, <4>2, NotBetween
      <3>2. CASE at <= Len(Stream)
        <4>1. planes # <<>> /\ input.sizes[k] # saved
          BY <1>13, <1>16, <3>2
        <4>2. ~Fits(k)
          BY <1>2, <1>14, <4>1
        <4> QED BY <1>3, <1>5, <1>8, <4>2, SoundReaches
      <3> QED BY <3>1, <3>2
    <2> QED BY <1>1, <1>3, <2>1, <2>2, Stops DEF Fail
  <1> QED BY <1>15, <1>16

-----------------------------------------------------------------------------
(* read_and_clip_image                                                     *)

\* An image that arrives, if only in part.
LEMMA InImage ==
  ASSUME ReadInv, pc \in Reading, NEW k, k = Done + 1, Done < N
  PROVE  /\ k \in 1..N /\ k - 1 = Done /\ k - 1 \in 0..(N - 1)
         /\ k \in Nat /\ k = (k - 1) + 1
         /\ Aligned /\ BufferAt(k)
         /\ size = input.sizes[k] /\ pos <= Len(Stream)
         /\ pc # "turn" /\ pc # "page" => sp = 0
  <1>1. Done \in Nat /\ N \in Nat
    BY NumbersAre
  <1>2. /\ k \in 1..N /\ k - 1 = Done /\ k - 1 \in 0..(N - 1) /\ k \in Nat
        /\ k = (k - 1) + 1
    BY <1>1
  <1>3. pc \notin Halted
    BY DEF Halted, Reading
  <1>4. Aligned /\ size = input.sizes[k] /\ pos <= Len(Stream)
    BY <1>3 DEF ReadInv, PlaceInv
  <1>5. BufferAt(k)
    BY DEF ReadInv, BufferInv
  <1>6. pc # "turn" /\ pc # "page" => sp = 0
    BY <1>5 DEF BufferAt, Reading
  <1> QED BY <1>2, <1>4, <1>5, <1>6

\* No image that arrives is left: cmyk_pages asks for one nevertheless.
LEMMA AtEnd ==
  ASSUME ReadInv, pc \in Reading, ~(Done < N)
  PROVE  /\ Done = N /\ Kind = "cmyk" /\ Aligned
         /\ size = input.sizes[1] /\ y = 0
         /\ pc = IF input.upper.y > 0 THEN "top" ELSE "image"
         /\ pos = At(Done) /\ At(Done) \in Nat
         /\ pos = Len(Stream)
  <1>1. /\ pc \notin Halted /\ N \in Nat /\ Done \in Nat /\ input \in Inputs
        /\ Len(Stream) \in Nat
    BY NumbersAre DEF Reading, Halted
  <1>2. Done <= N /\ pos <= Len(Stream)
    BY <1>1 DEF ReadInv, PlaceInv
  <1>3. Done = N
    BY <1>1, <1>2
  <1>4. Kind = "cmyk" /\ AtStart /\ Aligned /\ size = input.sizes[1]
    BY <1>1, <1>3 DEF ReadInv, PlaceInv
  <1>5. Hdr = 0 /\ At(N) \in Nat /\ Len(Stream) <= At(N)
    BY <1>1, <1>4, LayoutIs, StreamIs DEF Hdr
  <1>6. pos = At(Done)
    BY <1>3, <1>4, <1>5 DEF AtStart
  <1> QED BY <1>1, <1>2, <1>3, <1>4, <1>5, <1>6 DEF AtStart

\* A stream that ends in a row ends in an image.
LEMMA RowCut ==
  ASSUME input \in Inputs, NEW k \in 1..N,
         NEW r \in 0..(input.sizes[k].h - 1),
         At(k - 1) < Len(Stream), Len(Stream) < RowAt(k, r) + Bpl(k)
  PROVE  ~Sound
  <1>1. N \in Nat /\ input.sizes[k].h \in Nat
    BY InputIs
  <1>2. r \in 0..input.sizes[k].h /\ r + 1 \in 0..input.sizes[k].h
    BY <1>1
  <1>3. RowAt(k, r) + Bpl(k) <= At(k) /\ At(k) \in Nat
    <2>1. RowAt(k, r + 1) = RowAt(k, r) + Bpl(k) /\ RowAt(k, r + 1) <= At(k)
      BY <1>2, RowsLie
    <2> QED BY <2>1, LayoutIs, <1>1
  <1>4. RowAt(k, r) \in Nat /\ Bpl(k) \in Nat /\ Len(Stream) \in Nat
    BY <1>2, RowsLie, ImageIs, StreamIs
  <1>5. k - 1 \in 0..(N - 1) /\ Len(Stream) < At((k - 1) + 1)
    <2>1. k = (k - 1) + 1 /\ k - 1 \in 0..(N - 1)
      BY <1>1
    <2> QED BY <1>3, <1>4, <2>1
  <1> QED BY <1>5, NotBetween

\* What is dropped of a cmyk raster that ends in the rows that are skipped.
LEMMA DroppedIs ==
  ASSUME ReadInv, Kind = "cmyk", Done <= N, NEW r \in Nat,
         At(Done) <= Len(Stream),
         Len(Stream) < At(Done) + r * BytesFor(input.sizes[1].w),
         r = IF input.upper.y > 0 THEN input.upper.y ELSE 1
  PROVE  LET dropped == Len(Stream) - Len(pages) * Len(Image(1))
             skipped == IF input.upper.y > 0 THEN input.upper.y ELSE 1
         IN  /\ 0 <= dropped
             /\ dropped < skipped * BytesFor(input.sizes[1].w)
  <1> DEFINE whole == Len(pages) * Len(Image(1))
             left == r * BytesFor(input.sizes[1].w)
  <1>1. /\ input \in Inputs /\ N \in Nat \ {0} /\ Len(pages) \in Nat
        /\ Len(planes) \in Nat /\ Len(planes) < PerPage /\ Len(Stream) \in Nat
        /\ PerPage = 1
    BY NumbersAre DEF PerPage
  <1>2. Done = Len(pages)
    BY <1>1 DEF Done
  <1>3. At(Done) = whole /\ At(Done) \in Nat
    BY <1>1, <1>2, SameSizes, LayoutIs
  <1>4. left \in Nat
    <2>1. BytesFor(input.sizes[1].w) \in Nat
      BY <1>1, ImageIs DEF Bpl
    <2> QED BY <2>1
  <1> HIDE DEF whole, left
  <1>5. Len(Stream) < whole + left
    BY <1>3 DEF left
  <1>6. 0 <= Len(Stream) - whole /\ Len(Stream) - whole < left
    BY <1>1, <1>3, <1>4, <1>5
  <1> QED BY <1>6 DEF whole, left

\* The last row of an image is read.
LEMMA RowsEnd ==
  ASSUME ReadInv, input \in Inputs, NEW k \in 1..N, k = Done + 1, Done < N,
         UNCHANGED <<input, pages, planes>>,
         pc' = AfterRows, pos' = At(k), buf' = Plain(k), sp' = 0
  PROVE  BufferAt(k)' /\ pc' \in Reading
  <1>1. /\ Plain(k)' = Plain(k) /\ At(k)' = At(k)
    BY SameInput
  <1>2. pc' = (IF input.turn /\ Len(pages) % 2 = 1 THEN "turn" ELSE "page")
    BY DEF AfterRows
  <1>3. /\ Plain(k) \in Seq(Pixels) /\ Len(Plain(k)) \in Nat
        /\ Len(pages) \in Nat /\ Len(planes) \in Nat /\ PerPage \in {1, 4}
    BY NumbersAre, PlainIs
  <1>4. pc' = "turn" => HalfTurned(k)'
    <2>1. Len(buf') = Len(Plain(k)) /\ sp' <= Len(Plain(k))
      BY <1>3
    <2>2. \A i \in 1..Len(Plain(k)) : ~(i <= sp' \/ i > Len(Plain(k)) - sp')
      BY <1>3
    <2> QED BY <1>1, <2>1, <2>2 DEF HalfTurned
  <1>7. pc' \notin {"top", "image", "bottom"}
    BY <1>2
  <1>8. pc' = "turn" => input'.turn /\ Len(pages') % 2 = 1
    BY <1>2
  <1>9. BufferAt(k)'
    BY <1>1, <1>2, <1>4, <1>7, <1>8 DEF BufferAt
  <1> QED BY <1>2, <1>9 DEF Reading

\* The row that is read next.
RowNow(k) ==
  CASE pc = "top" -> y
    [] pc = "image" -> input.upper.y + y
    [] pc = "bottom" -> input.upper.y + Height(k) + y

\* It is one of the image, and the stream is at its first byte.
LEMMA RowNowIs ==
  ASSUME ReadInv, pc \in {"top", "image", "bottom"},
         NEW k, k = Done + 1, Done < N
  PROVE  LET r == RowNow(k)
         IN  /\ r \in 0..(input.sizes[k].h - 1)
             /\ pos = RowAt(k, r) /\ pos \in Nat
             /\ RowAt(k, r + 1) = pos + Bpl(k)
             /\ Bpl(k) \in Nat \ {0} /\ Bpl(k) = BytesFor(size.w)
             /\ At(k - 1) \in Nat /\ At(k - 1) <= pos
             /\ (Kind # "cmyk" \/ r > 0) => At(k - 1) < pos
             /\ Kind = "cmyk" => pos = At(k - 1) + r * Bpl(k)
  <1> DEFINE r == RowNow(k)
  <1>1. pc \in Reading
    BY DEF Reading
  <1>2. k \in 1..N /\ BufferAt(k) /\ size = input.sizes[k] /\ k - 1 \in 0..N
    <2>1. k \in 1..N /\ BufferAt(k) /\ size = input.sizes[k]
      BY <1>1, InImage
    <2> QED BY <2>1, NumbersAre
  <1>3. /\ input \in Inputs /\ y \in Nat /\ pos \in Nat /\ Hdr \in {0, 2}
        /\ Kind # "cmyk" => Hdr = 2
        /\ Kind = "cmyk" => Hdr = 0
    BY NumbersAre DEF Hdr
  <1>4. /\ input.upper.y \in Nat /\ input.lower.y \in Nat
        /\ Height(k) \in Nat \ {0} /\ input.sizes[k].h \in Nat
        /\ Height(k) = input.sizes[k].h - input.upper.y - input.lower.y
    BY <1>2, <1>3, SizesAre, ImageIs DEF Height
  <1>5. r \in 0..(input.sizes[k].h - 1) /\ pos = RowAt(k, r)
    <2>1. CASE pc = "top"
      <3>1. r = y /\ y < input.upper.y /\ pos = RowAt(k, y)
        BY <1>2, <2>1 DEF BufferAt, RowNow
      <3>2. y \in 0..(input.sizes[k].h - 1)
        BY <1>3, <1>4, <3>1
      <3> QED BY <3>1, <3>2
    <2>2. CASE pc = "image"
      BY <1>2, <1>3, <1>4, <2>2 DEF BufferAt, RowNow
    <2>3. CASE pc = "bottom"
      BY <1>2, <1>3, <1>4, <2>3 DEF BufferAt, RowNow
    <2> QED BY <2>1, <2>2, <2>3
  <1> HIDE DEF r
  <1>6. Bpl(k) \in Nat \ {0} /\ Bpl(k) = BytesFor(size.w)
    BY <1>2, <1>3, ImageIs DEF Bpl
  <1>7. RowAt(k, r + 1) = pos + Bpl(k)
    <2>1. r \in 0..input.sizes[k].h
      BY <1>4, <1>5
    <2> QED BY <1>2, <1>3, <1>5, <2>1, RowsLie
  <1>8. At(k - 1) \in Nat
    BY <1>2, <1>3, LayoutIs
  <1>9. pos = At(k - 1) + Hdr + r * Bpl(k)
    BY <1>5 DEF RowAt
  <1>10. r * Bpl(k) \in Nat /\ (r > 0 => r * Bpl(k) > 0)
    BY <1>5, <1>6, <1>4
  <1>11. /\ At(k - 1) <= pos /\ ((Kind # "cmyk" \/ r > 0) => At(k - 1) < pos)
         /\ Kind = "cmyk" => pos = At(k - 1) + r * Bpl(k)
    BY <1>3, <1>8, <1>9, <1>10
  <1> QED BY <1>3, <1>5, <1>6, <1>7, <1>8, <1>11 DEF r

\* Nothing is left to be read at the end of the stream.
LEMMA NothingLeft ==
  ASSUME ReadInv, pc \in Reading, ~(Done < N), NEW n \in Nat
  PROVE  ~Readable(n)
  BY AtEnd, NumbersAre DEF Readable

\* A product grows with its first factor.
LEMMA Times ==
  \A a \in Nat, c \in Nat, b \in Nat : a <= c => a * b <= c * b
  <1> SUFFICES ASSUME NEW a \in Nat, NEW c \in Nat, NEW b \in Nat, a <= c
               PROVE  a * b <= c * b
    OBVIOUS
  <1>1. c - a \in Nat /\ c = a + (c - a)
    OBVIOUS
  <1>2. c * b = a * b + (c - a) * b /\ (c - a) * b \in Nat
    BY <1>1
  <1> QED BY <1>2

\* The bytes of a row.
LEMMA RowBytes ==
  ASSUME ReadInv, pc \in Reading
  PROVE  /\ BytesFor(size.w) \in Nat \ {0}
         /\ Kind = "cmyk" => BytesFor(size.w) = BytesFor(input.sizes[1].w)
         /\ Done <= N /\ Aligned
  <1>1. input \in Inputs /\ N \in Nat \ {0} /\ Done \in Nat
    BY NumbersAre
  <1>2. PICK j \in 1..N : size = input.sizes[j] /\ Aligned /\ Done <= N
    <2>1. CASE Done < N
      <3>1. size = input.sizes[Done + 1] /\ Done + 1 \in 1..N /\ Aligned
        BY <2>1, InImage
      <3> QED BY <1>1, <2>1, <3>1
    <2>2. CASE ~(Done < N)
      BY <1>1, <2>2, AtEnd
    <2> QED BY <2>1, <2>2
  <1>3. Bpl(j) = BytesFor(size.w) /\ Bpl(j) \in Nat \ {0}
    BY <1>1, <1>2, ImageIs DEF Bpl
  <1>4. Kind = "cmyk" => size = input.sizes[1]
    BY <1>1, <1>2, InputIs
  <1> QED BY <1>2, <1>3, <1>4

\* A row that is read is one of an image.
LEMMA RowArrives ==
  ASSUME ReadInv, pc \in Reading, Readable(BytesFor(size.w))
  PROVE  /\ Done < N
         /\ \E k \in 1..N : k = Done + 1
         /\ pos + BytesFor(size.w) \in Nat
         /\ pos + BytesFor(size.w) <= Len(Stream)
  <1>1. BytesFor(size.w) \in Nat
    BY RowBytes
  <1>2. Done < N
    BY <1>1, NothingLeft
  <1>3. N \in Nat /\ Done \in Nat /\ pos \in Nat /\ Len(Stream) \in Nat
    BY NumbersAre
  <1>4. Done + 1 \in 1..N
    BY <1>2, <1>3
  <1> QED BY <1>1, <1>2, <1>3, <1>4 DEF Readable

\* A stream that ends in a row, but not at the beginning of an image.
LEMMA CutOpen ==
  ASSUME ReadInv, pc \in {"top", "image", "bottom"}, Done < N,
         ~Readable(BytesFor(size.w)),
         Kind # "cmyk" \/ RowNow(Done + 1) > 0 \/ At(Done) < Len(Stream)
  PROVE  ~Sound
  <1> DEFINE k == Done + 1
             r == RowNow(k)
  <1>1. input \in Inputs /\ Len(Stream) \in Nat /\ pc \in Reading
    BY NumbersAre DEF Reading
  <1>2. k \in 1..N /\ k - 1 = Done /\ pos <= Len(Stream)
    BY <1>1, InImage
  <1>3. /\ r \in 0..(input.sizes[k].h - 1) /\ pos = RowAt(k, r) /\ pos \in Nat
        /\ Bpl(k) \in Nat \ {0} /\ Bpl(k) = BytesFor(size.w)
        /\ At(Done) \in Nat
        /\ (Kind # "cmyk" \/ r > 0) => At(Done) < pos
    BY <1>2, RowNowIs
  <1> HIDE DEF k, r
  <1>4. Len(Stream) < RowAt(k, r) + Bpl(k)
    BY <1>1, <1>3 DEF Readable
  <1>5. At(k - 1) < Len(Stream)
    BY <1>1, <1>2, <1>3 DEF k, r
  <1> QED BY <1>1, <1>2, <1>3, <1>4, <1>5, RowCut

\* A cmyk raster that ends in the rows that are skipped.
LEMMA CutSkipped ==
  ASSUME ReadInv, pc \in {"top", "image"}, Kind = "cmyk",
         ~Readable(BytesFor(size.w)),
         Done < N => RowNow(Done + 1) <
                       IF input.upper.y > 0 THEN input.upper.y ELSE 1
  PROVE  LET dropped == Len(Stream) - Len(pages) * Len(Image(1))
             skipped == IF input.upper.y > 0 THEN input.upper.y ELSE 1
         IN  /\ 0 <= dropped
             /\ dropped < skipped * BytesFor(input.sizes[1].w)
  <1> DEFINE b == BytesFor(input.sizes[1].w)
             s == IF input.upper.y > 0 THEN input.upper.y ELSE 1
             row == RowNow(Done + 1)
             before == row * b
             skip == s * b
  <1>1. /\ input \in Inputs /\ Len(Stream) \in Nat /\ pc \in Reading
        /\ pos \in Nat /\ input.upper.y \in Nat
    BY NumbersAre, InputIs DEF Reading
  <1>2. b \in Nat \ {0} /\ b = BytesFor(size.w) /\ Done <= N
    BY <1>1, RowBytes
  <1>3. s \in Nat \ {0}
    BY <1>1
  <1>4. Done < N => /\ row \in Nat /\ row < s
                    /\ pos = At(Done) + row * b
                    /\ At(Done) \in Nat /\ pos <= Len(Stream)
    <2>1. SUFFICES ASSUME Done < N, NEW k, k = Done + 1
                   PROVE  /\ RowNow(k) \in Nat
                          /\ pos = At(Done) + RowNow(k) * b
                          /\ At(Done) \in Nat /\ pos <= Len(Stream)
      OBVIOUS
    <2>2. k \in 1..N /\ k - 1 = Done /\ pos <= Len(Stream)
      BY <1>1, <2>1, InImage
    <2>3. /\ RowNow(k) \in 0..(input.sizes[k].h - 1)
          /\ Bpl(k) = BytesFor(size.w) /\ At(k - 1) \in Nat
          /\ pos = At(k - 1) + RowNow(k) * Bpl(k)
      BY <2>1, RowNowIs
    <2> QED BY <1>2, <2>2, <2>3
  <1>5. ~(Done < N) => At(Done) \in Nat /\ At(Done) = Len(Stream)
    BY <1>1, AtEnd
  <1> HIDE DEF b, s, row
  <1>6. Len(Stream) < pos + b
    BY <1>1, <1>2 DEF Readable
  <1>7. At(Done) <= Len(Stream) /\ Len(Stream) < At(Done) + skip
    <2>1. CASE Done < N
      <3>1. before \in Nat /\ skip \in Nat /\ before + b = (row + 1) * b
        BY <1>2, <1>3, <1>4, <2>1, SMTT(40)
      <3>2. (row + 1) * b <= skip
        <4>1. row + 1 \in Nat /\ row + 1 <= s
          BY <1>3, <1>4, <2>1
        <4> QED BY <1>2, <1>3, <4>1, Times
      <3>3. pos = At(Done) + before /\ At(Done) \in Nat /\ pos <= Len(Stream)
        BY <1>4, <2>1
      <3>4. before + b <= skip
        BY <3>1, <3>2
      <3> HIDE DEF before, skip
      <3> QED BY <1>1, <1>2, <1>6, <3>1, <3>3, <3>4, SMTT(40)
    <2>2. CASE ~(Done < N)
      <3>1. 0 < skip /\ skip \in Nat
        BY <1>2, <1>3
      <3> HIDE DEF skip
      <3> QED BY <1>5, <2>2, <3>1
    <2> QED BY <2>1, <2>2
  <1> QED BY <1>2, <1>3, <1>7, DroppedIs DEF b, s

\* A row that is skipped at the top.
LEMMA TopRowStep ==
  ASSUME ReadInv, TopRow
  PROVE  ReadInv'
  <1> DEFINE bytes == BytesFor(size.w)
  <1>1. pc = "top" /\ input' = input /\ pc \in Reading
    BY DEF TopRow, Reading
  <1>2. /\ input \in Inputs /\ y \in Nat /\ sp \in Nat /\ Len(Stream) \in Nat
        /\ input.upper.y \in Nat /\ buf \in Seq(Pixels)
    BY NumbersAre, InputIs
  <1>3. upper.y = input.upper.y
    BY <1>1, RowBytes DEF Aligned
  <1>4. CASE Readable(bytes)
    <2>1. /\ pos' = pos + bytes /\ NextRow(upper.y, "image")
          /\ UNCHANGED <<p4eaten, clip, size, saved, buf, sp, planes, pages>>
      BY <1>4 DEF TopRow, image
    <2>2. PICK k \in 1..N : k = Done + 1
      BY <1>1, <1>4, RowArrives
    <2>3. Done < N /\ pos' \in Nat /\ pos' <= Len(Stream)
      BY <1>1, <1>4, <2>1, RowArrives
    <2>4. BufferAt(k) /\ RowAt(k, y + 1) = pos'
      BY <1>1, <2>1, <2>2, <2>3, InImage, RowNowIs DEF RowNow
    <2>5. y < input.upper.y /\ buf' = <<>> /\ sp' = 0
      BY <1>1, <2>1, <2>4 DEF BufferAt
    <2>6. /\ \A r : RowAt(k, r) = At(k - 1) + Hdr + r * Bpl(k)
          /\ At(k - 1)' = At(k - 1) /\ Hdr' = Hdr /\ Bpl(k)' = Bpl(k)
          /\ Height(k)' = Height(k) /\ Rows(k)' = Rows(k)
      BY <1>1, SameInput DEF RowAt
    <2>7. BufferAt(k)' /\ pc' \in Reading /\ y' \in Nat
      <3>1. CASE y + 1 < upper.y
        <4>1. y' = y + 1 /\ pc' = "top"
          BY <1>1, <2>1, <3>1 DEF NextRow
        <4>2. RowAt(k, y)' = pos'
          BY <2>4, <2>6, <4>1 DEF RowAt
        <4>3. BufferAt(k)'
          BY <1>1, <1>3, <2>5, <3>1, <4>1, <4>2 DEF BufferAt
        <4> QED BY <1>2, <4>1, <4>3 DEF Reading
      <3>2. CASE ~(y + 1 < upper.y)
        <4>1. y' = 0 /\ pc' = "image" /\ y + 1 = input.upper.y
          BY <1>2, <1>3, <2>1, <2>5, <3>2 DEF NextRow
        <4>2. input'.upper.y + y' = y + 1
          BY <1>1, <1>2, <4>1
        <4>3. RowAt(k, input.upper.y + y)' = pos'
          BY <2>4, <2>6, <4>2 DEF RowAt
        <4>4. Height(k) > 0 /\ FlattenSeq(Prefix(Rows(k), 0)) = <<>>
          BY <1>2, SizesAre, RowsAre, FlattenStep
        <4>5. BufferAt(k)'
          BY <2>5, <2>6, <4>1, <4>3, <4>4 DEF BufferAt
        <4> QED BY <4>1, <4>5 DEF Reading
      <3> QED BY <3>1, <3>2
    <2>8. sp' \in Nat /\ buf' \in Seq(Pixels)
      BY <1>2, <2>1
    <2> QED BY <1>1, <2>1, <2>2, <2>3, <2>7, <2>8, StaysInImage
  <1>5. CASE ~Readable(bytes)
    <2>1. /\ pos' = Len(Stream)
          /\ UNCHANGED <<input, p4eaten, clip, y, image, pages>>
          /\ pc' = IF Kind = "cmyk" THEN "done" ELSE "failed"
      BY <1>5 DEF TopRow, Eof
    <2>2. CASE Kind # "cmyk"
      <3>1. Done < N
        BY <1>1, <2>2, AtEnd
      <3>2. ~Sound
        BY <1>1, <1>5, <2>2, <3>1, CutOpen
      <3> QED BY <1>2, <2>1, <2>2, <3>2, Stops
    <2>3. CASE Kind = "cmyk"
      <3>1. Done < N => RowNow(Done + 1) <
                          IF input.upper.y > 0 THEN input.upper.y ELSE 1
        <4>1. Done < N => y < input.upper.y
          BY <1>1, InImage DEF BufferAt
        <4>2. RowNow(Done + 1) = y
          BY <1>1 DEF RowNow
        <4> QED BY <1>2, <4>1, <4>2
      <3> QED BY <1>1, <1>2, <1>5, <2>1, <2>3, <3>1, CutSkipped, Stops
    <2> QED BY <2>2, <2>3
  <1> QED BY <1>4, <1>5

\* How read_and_clip_image divides the rows of the image.
LEMMA RowParts ==
  ASSUME ReadInv, pc \in Reading
  PROVE  LET left == upper.x \div PixelsPerByte
             bpl == BytesFor(size.w - upper.x - lower.x)
             rightBpl == BytesFor(size.w - upper.x)
         IN  /\ left = Left /\ left \in Nat
             /\ left + rightBpl = BytesFor(size.w)
             /\ bpl \in Nat \ {0}
             /\ upper.y = input.upper.y /\ lower.y = input.lower.y
             /\ \A k \in 1..N : k = Done + 1 =>
                  /\ bpl = Width(k)
                  /\ size.h - upper.y - lower.y = Height(k)
  <1>1. input \in Inputs /\ N \in Nat \ {0} /\ Done \in Nat
    BY NumbersAre
  <1>2. PICK j \in 1..N : /\ size = input.sizes[j]
                          /\ \A k \in 1..N : k = Done + 1 => k = j
    <2>1. CASE Done < N
      <3>1. size = input.sizes[Done + 1] /\ Done + 1 \in 1..N
        BY <2>1, InImage
      <3> QED BY <3>1
    <2>2. CASE ~(Done < N)
      <3>1. size = input.sizes[1] /\ Done = N
        BY <2>2, AtEnd
      <3>2. 1 \in 1..N /\ ~ \E k \in 1..N : k = Done + 1
        BY <1>1, <3>1
      <3> QED BY <3>1, <3>2
    <2> QED BY <2>1, <2>2
  <1>3. Aligned
    BY RowBytes
  <1>4. /\ upper.x \div PixelsPerByte = Left /\ Left \in Nat
        /\ Width(j) \in Nat \ {0}
        /\ BytesFor(input.sizes[j].w - upper.x - lower.x) = Width(j)
        /\ Left + BytesFor(input.sizes[j].w - upper.x) = Bpl(j)
        /\ upper.y = input.upper.y /\ lower.y = input.lower.y
        /\ Height(j) = input.sizes[j].h - upper.y - lower.y
    BY <1>1, <1>3, ClipIs
  <1>5. Bpl(j) = BytesFor(size.w)
    BY <1>2 DEF Bpl
  <1> QED BY <1>2, <1>4, <1>5

\* A row is appended.
LEMMA RowAppended ==
  ASSUME ReadInv, pc = "image", NEW k \in 1..N, k = Done + 1, Done < N,
         pos + Bpl(k) <= Len(Stream)
  PROVE  /\ y < Height(k)
         /\ buf \o SubSeq(Stream, pos + Left + 1, pos + Left + Width(k))
              \o Padding(Width(k)) = FlattenSeq(Prefix(Rows(k), y + 1))
         /\ FlattenSeq(Prefix(Rows(k), y + 1)) \in Seq(Pixels)
         /\ y + 1 = Height(k) =>
              FlattenSeq(Prefix(Rows(k), y + 1)) = Plain(k)
  <1> DEFINE r == input.upper.y + y
             row == SubSeq(Stream, pos + Left + 1, pos + Left + Width(k))
  <1>1. input \in Inputs /\ pc \in Reading /\ y \in Nat /\ pos \in Nat
    BY NumbersAre DEF Reading
  <1>2. BufferAt(k) /\ Aligned
    BY <1>1, InImage
  <1>3. /\ y < Height(k) /\ pos = RowAt(k, r)
        /\ buf = FlattenSeq(Prefix(Rows(k), y))
    BY <1>2 DEF BufferAt
  <1>4. r \in 0..(input.sizes[k].h - 1)
    BY RowNowIs DEF RowNow
  <1>5. /\ Height(k) \in Nat /\ Width(k) \in Nat /\ Left \in Nat
        /\ input.upper.y \in Nat /\ k \in Nat
    BY <1>1, SizesAre
  <1>6. row = [c \in 1..Width(k) |-> Byte(k, r, Left + c - 1)]
    BY <1>1, <1>2, <1>3, <1>4, RowRead
  <1>7. /\ Rows(k) \in Seq(Seq(Pixels)) /\ Len(Rows(k)) = Height(k)
        /\ Rows(k)[y + 1] =
             [c \in 1..Width(k) |->
                Byte(k, input.upper.y + (y + 1) - 1, Left + c - 1)]
               \o Padding(Width(k))
    <2>1. y + 1 \in 1..Height(k)
      BY <1>1, <1>3, <1>5
    <2> QED BY <1>1, <2>1, RowsAre
  <1>8. Rows(k)[y + 1] = row \o Padding(Width(k))
    <2>1. input.upper.y + (y + 1) - 1 = r
      BY <1>1, <1>5
    <2> QED BY <1>6, <1>7, <2>1
  <1> HIDE DEF row
  <1>9. row \in Seq(Pixels)
    <2>1. \A c \in 1..Width(k) : Byte(k, r, Left + c - 1) \in Pixels
      <3>1. \A c \in 1..Width(k) : Left + c - 1 \in Nat
        BY <1>5
      <3>2. r \in Nat
        BY <1>1, <1>5
      <3> QED BY <1>5, <3>1, <3>2, UnitsAre DEF Pixels
    <2>2. row \in [1..Width(k) -> Pixels]
      BY <1>6, <2>1
    <2> QED BY <1>5, <2>2
  <1>10. Padding(Width(k)) \in Seq(Pixels)
    BY <1>5, PaddingIs
  <1>11. /\ y \in 0..(Len(Rows(k)) - 1) /\ y \in 0..Len(Rows(k))
         /\ y + 1 \in 0..Len(Rows(k))
    <2>1. Len(Rows(k)) = Height(k)
      BY <1>7
    <2> QED BY <1>1, <1>3, <1>5, <2>1
  <1>12. /\ buf \in Seq(Pixels)
         /\ FlattenSeq(Prefix(Rows(k), y + 1)) \in Seq(Pixels)
         /\ FlattenSeq(Prefix(Rows(k), y + 1)) = buf \o Rows(k)[y + 1]
         /\ Prefix(Rows(k), Len(Rows(k))) = Rows(k)
    BY <1>3, <1>7, <1>11, FlattenStep
  <1>13. (buf \o row) \o Padding(Width(k)) = buf \o (row \o Padding(Width(k)))
    <2>1. buf \in Seq(Pixels)
      BY <1>12
    <2>2. \A a \in Seq(Pixels), b \in Seq(Pixels), c \in Seq(Pixels) :
            (a \o b) \o c = a \o (b \o c)
      BY ConcatAssociative, SMTT(40)
    <2> QED BY <1>9, <1>10, <2>1, <2>2
  <1>14. y + 1 = Height(k) =>
           FlattenSeq(Prefix(Rows(k), y + 1)) = Plain(k)
    BY <1>7, <1>12 DEF Plain
  <1> QED BY <1>3, <1>8, <1>12, <1>13, <1>14 DEF row

\* A row that is kept, if only in part.
LEMMA ImageRowStep ==
  ASSUME ReadInv, ImageRow
  PROVE  ReadInv'
  <1> DEFINE left == upper.x \div PixelsPerByte
             bpl == BytesFor(size.w - upper.x - lower.x)
             rightBpl == BytesFor(size.w - upper.x)
             bytes == BytesFor(size.w)
  <1>1. pc = "image" /\ input' = input /\ pc \in Reading
    BY DEF ImageRow, Reading
  <1>2. /\ input \in Inputs /\ N \in Nat /\ y \in Nat /\ sp \in Nat
        /\ pos \in Nat /\ Len(Stream) \in Nat
        /\ input.upper.y \in Nat /\ input.lower.y \in Nat
    BY NumbersAre, InputIs
  <1>3. /\ left = Left /\ left \in Nat /\ left + rightBpl = bytes
        /\ bpl \in Nat \ {0}
        /\ upper.y = input.upper.y /\ lower.y = input.lower.y
        /\ \A k \in 1..N : k = Done + 1 =>
             /\ bpl = Width(k)
             /\ size.h - upper.y - lower.y = Height(k)
    BY <1>1, RowParts
  <1>4. bytes \in Nat \ {0}
    BY <1>1, RowBytes
  <1>5. CASE Readable(bytes)
    <2>1. /\ pos' = pos + left + rightBpl
          /\ buf' = buf \o SubSeq(Stream, pos + left + 1, pos + left + bpl)
                      \o Padding(bpl)
          /\ NextRow(size.h - upper.y - lower.y, AfterImage)
          /\ UNCHANGED <<p4eaten, clip, size, saved, sp, planes, pages>>
      BY <1>3, <1>5 DEF ImageRow
    <2>2. PICK k \in 1..N : k = Done + 1
      BY <1>1, <1>5, RowArrives
    <2>3. /\ Done < N /\ pos + bytes \in Nat /\ pos + bytes <= Len(Stream)
      BY <1>1, <1>5, RowArrives
    <2>4. pos' = pos + bytes
      <3> HIDE DEF left, rightBpl, bytes
      <3>1. rightBpl \in Int
        <4>1. Aligned /\ size = input.sizes[k]
          BY <1>1, <2>2, <2>3, InImage
        <4>2. /\ input.sizes[k].w \in Nat /\ input.upper.x \in Nat
              /\ PixelsPerByte \in {2, 8}
          BY <1>2, InputIs
        <4>3. upper.x = input.upper.x - (input.upper.x % PixelsPerByte)
          BY <4>1 DEF Aligned
        <4>4. upper.x \in Int /\ size.w \in Int
          <5>1. CASE PixelsPerByte = 2
            BY <4>1, <4>2, <4>3, <5>1
          <5>2. CASE PixelsPerByte = 8
            BY <4>1, <4>2, <4>3, <5>2
          <5> QED BY <4>2, <5>1, <5>2
        <4> QED BY <4>2, <4>4 DEF rightBpl, BytesFor
      <3> QED BY <1>2, <1>3, <2>1, <3>1
    <2>5. /\ bpl = Width(k) /\ size.h - upper.y - lower.y = Height(k)
          /\ RowAt(k, (input.upper.y + y) + 1) = pos'
          /\ bytes = Bpl(k) /\ sp = 0 /\ sp' = 0
      <3>1. RowNow(k) = input.upper.y + y
        BY <1>1 DEF RowNow
      <3>2. sp = 0
        BY <1>1, <2>2, <2>3, InImage
      <3> QED BY <1>1, <1>3, <2>1, <2>2, <2>3, <2>4, <3>1, <3>2, RowNowIs
    <2>6. /\ y < Height(k) /\ Height(k) \in Nat
          /\ buf' = FlattenSeq(Prefix(Rows(k), y + 1))
          /\ buf' \in Seq(Pixels)
          /\ y + 1 = Height(k) => buf' = Plain(k)
      BY <1>1, <1>2, <1>3, <2>1, <2>2, <2>3, <2>5, RowAppended, SizesAre
    <2>7. /\ \A r : RowAt(k, r) = At(k - 1) + Hdr + r * Bpl(k)
          /\ At(k - 1)' = At(k - 1) /\ Hdr' = Hdr /\ Bpl(k)' = Bpl(k)
          /\ Height(k)' = Height(k) /\ Rows(k)' = Rows(k)
          /\ Plain(k)' = Plain(k)
      BY <1>1, SameInput DEF RowAt
    <2>8. BufferAt(k)' /\ pc' \in Reading /\ y' \in Nat
      <3>1. CASE y + 1 < Height(k)
        <4>1. y' = y + 1 /\ pc' = "image"
          BY <1>1, <2>1, <2>5, <3>1 DEF NextRow
        <4>2. input'.upper.y + y' = (input.upper.y + y) + 1
          BY <1>1, <1>2, <4>1
        <4>3. RowAt(k, input.upper.y + y)' = pos'
          BY <2>5, <2>7, <4>2 DEF RowAt
        <4>4. BufferAt(k)'
          BY <2>5, <2>6, <2>7, <3>1, <4>1, <4>3 DEF BufferAt
        <4> QED BY <1>2, <4>1, <4>4 DEF Reading
      <3>2. CASE ~(y + 1 < Height(k))
        <4>1. y' = 0 /\ pc' = AfterImage /\ y + 1 = Height(k)
          <5>1. y + 1 = Height(k)
            BY <1>2, <2>6, <3>2
          <5>2. NextRow(Height(k), AfterImage)
            BY <2>1, <2>5
          <5> QED BY <3>2, <5>1, <5>2 DEF NextRow
        <4>2. (input.upper.y + y) + 1 = input.upper.y + Height(k)
          BY <1>2, <4>1
        <4>3. CASE lower.y > 0
          <5>1. pc' = "bottom"
            BY <4>1, <4>3 DEF AfterImage
          <5>2. (input.upper.y + y) + 1 = input'.upper.y + Height(k)' + y'
            BY <1>1, <1>2, <2>6, <2>7, <4>1, <4>2
          <5>3. RowAt(k, input.upper.y + Height(k) + y)' = pos'
            BY <2>5, <2>7, <5>2 DEF RowAt
          <5>4. y' < input'.lower.y
            BY <1>1, <1>3, <4>1, <4>3
          <5>5. BufferAt(k)'
            BY <2>5, <2>6, <2>7, <4>1, <5>1, <5>3, <5>4 DEF BufferAt
          <5> QED BY <4>1, <5>1, <5>5 DEF Reading
        <4>4. CASE ~(lower.y > 0)
          <5>1. pc' = AfterRows
            BY <4>1, <4>4 DEF AfterImage
          <5>2. pos' = At(k)
            <6>1. input.upper.y + Height(k) = input.sizes[k].h
              <7>1. input.sizes[k].h \in Nat /\ input.lower.y = 0
                BY <1>2, <1>3, <4>4, InputIs
              <7> QED BY <1>2, <7>1 DEF Height
            <6> QED BY <1>2, <2>5, <4>2, <6>1, RowsLie
          <5>3. UNCHANGED <<input, pages, planes>>
            BY <1>1, <2>1
          <5>4. BufferAt(k)' /\ pc' \in Reading
            BY <1>2, <2>2, <2>3, <2>5, <2>6, <4>1, <5>1, <5>2, <5>3, RowsEnd
          <5> QED BY <4>1, <5>4
        <4> QED BY <4>3, <4>4
      <3> QED BY <3>1, <3>2
    <2>9. pos' \in Nat /\ pos' <= Len(Stream) /\ sp' \in Nat
      BY <2>3, <2>4, <2>5
    <2> QED BY <1>1, <2>1, <2>2, <2>3, <2>6, <2>8, <2>9, StaysInImage
  <1>6. CASE ~Readable(bytes)
    <2> DEFINE first == y = 0 /\ upper.y = 0
               some == IF left > 0 THEN left ELSE bpl
               error == ~first \/ Readable(some)
    <2>1. pos' = Len(Stream) /\ Eof(error)
      BY <1>3, <1>6 DEF ImageRow
    <2>2. /\ UNCHANGED <<input, p4eaten, clip, y, image, pages>>
          /\ pc' = IF Kind = "cmyk" /\ ~error THEN "done" ELSE "failed"
      BY <1>1, <2>1 DEF Eof
    <2>3. some \in Nat \ {0}
      BY <1>3
    <2>4. RowNow(Done + 1) = input.upper.y + y
      BY <1>1 DEF RowNow
    <2> HIDE DEF some
    <2>5. CASE Kind = "cmyk" /\ ~error
      <3>1. RowNow(Done + 1) < IF input.upper.y > 0 THEN input.upper.y ELSE 1
        BY <1>2, <1>3, <2>4, <2>5
      <3> QED BY <1>1, <1>2, <1>6, <2>1, <2>2, <2>5, <3>1, CutSkipped, Stops
    <2>6. CASE ~(Kind = "cmyk" /\ ~error)
      <3>1. Done < N
        <4>1. SUFFICES ASSUME ~(Done < N) PROVE FALSE
          OBVIOUS
        <4>2. ~Readable(some)
          BY <1>1, <2>3, <4>1, NothingLeft
        <4>3. /\ Kind = "cmyk" /\ y = 0
              /\ pc = IF input.upper.y > 0 THEN "top" ELSE "image"
          BY <1>1, <4>1, AtEnd
        <4>4. first
          BY <1>1, <1>2, <1>3, <4>3
        <4> QED BY <2>6, <4>2, <4>3, <4>4
      <3>2. Kind # "cmyk" \/ RowNow(Done + 1) > 0 \/ At(Done) < Len(Stream)
        <4>1. ~first => RowNow(Done + 1) > 0
          BY <1>2, <1>3, <2>4
        <4>2. Readable(some) => At(Done) < Len(Stream)
          <5>1. ASSUME NEW k, k = Done + 1
                PROVE  At(k - 1) \in Nat /\ At(k - 1) <= pos /\ k - 1 = Done
            BY <1>1, <3>1, <5>1, RowNowIs, InImage
          <5>2. At(Done) \in Nat /\ At(Done) <= pos
            BY <5>1
          <5> QED BY <1>2, <2>3, <5>2 DEF Readable
        <4> QED BY <2>6, <4>1, <4>2
      <3>3. ~Sound
        BY <1>1, <1>6, <3>1, <3>2, CutOpen
      <3>4. pc' = "failed"
        BY <2>2, <2>6
      <3> QED BY <1>2, <2>1, <2>2, <3>3, <3>4, Stops
    <2> QED BY <2>5, <2>6
  <1> QED BY <1>5, <1>6

\* A row that is skipped at the bottom.
LEMMA BottomRowStep ==
  ASSUME ReadInv, BottomRow
  PROVE  ReadInv'
  <1> DEFINE bytes == BytesFor(size.w)
  <1>1. pc = "bottom" /\ input' = input /\ pc \in Reading
    BY DEF BottomRow, Reading
  <1>2. /\ input \in Inputs /\ N \in Nat /\ y \in Nat /\ Len(Stream) \in Nat
        /\ buf \in Seq(Pixels)
        /\ input.upper.y \in Nat /\ input.lower.y \in Nat
    BY NumbersAre, InputIs
  <1>3. lower.y = input.lower.y
    BY <1>1, RowBytes DEF Aligned
  <1>4. Done < N
    BY <1>1, AtEnd
  <1>5. PICK k \in 1..N : k = Done + 1
    BY <1>1, <1>4, InImage
  <1> DEFINE place == input.upper.y + Height(k) + y
  <1>6. /\ BufferAt(k) /\ sp = 0 /\ k \in 1..N
        /\ RowNow(k) = place
    BY <1>1, <1>4, <1>5, InImage DEF RowNow
  <1>7. y < input.lower.y /\ buf = Plain(k)
    BY <1>1, <1>6 DEF BufferAt
  <1>8. /\ Height(k) \in Nat \ {0}
        /\ input.sizes[k].h = input.upper.y + Height(k) + input.lower.y
    <2>1. Height(k) \in Nat \ {0} /\ input.sizes[k].h \in Nat
      BY <1>2, SizesAre, InputIs
    <2>2. Height(k) = input.sizes[k].h - input.upper.y - input.lower.y
      BY DEF Height
    <2> QED BY <1>2, <2>1, <2>2
  <1>9. /\ place \in Nat
        /\ input.upper.y + Height(k) + (y + 1) = place + 1
        /\ y + 1 = input.lower.y => place + 1 = input.sizes[k].h
    <2>1. place \in Nat /\ input.upper.y + Height(k) + (y + 1) = place + 1
      <3>1. \A a \in Nat, b \in Nat, c \in Nat :
              a + b + c \in Nat /\ a + b + (c + 1) = (a + b + c) + 1
        OBVIOUS
      <3>2. Height(k) \in Nat
        BY <1>8
      <3> QED BY <1>2, <3>1, <3>2, ZenonT(60)
    <2>2. y + 1 = input.lower.y =>
            input.upper.y + Height(k) + (y + 1) = input.sizes[k].h
      BY <1>8
    <2> QED BY <2>1, <2>2
  <1> HIDE DEF place
  <1>10. CASE Readable(bytes)
    <2>1. /\ pos' = pos + bytes /\ NextRow(lower.y, AfterRows)
          /\ UNCHANGED <<p4eaten, clip, size, saved, buf, sp, planes, pages>>
      BY <1>10 DEF BottomRow, image
    <2>2. pos' \in Nat /\ pos' <= Len(Stream)
      BY <1>1, <1>10, <2>1, RowArrives
    <2>3. RowAt(k, place + 1) = pos'
      BY <1>1, <1>4, <1>5, <1>6, <2>1, RowNowIs
    <2>4. /\ \A r : RowAt(k, r) = At(k - 1) + Hdr + r * Bpl(k)
          /\ At(k - 1)' = At(k - 1) /\ Hdr' = Hdr /\ Bpl(k)' = Bpl(k)
          /\ Height(k)' = Height(k) /\ Plain(k)' = Plain(k)
      BY <1>1, SameInput DEF RowAt
    <2>5. BufferAt(k)' /\ pc' \in Reading /\ y' \in Nat
      <3>1. CASE y + 1 < lower.y
        <4>1. y' = y + 1 /\ pc' = "bottom"
          BY <1>1, <2>1, <3>1 DEF NextRow
        <4>2. input'.upper.y + Height(k)' + y' = place + 1
          <5>1. input'.upper = input.upper
            BY <1>1
          <5> QED BY <1>9, <2>4, <4>1, <5>1
        <4>3. RowAt(k, input.upper.y + Height(k) + y)' = pos'
          BY <2>3, <2>4, <4>2 DEF RowAt
        <4>4. BufferAt(k)'
          BY <1>1, <1>3, <1>6, <1>7, <2>1, <2>4, <3>1, <4>1, <4>3 DEF BufferAt
        <4> QED BY <1>2, <4>1, <4>4 DEF Reading
      <3>2. CASE ~(y + 1 < lower.y)
        <4>1. y' = 0 /\ pc' = AfterRows /\ y + 1 = input.lower.y
          BY <1>2, <1>3, <1>7, <2>1, <3>2 DEF NextRow
        <4>2. pos' = At(k)
          <5>1. place + 1 = input.sizes[k].h
            BY <1>9, <4>1
          <5> QED BY <1>2, <2>3, <5>1, RowsLie
        <4>3. UNCHANGED <<input, pages, planes>>
          BY <1>1, <2>1
        <4>4. BufferAt(k)' /\ pc' \in Reading
          BY <1>2, <1>4, <1>5, <1>6, <1>7, <2>1, <4>1, <4>2, <4>3, RowsEnd
        <4> QED BY <4>1, <4>4
      <3> QED BY <3>1, <3>2
    <2>6. sp' \in Nat /\ buf' \in Seq(Pixels)
      BY <1>2, <1>6, <2>1
    <2> QED BY <1>1, <1>4, <1>5, <2>1, <2>2, <2>5, <2>6, StaysInImage
  <1>11. CASE ~Readable(bytes)
    <2>1. /\ pos' = Len(Stream) /\ pc' = "failed"
          /\ UNCHANGED <<input, p4eaten, clip, y, image, pages>>
      BY <1>11 DEF BottomRow, Fail
    <2>2. RowNow(Done + 1) > 0
      BY <1>2, <1>5, <1>6, <1>8 DEF place
    <2>3. ~Sound
      BY <1>1, <1>4, <1>11, <2>2, CutOpen
    <2> QED BY <1>2, <2>1, <2>3, Stops
  <1> QED BY <1>10, <1>11

\* What a step of rotate_bytes_180 makes of the buffer.
LEMMA Swapped ==
  ASSUME ReadInv, TurnBytes, NEW k \in 1..N, HalfTurned(k),
         sp + 1 < Len(buf) - sp
  PROVE  /\ buf' \in Seq(Pixels) /\ Len(buf') = Len(Plain(k))
         /\ sp' = sp + 1 /\ sp' <= Len(Plain(k))
         /\ \A i \in 1..Len(Plain(k)) :
              buf'[i] = IF i <= sp' \/ i > Len(Plain(k)) - sp'
                        THEN Mirror(Plain(k)[Len(Plain(k)) + 1 - i])
                        ELSE Plain(k)[i]
  <1> DEFINE p == Plain(k)
             n == Len(p)
             first == sp + 1
             last == n - sp
  <1>1. /\ input \in Inputs /\ sp \in Nat /\ buf \in Seq(Pixels)
    BY NumbersAre
  <1>2. p \in Seq(Pixels) /\ n \in Nat
    BY <1>1, PlainIs
  <1>3. Len(buf) = n /\ sp <= n
    BY DEF HalfTurned
  <1>4. \A i \in 1..n : buf[i] = IF i <= sp \/ i > n - sp
                                 THEN Mirror(p[n + 1 - i]) ELSE p[i]
    BY DEF HalfTurned
  <1>5. /\ buf' = [buf EXCEPT ![first] = Mirror(buf[last]),
                              ![last] = Mirror(buf[first])]
        /\ sp' = sp + 1
    BY <1>3 DEF TurnBytes
  <1> HIDE DEF p, n
  <1>6. first \in 1..n /\ last \in 1..n /\ first < last
    BY <1>1, <1>2, <1>3 DEF n
  <1>7. buf[first] = p[first] /\ buf[last] = p[last]
    BY <1>1, <1>2, <1>4, <1>6
  <1>8. buf \in [1..n -> Pixels]
    BY <1>1, <1>3
  <1>9. Mirror(buf[last]) \in Pixels /\ Mirror(buf[first]) \in Pixels
    BY <1>6, <1>8, MirrorIs
  <1>10. buf' \in [1..n -> Pixels]
    BY <1>5, <1>8, <1>9
  <1>11. buf' \in Seq(Pixels) /\ Len(buf') = n
    BY <1>2, <1>10
  <1>12. ASSUME NEW i \in 1..n
         PROVE  buf'[i] = IF i <= sp + 1 \/ i > n - (sp + 1)
                          THEN Mirror(p[n + 1 - i]) ELSE p[i]
    <2>1. CASE i = first
      <3>1. buf'[i] = Mirror(buf[last]) /\ n + 1 - i = last
        BY <1>1, <1>2, <1>5, <1>6, <1>8, <2>1
      <3> QED BY <1>7, <2>1, <3>1
    <2>2. CASE i = last
      <3>1. /\ buf'[i] = Mirror(buf[first]) /\ n + 1 - i = first
            /\ i > n - (sp + 1)
        BY <1>1, <1>2, <1>5, <1>6, <1>8, <2>2
      <3> QED BY <1>7, <3>1
    <2>3. CASE i # first /\ i # last
      <3>1. buf'[i] = buf[i]
        BY <1>5, <1>8, <2>3
      <3>2. (i <= sp \/ i > n - sp) <=> (i <= sp + 1 \/ i > n - (sp + 1))
        BY <1>1, <1>2, <2>3
      <3> QED BY <1>4, <3>1, <3>2
    <2> QED BY <2>1, <2>2, <2>3
  <1>13. sp' <= n
    BY <1>1, <1>2, <1>5, <1>6
  <1> QED BY <1>5, <1>11, <1>12, <1>13 DEF p, n

\* The last step of rotate_bytes_180.
LEMMA TurnEnds ==
  ASSUME ReadInv, TurnBytes, NEW k \in 1..N, HalfTurned(k),
         ~(sp + 1 < Len(buf) - sp)
  PROVE  buf' = Turned(k) /\ sp' = 0
  <1> DEFINE p == Plain(k)
             n == Len(p)
             first == sp + 1
             last == n - sp
  <1>1. /\ input \in Inputs /\ sp \in Nat /\ buf \in Seq(Pixels)
    BY NumbersAre
  <1>2. /\ p \in Seq(Pixels) /\ n \in Nat
        /\ Turned(k) \in Seq(Pixels) /\ Len(Turned(k)) = n
        /\ \A i \in 1..n : Turned(k)[i] = Mirror(p[n + 1 - i])
    BY <1>1, PlainIs, TurnedIs
  <1>3. Len(buf) = n /\ sp <= n
    BY DEF HalfTurned
  <1>4. \A i \in 1..n : buf[i] = IF i <= sp \/ i > n - sp
                                 THEN Mirror(p[n + 1 - i]) ELSE p[i]
    BY DEF HalfTurned
  <1>5. /\ buf' = IF first = last THEN [buf EXCEPT ![first] = Mirror(@)]
                                  ELSE buf
        /\ sp' = 0
    BY <1>3 DEF TurnBytes
  <1> HIDE DEF p, n
  <1>6. ~(first < last)
    BY <1>3 DEF n
  <1>7. buf \in [1..n -> Pixels]
    BY <1>1, <1>3
  <1>8. Turned(k) \in [1..n -> Pixels]
    BY <1>2
  <1>9. DOMAIN buf' = 1..n /\ buf' = [i \in 1..n |-> buf'[i]]
    BY <1>5, <1>7
  <1>10. ASSUME NEW i \in 1..n PROVE buf'[i] = Turned(k)[i]
    <2>1. CASE first = last /\ i = first
      <3>1. buf'[i] = Mirror(buf[i])
        BY <1>5, <1>7, <2>1
      <3>2. n + 1 - i = i /\ ~(i <= sp \/ i > n - sp)
        BY <1>1, <1>2, <2>1
      <3> QED BY <1>2, <1>4, <3>1, <3>2
    <2>2. CASE ~(first = last /\ i = first)
      <3>1. buf'[i] = buf[i]
        BY <1>5, <1>7, <2>2
      <3>2. i <= sp \/ i > n - sp
        BY <1>1, <1>2, <1>6, <2>2
      <3> QED BY <1>2, <1>4, <3>1, <3>2
    <2> QED BY <2>1, <2>2
  <1> QED BY <1>5, <1>8, <1>9, <1>10

\* rotate_bytes_180.
LEMMA TurnBytesStep ==
  ASSUME ReadInv, TurnBytes
  PROVE  ReadInv'
  <1>1. /\ pc = "turn" /\ pc \in Reading
        /\ UNCHANGED <<input, pos, p4eaten, clip, y, size, saved>>
        /\ UNCHANGED <<planes, pages>>
    BY DEF TurnBytes, Reading
  <1>2. input \in Inputs /\ N \in Nat /\ y \in Nat /\ pos \in Nat
    BY NumbersAre
  <1>3. Done < N
    BY <1>1, AtEnd
  <1>4. PICK k \in 1..N : k = Done + 1
    BY <1>1, <1>3, InImage
  <1>5. BufferAt(k) /\ pos <= Len(Stream)
    BY <1>1, <1>3, <1>4, InImage
  <1>6. input.turn /\ Len(pages) % 2 = 1 /\ pos = At(k) /\ HalfTurned(k)
    BY <1>1, <1>5 DEF BufferAt
  <1>7. Plain(k)' = Plain(k) /\ Turned(k)' = Turned(k) /\ At(k)' = At(k)
    BY <1>1, SameInput
  <1>8. /\ BufferAt(k)' /\ pc' \in Reading
        /\ sp' \in Nat /\ buf' \in Seq(Pixels)
    <2>1. CASE sp + 1 < Len(buf) - sp
      <3>1. pc' = "turn"
        BY <1>1, <2>1 DEF TurnBytes
      <3>2. /\ buf' \in Seq(Pixels) /\ Len(buf') = Len(Plain(k))
            /\ sp' = sp + 1 /\ sp' <= Len(Plain(k))
            /\ \A i \in 1..Len(Plain(k)) :
                 buf'[i] = IF i <= sp' \/ i > Len(Plain(k)) - sp'
                           THEN Mirror(Plain(k)[Len(Plain(k)) + 1 - i])
                           ELSE Plain(k)[i]
        BY <1>6, <2>1, Swapped
      <3>3. HalfTurned(k)'
        BY <1>7, <3>2 DEF HalfTurned
      <3>4. BufferAt(k)'
        BY <1>1, <1>6, <1>7, <3>1, <3>3 DEF BufferAt
      <3> QED BY <3>1, <3>2, <3>4, NumbersAre DEF Reading
    <2>2. CASE ~(sp + 1 < Len(buf) - sp)
      <3>1. pc' = "page"
        BY <1>1, <2>2 DEF TurnBytes
      <3>2. buf' = Turned(k) /\ sp' = 0
        BY <1>6, <2>2, TurnEnds
      <3>3. BufferAt(k)'
        BY <1>1, <1>6, <1>7, <3>1, <3>2 DEF BufferAt
      <3>4. Turned(k) \in Seq(Pixels)
        BY <1>2, TurnedIs
      <3> QED BY <3>1, <3>2, <3>3, <3>4 DEF Reading
    <2> QED BY <2>1, <2>2
  <1>9. pos' \in Nat /\ pos' <= Len(Stream) /\ y' \in Nat
    BY <1>1, <1>2, <1>5
  <1> QED BY <1>1, <1>3, <1>4, <1>8, <1>9, StaysInImage

-----------------------------------------------------------------------------
(* Pages                                                                   *)

\* An image is in the buffer as it is encoded.
LEMMA AtPage ==
  ASSUME ReadInv, pc = "page"
  PROVE  /\ Done < N /\ Done + 1 \in 1..N /\ pos = At(Done + 1)
         /\ buf = Wanted(Len(pages) + 1, Len(planes) + 1)
         /\ \A i \in 1..(Done + 1) : Fits(i)
         /\ Kind # "cmyk" => saved = input.sizes[PerPage * Len(pages) + 1]
         /\ ~p4eaten /\ Aligned /\ Stream # <<>> /\ pos <= Len(Stream)
         /\ Kind = "cmyk" => ~input.looks /\ size = input.sizes[1]
  <1>1. pc \in Reading /\ pc \notin Halted
    BY DEF Reading, Halted
  <1>2. Done < N
    BY <1>1, AtEnd
  <1>3. /\ N \in Nat /\ Done \in Nat /\ Len(pages) \in Nat
        /\ Len(planes) \in Nat /\ PerPage \in {1, 4}
    BY NumbersAre
  <1>4. PICK k : k = Done + 1
    OBVIOUS
  <1>5. /\ k \in 1..N /\ BufferAt(k) /\ Aligned /\ pos <= Len(Stream)
    BY <1>1, <1>2, <1>4, InImage
  <1>6. /\ pos = At(k)
        /\ buf = IF input.turn /\ Len(pages) % 2 = 1
                 THEN Turned(k) ELSE Plain(k)
    BY <1>5 DEF BufferAt
  <1>7. buf = Wanted(Len(pages) + 1, Len(planes) + 1)
    <2>1. PerPage * ((Len(pages) + 1) - 1) + (Len(planes) + 1) = k
      BY <1>3, <1>4 DEF Done
    <2>2. (Len(pages) + 1) % 2 = 0 <=> Len(pages) % 2 = 1
      BY <1>3
    <2> QED BY <1>6, <2>1, <2>2 DEF Wanted
  <1>8. \A i \in 1..(Done + 1) : Fits(i)
    <2>1. (\A i \in 1..Done : Fits(i)) /\ Fits(Done + 1)
      BY <1>1, <1>2 DEF ReadInv, FitInv
    <2>2. \A i \in 1..(Done + 1) : i \in 1..Done \/ i = Done + 1
      BY <1>3
    <2> QED BY <2>1, <2>2
  <1>9. Kind # "cmyk" => saved = input.sizes[PerPage * Len(pages) + 1]
    BY <1>1 DEF ReadInv, FitInv
  <1>10. /\ ~p4eaten /\ Stream # <<>>
         /\ Kind = "cmyk" => ~input.looks /\ size = input.sizes[1]
    BY <1>1 DEF ReadInv, PlaceInv
  <1> QED BY <1>2, <1>4, <1>5, <1>6, <1>7, <1>8, <1>9, <1>10

\* An image is complete.
LEMMA EndImageStep ==
  ASSUME ReadInv, EndImage
  PROVE  ReadInv'
  <1> DEFINE all == Append(planes, buf)
  <1>1. /\ pc = "page" /\ input' = input /\ pos' = pos /\ p4eaten' = p4eaten
        /\ upper' = upper /\ lower' = lower /\ y' = y /\ size' = size
        /\ saved' = saved /\ buf' = buf /\ sp' = sp
    BY DEF EndImage, clip
  <1>2. /\ N \in Nat /\ Done \in Nat /\ Len(pages) \in Nat
        /\ Len(planes) \in Nat /\ PerPage \in {1, 4} /\ Len(planes) < PerPage
        /\ buf \in Seq(Pixels) /\ planes \in Seq(Seq(Pixels))
        /\ pages \in Seq(Seq(Seq(Pixels))) /\ p4eaten \in BOOLEAN
    BY NumbersAre
  <1>3. /\ Done + 1 \in 1..N /\ pos = At(Done + 1)
        /\ buf = Wanted(Len(pages) + 1, Len(planes) + 1)
        /\ \A i \in 1..(Done + 1) : Fits(i)
        /\ Kind # "cmyk" => saved = input.sizes[PerPage * Len(pages) + 1]
        /\ ~p4eaten /\ Aligned /\ Stream # <<>> /\ pos <= Len(Stream)
        /\ Kind = "cmyk" => ~input.looks /\ size = input.sizes[1]
    BY <1>1, AtPage
  <1>4. /\ Kind' = Kind /\ PerPage' = PerPage /\ N' = N /\ Hdr' = Hdr
        /\ Stream' = Stream /\ \A k : At(k)' = At(k)
        /\ \A n, p : Wanted(n, p)' = Wanted(n, p)
        /\ \A k : Fits(k)' = Fits(k)
    BY <1>1, SameInput
  <1>5. /\ all \in Seq(Seq(Pixels)) /\ Len(all) = Len(planes) + 1
        /\ all[Len(planes) + 1] = buf
        /\ \A p \in 1..Len(planes) : all[p] = planes[p]
    BY <1>2, Appended
  <1> HIDE DEF all
  <1>6. \A p \in 1..Len(all) : all[p] = Wanted(Len(pages) + 1, p)
    <2>1. SUFFICES ASSUME NEW p \in 1..Len(all)
                   PROVE  all[p] = Wanted(Len(pages) + 1, p)
      OBVIOUS
    <2>2. CASE p = Len(planes) + 1
      BY <1>3, <1>5, <2>2
    <2>3. CASE p # Len(planes) + 1
      <3>1. p \in 1..Len(planes)
        BY <1>2, <1>5, <2>1, <2>3
      <3> QED BY <1>5, <3>1 DEF ReadInv, PagesInv
    <2> QED BY <2>2, <2>3
  <1>7. Aligned'
    BY <1>1, <1>3, <1>4 DEF Aligned, PixelsPerByte
  <1>8. ~p4eaten'
    BY <1>1, <1>2, <1>3, Zenon
  <1>9. \A n \in 1..Len(pages), p \in 1..PerPage : pages[n][p] = Wanted(n, p)
    BY DEF ReadInv, PagesInv
  <1>10. ASSUME pc' \in {"header", "write"}, Done' = Done + 1,
                Len(planes') < PerPage,
                planes' \in Seq(Seq(Pixels)), pages' \in Seq(Seq(Seq(Pixels))),
                pc' = "header" => Kind # "cmyk",
                pc' = "write" => planes' = <<>>
         PROVE  TypesInv' /\ PlaceInv' /\ BufferInv' /\ WholeOrError'
    <2>1. TypesInv'
      BY <1>1, <1>10 DEF ReadInv, TypesInv, Places
    <2>2. pc' \notin Halted /\ pc' \notin Reading /\ pc' # "begin"
      BY <1>10 DEF Halted, Reading
    <2>3. At(Done)' = pos'
      <3>1. PICK k : k = Done + 1
        OBVIOUS
      <3>2. At(k)' = pos' /\ k = Done'
        BY <1>1, <1>3, <1>4, <1>10, <3>1
      <3> QED BY <3>2 DEF At
    <2>4. /\ Stream' # <<>> /\ pos' <= Len(Stream') /\ Done' <= N'
          /\ Kind' = "cmyk" => ~input'.looks /\ size' = input'.sizes[1]
          /\ Len(planes') < PerPage' /\ pos' \in Nat
      BY <1>1, <1>3, <1>4, <1>10, <1>2, NumbersAre
    <2>5. PlaceInv'
      BY <1>4, <1>7, <1>8, <1>10, <2>2, <2>3, <2>4 DEF PlaceInv
    <2>6. BufferInv'
      BY <1>10 DEF BufferInv, BufferAt
    <2>7. WholeOrError'
      BY <1>10, GoesOn
    <2> QED BY <2>1, <2>5, <2>6, <2>7
  <1>11. CASE Len(all) < PerPage
    <2>1. planes' = all /\ pc' = "header" /\ pages' = pages
      BY <1>11 DEF EndImage, all
    <2>2. Done' = Done + 1
      <3>1. PerPage * Len(pages) \in Nat
        BY <1>2
      <3>2. Done' = PerPage * Len(pages) + (Len(planes) + 1)
        BY <1>4, <1>5, <2>1 DEF Done
      <3> QED BY <1>2, <3>1, <3>2 DEF Done
    <2>3. Kind # "cmyk"
      BY <1>2, <1>5, <1>11 DEF PerPage
    <2>4. PagesInv'
      BY <1>4, <1>6, <1>9, <2>1 DEF PagesInv
    <2>5. FitInv'
      <3>1. pc' \notin Reading
        BY <2>1 DEF Reading
      <3> QED BY <1>1, <1>3, <1>4, <2>1, <2>2, <2>3, <3>1 DEF FitInv
    <2> QED BY <1>2, <1>5, <1>10, <1>11, <2>1, <2>2, <2>3, <2>4, <2>5
            DEF ReadInv
  <1>12. CASE ~(Len(all) < PerPage)
    <2>1. planes' = <<>> /\ pc' = "write" /\ pages' = Append(pages, all)
      BY <1>12 DEF EndImage, all
    <2>2. /\ pages' \in Seq(Seq(Seq(Pixels))) /\ Len(pages') = Len(pages) + 1
          /\ pages'[Len(pages) + 1] = all
          /\ \A n \in 1..Len(pages) : pages'[n] = pages[n]
      BY <1>2, <1>5, <2>1, Appended
    <2>3. Len(all) = PerPage /\ Len(planes') = 0
      BY <1>2, <1>5, <1>12, <2>1
    <2>4. Done' = Done + 1
      <3>1. PerPage * (Len(pages) + 1) = PerPage * Len(pages) + PerPage
        BY <1>2
      <3>2. PerPage * Len(pages) \in Nat
        BY <1>2
      <3>3. Done = PerPage * Len(pages) + Len(planes)
        BY DEF Done
      <3>4. Done' = PerPage * (Len(pages) + 1)
        BY <1>4, <2>2, <2>3, <3>1, <3>2 DEF Done
      <3>5. Len(planes) + 1 = PerPage
        BY <1>2, <1>5, <2>3
      <3> QED BY <1>2, <3>1, <3>2, <3>3, <3>4, <3>5
    <2>5. PagesInv'
      <3>1. SUFFICES ASSUME NEW n \in 1..Len(pages'), NEW p \in 1..PerPage
                     PROVE  pages'[n][p] = Wanted(n, p)
        BY <1>4, <2>3 DEF PagesInv
      <3>2. CASE n = Len(pages) + 1
        BY <1>6, <2>2, <2>3, <3>2
      <3>3. CASE n # Len(pages) + 1
        <4>1. n \in 1..Len(pages)
          BY <1>2, <2>2, <3>3
        <4> QED BY <1>9, <2>2, <4>1
      <3> QED BY <3>2, <3>3
    <2>6. FitInv'
      <3>1. pc' \notin Reading
        BY <2>1 DEF Reading
      <3> QED BY <1>3, <1>4, <2>1, <2>4, <3>1 DEF FitInv
    <2>7. Len(planes') < PerPage /\ planes' \in Seq(Seq(Pixels))
      BY <1>2, <2>1, <2>3
    <2> QED BY <1>10, <2>1, <2>2, <2>4, <2>5, <2>6, <2>7 DEF ReadInv
  <1> QED BY <1>11, <1>12

\* A page is written.
LEMMA WritePageStep ==
  ASSUME ReadInv, WritePage
  PROVE  ReadInv'
  <1>1. /\ pc = "write" /\ input' = input /\ pos' = pos /\ p4eaten' = p4eaten
        /\ upper' = upper /\ lower' = lower /\ size' = size /\ saved' = saved
        /\ planes' = planes /\ pages' = pages
    BY DEF WritePage, clip
  <1>2. /\ input \in Inputs /\ N \in Nat /\ Done \in Nat /\ PerPage \in {1, 4}
        /\ pos \in Nat /\ p4eaten \in BOOLEAN
    BY NumbersAre
  <1>3. /\ Stream # <<>> /\ pos <= Len(Stream) /\ Done <= N
        /\ Kind = "cmyk" => ~input.looks /\ size = input.sizes[1] /\ Aligned
        /\ ~p4eaten /\ planes = <<>> /\ pos = At(Done)
    <2>1. pc \notin Halted
      BY <1>1 DEF Halted
    <2> QED BY <1>1, <2>1 DEF ReadInv, PlaceInv
  <1>4. ~p4eaten' /\ p4eaten' \in BOOLEAN
    BY <1>1, <1>2, <1>3, Zenon
  <1>5. Aligned => Aligned'
    BY <1>1 DEF Aligned, PixelsPerByte, Kind
  <1>6. CASE Kind = "cmyk"
    <2>1. StartImage
      BY <1>6 DEF WritePage
    <2>2. Hdr = 0 /\ PerPage = 1
      BY <1>6 DEF Hdr, PerPage
    <2>3. upper.y = input.upper.y
      BY <1>3, <1>6 DEF Aligned
    <2>4. Done < N => size' = input.sizes[Done + 1] /\ Fits(Done + 1)
      <3>1. Done < N => Done + 1 \in 1..N
        BY <1>2
      <3>2. Done < N => input.sizes[Done + 1] = input.sizes[1]
        BY <1>2, <1>6, <3>1, InputIs
      <3>3. First(Done + 1) = Done + 1
        BY <1>2, <2>2 DEF First
      <3> QED BY <1>1, <1>3, <1>6, <3>2, <3>3 DEF Fits
    <2>5. pos' = At(Done) + Hdr /\ pos' <= Len(Stream)
      BY <1>1, <1>2, <1>3, <2>2
    <2>6. Aligned'
      BY <1>3, <1>5, <1>6
    <2> QED BY <1>1, <1>3, <1>4, <1>6, <2>1, <2>3, <2>4, <2>5, <2>6,
               ImageBegins
  <1>7. CASE Kind # "cmyk"
    <2>1. pc' = "header" /\ y' = y /\ buf' = buf /\ sp' = sp
      BY <1>7 DEF WritePage
    <2>2. /\ Kind' = Kind /\ PerPage' = PerPage /\ N' = N /\ Hdr' = Hdr
          /\ Stream' = Stream /\ \A k : At(k)' = At(k)
          /\ \A n, p : Wanted(n, p)' = Wanted(n, p)
          /\ \A k : Fits(k)' = Fits(k)
      BY <1>1, SameInput
    <2>3. Done' = Done
      BY <1>1, <2>2 DEF Done
    <2>4. pc' \notin Halted /\ pc' \notin Reading
      BY <2>1 DEF Halted, Reading
    <2>5. TypesInv'
      BY <1>1, <2>1 DEF ReadInv, TypesInv, Places
    <2>6. At(Done)' = pos'
      <3>1. PICK k : k = Done
        OBVIOUS
      <3>2. At(k)' = pos' /\ k = Done'
        BY <1>1, <1>3, <2>2, <2>3, <3>1
      <3> QED BY <3>2 DEF At
    <2>7. PlaceInv'
      <3>1. /\ Stream' # <<>> /\ pos' <= Len(Stream') /\ Done' <= N'
            /\ Len(planes') < PerPage' /\ Kind' # "cmyk"
        BY <1>1, <1>3, <1>7, <2>2, <2>3, NumbersAre
      <3>2. Aligned' \/ (upper' = input'.upper /\ lower' = input'.lower)
        BY <1>1, <1>5 DEF ReadInv, PlaceInv
      <3> QED BY <1>4, <2>1, <2>4, <2>6, <3>1, <3>2 DEF PlaceInv
    <2>8. BufferInv'
      BY <2>1 DEF BufferInv, BufferAt
    <2>9. PagesInv'
      BY <1>1, <2>2 DEF ReadInv, PagesInv
    <2>10. FitInv'
      BY <1>1, <1>3, <2>2, <2>3, <2>4 DEF ReadInv, FitInv
    <2>11. WholeOrError'
      BY <2>1, GoesOn
    <2> QED BY <2>5, <2>7, <2>8, <2>9, <2>10, <2>11 DEF ReadInv
  <1> QED BY <1>6, <1>7

-----------------------------------------------------------------------------
(* The theorems                                                            *)

\* Every step keeps the invariant.
LEMMA ReadStep == ReadInv /\ [Next]_vars => ReadInv'
  <1> SUFFICES ASSUME ReadInv, [Next]_vars PROVE ReadInv'
    OBVIOUS
  <1>1. CASE Begin
    BY <1>1, BeginStep
  <1>2. CASE EndOfInput
    BY <1>2, EndOfInputStep
  <1>3. CASE Header
    BY <1>3, HeaderStep
  <1>4. CASE TopRow
    BY <1>4, TopRowStep
  <1>5. CASE ImageRow
    BY <1>5, ImageRowStep
  <1>6. CASE BottomRow
    BY <1>6, BottomRowStep
  <1>7. CASE TurnBytes
    BY <1>7, TurnBytesStep
  <1>8. CASE EndImage
    BY <1>8, EndImageStep
  <1>9. CASE WritePage
    BY <1>9, WritePageStep
  <1>10. CASE UNCHANGED vars
    <2>1. /\ UNCHANGED <<input, pc, pos, p4eaten, upper, lower, y>>
          /\ UNCHANGED <<size, saved, buf, sp, planes, pages>>
      BY <1>10 DEF vars, clip, image
    <2>2. /\ Kind' = Kind /\ PerPage' = PerPage /\ N' = N /\ Hdr' = Hdr
          /\ Stream' = Stream /\ Sound' = Sound
          /\ \A n, p : Wanted(n, p)' = Wanted(n, p)
          /\ \A k : Fits(k)' = Fits(k) /\ EndsAfter(k)' = EndsAfter(k)
      BY <2>1, SameInput
    <2>3. TypesInv'
      BY <2>1 DEF ReadInv, TypesInv
    <2>4. PlaceInv'
      BY <2>1, ZenonT(60) DEF ReadInv, PlaceInv, AtStart, Aligned,
                  PixelsPerByte, Kind, PerPage, Done, At, Images, Image, N,
                  Hdr, Stream, Whole, BytesFor
    <2>5. BufferInv'
      <3>1. SUFFICES ASSUME Done' < N' PROVE BufferAt(Done + 1)'
        BY DEF BufferInv
      <3>2. Done' = Done
        BY <2>1, <2>2 DEF Done
      <3>3. PICK k : k = Done + 1
        OBVIOUS
      <3>4. BufferAt(k)
        BY <2>2, <3>1, <3>2, <3>3 DEF ReadInv, BufferInv
      <3>5. /\ At(k - 1)' = At(k - 1) /\ At(k)' = At(k) /\ Bpl(k)' = Bpl(k)
            /\ Height(k)' = Height(k) /\ Rows(k)' = Rows(k)
            /\ Plain(k)' = Plain(k) /\ Turned(k)' = Turned(k)
        BY <2>1, SameInput
      <3>6. BufferAt(k)'
        BY <2>1, <2>2, <3>4, <3>5 DEF BufferAt, HalfTurned, RowAt
      <3> QED BY <3>2, <3>3, <3>6
    <2>6. PagesInv'
      BY <2>1, <2>2 DEF ReadInv, PagesInv
    <2>7. FitInv'
      BY <2>1, <2>2 DEF ReadInv, FitInv, Done
    <2>8. WholeOrError'
      BY <2>1, <2>2 DEF ReadInv, WholeOrError, EndsAfter, Image, BytesFor,
                        PixelsPerByte, Kind
    <2> QED BY <2>3, <2>4, <2>5, <2>6, <2>7, <2>8 DEF ReadInv
  <1> QED BY <1>1, <1>2, <1>3, <1>4, <1>5, <1>6, <1>7, <1>8, <1>9, <1>10
          DEF Next

\* The encoder knows where it is in its input, what it has of the image and
\* what it has encoded.
THEOREM InputRead == Spec => []ReadInv
  BY InputInit, ReadStep, PTL DEF Spec

\* The pages that are encoded are the images of the input, cropped and turned
\* as the options say (read_and_clip_image, rotate_bytes_180).
THEOREM PagesCropped == Spec => []PagesAreCropped
  <1>1. ReadInv => PagesAreCropped
    BY DEF ReadInv, PagesInv, PagesAreCropped, Wanted, Plain, Turned, Rows
  <1> QED BY <1>1, InputRead, PTL

\* The encoder ends with success for whole documents only, but for the rows of
\* a cmyk raster that are skipped (do_one, pbm_pages, cmyk_pages, pksm_pages).
THEOREM WholeDocuments == Spec => []WholeOrError
  <1>1. ReadInv => WholeOrError
    BY DEF ReadInv
  <1> QED BY <1>1, InputRead, PTL
=============================================================================
