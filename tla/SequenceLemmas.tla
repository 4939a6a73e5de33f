--------------------------- MODULE SequenceLemmas ---------------------------
(***************************************************************************)
(* Induction over the natural numbers, stated for a set in place of a      *)
(* predicate so that it can be cited with any set, some facts about        *)
(* sequences, and what both give for FlattenSeq, with which the encoder's  *)
(* modules put sequences of sequences together.                            *)
(***************************************************************************)
EXTENDS Integers, Sequences, SequencesExt, SequenceTheorems,
        WellFoundedInduction, TLAPS

-----------------------------------------------------------------------------
(* Induction                                                               *)

\* A set that has 0 and with every number the next one has all of them: the
\* least number that is missing would have a predecessor.
LEMMA SetInduction ==
  ASSUME NEW S, 0 \in S, \A n \in Nat : n \in S => n + 1 \in S
  PROVE  Nat \subseteq S
  <1> DEFINE T == Nat \ S
             R == OpToRel(<, Nat)
  <1>1. SUFFICES ASSUME T # {} PROVE FALSE
    OBVIOUS
  <1>2. PICK x \in T : \A y \in T : ~ (<<y, x>> \in R)
    <2> HIDE DEF R
    <2>1. IsWellFoundedOn(R, Nat)
      BY NatLessThanWellFounded DEF R
    <2> QED BY <1>1, <2>1, WFMin
  <1>3. x \in Nat /\ x # 0
    OBVIOUS
  <1>4. x - 1 \in Nat /\ x - 1 < x /\ (x - 1) + 1 = x
    BY <1>3
  <1>5. x - 1 \in T
    BY <1>3, <1>4
  <1>6. <<x - 1, x>> \in R
    BY <1>3, <1>4 DEF OpToRel
  <1> QED BY <1>2, <1>5, <1>6

\* The same for the numbers up to a bound.
LEMMA UpTo ==
  ASSUME NEW m \in Nat, NEW S, 0 \in S,
         \A n \in 0..(m - 1) : n \in S => n + 1 \in S
  PROVE  0..m \subseteq S
  <1> DEFINE U == {n \in Nat : n <= m => n \in S}
  <1>1. Nat \subseteq U
    <2>1. 0 \in U
      OBVIOUS
    <2>2. \A n \in Nat : n \in U => n + 1 \in U
      OBVIOUS
    <2> HIDE DEF U
    <2> QED BY <2>1, <2>2, SetInduction
  <1> QED BY <1>1

-----------------------------------------------------------------------------
(* Sequences                                                               *)

\* Two sequences one after the other, and one element more.
LEMMA Joined ==
  ASSUME NEW T, NEW a \in Seq(T), NEW b \in Seq(T)
  PROVE  /\ a \o b \in Seq(T)
         /\ Len(a) \in Nat /\ Len(b) \in Nat
         /\ Len(a \o b) = Len(a) + Len(b)
         /\ \A k \in 1..(Len(a) + Len(b)) :
              (a \o b)[k] = IF k <= Len(a) THEN a[k] ELSE b[k - Len(a)]
  OBVIOUS

LEMMA Appended ==
  ASSUME NEW T, NEW d \in Seq(T), NEW p \in T
  PROVE  LET a == Append(d, p)
         IN  /\ a \in Seq(T) /\ Len(d) \in Nat /\ Len(a) = Len(d) + 1
             /\ a[Len(d) + 1] = p /\ \A k \in 1..Len(d) : a[k] = d[k]
  OBVIOUS

\* The first n elements of s, which grow to the whole one by one.
Prefix(s, n) == [k \in 1..n |-> s[k]]

LEMMA PrefixGrows ==
  ASSUME NEW T, NEW s \in Seq(T)
  PROVE  /\ Prefix(s, 0) = <<>>
         /\ Prefix(s, Len(s)) = s
         /\ \A n \in 0..Len(s) :
              Prefix(s, n) \in Seq(T) /\ Len(Prefix(s, n)) = n
         /\ \A n \in 0..(Len(s) - 1) :
              Prefix(s, n + 1) = Append(Prefix(s, n), s[n + 1])
  <1>1. \A n \in 0..Len(s) : Prefix(s, n) \in Seq(T) /\ Len(Prefix(s, n)) = n
    <2> SUFFICES ASSUME NEW n \in 0..Len(s)
                 PROVE  Prefix(s, n) \in Seq(T) /\ Len(Prefix(s, n)) = n
      OBVIOUS
    <2>1. n \in Nat /\ \A k \in 1..n : s[k] \in T
      OBVIOUS
    <2> QED BY <2>1, IsASeq, LenProperties DEF Prefix
  <1>2. Prefix(s, 0) = <<>>
    BY DEF Prefix
  <1>3. Prefix(s, Len(s)) = s
    BY DEF Prefix
  <1>4. ASSUME NEW n \in 0..(Len(s) - 1)
        PROVE  Prefix(s, n + 1) = Append(Prefix(s, n), s[n + 1])
    <2>1. n \in 0..Len(s) /\ n + 1 \in 0..Len(s) /\ n + 1 \in 1..Len(s)
      OBVIOUS
    <2> DEFINE a == Append(Prefix(s, n), s[n + 1])
    <2>2. a \in Seq(T) /\ Len(a) = n + 1
      BY <1>1, <2>1
    <2>3. ASSUME NEW k \in 1..(n + 1) PROVE a[k] = s[k]
      <3>1. CASE k = n + 1
        BY <1>1, <2>1, <3>1
      <3>2. CASE k # n + 1
        <4>1. k \in 1..n
          BY <3>2
        <4>2. a[k] = Prefix(s, n)[k]
          BY <1>1, <2>1, <4>1
        <4> QED BY <4>1, <4>2 DEF Prefix
      <3> QED BY <3>1, <3>2
    <2>4. /\ Prefix(s, n + 1) \in Seq(T) /\ Len(Prefix(s, n + 1)) = n + 1
          /\ \A k \in 1..(n + 1) : Prefix(s, n + 1)[k] = s[k]
      BY <1>1, <2>1 DEF Prefix
    <2> HIDE DEF a
    <2>5. Prefix(s, n + 1) = a
      BY <2>2, <2>3, <2>4, SeqEqual
    <2> QED BY <2>5 DEF a
  <1> QED BY <1>1, <1>2, <1>3, <1>4

-----------------------------------------------------------------------------
(* FlattenSeq                                                              *)

\* The equation behind FlattenSeq: f[i] is made of the first i elements of s.
Flattening(s, n, f) ==
  f = [i \in 1..n |-> IF i = 1 THEN s[i] ELSE f[i - 1] \o s[i]]

\* The equation has a solution, one element more at a time.
LEMMA FlatteningExists ==
  ASSUME NEW s, NEW m \in Nat
  PROVE  \E f : Flattening(s, m, f)
  <1> DEFINE S == {n \in Nat : \E f : Flattening(s, n, f)}
  <1>1. 0 \in S
    <2>1. Flattening(s, 0, [i \in 1..0 |-> 0])
      BY DEF Flattening
    <2> QED BY <2>1
  <1>2. ASSUME NEW n \in Nat, n \in S PROVE n + 1 \in S
    <2>1. PICK f : Flattening(s, n, f)
      BY <1>2
    <2> DEFINE g == [i \in 1..(n + 1) |->
                       IF i = 1 THEN s[i]
                       ELSE IF i = n + 1 THEN f[n] \o s[i] ELSE f[i]]
    <2>2. \A i \in 1..n : g[i] = f[i]
      <3>1. n >= 1 => f[1] = s[1]
        BY <2>1 DEF Flattening
      <3> QED BY <3>1
    <2>3. ASSUME NEW i \in 1..(n + 1), i # 1
          PROVE  g[i] = g[i - 1] \o s[i]
      <3>1. i - 1 \in 1..n
        BY <2>3
      <3>4. g[i] = IF i = n + 1 THEN f[n] \o s[i] ELSE f[i]
        BY <2>3
      <3>5. g[i - 1] = f[i - 1]
        BY <2>2, <3>1
      <3> HIDE DEF g
      <3>2. CASE i = n + 1
        <4>1. i - 1 = n
          BY <3>2
        <4> QED BY <3>2, <3>4, <3>5, <4>1
      <3>3. CASE i # n + 1
        <4>1. i \in 1..n
          BY <3>3
        <4>2. f[i] = f[i - 1] \o s[i]
          BY <2>1, <2>3, <4>1 DEF Flattening
        <4> QED BY <3>3, <3>4, <3>5, <4>2
      <3> QED BY <3>2, <3>3
    <2>4. g[1] = s[1] /\ 1 \in 1..(n + 1)
      OBVIOUS
    <2>5. g = [i \in 1..(n + 1) |-> IF i = 1 THEN s[i] ELSE g[i - 1] \o s[i]]
      <3> DEFINE h == [i \in 1..(n + 1) |->
                         IF i = 1 THEN s[i] ELSE g[i - 1] \o s[i]]
      <3>1. \A i \in 1..(n + 1) : g[i] = h[i]
        <4> HIDE DEF g
        <4> QED BY <2>3, <2>4
      <3> QED BY <3>1, Zenon
    <2> HIDE DEF g
    <2>6. Flattening(s, n + 1, g)
      BY <2>5, Zenon DEF Flattening
    <2> QED BY <2>6
  <1> HIDE DEF S
  <1>3. m \in S
    BY <1>1, <1>2, SetInduction
  <1> QED BY <1>3 DEF S

\* It has one only, also for a prefix.
LEMMA FlatteningUnique ==
  ASSUME NEW s, NEW m \in Nat, NEW f, Flattening(s, m, f),
         NEW n \in 0..m, NEW g, Flattening(s, n, g)
  PROVE  \A i \in 1..n : f[i] = g[i]
  <1> DEFINE S == {i \in Nat : i \in 1..n => f[i] = g[i]}
  <1>1. 0 \in S
    OBVIOUS
  <1>2. ASSUME NEW i \in Nat, i \in S PROVE i + 1 \in S
    <2>1. SUFFICES ASSUME i + 1 \in 1..n PROVE f[i + 1] = g[i + 1]
      OBVIOUS
    <2>2. /\ f[i + 1] = IF i + 1 = 1 THEN s[i + 1] ELSE f[i] \o s[i + 1]
          /\ g[i + 1] = IF i + 1 = 1 THEN s[i + 1] ELSE g[i] \o s[i + 1]
      <3>1. i + 1 \in 1..m /\ (i + 1) - 1 = i
        BY <2>1
      <3> QED BY <2>1, <3>1 DEF Flattening
    <2>3. i + 1 # 1 => f[i] = g[i]
      BY <1>2, <2>1
    <2> QED BY <2>2, <2>3
  <1> HIDE DEF S
  <1>3. Nat \subseteq S
    BY <1>1, <1>2, SetInduction
  <1> QED BY <1>3 DEF S

\* So FlattenSeq is the last value of whatever solves the equation.
LEMMA FlattenIs ==
  ASSUME NEW s, Len(s) \in Nat, Len(s) # 0, NEW f, Flattening(s, Len(s), f)
  PROVE  FlattenSeq(s) = f[Len(s)]
  <1> DEFINE c == CHOOSE g : Flattening(s, Len(s), g)
  <1>1. FlattenSeq(s) = c[Len(s)]
    BY DEF FlattenSeq, Flattening
  <1>2. Flattening(s, Len(s), c)
    BY Zenon
  <1> HIDE DEF c
  <1>3. Len(s) \in 0..Len(s) /\ Len(s) \in 1..Len(s)
    OBVIOUS
  <1>4. \A i \in 1..Len(s) : f[i] = c[i]
    BY <1>2, <1>3, FlatteningUnique
  <1> QED BY <1>1, <1>3, <1>4

\* A longer sequence is flattened by appending its last element.
LEMMA FlattenAppend ==
  ASSUME NEW T, NEW s \in Seq(Seq(T)), NEW t \in Seq(T)
  PROVE  /\ FlattenSeq(s) \in Seq(T)
         /\ FlattenSeq(Append(s, t)) = FlattenSeq(s) \o t
  <1> DEFINE a == Append(s, t)
             n == Len(s)
  <1>1. /\ n \in Nat /\ a \in Seq(Seq(T)) /\ Len(a) = n + 1
        /\ \A i \in 1..n : a[i] = s[i]
        /\ a[n + 1] = t
    OBVIOUS
  <1> HIDE DEF a, n
  <1>2. PICK f : Flattening(a, n + 1, f)
    <2>1. n + 1 \in Nat
      BY <1>1
    <2> QED BY <2>1, FlatteningExists
  <1>3. FlattenSeq(a) = f[n + 1]
    BY <1>1, <1>2, FlattenIs
  <1>4. n # 0 => FlattenSeq(s) = f[n] /\ f[n] \in Seq(T)
    <2> SUFFICES ASSUME n # 0 PROVE FlattenSeq(s) = f[n] /\ f[n] \in Seq(T)
      OBVIOUS
    <2>1. PICK g : Flattening(s, n, g)
      BY <1>1, FlatteningExists
    <2>2. FlattenSeq(s) = g[n]
      BY <1>1, <2>1, FlattenIs DEF n
    <2> DEFINE S == {i \in Nat : i \in 1..n => f[i] = g[i] /\ g[i] \in Seq(T)}
    <2>3. 0 \in S
      OBVIOUS
    <2>4. ASSUME NEW i \in Nat, i \in S PROVE i + 1 \in S
      <3>1. SUFFICES ASSUME i + 1 \in 1..n
                     PROVE  f[i + 1] = g[i + 1] /\ g[i + 1] \in Seq(T)
        OBVIOUS
      <3>2. /\ f[i + 1] = IF i + 1 = 1 THEN s[i + 1] ELSE f[i] \o s[i + 1]
            /\ g[i + 1] = IF i + 1 = 1 THEN s[i + 1] ELSE g[i] \o s[i + 1]
        <4>1. i + 1 \in 1..(n + 1) /\ (i + 1) - 1 = i /\ a[i + 1] = s[i + 1]
          BY <1>1, <3>1
        <4> QED BY <1>2, <2>1, <3>1, <4>1 DEF Flattening
      <3>3. i + 1 # 1 => f[i] = g[i] /\ g[i] \in Seq(T)
        BY <1>1, <2>4, <3>1
      <3>4. s[i + 1] \in Seq(T)
        BY <3>1 DEF n
      <3> QED BY <3>2, <3>3, <3>4
    <2> HIDE DEF S
    <2>5. Nat \subseteq S
      BY <2>3, <2>4, SetInduction
    <2>6. n \in S /\ n \in 1..n
      BY <1>1, <2>5
    <2> QED BY <2>2, <2>6 DEF S
  <1>5. f[n + 1] = IF n = 0 THEN t ELSE f[n] \o t
    <2>1. n + 1 \in 1..(n + 1) /\ (n + 1) - 1 = n /\ (n + 1 = 1 <=> n = 0)
      BY <1>1
    <2>2. f[n + 1] = IF n + 1 = 1 THEN a[n + 1] ELSE f[(n + 1) - 1] \o a[n + 1]
      BY <1>2, <2>1 DEF Flattening
    <2> QED BY <1>1, <2>1, <2>2
  <1>6. n = 0 => FlattenSeq(s) = <<>> /\ <<>> \in Seq(T) /\ <<>> \o t = t
    <2>1. n = 0 => s = <<>>
      BY DEF n
    <2> QED BY <2>1 DEF FlattenSeq, n
  <1> QED BY <1>1, <1>3, <1>4, <1>5, <1>6 DEF a

\* How a flattened prefix grows to the whole.
LEMMA FlattenStep ==
  ASSUME NEW T, NEW s \in Seq(Seq(T))
  PROVE  /\ FlattenSeq(Prefix(s, 0)) = <<>>
         /\ Prefix(s, Len(s)) = s
         /\ \A n \in 0..Len(s) : FlattenSeq(Prefix(s, n)) \in Seq(T)
         /\ \A n \in 0..(Len(s) - 1) :
              FlattenSeq(Prefix(s, n + 1)) =
                FlattenSeq(Prefix(s, n)) \o s[n + 1]
  <1>1. /\ Prefix(s, 0) = <<>> /\ Prefix(s, Len(s)) = s
        /\ \A n \in 0..Len(s) : Prefix(s, n) \in Seq(Seq(T))
        /\ \A n \in 0..(Len(s) - 1) :
             Prefix(s, n + 1) = Append(Prefix(s, n), s[n + 1])
    BY PrefixGrows
  <1>2. FlattenSeq(Prefix(s, 0)) = <<>>
    BY <1>1 DEF FlattenSeq
  <1>3. ASSUME NEW n \in 0..(Len(s) - 1)
        PROVE  FlattenSeq(Prefix(s, n + 1)) =
                 FlattenSeq(Prefix(s, n)) \o s[n + 1]
    <2>1. n \in 0..Len(s) /\ n + 1 \in 1..Len(s)
      OBVIOUS
    <2>2. Prefix(s, n) \in Seq(Seq(T)) /\ s[n + 1] \in Seq(T)
      BY <1>1, <2>1
    <2>3. Prefix(s, n + 1) = Append(Prefix(s, n), s[n + 1])
      BY <1>1
    <2> QED BY <2>2, <2>3, FlattenAppend
  <1>4. ASSUME NEW n \in 0..Len(s) PROVE FlattenSeq(Prefix(s, n)) \in Seq(T)
    <2>1. Prefix(s, n) \in Seq(Seq(T)) /\ <<>> \in Seq(T)
      BY <1>1
    <2> QED BY <2>1, FlattenAppend
  <1> QED BY <1>1, <1>2, <1>3, <1>4

\* What all elements have and concatenation keeps, the flattened sequence has.
LEMMA FlattenKeeps ==
  ASSUME NEW T, NEW s \in Seq(Seq(T)), NEW C, <<>> \in C,
         \A k \in 1..Len(s) : s[k] \in C,
         \A u \in Seq(T) \cap C, v \in Seq(T) \cap C : u \o v \in C
  PROVE  FlattenSeq(s) \in C
  <1> DEFINE S == {n \in Nat : FlattenSeq(Prefix(s, n)) \in C}
  <1>1. 0 \in S
    BY FlattenStep
  <1>2. ASSUME NEW n \in 0..(Len(s) - 1), n \in S PROVE n + 1 \in S
    <2>1. n \in Nat /\ n \in 0..Len(s) /\ n + 1 \in 1..Len(s)
      OBVIOUS
    <2>2. /\ FlattenSeq(Prefix(s, n)) \in Seq(T)
          /\ FlattenSeq(Prefix(s, n + 1)) =
               FlattenSeq(Prefix(s, n)) \o s[n + 1]
      BY <2>1, FlattenStep
    <2>3. s[n + 1] \in Seq(T) \cap C
      BY <2>1
    <2>4. FlattenSeq(Prefix(s, n)) \in Seq(T) \cap C
      BY <1>2, <2>2
    <2>5. FlattenSeq(Prefix(s, n + 1)) \in C
      BY <2>2, <2>3, <2>4, Zenon
    <2> QED BY <2>1, <2>5
  <1> HIDE DEF S
  <1>3. Len(s) \in Nat /\ Len(s) \in 0..Len(s)
    OBVIOUS
  <1>4. 0..Len(s) \subseteq S
    BY <1>1, <1>2, <1>3, UpTo
  <1>5. FlattenSeq(Prefix(s, Len(s))) \in C
    BY <1>3, <1>4 DEF S
  <1> QED BY <1>5, FlattenStep

\* Where the (n+1)-th element of s begins when s is flattened.
Place(s, n) == Len(FlattenSeq(Prefix(s, n)))

\* The elements of a flattened sequence lie one after the other.
LEMMA FlattenPlaces ==
  ASSUME NEW T, NEW s \in Seq(Seq(T))
  PROVE  /\ FlattenSeq(s) \in Seq(T)
         /\ Place(s, 0) = 0
         /\ Place(s, Len(s)) = Len(FlattenSeq(s))
         /\ \A n \in 0..Len(s) : Place(s, n) \in Nat
         /\ \A n \in 1..Len(s) : Place(s, n) = Place(s, n - 1) + Len(s[n])
         /\ \A n \in 1..Len(s), i \in Nat : i \in 1..Len(s[n]) =>
              FlattenSeq(s)[Place(s, n - 1) + i] = s[n][i]
  <1> DEFINE f(n) == FlattenSeq(Prefix(s, n))
             N == Len(s)
  <1>1. /\ N \in Nat /\ f(0) = <<>> /\ f(N) = FlattenSeq(s)
        /\ \A n \in 0..N : f(n) \in Seq(T)
    BY FlattenStep
  <1>2. ASSUME NEW n \in 1..N
        PROVE  /\ n \in Nat /\ n - 1 \in 0..N /\ n \in 0..N
               /\ s[n] \in Seq(T)
               /\ f(n) = f(n - 1) \o s[n]
    <2>1. n - 1 \in 0..(N - 1) /\ (n - 1) + 1 = n
      OBVIOUS
    <2>2. f((n - 1) + 1) = f(n - 1) \o s[(n - 1) + 1]
      BY <2>1, FlattenStep
    <2>3. s[n] \in Seq(T)
      OBVIOUS
    <2>4. n \in Nat /\ n - 1 \in 0..N /\ n \in 0..N
      BY <1>1
    <2> HIDE DEF f
    <2>5. f(n) = f(n - 1) \o s[n]
      BY <2>1, <2>2
    <2> QED BY <2>3, <2>4, <2>5
  <1>3. \A n \in 0..N : Place(s, n) = Len(f(n))
    BY DEF Place
  <1> HIDE DEF f, N
  <1>4. /\ Place(s, 0) = 0 /\ Place(s, N) = Len(FlattenSeq(s))
        /\ \A n \in 0..N : Place(s, n) \in Nat
    <2>1. 0 \in 0..N /\ N \in 0..N
      BY <1>1
    <2>2. \A n \in 0..N : Len(f(n)) \in Nat
      BY <1>1
    <2> QED BY <1>1, <1>3, <2>1, <2>2
  <1>5. ASSUME NEW n \in 1..N PROVE Place(s, n) = Place(s, n - 1) + Len(s[n])
    <2>1. Len(f(n)) = Len(f(n - 1)) + Len(s[n])
      <3>1. f(n - 1) \in Seq(T) /\ s[n] \in Seq(T)
        BY <1>1, <1>2
      <3>2. Len(f(n - 1) \o s[n]) = Len(f(n - 1)) + Len(s[n])
        BY <3>1
      <3> QED BY <1>2, <3>2
    <2> QED BY <1>2, <1>3, <2>1
  <1> DEFINE S == {m \in Nat : \A n \in 1..m, i \in Nat : i \in 1..Len(s[n]) =>
                     /\ Place(s, n - 1) + i \in 1..Place(s, m)
                     /\ f(m)[Place(s, n - 1) + i] = s[n][i]}
  <1>6. 0 \in S
    OBVIOUS
  <1>7. ASSUME NEW m \in 0..(N - 1), m \in S PROVE m + 1 \in S
    <2>1. /\ m + 1 \in 1..N /\ (m + 1) - 1 = m /\ m \in 0..N /\ m \in Nat
          /\ m + 1 \in Nat
      BY <1>1
    <2>2. /\ f(m + 1) = f(m) \o s[m + 1] /\ s[m + 1] \in Seq(T)
          /\ f(m) \in Seq(T)
      BY <1>1, <1>2, <2>1
    <2>3. /\ Place(s, m + 1) = Place(s, m) + Len(s[m + 1])
          /\ Place(s, m) = Len(f(m)) /\ Place(s, m) \in Nat
          /\ Len(s[m + 1]) \in Nat
      BY <1>3, <1>4, <1>5, <2>1, <2>2
    <2>4. ASSUME NEW n \in 1..(m + 1), NEW i \in Nat, i \in 1..Len(s[n])
          PROVE  /\ Place(s, n - 1) + i \in 1..Place(s, m + 1)
                 /\ f(m + 1)[Place(s, n - 1) + i] = s[n][i]
      <3>1. CASE n = m + 1
        <4>1. Place(s, n - 1) = Len(f(m)) /\ i \in 1..Len(s[m + 1])
          BY <2>1, <2>3, <2>4, <3>1
        <4>2. /\ Len(f(m)) + i \in 1..(Len(f(m)) + Len(s[m + 1]))
              /\ ~(Len(f(m)) + i <= Len(f(m)))
              /\ (Len(f(m)) + i) - Len(f(m)) = i
          BY <2>3, <4>1
        <4>3. (f(m) \o s[m + 1])[Len(f(m)) + i] = s[m + 1][i]
          BY <2>2, <4>2, Joined
        <4> QED BY <2>2, <2>3, <3>1, <4>1, <4>2, <4>3
      <3>2. CASE n # m + 1
        <4>1. n \in 1..m
          BY <2>1, <3>2
        <4>2. /\ Place(s, n - 1) + i \in 1..Place(s, m)
              /\ f(m)[Place(s, n - 1) + i] = s[n][i]
          BY <1>7, <2>4, <4>1
        <4> QED BY <2>2, <2>3, <4>2
      <3> QED BY <3>1, <3>2
    <2> QED BY <2>1, <2>4
  <1>8. N \in S
    <2> HIDE DEF S
    <2>1. 0..N \subseteq S
      BY <1>1, <1>6, <1>7, UpTo
    <2> QED BY <1>1, <2>1
  <1>9. FlattenSeq(s) \in Seq(T)
    <2>1. N \in 0..N
      BY <1>1
    <2> QED BY <1>1, <2>1
  <1> QED BY <1>1, <1>4, <1>5, <1>8, <1>9 DEF N

\* The elements of a flattened sequence that are all as long.
LEMMA FlattenEven ==
  ASSUME NEW T, NEW s \in Seq(Seq(T)), NEW m \in Nat,
         \A k \in 1..Len(s) : Len(s[k]) = m
  PROVE  \A n \in 0..Len(s) : Place(s, n) = n * m
  <1> DEFINE S == {n \in Nat : Place(s, n) = n * m}
  <1>1. 0 \in S
    BY FlattenPlaces
  <1>2. ASSUME NEW n \in 0..(Len(s) - 1), n \in S PROVE n + 1 \in S
    <2>1. n \in Nat /\ n + 1 \in 1..Len(s) /\ (n + 1) - 1 = n
      OBVIOUS
    <2>2. Place(s, n + 1) = Place(s, (n + 1) - 1) + Len(s[n + 1])
      BY <2>1, FlattenPlaces
    <2>3. n * m + m = (n + 1) * m
      BY <2>1
    <2>4. Place(s, n) = n * m
      BY <1>2
    <2>5. Place(s, n + 1) = (n + 1) * m
      BY <2>1, <2>2, <2>3, <2>4
    <2> QED BY <2>1, <2>5
  <1> HIDE DEF S
  <1>3. Len(s) \in Nat
    OBVIOUS
  <1>4. 0..Len(s) \subseteq S
    BY <1>1, <1>2, <1>3, UpTo
  <1> QED BY <1>4 DEF S

-----------------------------------------------------------------------------
(* Rows                                                                    *)

\* Every place in n rows of m is at a column of one of them.
LEMMA InRows ==
  ASSUME NEW m \in Nat, NEW n \in Nat
  PROVE  \A i \in 1..(n * m) : \E r \in 1..n, c \in 1..m : i = (r - 1) * m + c
  <1> DEFINE S == {k \in Nat : \A i \in 1..(k * m) :
                     \E r \in 1..k, c \in 1..m : i = (r - 1) * m + c}
  <1>1. 0 \in S
    OBVIOUS
  <1>2. ASSUME NEW k \in Nat, k \in S PROVE k + 1 \in S
    <2>1. SUFFICES ASSUME NEW i \in 1..((k + 1) * m)
                   PROVE  \E r \in 1..(k + 1), c \in 1..m : i = (r - 1) * m + c
      OBVIOUS
    <2>2. (k + 1) * m = k * m + m /\ k * m \in Nat
      OBVIOUS
    <2>3. CASE i <= k * m
      <3>1. i \in 1..(k * m)
        BY <2>2, <2>3
      <3>2. PICK r \in 1..k, c \in 1..m : i = (r - 1) * m + c
        BY <1>2, <3>1
      <3> QED BY <3>2
    <2>4. CASE ~(i <= k * m)
      <3>1. i - k * m \in 1..m
        BY <2>2, <2>4
      <3>2. (k + 1) - 1 = k /\ k + 1 \in 1..(k + 1)
        OBVIOUS
      <3>3. i = ((k + 1) - 1) * m + (i - k * m)
        BY <2>2, <3>2
      <3> QED BY <3>1, <3>2, <3>3
    <2> QED BY <2>3, <2>4
  <1> HIDE DEF S
  <1>3. Nat \subseteq S
    BY <1>1, <1>2, SetInduction
  <1> QED BY <1>3 DEF S

\* The row and the column of a place.
LEMMA RowOf ==
  ASSUME NEW m \in Nat \ {0}, NEW r \in Nat, NEW c \in 0..(m - 1)
  PROVE  (r * m + c) \div m = r /\ (r * m + c) % m = c
  <1> DEFINE x == r * m + c
             q == x \div m
             e == x % m
  <1>1. x \in Nat
    OBVIOUS
  <1> HIDE DEF x
  <1>2. q \in Int /\ e \in 0..(m - 1) /\ x = q * m + e
    BY <1>1
  <1> HIDE DEF q, e
  <1>3. r * m + c = q * m + e
    BY <1>2 DEF x
  <1>4. (r - q) * m = e - c
    BY <1>2, <1>3
  <1>5. r = q
    <2>1. CASE r - q >= 1
      <3>1. (r - q) * m >= m
        BY <1>2, <2>1
      <3> QED BY <1>2, <1>4, <3>1
    <2>2. CASE q - r >= 1
      <3>1. (q - r) * m >= m
        BY <1>2, <2>2
      <3>2. (q - r) * m = c - e
        BY <1>2, <1>3
      <3> QED BY <1>2, <3>1, <3>2
    <2> QED BY <1>2, <2>1, <2>2
  <1>6. e = c
    BY <1>2, <1>3, <1>5
  <1> QED BY <1>5, <1>6 DEF q, e, x

\* The elements of rows that are all as long, by row and column.
LEMMA FlattenRows ==
  ASSUME NEW T, NEW s \in Seq(Seq(T)), NEW m \in Nat,
         \A k \in 1..Len(s) : Len(s[k]) = m
  PROVE  /\ FlattenSeq(s) \in Seq(T)
         /\ Len(s) \in Nat
         /\ Len(FlattenSeq(s)) = Len(s) * m
         /\ \A r \in 1..Len(s), c \in 1..m :
              FlattenSeq(s)[(r - 1) * m + c] = s[r][c]
  <1>1. Len(s) \in Nat /\ Len(s) \in 0..Len(s)
    OBVIOUS
  <1>2. Len(FlattenSeq(s)) = Len(s) * m
    BY <1>1, FlattenEven, FlattenPlaces
  <1>3. ASSUME NEW r \in 1..Len(s), NEW c \in 1..m
        PROVE  FlattenSeq(s)[(r - 1) * m + c] = s[r][c]
    <2>1. r - 1 \in 0..Len(s) /\ c \in Nat /\ c \in 1..Len(s[r])
      BY <1>1
    <2>2. FlattenSeq(s)[Place(s, r - 1) + c] = s[r][c]
      BY <2>1, FlattenPlaces
    <2>3. Place(s, r - 1) = (r - 1) * m
      BY <2>1, FlattenEven
    <2> QED BY <2>2, <2>3
  <1>4. FlattenSeq(s) \in Seq(T)
    BY FlattenPlaces
  <1> QED BY <1>1, <1>2, <1>3, <1>4
=============================================================================
