---------------------------- MODULE UsbCliProofs ----------------------------
(***************************************************************************)
(* Proofs about UsbCli, for files, limits and chunks of any size and for   *)
(* every device whose layout leaves no choice.                             *)
(***************************************************************************)
EXTENDS UsbCli, SequenceTheorems, FiniteSetTheorems, TLAPS

-----------------------------------------------------------------------------
(* The two searches                                                        *)

\* A set of indexes has a minimum and a maximum: the intervals below, or
\* above, its elements are ordered by inclusion, and that is well-founded.
LEMMA Extremes ==
  ASSUME NEW n \in Nat, NEW S \in SUBSET (1..n), S # {}
  PROVE  Min(S) \in S /\ Max(S) \in S
  <1> DEFINE R == StrictSubsetOrdering(1..n)
             Below == {1..x : x \in S}
             Above == {x..n : x \in S}
  <1>1. IsFiniteSet(1..n)
    BY FS_Interval
  <1>2. IsWellFoundedOn(R, SUBSET (1..n))
    BY <1>1, FS_StrictSubsetOrderingWellFounded, FS_FiniteSubsetsOfFinite
  <1>3. \A x \in S : 1..x \in SUBSET (1..n) /\ x..n \in SUBSET (1..n)
    <2> SUFFICES ASSUME NEW x \in S
                 PROVE  1..x \subseteq 1..n /\ x..n \subseteq 1..n
      OBVIOUS
    <2>1. x \in Nat /\ 1 <= x /\ x <= n
      OBVIOUS
    <2>2. QED
      BY <2>1
  <1> HIDE DEF R
  <1>5. PICK x \in S : \A y \in S : <<1..y, 1..x>> \notin R
    <2>1. Below \subseteq SUBSET (1..n) /\ Below # {}
      BY <1>3, Zenon
    <2>2. PICK T \in Below : \A U \in Below : <<U, T>> \notin R
      BY <1>2, <2>1, WFMin
    <2>3. QED
      BY <2>2, Zenon
  <1>6. PICK z \in S : \A y \in S : <<y..n, z..n>> \notin R
    <2>1. Above \subseteq SUBSET (1..n) /\ Above # {}
      BY <1>3, Zenon
    <2>2. PICK T \in Above : \A U \in Above : <<U, T>> \notin R
      BY <1>2, <2>1, WFMin
    <2>3. QED
      BY <2>2, Zenon
  <1>7. \A y \in S : x <= y
    <2> SUFFICES ASSUME NEW y \in S, ~(x <= y) PROVE FALSE
      OBVIOUS
    <2>1. 1..y \subseteq 1..x /\ x \in 1..x /\ x \notin 1..y
      OBVIOUS
    <2>2. <<1..y, 1..x>> \in R
      BY <1>3, <2>1 DEF R, StrictSubsetOrdering
    <2>3. QED
      BY <1>5, <2>2
  <1>8. \A y \in S : z >= y
    <2> SUFFICES ASSUME NEW y \in S, ~(z >= y) PROVE FALSE
      OBVIOUS
    <2>1. y..n \subseteq z..n /\ z \in z..n /\ z \notin y..n
      OBVIOUS
    <2>2. <<y..n, z..n>> \in R
      BY <1>3, <2>1 DEF R, StrictSubsetOrdering
    <2>3. QED
      BY <1>6, <2>2
  <1>9. QED
    BY <1>7, <1>8 DEF Min, Max

\* What either search settles on is the index of a setting it may print
\* through and of a bulk OUT endpoint of that setting.
LEMMA Suitable ==
  ASSUME NEW s \in Seq(Settings), Printers(s) # {}
  PROVE  /\ Min(Printers(s)) \in Printers(s)
         /\ Max(Printers(s)) \in Printers(s)
         /\ \A a \in Printers(s) :
              LET E == Bulk(s[a].endpoints, "out")
              IN  E # {} /\ Min(E) \in E /\ Max(E) \in E
  <1>1. Len(s) \in Nat /\ DOMAIN s = 1..Len(s)
    BY LenProperties
  <1>2. Printers(s) \in SUBSET (1..Len(s))
    BY <1>1 DEF Printers
  <1>3. Min(Printers(s)) \in Printers(s) /\ Max(Printers(s)) \in Printers(s)
    BY <1>1, <1>2, Extremes
  <1>4. ASSUME NEW a \in Printers(s)
        PROVE  LET E == Bulk(s[a].endpoints, "out")
               IN  E # {} /\ Min(E) \in E /\ Max(E) \in E
    <2> DEFINE E == Bulk(s[a].endpoints, "out")
    <2>1. a \in 1..Len(s) /\ E # {}
      BY <1>1 DEF Printers
    <2>2. s[a].endpoints \in Seq(Endpoints)
      <3>1. s[a] \in Settings
        BY <2>1, ElementOfSeq
      <3>2. QED
        BY <3>1 DEF Settings
    <2>3. E \in SUBSET (1..Len(s[a].endpoints))
      BY <2>2, LenProperties DEF Bulk
    <2>4. QED
      BY <2>1, <2>2, <2>3, LenProperties, Extremes
  <1>5. QED
    BY <1>3, <1>4

\* The service and the tool send to the same endpoint of every device that
\* leaves them no choice: find_interface takes the first setting and its last
\* endpoint, find_printer_interface the last setting and its first endpoint.
THEOREM SameEndpoint ==
  ASSUME NEW s \in Seq(Settings), NoChoice(s)
  PROVE  ToolFinds(s) = ServiceFinds(s)
  <1>1. CASE Printers(s) = {}
    BY <1>1 DEF ToolFinds, ServiceFinds
  <1>2. CASE Printers(s) # {}
    <2> DEFINE a == Min(Printers(s))
               E == Bulk(s[a].endpoints, "out")
    <2>1. a \in Printers(s) /\ Max(Printers(s)) = a
      BY <1>2, Suitable DEF NoChoice
    <2>2. Max(E) = Min(E)
      <3>1. Min(E) \in E /\ Max(E) \in E
        BY <1>2, <2>1, Suitable
      <3>2. \A e, f \in E : e = f
        BY <2>1 DEF NoChoice
      <3>3. QED
        BY <3>1, <3>2
    <2>3. QED
      BY <1>2, <2>1, <2>2 DEF ToolFinds, ServiceFinds
  <1>3. QED
    BY <1>1, <1>2

\* Neither program ever writes to an endpoint that is not a bulk OUT endpoint
\* of an interface of the printer class, whatever the device looks like: the
\* scanner's endpoints are left alone.
THEOREM PrinterClassOnly ==
  ASSUME NEW s \in Seq(Settings), Printers(s) # {},
         NEW found \in {ToolFinds(s), ServiceFinds(s)}
  PROVE  \E a \in DOMAIN s : \E e \in DOMAIN s[a].endpoints :
           /\ s[a].class = "printer"
           /\ s[a].endpoints[e].type = "bulk" /\ s[a].endpoints[e].dir = "out"
           /\ found = Found(s, a, e)
  <1>1. \E a \in Printers(s) : \E e \in Bulk(s[a].endpoints, "out") :
          found = Found(s, a, e)
    <2>1. CASE found = ToolFinds(s)
      <3> DEFINE a == Max(Printers(s))
                 e == Min(Bulk(s[a].endpoints, "out"))
      <3>1. a \in Printers(s) /\ e \in Bulk(s[a].endpoints, "out")
        BY Suitable
      <3>2. found = Found(s, a, e)
        BY <2>1 DEF ToolFinds
      <3>3. QED
        BY <3>1, <3>2
    <2>2. CASE found = ServiceFinds(s)
      <3> DEFINE a == Min(Printers(s))
                 e == Max(Bulk(s[a].endpoints, "out"))
      <3>1. a \in Printers(s) /\ e \in Bulk(s[a].endpoints, "out")
        BY Suitable
      <3>2. found = Found(s, a, e)
        BY <2>2 DEF ServiceFinds
      <3>3. QED
        BY <3>1, <3>2
    <2>3. QED
      BY <2>1, <2>2
  <1>2. QED
    BY <1>1 DEF Printers, Bulk

-----------------------------------------------------------------------------
(* The inductive invariant                                                 *)

Before == {"acquire", "run", "soft", "file"}
Moving == {"outer", "read", "inner", "transfer"}
Ended == {"acquire", "close", "over", "killed"}

Held == Len(owned)

\* What was acquired, and that the endpoint was looked up before it is used.
OwnedInv ==
  /\ pc = "acquire" => Held <= 4
  /\ pc \notin Ended => Held = 5 /\ target = ToolFinds(layout)
  /\ pc = "acquire" /\ Held = 4 => target = ToolFinds(layout)
  /\ received # <<>> => target = ToolFinds(layout)
  /\ mode = "probe" => Held <= 2 /\ pc \in {"acquire", "over", "killed"}

\* How the bytes read, counted and taken stand to each other.  After a cut at
\* the limit the rest of the buffer ends there.
CountsInv ==
  /\ Len(received) <= position
  /\ \A k \in 1..Len(received) : received[k] = k - 1
  /\ cancel_after > 0 => Len(received) <= cancel_after
  /\ pc \in Before => position = 0 /\ total = 0 /\ ~cancelled /\ result = 0
  /\ pc \in Moving => Len(received) = total /\ result = 0 /\ ~cancelled
  /\ pc = "outer" => interrupted \/ total = position
  /\ pc = "read" => total = position
  /\ pc \in {"outer", "read"} => cancel_after = 0 \/ total < cancel_after
  /\ pc \in {"inner", "transfer"} =>
       /\ total + left <= position
       /\ cancel_after > 0 => total + left <= cancel_after
       /\ \/ total + left = position
          \/ cancel_after > 0 /\ total + left = cancel_after

\* Why a result of 0 means that the whole file went out.
ResultInv ==
  /\ pc = "done" /\ result = 0 =>
       cancelled \/ interrupted \/ Len(received) = size
  /\ pc = "decide" /\ result = 0 => cancelled \/ Len(received) = size
  /\ pc \in {"release", "close", "over"} /\ result = 0 => ~Torn

\* A signal that was noticed is on its way to a reset.
SignalInv ==
  /\ told => interrupted
  /\ interrupted => handlers
  /\ pc \in Before => ~told
  /\ pc = "decide" /\ told => result = 130
  /\ pc \in {"release", "close", "over"} /\ told => was_reset \/ result = 1

IInv == TypeOK /\ OwnedInv /\ CountsInv /\ ResultInv /\ SignalInv

\* The sequence of offsets that n more bytes make of what was received.
LEMMA MoreBytes ==
  ASSUME TypeOK, CountsInv, pc = "transfer", NEW n \in 0..left,
         received' = received \o Bytes(n)
  PROVE  /\ received' \in Seq(0..size)
         /\ Len(received') = total + n
         /\ \A k \in 1..Len(received') : received'[k] = k - 1
  <1>1. /\ total \in Nat /\ left \in Nat /\ position \in Nat /\ size \in Nat
        /\ Len(received) = total /\ total + left <= position
        /\ position <= size
    BY UsbCliAssumption DEF TypeOK, CountsInv, Moving
  <1>2. \A k \in 1..n : total + k - 1 \in 0..size
    BY <1>1
  <1>3. Bytes(n) \in Seq(0..size) /\ Len(Bytes(n)) = n
    BY <1>1, <1>2, IsASeq, LenProperties DEF Bytes
  <1>4. received \in Seq(0..size)
    BY DEF TypeOK
  <1>5. /\ received' \in Seq(0..size) /\ Len(received') = total + n
        /\ \A k \in 1..(total + n) :
             received'[k] = IF k <= total THEN received[k]
                            ELSE Bytes(n)[k - total]
    <2> DEFINE b == Bytes(n)
    <2>1. b \in Seq(0..size) /\ Len(b) = n
      BY <1>3
    <2> HIDE DEF b
    <2>2. /\ received \o b \in Seq(0..size)
          /\ Len(received \o b) = Len(received) + Len(b)
          /\ \A k \in 1..(Len(received) + Len(b)) :
               (received \o b)[k] = IF k <= Len(received) THEN received[k]
                                    ELSE b[k - Len(received)]
      BY <1>4, <2>1, ConcatProperties
    <2>3. received' = received \o b
      BY DEF b
    <2>4. QED
      BY <1>1, <2>1, <2>2, <2>3 DEF b
  <1>6. \A k \in 1..n : Bytes(n)[k] = total + k - 1
    BY DEF Bytes
  <1>7. ASSUME NEW k \in 1..(total + n) PROVE received'[k] = k - 1
    <2>1. CASE k <= total
      BY <1>1, <1>5, <2>1 DEF CountsInv
    <2>2. CASE k > total
      BY <1>1, <1>5, <1>6, <2>2
    <2>3. k <= total \/ k > total
      BY <1>1
    <2>4. QED
      BY <2>1, <2>2, <2>3
  <1>8. QED
    BY <1>5, <1>7

\* A sequence without its last element is a shorter one over the same set.
LEMMA WithoutLast ==
  ASSUME NEW S, NEW s \in Seq(S), Len(s) > 0
  PROVE  /\ SubSeq(s, 1, Len(s) - 1) \in Seq(S)
         /\ Len(SubSeq(s, 1, Len(s) - 1)) = Len(s) - 1
  <1> DEFINE n == Len(s) - 1
  <1>1. n \in Int /\ 1 \in Int /\ n >= 0
    OBVIOUS
  <1>2. \A i \in 1..n : s[i] \in S
    OBVIOUS
  <1>3. /\ SubSeq(s, 1, n) \in Seq(S)
        /\ Len(SubSeq(s, 1, n)) = IF 1 <= n THEN n - 1 + 1 ELSE 0
    <2> HIDE DEF n
    <2>1. QED
      BY <1>1, <1>2, SubSeqProperties
  <1>4. (IF 1 <= n THEN n - 1 + 1 ELSE 0) = n
    BY <1>1
  <1>5. QED
    BY <1>3, <1>4

LEMMA InitInv == Init => IInv
  <1> SUFFICES ASSUME Init PROVE IInv
    OBVIOUS
  <1> USE DEF Init
  <1>1. /\ owned = <<>> /\ Len(owned) = 0 /\ received = <<>>
        /\ Len(received) = 0
        /\ owned \in Seq(Kinds) /\ received \in Seq(0..size)
    BY EmptySeq
  <1>2. TypeOK
    <2>1. size \in Nat /\ cancel_after \in Limits \cup {0} /\ Chunk \in Nat
      BY UsbCliAssumption
    <2>2. /\ layout \in Layouts /\ mode \in Modes /\ size \in Sizes
          /\ pc = "acquire" /\ position = 0 /\ left = 0 /\ total = 0
          /\ result = 0 /\ target = NotFound
      OBVIOUS
    <2>3. ~handlers /\ ~interrupted /\ ~broken /\ ~cancelled /\ ~was_reset /\ ~told
          /\ handlers \in BOOLEAN /\ interrupted \in BOOLEAN /\ broken \in BOOLEAN
          /\ cancelled \in BOOLEAN /\ was_reset \in BOOLEAN /\ told \in BOOLEAN
      BY Zenon
    <2> HIDE DEF Init
    <2>4. QED
      BY <1>1, <2>1, <2>2, <2>3 DEF TypeOK, Pcs
  <1>3. OwnedInv
    BY <1>1 DEF OwnedInv, Ended, Held, Held
  <1>4. CountsInv
    BY <1>1, UsbCliAssumption DEF CountsInv, Before, Moving
  <1>5. ResultInv
    BY DEF ResultInv
  <1>6. SignalInv
    BY Zenon DEF SignalInv, Before
  <1>7. QED
    BY <1>2, <1>3, <1>4, <1>5, <1>6 DEF IInv

LEMMA NextInv == IInv /\ [Next]_vars => IInv'
  <1> SUFFICES ASSUME IInv, [Next]_vars PROVE IInv'
    OBVIOUS
  <1> USE DEF IInv, arguments, signals, buffer, progress, printer
  <1>0. /\ size \in Nat /\ cancel_after \in Nat /\ Chunk \in Nat
        /\ position \in Nat /\ total \in Nat /\ left \in Nat
        /\ Held \in Nat /\ Len(received) \in Nat
        /\ owned \in Seq(Kinds)
    BY UsbCliAssumption, LenProperties DEF TypeOK, Held
  <1>1. CASE Signal
    <2> USE <1>1 DEF Signal
    <2>1. UNCHANGED <<arguments, target, handlers, buffer, progress, printer>>
      BY Zenon
    <2>2. CASE handlers
      <3>1. /\ interrupted' = TRUE /\ told' = (told \/ pc \in Sending)
            /\ pc' = pc /\ owned' = owned
        BY <2>2, Zenon
      <3>2. told' \in BOOLEAN /\ interrupted' \in BOOLEAN
        BY <3>1, Zenon
      <3> HIDE <1>1 DEF Signal
      <3>3. TypeOK'
        BY <2>1, <3>1, <3>2 DEF TypeOK
      <3>4. OwnedInv' /\ CountsInv'
        BY <2>1, <3>1 DEF OwnedInv, CountsInv, Held
      <3>5. ResultInv'
        BY <2>1, <3>1 DEF ResultInv, Torn
      <3>6. SignalInv'
        BY <2>1, <2>2, <3>1 DEF SignalInv, Before, Sending
      <3>7. QED
        BY <3>3, <3>4, <3>5, <3>6
    <2>3. CASE ~handlers
      <3>1. /\ pc' = "killed" /\ owned' = <<>>
            /\ interrupted' = interrupted /\ told' = told
        BY <2>3, Zenon
      <3>2. owned' \in Seq(Kinds) /\ Len(owned') = 0
        BY <3>1, EmptySeq
      <3> HIDE <1>1 DEF Signal
      <3>3. TypeOK'
        BY <2>1, <3>1, <3>2 DEF TypeOK, Pcs
      <3>4. OwnedInv'
        BY <2>1, <3>1, <3>2 DEF OwnedInv, Ended, Held
      <3>5. CountsInv'
        BY <2>1, <3>1 DEF CountsInv, Before, Moving
      <3>6. ResultInv' /\ SignalInv'
        BY <2>1, <3>1 DEF ResultInv, SignalInv, Before
      <3>7. QED
        BY <3>3, <3>4, <3>5, <3>6
    <2>4. QED
      BY <2>2, <2>3
  <1>2. CASE Acquire
    <2> USE <1>2 DEF Acquire
    <2>1. Held \in 0..4 /\ (mode = "probe" => Held < 2)
      <3>1. /\ Held <= 4 /\ (mode = "probe" => Held <= 2)
            /\ ~(mode = "probe" /\ Held = 2)
        BY DEF OwnedInv, Probed, Held
      <3> HIDE <1>2 DEF Acquire
      <3>2. QED
        BY <1>0, <3>1
    <2> DEFINE e == Objects[Held + 1]
    <2>2. e \in Kinds
      <3> HIDE <1>2 DEF Acquire
      <3>1. PICK k \in 1..5 : k = Held + 1
        BY <2>1
      <3>2. Objects[k] \in Kinds
        BY <3>1 DEF Objects, Kinds
      <3>3. QED
        BY <3>1, <3>2
    <2>3. /\ owned' = Append(owned, e)
          /\ pc' = IF Held' = 5 THEN "run" ELSE "acquire"
          /\ pc = "acquire" /\ Held # 3
      BY DEF Objects, Held
    <2>4. UNCHANGED <<arguments, target, signals, buffer, progress, printer>>
      BY Zenon
    <2> HIDE <1>2 DEF Acquire, e
    <2>5. owned' \in Seq(Kinds) /\ Held' = Held + 1
      <3>1. /\ Append(owned, e) \in Seq(Kinds)
            /\ Len(Append(owned, e)) = Len(owned) + 1
        BY <1>0, <2>2, AppendProperties
      <3>2. QED
        BY <2>3, <3>1 DEF Held
    <2>6. TypeOK'
      <3>0. Held' <= 5
        BY <2>1, <2>5
      <3>1. Len(owned') <= 5
        BY <3>0 DEF Held
      <3>2. pc' \in Pcs
        BY <2>3 DEF Pcs
      <3>3. QED
        BY <2>4, <2>5, <3>1, <3>2 DEF TypeOK
    <2>7. OwnedInv'
      BY <2>1, <2>3, <2>4, <2>5 DEF OwnedInv, Ended
    <2>8. CountsInv' /\ ResultInv' /\ SignalInv'
      BY <2>3, <2>4 DEF CountsInv, ResultInv, SignalInv, Before, Moving
    <2>9. QED
      BY <2>6, <2>7, <2>8
  <1>3. CASE FindInterface
    <2> USE <1>3 DEF FindInterface
    <2> DEFINE e == Objects[4]
    <2>1. e \in Kinds
      BY DEF Objects, Kinds
    <2>2. /\ owned' = Append(owned, e) /\ pc' = pc /\ pc = "acquire"
          /\ Held = 3 /\ target' = ToolFinds(layout)
      BY DEF Held
    <2>3. UNCHANGED <<arguments, signals, buffer, progress, printer>>
      BY Zenon
    <2> HIDE <1>3 DEF FindInterface, e
    <2>4. owned' \in Seq(Kinds) /\ Held' = 4
      <3>1. /\ Append(owned, e) \in Seq(Kinds)
            /\ Len(Append(owned, e)) = Len(owned) + 1
        BY <1>0, <2>1, AppendProperties
      <3>2. Held' = Held + 1
        BY <2>2, <3>1 DEF Held
      <3>3. QED
        BY <2>2, <3>1, <3>2
    <2>5. TypeOK'
      <3>1. Len(owned') <= 5
        BY <2>4 DEF Held
      <3>2. QED
        BY <2>2, <2>3, <2>4, <3>1 DEF TypeOK
    <2>6. OwnedInv'
      <3>1. mode # "probe"
        BY <2>2 DEF OwnedInv
      <3>2. QED
        BY <2>2, <2>3, <2>4, <3>1 DEF OwnedInv, Ended
    <2>7. CountsInv' /\ ResultInv' /\ SignalInv'
      BY <2>2, <2>3 DEF CountsInv, ResultInv, SignalInv, Before, Moving
    <2>8. QED
      BY <2>5, <2>6, <2>7
  <1>4. CASE AcquireFails \/ ProbeEnds
    <2> USE <1>4 DEF AcquireFails, ProbeEnds
    <2>1. TypeOK'
      <3>1. /\ pc' \in Pcs /\ owned' = <<>> /\ result' \in {0, 1, 130}
            /\ total' = total /\ cancelled' = cancelled
        BY DEF TypeOK, Pcs
      <3>2. owned' \in Seq(Kinds) /\ Len(owned') = 0
        BY <3>1, EmptySeq
      <3>3. UNCHANGED <<arguments, target, signals, buffer, printer>>
        OBVIOUS
      <3> HIDE <1>4 DEF AcquireFails, ProbeEnds
      <3>4. QED
        BY <3>1, <3>2, <3>3 DEF TypeOK
    <2>2. OwnedInv'
      BY EmptySeq DEF OwnedInv, Ended, Held, Held
    <2>3. received = <<>>
      BY <1>0, EmptySeq DEF CountsInv, Before, TypeOK
    <2>4. CountsInv' /\ ResultInv' /\ SignalInv'
      BY <2>3 DEF CountsInv, ResultInv, SignalInv, Before, Moving, Torn
    <2>5. QED
      BY <2>1, <2>2, <2>4
  <1>5. CASE Run
    <2> USE <1>5 DEF Run
    <2>1. mode \in Modes \ {"probe"}
      BY DEF OwnedInv, TypeOK
    <2>2. pc' \in {"file", "reset", "soft", "release"}
      BY <2>1 DEF Modes
    <2>3. TypeOK'
      <3>1. UNCHANGED <<arguments, target, owned, signals, buffer, progress,
                        printer>>
        BY Zenon
      <3> HIDE <1>5 DEF Run
      <3>2. QED
        BY <2>2, <3>1 DEF TypeOK, Pcs
    <2>4. received = <<>>
      BY <1>0, EmptySeq DEF CountsInv, Before, TypeOK
    <2>5. OwnedInv'
      BY <2>1, <2>2 DEF OwnedInv, Ended, Held
    <2>6. CountsInv' /\ ResultInv' /\ SignalInv'
      BY <2>2, <2>4 DEF CountsInv, ResultInv, SignalInv, Before, Moving, Torn
    <2>7. QED
      BY <2>3, <2>5, <2>6
  <1>6. ASSUME NEW ok \in BOOLEAN, SoftReset(ok) PROVE IInv'
    <2> USE <1>6 DEF SoftReset
    <2>1. TypeOK'
      BY DEF TypeOK, Pcs
    <2>2. received = <<>>
      BY <1>0, EmptySeq DEF CountsInv, Before, TypeOK
    <2>3. OwnedInv' /\ CountsInv' /\ ResultInv' /\ SignalInv'
      BY <2>2 DEF OwnedInv, Ended, Held, CountsInv, ResultInv, SignalInv, Before,
                  Moving, Torn
    <2>4. QED
      BY <2>1, <2>3
  <1>7. CASE Decide
    <2> USE <1>7 DEF Decide
    <2>1. TypeOK'
      BY DEF TypeOK, Pcs
    <2>2. OwnedInv' /\ CountsInv' /\ ResultInv' /\ SignalInv'
      BY <1>0 DEF OwnedInv, Ended, Held, CountsInv, ResultInv, SignalInv, Before,
                  Moving, Torn
    <2>3. QED
      BY <2>1, <2>2
  <1>8. ASSUME NEW ok \in BOOLEAN, Reset(ok) PROVE IInv'
    <2> USE <1>8 DEF Reset
    <2>1. CASE ok
      <3>1. received' = <<>> /\ Len(received') = 0
            /\ received' \in Seq(0..size)
        BY <2>1, EmptySeq
      <3>2. TypeOK'
        BY <2>1, <3>1 DEF TypeOK, Pcs
      <3>3. OwnedInv' /\ CountsInv' /\ ResultInv' /\ SignalInv'
        BY <1>0, <2>1, <3>1 DEF OwnedInv, Ended, Held, CountsInv, ResultInv,
                                SignalInv, Before, Moving, Torn
      <3>4. QED
        BY <3>2, <3>3
    <2>2. CASE ~ok
      <3>1. TypeOK'
        BY <2>2 DEF TypeOK, Pcs
      <3>2. OwnedInv' /\ CountsInv' /\ ResultInv' /\ SignalInv'
        BY <2>2 DEF OwnedInv, Ended, Held, CountsInv, ResultInv, SignalInv, Before,
                    Moving, Torn
      <3>3. QED
        BY <3>1, <3>2
    <2>3. QED
      BY <2>1, <2>2
  <1>9. CASE Release
    <2> USE <1>9 DEF Release
    <2>1. /\ owned' \in Seq(Kinds)
          /\ Len(owned') <= 5
      <3>1. Len(owned) = 5
        BY DEF OwnedInv, Ended, Held
      <3>2. CASE owned' = owned
        BY <3>1, <3>2 DEF TypeOK
      <3>3. CASE owned' = SubSeq(owned, 1, Len(owned) - 1)
        <4>1. owned \in Seq(Kinds)
          BY DEF TypeOK
        <4> HIDE <1>9 DEF Release
        <4>2. /\ SubSeq(owned, 1, Len(owned) - 1) \in Seq(Kinds)
              /\ Len(SubSeq(owned, 1, Len(owned) - 1)) = Len(owned) - 1
          <5>1. Len(owned) > 0
            BY ONLY <3>1
          <5>2. QED
            BY <4>1, <5>1, WithoutLast, Zenon
        <4>3. /\ owned' \in Seq(Kinds)
              /\ Len(owned') = Len(owned) - 1
          BY ONLY <3>3, <4>2, Zenon
        <4>4. QED
          BY ONLY <3>1, <4>3
      <3>4. QED
        BY <3>2, <3>3
    <2>2. TypeOK'
      BY <2>1 DEF TypeOK, Pcs
    <2>3. mode # "probe"
      BY DEF OwnedInv
    <2>4. OwnedInv' /\ CountsInv' /\ ResultInv' /\ SignalInv'
      BY <2>3 DEF OwnedInv, Ended, Held, CountsInv, ResultInv, SignalInv, Before,
                  Moving, Torn
    <2>5. QED
      BY <2>2, <2>4
  <1>10. CASE Close
    <2> USE <1>10 DEF Close
    <2>1. TypeOK'
      BY EmptySeq DEF TypeOK, Pcs
    <2>2. OwnedInv' /\ CountsInv' /\ ResultInv' /\ SignalInv'
      BY EmptySeq DEF OwnedInv, Ended, Held, CountsInv, ResultInv, SignalInv,
                      Before, Moving, Torn
    <2>3. QED
      BY <2>1, <2>2
  <1>11. ASSUME NEW ok \in BOOLEAN, OpenFile(ok) PROVE IInv'
    <2> USE <1>11 DEF OpenFile
    <2>1. TypeOK'
      <3>1. /\ pc' \in Pcs /\ handlers' \in BOOLEAN /\ result' \in {0, 1, 130}
        BY DEF TypeOK, Pcs
      <3>2. UNCHANGED <<arguments, target, owned, interrupted, told, buffer,
                        total, cancelled, printer>>
        BY Zenon
      <3> HIDE <1>11 DEF OpenFile
      <3>3. QED
        BY <3>1, <3>2 DEF TypeOK
    <2>2. Len(received) = 0 /\ cancel_after \in Nat
      BY <1>0 DEF CountsInv, Before
    <2>3. OwnedInv'
      BY DEF OwnedInv, Ended, Held
    <2>4. CountsInv' /\ ResultInv' /\ SignalInv'
      BY <1>0, <2>2 DEF CountsInv, ResultInv, SignalInv, Before, Moving
    <2>5. QED
      BY <2>1, <2>3, <2>4
  <1>12. CASE LookAtFlag \/ BeginTransfer
    <2> USE <1>12 DEF LookAtFlag, BeginTransfer
    <2>1. TypeOK'
      BY DEF TypeOK, Pcs
    <2>2. OwnedInv' /\ SignalInv'
      BY <1>0 DEF OwnedInv, Ended, Held, SignalInv, Before
    <2>3. CountsInv'
      <3>1. CASE LookAtFlag
        BY <1>0, <3>1 DEF CountsInv, Before, Moving
      <3>2. CASE BeginTransfer
        BY <1>0, <3>2 DEF CountsInv, Before, Moving
      <3>3. QED
        BY <3>1, <3>2
    <2>4. ResultInv'
      BY <1>0 DEF ResultInv, CountsInv, Moving, TypeOK
    <2>5. QED
      BY <2>1, <2>2, <2>3, <2>4
  <1>13. CASE Read
    <2> USE <1>13 DEF Read
    <2>1. PICK count \in 1..LesserOf(Chunk, size - position) :
            /\ position' = position + count
            /\ broken' = (count < LesserOf(Chunk, size - position))
            /\ left' = IF cancel_after > 0
                         THEN LesserOf(count, cancel_after - total) ELSE count
      OBVIOUS
    <2>2. LesserOf(Chunk, size - position) \in Int
          /\ LesserOf(Chunk, size - position) <= Chunk
          /\ LesserOf(Chunk, size - position) <= size - position
      BY <1>0 DEF LesserOf
    <2>3. count \in Nat /\ count >= 1 /\ count <= Chunk
          /\ position' <= size /\ position' \in Nat
      BY <1>0, <2>1, <2>2
    <2>4. total = position /\ (cancel_after = 0 \/ total < cancel_after)
      BY DEF CountsInv
    <2>5. /\ left' \in 0..Chunk
          /\ total + left' <= position'
          /\ cancel_after > 0 => total + left' <= cancel_after
          /\ \/ total + left' = position'
             \/ cancel_after > 0 /\ total + left' = cancel_after
      BY <1>0, <2>1, <2>3, <2>4 DEF LesserOf
    <2>6. TypeOK'
      <3>1. broken' \in BOOLEAN
        BY <2>1
      <3>2. total' \in 0..position'
        BY <1>0, <2>3, <2>4, <2>1
      <3>3. QED
        BY <2>3, <2>5, <3>1, <3>2 DEF TypeOK, Pcs
    <2>7. OwnedInv' /\ ResultInv' /\ SignalInv'
      BY DEF OwnedInv, Ended, Held, ResultInv, SignalInv, Before
    <2>8. CountsInv'
      BY <1>0, <2>1, <2>3, <2>5 DEF CountsInv, Before, Moving
    <2>9. QED
      BY <2>6, <2>7, <2>8
  <1>14. CASE ReadNothing
    <2> USE <1>14 DEF ReadNothing
    <2>1. TypeOK'
      <3>1. pc' \in Pcs /\ broken' \in BOOLEAN /\ result' \in {0, 1, 130}
        BY DEF TypeOK, Pcs
      <3>2. UNCHANGED <<arguments, target, owned, signals, position, left,
                        total, cancelled, printer>>
        BY Zenon
      <3> HIDE <1>14 DEF ReadNothing
      <3>3. QED
        BY <3>1, <3>2 DEF TypeOK
    <2>2. OwnedInv' /\ SignalInv'
      BY DEF OwnedInv, Ended, Held, SignalInv, Before
    <2>3. CountsInv' /\ ResultInv'
      BY <1>0 DEF CountsInv, ResultInv, Before, Moving
    <2>4. QED
      BY <2>1, <2>2, <2>3
  <1>15. ASSUME NEW n \in 1..left, Transferred(n) PROVE IInv'
    <2> USE <1>15 DEF Transferred
    <2>1. /\ received' \in Seq(0..size)
          /\ Len(received') = total + n
          /\ \A k \in 1..Len(received') : received'[k] = k - 1
      <3>1. n \in 0..left
        BY <1>0
      <3>2. QED
        BY <3>1, MoreBytes
    <2>2. n \in Nat /\ n >= 1 /\ n <= left /\ total + left <= position
      BY <1>0 DEF CountsInv
    <2>3. TypeOK'
      BY <1>0, <2>1, <2>2 DEF TypeOK, Pcs
    <2>4. OwnedInv' /\ ResultInv' /\ SignalInv'
      BY DEF OwnedInv, Ended, Held, ResultInv, SignalInv, Before
    <2>5. CountsInv'
      BY <1>0, <2>1, <2>2 DEF CountsInv, Before, Moving
    <2>6. QED
      BY <2>3, <2>4, <2>5
  <1>16. ASSUME NEW n \in 0..left, TransferFails(n) PROVE IInv'
    <2> USE <1>16 DEF TransferFails
    <2>1. /\ received' \in Seq(0..size)
          /\ Len(received') = total + n
          /\ \A k \in 1..Len(received') : received'[k] = k - 1
      BY MoreBytes
    <2>2. n \in Nat /\ n <= left /\ total + left <= position
      BY <1>0 DEF CountsInv
    <2>3. TypeOK'
      BY <2>1 DEF TypeOK, Pcs
    <2>4. OwnedInv' /\ ResultInv' /\ SignalInv'
      BY DEF OwnedInv, Ended, Held, ResultInv, SignalInv, Before
    <2>5. CountsInv'
      BY <1>0, <2>1, <2>2 DEF CountsInv, Before, Moving
    <2>6. QED
      BY <2>3, <2>4, <2>5
  <1>17. CASE BufferEnds
    <2> USE <1>17 DEF BufferEnds
    <2>1. TypeOK'
      <3>1. pc' \in Pcs /\ cancelled' \in BOOLEAN
        BY DEF TypeOK, Pcs
      <3>2. UNCHANGED <<arguments, target, owned, signals, buffer, total,
                        result, printer>>
        BY Zenon
      <3> HIDE <1>17 DEF BufferEnds
      <3>3. QED
        BY <3>1, <3>2 DEF TypeOK
    <2>2. OwnedInv' /\ ResultInv' /\ SignalInv'
      BY DEF OwnedInv, Ended, Held, ResultInv, SignalInv, Before
    <2>3. CountsInv'
      BY <1>0 DEF CountsInv, Before, Moving
    <2>4. QED
      BY <2>1, <2>2, <2>3
  <1>18. CASE Return
    <2> USE <1>18 DEF Return
    <2>1. TypeOK'
      BY DEF TypeOK, Pcs
    <2>2. OwnedInv' /\ CountsInv' /\ SignalInv'
      BY DEF OwnedInv, Ended, Held, CountsInv, SignalInv, Before, Moving
    <2>3. ResultInv'
      BY DEF ResultInv
    <2>4. QED
      BY <2>1, <2>2, <2>3
  <1>19. CASE UNCHANGED vars
    <2> USE <1>19 DEF vars
    <2>1. TypeOK'
      BY DEF TypeOK
    <2>2. OwnedInv' /\ CountsInv'
      BY DEF OwnedInv, Held, CountsInv
    <2>3. ResultInv' /\ SignalInv'
      BY DEF ResultInv, SignalInv, Torn
    <2>4. QED
      BY <2>1, <2>2, <2>3
  <1>20. QED
    BY <1>1, <1>2, <1>3, <1>4, <1>5, <1>6, <1>7, <1>8, <1>9, <1>10, <1>11,
       <1>12, <1>13, <1>14, <1>15, <1>16, <1>17, <1>18, <1>19 DEF Next, Tool

\* The invariant holds in every state of every run of the tool.
LEMMA Inductive == Spec => []IInv
  BY InitInv, NextInv, PTL DEF Spec

-----------------------------------------------------------------------------
(* The theorems                                                            *)

\* The state stays within its ranges: the tool never counts more bytes than it
\* has read.
THEOREM TypeCorrect == Spec => []TypeOK
  <1>1. IInv => TypeOK
    BY DEF IInv
  <1>2. QED
    BY <1>1, Inductive, PTL

\* The printer gets a prefix of the file that respects the limit, on the
\* endpoint the service would use, whatever the sizes, the limit and the
\* chunk.
THEOREM PrefixIsSent == Spec => []SendsPrefix
  <1>1. IInv => SendsPrefix
    <2> SUFFICES ASSUME IInv PROVE SendsPrefix
      OBVIOUS
    <2>1. ToolFinds(layout) = ServiceFinds(layout)
      BY UsbCliAssumption, SameEndpoint DEF IInv, TypeOK
    <2>2. QED
      BY <2>1 DEF IInv, OwnedInv, CountsInv, SendsPrefix
  <1>2. QED
    BY <1>1, Inductive, PTL

\* Success means that the printer is not in the middle of a document.
THEOREM NoTornSuccess == Spec => []SuccessIsClean
  <1>1. IInv => SuccessIsClean
    BY DEF IInv, ResultInv, SuccessIsClean
  <1>2. QED
    BY <1>1, Inductive, PTL

\* A signal during the transmission ends in a reset, or in a report that there
\* was none.
THEOREM SignalsAreHeeded == Spec => []SignalResets
  <1>1. IInv => SignalResets
    BY DEF IInv, SignalInv, SignalResets
  <1>2. QED
    BY <1>1, Inductive, PTL
=============================================================================
