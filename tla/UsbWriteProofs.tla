--------------------------- MODULE UsbWriteProofs ---------------------------
(***************************************************************************)
(* Proofs about UsbWrite, for every set of buffer sizes, transfer size and *)
(* retry budget.  The inductive invariant IInv ties the retry counter of   *)
(* the code to the history of the call; the properties follow from it.     *)
(***************************************************************************)
EXTENDS UsbWrite, SequenceTheorems, TLAPS

Limit == MaxRetries + 1

\* Where the call may be, and what it then knows.
ControlInv ==
  /\ pc \in {"transfer", "halt", "delay"} => remaining > 0
  /\ pc = "loop" /\ remaining = 0 => last_error = "SUCCESS"
  /\ pc # "done" => ~reset_requested
  /\ pc = "halt" => last_error = "PIPE" /\ halted
  /\ pc \in {"halt", "delay"} => last_error \in Errors

\* The code's counter is the number of fruitless transfers, give or take the
\* one transfer that made progress and failed all the same.
BudgetInv ==
  /\ pc # "done" => retries <= MaxRetries
  /\ pc \in {"loop", "transfer", "delay"} =>
       idle <= retries /\ retries <= idle + 1
  /\ pc = "halt" => idle <= retries + 1 /\ retries <= idle
  /\ idle <= Limit
  /\ remaining = 0 => idle = 0

\* Every counted byte pays for at most Limit transfers.
AccountInv == transfers <= sent * Limit + idle

LateInv ==
  /\ late > 0 => cancelled /\ pc # "transfer"
  /\ late <= 1

\* Kept folded away from the arithmetic, which does not need it.
StreamOK == received \in Seq(Nat)

IInv ==
  /\ TypeOK
  /\ ControlInv
  /\ BudgetInv
  /\ AccountInv
  /\ LateInv
  /\ OutcomeAgrees
  /\ GivesUpLast

-----------------------------------------------------------------------------
(* Lemmas                                                                  *)

\* The offsets of a piece form a sequence of naturals, so appending a piece
\* keeps the record of what the printer took well formed.
LEMMA PieceAppends ==
  ASSUME NEW s \in Seq(Nat), NEW from \in Nat, NEW n \in Nat
  PROVE  /\ Piece(from, n) \in Seq(Nat)
         /\ s \o Piece(from, n) \in Seq(Nat)
         /\ Len(s \o Piece(from, n)) = Len(s) + n
         /\ \A i \in 1..n : (s \o Piece(from, n))[Len(s) + i] = from + i
         /\ \A i \in 1..Len(s) : (s \o Piece(from, n))[i] = s[i]
  <1>1. /\ Piece(from, n) \in Seq(Nat)
        /\ Len(Piece(from, n)) = n
        /\ \A i \in 1..n : Piece(from, n)[i] = from + i
    BY DEF Piece
  <1>2. ASSUME NEW p \in Seq(Nat), Len(p) = n
        PROVE  /\ s \o p \in Seq(Nat)
               /\ Len(s \o p) = Len(s) + n
               /\ \A i \in 1..(Len(s) + n) : (s \o p)[i] =
                    IF i <= Len(s) THEN s[i] ELSE p[i - Len(s)]
    BY <1>2
  <1>3. Len(s) \in Nat
    OBVIOUS
  <1>4. ASSUME NEW i \in 1..n
        PROVE  (s \o Piece(from, n))[Len(s) + i] = from + i
    BY <1>1, <1>2, <1>3 DEF Piece
  <1>5. ASSUME NEW i \in 1..Len(s)
        PROVE  (s \o Piece(from, n))[i] = s[i]
    BY <1>2, <1>3
  <1>6. QED
    BY <1>1, <1>2, <1>4, <1>5

\* Adding one keeps an order: spelled out for primed variables.
LEMMA StepUp ==
  ASSUME NEW a \in Nat, NEW b \in Nat, a <= b
  PROVE  a + 1 <= b + 1
  OBVIOUS

\* Each counted byte pays for a full retry budget.
LEMMA ByteBuysBudget ==
  ASSUME NEW a \in Nat, NEW t \in Nat, t > 0, NEW k \in Nat
  PROVE  a * k \in Nat /\ (a + t) * k >= a * k + k
  <1>1. (a + t) * k = a * k + t * k
    OBVIOUS
  <1>2. t * k >= k
    <2>1. t * k = (t - 1) * k + k
      OBVIOUS
    <2>2. (t - 1) * k >= 0
      OBVIOUS
    <2>3. QED
      BY <2>1, <2>2
  <1>3. a * k \in Nat
    OBVIOUS
  <1>4. QED
    BY <1>1, <1>2, <1>3

-----------------------------------------------------------------------------
(* The inductive invariant                                                 *)

\* A call starts with its budget, its records and its pc in agreement.
LEMMA InitInv == Init => IInv
  <1> SUFFICES ASSUME Init
               PROVE  IInv
    OBVIOUS
  <1> USE UsbWriteAssumption
  <1>1. bytes \in Nat /\ bytes \in Sizes /\ remaining = bytes
    BY DEF Init
  <1>2. TypeOK
    <2>1. received \in Seq(Nat)
      BY DEF Init
    <2>2. /\ remaining \in 0..bytes
          /\ retries \in 0..(MaxRetries + 1)
          /\ ret \in -1..bytes
      BY <1>1 DEF Init
    <2>3. QED
      BY <1>1, <2>1, <2>2 DEF Init, TypeOK, Pcs, Results
  <1>3. ControlInv /\ BudgetInv /\ LateInv
    BY <1>1 DEF Init, ControlInv, BudgetInv, LateInv, Limit
  <1>4. AccountInv
    <2>1. sent = 0 /\ Limit \in Nat
      BY <1>1 DEF sent, Limit
    <2>2. sent * Limit = 0
      BY <2>1
    <2>3. QED
      BY <2>2 DEF AccountInv, Init
  <1>5. OutcomeAgrees /\ GivesUpLast
    BY DEF Init, OutcomeAgrees, GivesUpLast
  <1>6. QED
    BY <1>2, <1>3, <1>4, <1>5 DEF IInv

\* The retry decision after error `e`, with `tries` attempts behind it and
\* the history up to date: the budget stays balanced, and if the call ends
\* here its value, last_error and reset request agree.
LEMMA RetryDecision ==
  ASSUME bytes \in Sizes, bytes' = bytes,
         NEW e \in Errors, NEW left \in Nat, left > 0, left <= bytes,
         NEW tries \in 0..MaxRetries,
         ~reset_requested, reset_requested \in BOOLEAN, ret \in -1..bytes,
         RetryOrGiveUp(e, left, tries),
         remaining' = left, last_error' = e,
         StreamOK', transfers' \in Nat, idle' \in Nat,
         cancelled' \in BOOLEAN, halted' \in BOOLEAN,
         late' \in 0..1, late' > 0 => cancelled',
         idle' <= tries + 1, tries <= idle',
         AccountInv'
  PROVE  IInv'
  <1> USE UsbWriteAssumption
  <1>1. bytes \in Nat /\ Limit = MaxRetries + 1 /\ MaxRetries \in Nat
    BY DEF Limit
  <1>2. CASE pc' = "delay"
    <2>1. /\ e \in Retryable
          /\ retries' = tries + 1
          /\ tries < MaxRetries
          /\ UNCHANGED <<reset_requested, ret>>
      BY <1>2 DEF RetryOrGiveUp
    <2>2. TypeOK' /\ ControlInv'
      BY <1>1, <1>2, <2>1 DEF TypeOK, ControlInv, Pcs, Results, StreamOK
    <2>3. BudgetInv'
      <3>1. idle' <= retries' /\ retries' <= idle' + 1 /\ retries' <= MaxRetries
        <4>1. retries' = tries + 1 /\ tries \in Nat /\ tries < MaxRetries
          BY <1>1, <2>1
        <4>2. tries + 1 <= idle' + 1
          BY <4>1, StepUp
        <4>3. retries' <= idle' + 1
          BY <4>1, <4>2
        <4>4. retries' <= MaxRetries
          BY <1>1, <4>1
        <4>5. QED
          BY <4>1, <4>3, <4>4
      <3>2. idle' <= Limit /\ remaining' # 0
        BY <1>1, <2>1
      <3>3. QED
        BY <1>2, <3>1, <3>2 DEF BudgetInv, Limit
    <2>4. LateInv' /\ OutcomeAgrees' /\ GivesUpLast'
      BY <1>2 DEF LateInv, OutcomeAgrees, GivesUpLast
    <2>5. QED
      BY <2>2, <2>3, <2>4 DEF IInv
  <1>3. CASE pc' # "delay"
    <2>1. /\ pc' = "done"
          /\ retries' \in 0..Limit
          /\ reset_requested' = TRUE
          /\ ret' = IF left < bytes THEN bytes - left ELSE -1
          /\ e \in Retryable => tries = MaxRetries
      <3>1. e \notin Retryable \/ tries >= MaxRetries
        BY <1>3 DEF RetryOrGiveUp
      <3>2. /\ pc' = "done"
            /\ reset_requested' = TRUE
            /\ ret' = IF left < bytes THEN bytes - left ELSE -1
        BY <3>1 DEF RetryOrGiveUp, PartialOrError
      <3>3. retries' \in 0..Limit
        BY <1>1 DEF RetryOrGiveUp
      <3>4. QED
        BY <1>1, <3>1, <3>2, <3>3
    <2>2. ret' \in -1..bytes /\ ret' # bytes
      BY <1>1, <2>1
    <2>3. TypeOK' /\ ControlInv'
      BY <1>1, <2>1, <2>2 DEF TypeOK, ControlInv, Pcs, Results, Limit, StreamOK
    <2>4. BudgetInv'
      BY <1>1, <2>1 DEF BudgetInv, Limit
    <2>5. LateInv' /\ GivesUpLast'
      BY <1>1, <2>1 DEF LateInv, GivesUpLast
    <2>6. e # "SUCCESS"
      BY DEF Errors, Retryable
    <2>7. sent' = bytes - left
      BY DEF sent
    <2>8. ret' = IF sent' = 0 /\ bytes > 0 THEN -1 ELSE sent'
      BY <1>1, <2>1, <2>7
    <2>9. OutcomeAgrees'
      <3>1. (ret' = bytes' <=> remaining' = 0) /\ (ret' = bytes' <=> last_error' = "SUCCESS")
        BY <1>1, <2>2, <2>6
      <3>2. (ret' = bytes') <=> ~reset_requested'
        BY <2>1, <2>2
      <3>3. QED
        BY <2>8, <3>1, <3>2 DEF OutcomeAgrees
    <2>10. QED
      BY <2>3, <2>4, <2>5, <2>9 DEF IInv
  <1>4. QED
    BY <1>2, <1>3

\* What every step finds true before it.
LEMMA Facts ==
  ASSUME IInv
  PROVE  /\ bytes \in Nat /\ remaining \in Nat /\ remaining <= bytes
         /\ retries \in Nat /\ idle \in Nat /\ transfers \in Nat
         /\ sent \in Nat /\ Limit \in Nat
         /\ requested \in Nat /\ requested <= remaining
         /\ late \in 0..1
  BY UsbWriteAssumption
  DEF IInv, TypeOK, LateInv, sent, Limit, requested, LesserOf

\* A transfer that counts `t` bytes pays for itself.
LEMMA Accounted ==
  ASSUME IInv, NEW t \in Nat, bytes' = bytes, t <= remaining,
         remaining' = remaining - t, transfers' = transfers + 1,
         idle' = IF t > 0 THEN 0 ELSE idle + 1,
         t > 0 => idle <= MaxRetries
  PROVE  AccountInv'
  <1> USE UsbWriteAssumption
  <1>1. sent' = sent + t /\ transfers <= sent * Limit + idle
    BY Facts DEF sent, IInv, AccountInv
  <1>2. CASE t = 0
    BY <1>1, <1>2, Facts DEF AccountInv, Limit
  <1>3. CASE t > 0
    <2>1. sent * Limit \in Nat /\ (sent + t) * Limit >= sent * Limit + Limit
      BY <1>3, Facts, ByteBuysBudget
    <2>2. idle + 1 <= Limit
      BY <1>3, Facts DEF Limit
    <2>3. transfers + 1 <= (sent + t) * Limit
      BY <1>1, <2>1, <2>2, Facts
    <2>4. QED
      BY <1>1, <1>3, <2>3, Facts DEF AccountInv, Limit
  <1>4. QED
    BY <1>2, <1>3

\* A transfer that leaves nothing to handle ends the call or resets the budget.
LEMMA ProgressInv ==
  ASSUME IInv, NEW result \in Results, NEW took \in 0..requested,
         Progress(result, took)
  PROVE  IInv'
  <1> USE UsbWriteAssumption
  <1>1. /\ took \in Nat /\ took > 0 /\ took <= remaining
        /\ remaining' = remaining - took
        /\ retries' = 0 /\ idle' = 0
        /\ transfers' = transfers + 1
        /\ idle <= MaxRetries
        /\ ~reset_requested
        /\ UNCHANGED <<bytes, reset_requested, cancelled>>
    BY Facts DEF Progress, Outcome, IInv, ControlInv, TypeOK, BudgetInv
  <1>2. late' \in 0..1 /\ (late' > 0 => cancelled)
    BY DEF Progress, Outcome, IInv, LateInv, TypeOK
  <1>3. received' \in Seq(Nat) /\ halted' \in BOOLEAN
    BY <1>1, Facts, PieceAppends DEF Progress, Outcome, IInv, TypeOK
  <1>4. AccountInv'
    BY <1>1, Accounted
  <1>5. /\ pc' \in {"loop", "done"}
        /\ pc' = "loop" => remaining' > 0 /\ UNCHANGED <<last_error, ret>>
        /\ pc' = "done" => remaining' = 0 /\ last_error' = "SUCCESS" /\ ret' = bytes
    BY <1>1, Facts DEF Progress
  <1>6. TypeOK'
    BY <1>1, <1>2, <1>3, <1>5, Facts DEF IInv, TypeOK, Pcs, Limit, Results
  <1>7. ControlInv' /\ LateInv' /\ GivesUpLast'
    BY <1>1, <1>2, <1>5, Facts DEF ControlInv, LateInv, GivesUpLast
  <1>8. BudgetInv'
    BY <1>1, <1>5 DEF BudgetInv, Limit
  <1>9. OutcomeAgrees'
    BY <1>1, <1>5, Facts DEF OutcomeAgrees, sent
  <1>10. QED
    BY <1>4, <1>6, <1>7, <1>8, <1>9 DEF IInv

\* A transfer that leaves an error spends from the budget, after the progress
\* it made has reset it.
LEMMA ErrorInv ==
  ASSUME IInv, pc = "transfer",
         NEW result \in Results, NEW took \in 0..requested,
         Outcome(result, took),
         NEW shown \in Results, NEW counted \in 0..took,
         counted < remaining, shown = "PIPE" => result = "PIPE",
         HandleError(shown, counted),
         UNCHANGED <<bytes, cancelled>>
  PROVE  IInv'
  <1> USE UsbWriteAssumption
  <1> DEFINE e     == IF shown = "SUCCESS" THEN "IO" ELSE shown
             left  == remaining - counted
             tries == IF counted > 0 THEN 0 ELSE retries
  <1>1. /\ left \in Nat /\ left > 0 /\ left <= bytes
        /\ counted \in Nat /\ counted <= remaining
        /\ took \in Nat
    BY Facts
  <1>2. e \in Errors /\ e # "SUCCESS"
    BY DEF Errors, Results, Retryable
  <1>3. /\ remaining' = left
        /\ last_error' = e
        /\ idle' = IF counted > 0 THEN 0 ELSE idle + 1
        /\ transfers' = transfers + 1
    BY DEF HandleError, Outcome
  <1>4. /\ retries <= MaxRetries /\ idle <= retries /\ retries <= idle + 1
        /\ ~reset_requested /\ reset_requested \in BOOLEAN
        /\ bytes \in Sizes /\ ret \in -1..bytes /\ cancelled \in BOOLEAN
    BY DEF IInv, BudgetInv, ControlInv, TypeOK
  <1>5. /\ tries \in 0..MaxRetries
        /\ idle' \in Nat /\ idle' <= tries + 1 /\ tries <= idle'
    BY <1>3, <1>4, Facts
  <1>6. late' \in 0..1 /\ (late' > 0 => cancelled)
    BY DEF Outcome, IInv, LateInv, TypeOK
  <1>7. StreamOK' /\ halted' \in BOOLEAN
    BY <1>1, Facts, PieceAppends DEF Outcome, IInv, TypeOK, StreamOK
  <1>8. AccountInv'
    BY <1>1, <1>3, <1>4, Facts, Accounted
  <1>9. CASE e = "PIPE"
    <2>1. pc' = "halt" /\ retries' = tries /\ UNCHANGED <<reset_requested, ret>>
      BY <1>9 DEF HandleError
    <2>2. halted'
      BY <1>9 DEF Outcome
    <2> HIDE DEF e, left, tries
    <2>3. TypeOK'
      <3>1. /\ remaining' \in 0..bytes'
            /\ retries' \in 0..(MaxRetries + 1)
            /\ ret' \in -1..bytes'
            /\ transfers' \in Nat
        BY <1>1, <1>3, <1>4, <1>5, <2>1, Facts
      <3>2. QED
        BY <1>2, <1>3, <1>4, <1>5, <1>6, <1>7, <2>1, <3>1 DEF TypeOK, Pcs, Results, StreamOK
    <2>4. ControlInv' /\ LateInv' /\ OutcomeAgrees' /\ GivesUpLast'
      BY <1>1, <1>2, <1>3, <1>4, <1>6, <1>9, <2>1, <2>2 DEF ControlInv, LateInv, OutcomeAgrees, GivesUpLast
    <2>5. BudgetInv'
      BY <1>1, <1>3, <1>5, <2>1 DEF BudgetInv, Limit
    <2>6. QED
      BY <1>8, <2>3, <2>4, <2>5 DEF IInv
  <1>10. CASE e # "PIPE"
    <2>1. RetryOrGiveUp(e, left, tries)
      BY <1>10 DEF HandleError
    <2>2. transfers' \in Nat /\ cancelled' \in BOOLEAN /\ (late' > 0 => cancelled')
      BY <1>3, <1>4, <1>6, Facts
    <2> HIDE DEF e, left, tries
    <2>3. QED
      BY <1>1, <1>2, <1>3, <1>4, <1>5, <1>6, <1>7, <1>8, <2>1, <2>2, RetryDecision
  <1>11. QED
    BY <1>9, <1>10

\* No step of the call or of its environment breaks the invariant.
LEMMA NextInv == IInv /\ [Next]_vars => IInv'
  <1> SUFFICES ASSUME IInv, [Next]_vars
               PROVE  IInv'
    OBVIOUS
  <1> USE UsbWriteAssumption
  <1>1. CASE ReturnEmpty
    BY <1>1, Facts
    DEF ReturnEmpty, history, IInv, TypeOK, ControlInv, BudgetInv, AccountInv,
        LateInv, OutcomeAgrees, GivesUpLast, sent, Pcs, Limit
  <1>2. CASE ObserveCancel
    BY <1>2, Facts
    DEF ObserveCancel, PartialOrError, history, IInv, TypeOK, ControlInv,
        BudgetInv, AccountInv, LateInv, OutcomeAgrees, GivesUpLast, sent, Pcs,
        Limit, Results, Errors, Retryable
  <1>3. CASE BeginTransfer
    BY <1>3, Facts
    DEF BeginTransfer, io, history, IInv, TypeOK, ControlInv, BudgetInv,
        AccountInv, LateInv, OutcomeAgrees, GivesUpLast, sent, Pcs, Limit
  <1>4. CASE EndTransfer
    <2>1. PICK result \in Results, took \in 0..requested :
            \/ Progress(result, took)
            \/ Fault(result, took)
            \/ MiscountedTransfer(result, took)
      BY <1>4 DEF EndTransfer
    <2>2. CASE Progress(result, took)
      BY <2>2, ProgressInv
    <2>3. pc = "transfer" => remaining > 0
      BY DEF IInv, ControlInv
    <2>4. CASE Fault(result, took)
      <3>1. took < remaining /\ took \in 0..took
        BY <2>3, <2>4, Facts DEF Fault
      <3>2. QED
        BY <2>4, <3>1, ErrorInv DEF Fault
    <2>5. CASE MiscountedTransfer(result, took)
      <3>1. 0 < remaining /\ 0 \in 0..took
        BY <2>3, <2>5, Facts DEF MiscountedTransfer
      <3>2. "IO" \in Results
        BY DEF Results, Errors, Retryable
      <3>3. QED
        BY <2>5, <3>1, <3>2, ErrorInv DEF MiscountedTransfer
    <2>6. QED
      BY <2>1, <2>2, <2>4, <2>5
  <1>5. CASE ClearHaltOk
    <2>1. last_error = "PIPE" /\ "PIPE" \in Errors
      BY <1>5 DEF ClearHaltOk, IInv, ControlInv, Errors, Retryable
    <2>2. /\ remaining > 0
          /\ ~reset_requested
          /\ retries \in 0..MaxRetries
          /\ idle <= retries + 1
          /\ retries <= idle
      BY <1>5, Facts DEF ClearHaltOk, IInv, ControlInv, BudgetInv
    <2>3. /\ UNCHANGED <<bytes, remaining, last_error, cancelled, received,
                         late, idle, transfers, sent>>
          /\ halted' \in BOOLEAN
      BY <1>5 DEF ClearHaltOk, history, sent
    <2>4. AccountInv'
      BY <2>3 DEF IInv, AccountInv, Limit
    <2>5. /\ bytes \in Sizes /\ ret \in -1..bytes /\ reset_requested \in BOOLEAN
          /\ StreamOK' /\ cancelled \in BOOLEAN
          /\ late > 0 => cancelled
      BY <2>3 DEF IInv, TypeOK, LateInv, StreamOK
    <2>6. RetryOrGiveUp("PIPE", remaining, retries)
      BY <1>5, <2>1 DEF ClearHaltOk
    <2>7. QED
      BY <2>1, <2>2, <2>3, <2>4, <2>5, <2>6, Facts, RetryDecision
  <1>6. CASE ClearHaltFailed
    BY <1>6, Facts
    DEF ClearHaltFailed, PartialOrError, history, IInv, TypeOK, ControlInv,
        BudgetInv, AccountInv, LateInv, OutcomeAgrees, GivesUpLast, sent, Pcs,
        Limit, Results
  <1>7. CASE EndDelay
    BY <1>7, Facts
    DEF EndDelay, io, history, IInv, TypeOK, ControlInv, BudgetInv, AccountInv,
        LateInv, OutcomeAgrees, GivesUpLast, sent, Pcs, Limit
  <1>8. CASE Cancel
    BY <1>8, Facts
    DEF Cancel, io, history, IInv, TypeOK, ControlInv, BudgetInv, AccountInv,
        LateInv, OutcomeAgrees, GivesUpLast, sent, Limit
  <1>9. CASE UNCHANGED vars
    BY <1>9
    DEF vars, io, history, IInv, TypeOK, ControlInv, BudgetInv, AccountInv,
        LateInv, OutcomeAgrees, GivesUpLast, sent, Limit
  <1>10. QED
    BY <1>1, <1>2, <1>3, <1>4, <1>5, <1>6, <1>7, <1>8, <1>9 DEF Next, Call

\* The inductive invariant holds in every state of every call.
LEMMA Inductive == Spec => []IInv
  BY InitInv, NextInv, PTL DEF Spec

-----------------------------------------------------------------------------
(* The properties of every state                                           *)

\* The state of a call stays within its types.
THEOREM TypeCorrect == Spec => []TypeOK
  <1>1. IInv => TypeOK
    BY DEF IInv
  <1>2. QED
    BY <1>1, Inductive, PTL

\* The value returned, last_error and reset_requested tell one story about
\* every call that ended.
THEOREM OutcomesAgree == Spec => []OutcomeAgrees
  <1>1. IInv => OutcomeAgrees
    BY DEF IInv
  <1>2. QED
    BY <1>1, Inductive, PTL

\* At most one transfer ends after the job was cancelled.
THEOREM PromptCancel == Spec => []CancelIsPrompt
  <1>1. IInv => CancelIsPrompt
    BY DEF IInv, LateInv, CancelIsPrompt
  <1>2. QED
    BY <1>1, Inductive, PTL

\* The call gives up on a retryable error only with its budget spent.
THEOREM BudgetIsSpent == Spec => []GivesUpLast
  <1>1. IInv => GivesUpLast
    BY DEF IInv
  <1>2. QED
    BY <1>1, Inductive, PTL

\* A call makes at most MaxRetries + 1 fruitless transfers in a row, and at
\* most that many transfers per byte of its buffer.
THEOREM BoundedRetries == Spec => []RetriesAreBounded
  <1>1. ASSUME IInv
        PROVE  RetriesAreBounded
    <2>1. /\ idle <= Limit
          /\ transfers <= sent * Limit + idle
          /\ remaining = 0 => idle = 0
      BY <1>1 DEF IInv, BudgetInv, AccountInv
    <2>2. sent * Limit + idle <= bytes * Limit
      <3>1. CASE remaining = 0
        BY <1>1, <2>1, <3>1, Facts DEF sent
      <3>2. CASE remaining > 0
        <4>1. bytes = sent + remaining
          BY <1>1, Facts DEF sent
        <4>2. sent * Limit \in Nat /\ (sent + remaining) * Limit >= sent * Limit + Limit
          BY <1>1, <3>2, Facts, ByteBuysBudget
        <4>3. bytes * Limit >= sent * Limit + Limit /\ bytes * Limit \in Nat
          BY <1>1, <4>1, <4>2, Facts
        <4>4. QED
          BY <1>1, <2>1, <4>2, <4>3, Facts
      <3>3. QED
        BY <1>1, <3>1, <3>2, Facts
    <2>3. transfers <= bytes * Limit
      <3>1. sent * Limit \in Nat /\ bytes * Limit \in Nat
        BY <1>1, Facts
      <3>2. QED
        BY <1>1, <2>1, <2>2, <3>1, Facts
    <2>4. QED
      BY <2>1, <2>3 DEF RetriesAreBounded, Limit
  <1>2. QED
    BY <1>1, Inductive, PTL

-----------------------------------------------------------------------------
(* What the printer receives                                               *)

\* One step of the record of received bytes: nothing is ever removed from it,
\* and `sent` only moves over bytes the step appends.
LEMMA StreamStep ==
  ASSUME IInv, [Next]_vars
  PROVE  \/ UNCHANGED <<received, sent, bytes>>
         \/ \E took \in 0..requested, counted \in Nat :
              /\ received' = received \o Piece(sent, took)
              /\ counted <= took /\ counted <= remaining
              /\ sent' = sent + counted
              /\ bytes' = bytes
              /\ ~Miscount => counted = took
  <1>1. CASE EndTransfer
    <2>1. PICK result \in Results, took \in 0..requested :
            \/ Progress(result, took)
            \/ Fault(result, took)
            \/ MiscountedTransfer(result, took)
      BY <1>1 DEF EndTransfer
    <2>2. took \in Nat /\ took <= remaining /\ remaining \in Nat /\ bytes \in Nat
      BY Facts
    <2>3. CASE Progress(result, took) \/ Fault(result, took)
      <3>1. /\ received' = received \o Piece(sent, took)
            /\ sent' = sent + took
            /\ bytes' = bytes
        BY <2>2, <2>3 DEF Progress, Fault, HandleError, Outcome, sent
      <3>2. QED
        BY <2>2, <3>1
    <2>4. CASE MiscountedTransfer(result, took)
      <3>1. /\ received' = received \o Piece(sent, took)
            /\ sent' = sent + 0
            /\ bytes' = bytes
            /\ Miscount
        BY <2>2, <2>4 DEF MiscountedTransfer, HandleError, Outcome, sent
      <3>2. 0 \in Nat /\ 0 <= took /\ 0 <= remaining
        BY <2>2
      <3>3. QED
        BY <3>1, <3>2
    <2>5. QED
      BY <2>1, <2>3, <2>4
  <1>2. CASE ~EndTransfer
    <2>1. UNCHANGED <<received, bytes, remaining>>
      BY <1>2
      DEF Next, Call, ReturnEmpty, ObserveCancel, BeginTransfer, ClearHaltOk,
          ClearHaltFailed, EndDelay, Cancel, vars, io, history
    <2>2. QED
      BY <2>1 DEF sent
  <1>3. QED
    BY <1>1, <1>2

\* Every byte the call counts as sent was taken by the printer, also when
\* libusb reports impossible counts.
THEOREM NoByteIsSkipped == Spec => []NothingSkipped
  <1>1. Init => NothingSkipped
    <2>1. Init => sent = 0
      BY UsbWriteAssumption DEF Init, sent
    <2>2. QED
      BY <2>1 DEF NothingSkipped
  <1>2. IInv /\ NothingSkipped /\ [Next]_vars => NothingSkipped'
    <2> SUFFICES ASSUME IInv, NothingSkipped, [Next]_vars
                 PROVE  NothingSkipped'
      OBVIOUS
    <2>1. CASE UNCHANGED <<received, sent, bytes>>
      BY <2>1 DEF NothingSkipped
    <2>2. ASSUME NEW took \in 0..requested, NEW counted \in Nat,
                 received' = received \o Piece(sent, took),
                 counted <= took, sent' = sent + counted
          PROVE  NothingSkipped'
      <3>1. /\ sent \in Nat /\ took \in Nat /\ received \in Seq(Nat)
        BY Facts DEF IInv, TypeOK
      <3>2. /\ received' \in Seq(Nat)
            /\ Len(received') = Len(received) + took
            /\ \A k \in 1..took : received'[Len(received) + k] = sent + k
            /\ \A k \in 1..Len(received) : received'[k] = received[k]
        BY <2>2, <3>1, PieceAppends
      <3>3. Len(received) \in Nat
        BY <3>1
      <3> SUFFICES ASSUME NEW i \in 1..sent'
                   PROVE  \E k \in 1..Len(received') : received'[k] = i
        BY DEF NothingSkipped
      <3>4. CASE i <= sent
        <4>1. PICK k \in 1..Len(received) : received[k] = i
          BY <2>2, <3>1, <3>4 DEF NothingSkipped
        <4>2. k \in 1..Len(received') /\ received'[k] = i
          BY <3>1, <3>2, <3>3, <4>1
        <4>3. QED
          BY <4>2
      <3>5. CASE i > sent
        <4> DEFINE j == i - sent
        <4>1. j \in 1..took /\ i = sent + j
          BY <2>2, <3>1, <3>5
        <4> HIDE DEF j
        <4>2. received'[Len(received) + j] = i
          BY <3>2, <4>1
        <4>3. Len(received) + j \in 1..(Len(received) + took)
          BY <3>1, <3>3, <4>1
        <4>4. QED
          BY <3>2, <4>2, <4>3
      <3>6. QED
        BY <2>2, <3>1, <3>4, <3>5
    <2>3. QED
      BY <2>1, <2>2, StreamStep
  <1>3. QED
    BY <1>1, <1>2, Inductive, PTL DEF Spec

-----------------------------------------------------------------------------
(* With counts that can be trusted                                         *)

\* The record is exactly as long as the count, and a stall seen by this call
\* is cleared before the loop goes round again.
HonestInv ==
  /\ Len(received) = sent
  /\ pc \in {"loop", "delay"} /\ transfers > 0 => ~halted

\* With trusted counts, what the call counts is what the printer took.
LEMMA Honest ==
  ASSUME ~Miscount
  PROVE  Spec => []HonestInv
  <1>1. Init => HonestInv
    BY UsbWriteAssumption DEF Init, HonestInv, sent
  <1>2. IInv /\ HonestInv /\ [Next]_vars => HonestInv'
    <2> SUFFICES ASSUME IInv, HonestInv, [Next]_vars
                 PROVE  HonestInv'
      OBVIOUS
    <2>1. Len(received') = sent'
      <3>1. CASE UNCHANGED <<received, sent, bytes>>
        BY <3>1 DEF HonestInv
      <3>2. ASSUME NEW took \in 0..requested,
                   received' = received \o Piece(sent, took),
                   sent' = sent + took
            PROVE  Len(received') = sent'
        <4>1. sent \in Nat /\ took \in Nat /\ received \in Seq(Nat)
          BY Facts DEF IInv, TypeOK
        <4>2. Len(received') = Len(received) + took
          BY <3>2, <4>1, PieceAppends
        <4>3. QED
          BY <3>2, <4>1, <4>2 DEF HonestInv
      <3>3. QED
        BY <3>1, <3>2, StreamStep
    <2>2. pc' \in {"loop", "delay"} /\ transfers' > 0 => ~halted'
      <3>1. CASE EndTransfer
        <4>1. PICK result \in Results, took \in 0..requested :
                Progress(result, took) \/ Fault(result, took)
          BY <3>1 DEF EndTransfer, MiscountedTransfer
        <4>2. CASE Progress(result, took)
          BY <4>2 DEF Progress, Outcome
        <4>3. CASE Fault(result, took)
          BY <4>3 DEF Fault, HandleError, Outcome
        <4>4. QED
          BY <4>1, <4>2, <4>3
      <3>2. CASE ClearHaltOk
        BY <3>2 DEF ClearHaltOk
      <3>3. CASE ReturnEmpty \/ ObserveCancel \/ BeginTransfer \/ ClearHaltFailed
        BY <3>3 DEF ReturnEmpty, ObserveCancel, BeginTransfer, ClearHaltFailed
      <3>4. CASE EndDelay \/ Cancel \/ UNCHANGED vars
        BY <3>4 DEF EndDelay, Cancel, vars, history, HonestInv
      <3>5. QED
        BY <3>1, <3>2, <3>3, <3>4 DEF Next, Call
    <2>3. QED
      BY <2>1, <2>2 DEF HonestInv
  <1>3. QED
    BY <1>1, <1>2, Inductive, PTL DEF Spec

\* No second transfer is submitted to a stalled endpoint: PIPE leads to
\* clear_halt, and only its success back to the loop.
THEOREM StallsAreCleared ==
  ASSUME ~Miscount
  PROVE  Spec => NoBlindRetry
  <1>1. HonestInv => (pc = "loop" /\ pc' = "transfer" /\ transfers > 0 => ~halted)
    BY DEF HonestInv
  <1>2. QED
    BY <1>1, Honest, PTL DEF NoBlindRetry

\* The call implements Delivery: every step delivers a piece in order, ends
\* the abstract call the way its value says, or changes nothing abstract.
THEOREM ImplementsDelivery ==
  ASSUME ~Miscount
  PROVE  Spec => DeliverySpec
  <1>1. Init => D!Init
    BY UsbWriteAssumption DEF Init, D!Init, Verdict
  <1>2. IInv /\ HonestInv /\ [Next]_vars => [D!Next]_D!dvars
    <2> SUFFICES ASSUME IInv, HonestInv, [Next]_vars
                 PROVE  D!Next \/ UNCHANGED D!dvars
      BY DEF D!dvars
    <2>1. /\ bytes \in Nat /\ remaining \in Nat /\ remaining <= bytes
          /\ Len(received) = bytes - remaining
          /\ Len(received) = sent
          /\ requested \in Nat /\ requested <= remaining
      BY Facts DEF HonestInv, sent
    <2>2. pc \in {"transfer", "halt", "delay"} => remaining > 0
      BY DEF IInv, ControlInv
    <2>3. remaining > 0 => PartialOrError(remaining) # bytes
      BY <2>1, Facts DEF PartialOrError
    <2>4. CASE ReturnEmpty
      <3>1. D!Finish
        BY <2>1, <2>4 DEF ReturnEmpty, D!Finish, Verdict, history
      <3>2. QED
        BY <3>1 DEF D!Next
    <2>5. CASE ObserveCancel \/ ClearHaltFailed
      <3>1. D!Abort
        BY <2>1, <2>2, <2>3, <2>5
        DEF ObserveCancel, ClearHaltFailed, D!Abort, Verdict, history
      <3>2. QED
        BY <3>1 DEF D!Next
    <2>6. CASE BeginTransfer \/ EndDelay \/ UNCHANGED vars
      BY <2>6 DEF BeginTransfer, EndDelay, vars, D!dvars, Verdict, io, history
    <2>7. CASE Cancel
      <3>1. D!Cancel
        BY <2>7 DEF Cancel, D!Cancel, Verdict, io, history
      <3>2. QED
        BY <3>1 DEF D!Next
    <2>8. CASE ClearHaltOk
      <3>1. UNCHANGED <<bytes, received, cancelled, late>> /\ Verdict = "open"
        BY <2>8 DEF ClearHaltOk, history, Verdict
      <3>2. \/ pc' = "delay"
            \/ pc' = "done" /\ ret' = PartialOrError(remaining)
        BY <2>8 DEF ClearHaltOk, RetryOrGiveUp
      <3>3. CASE pc' = "delay"
        BY <3>1, <3>3 DEF D!dvars, Verdict
      <3>4. CASE pc' = "done" /\ ret' = PartialOrError(remaining)
        <4>1. D!Abort
          BY <2>1, <2>2, <2>3, <2>8, <3>1, <3>4 DEF ClearHaltOk, D!Abort, Verdict
        <4>2. QED
          BY <4>1 DEF D!Next
      <3>5. QED
        BY <3>2, <3>3, <3>4
    <2>9. CASE EndTransfer
      <3>1. PICK result \in Results, took \in 0..requested :
              Progress(result, took) \/ Fault(result, took)
        BY <2>9 DEF EndTransfer, MiscountedTransfer
      <3>2. pc = "transfer" /\ Outcome(result, took) /\ UNCHANGED <<bytes, cancelled>>
        BY <3>1 DEF Progress, Fault
      <3>3. took \in 0..bytes /\ Len(received) + took <= bytes
        BY <2>1
      <3>4. received' = received \o D!Piece(Len(received), took)
        BY <2>1, <3>2 DEF Outcome, Piece, D!Piece
      <3>5. /\ Verdict = "open"
            /\ cancelled => late = 0
            /\ late' = IF cancelled THEN late + 1 ELSE late
        BY <3>2, Facts DEF Verdict, Outcome, IInv, LateInv
      <3>6. \/ Len(received) + took = bytes /\ Verdict' = "complete"
            \/ Len(received) + took < bytes /\ Verdict' \in {"open", "short"}
        <4>1. CASE Progress(result, took)
          <5>1. remaining' = remaining - took
            BY <4>1 DEF Progress
          <5>2. CASE remaining' = 0
            BY <2>1, <3>2, <4>1, <5>1, <5>2 DEF Progress, Verdict
          <5>3. CASE remaining' > 0
            BY <2>1, <3>2, <4>1, <5>1, <5>3 DEF Progress, Verdict
          <5>4. QED
            BY <4>1, <5>2, <5>3 DEF Progress
        <4>2. CASE Fault(result, took)
          <5>1. took < remaining
            BY <2>1, <2>2, <4>2 DEF Fault
          <5>2. pc' = "done" => ret' = PartialOrError(remaining - took)
            BY <4>2 DEF Fault, HandleError, RetryOrGiveUp
          <5>3. PartialOrError(remaining - took) # bytes
            BY <2>1, <5>1 DEF PartialOrError
          <5>4. Verdict' \in {"open", "short"}
            BY <3>2, <5>2, <5>3 DEF Verdict
          <5>5. QED
            BY <2>1, <5>1, <5>4
        <4>3. QED
          BY <3>1, <4>1, <4>2
      <3>7. D!Accept(took)
        BY <3>2, <3>3, <3>4, <3>5, <3>6 DEF D!Accept
      <3>8. QED
        BY <3>3, <3>7 DEF D!Next
    <2>10. QED
      BY <2>4, <2>5, <2>6, <2>7, <2>8, <2>9 DEF Next, Call
  <1>3. QED
    BY <1>1, <1>2, Inductive, Honest, PTL DEF Spec, DeliverySpec, D!Spec
=============================================================================
