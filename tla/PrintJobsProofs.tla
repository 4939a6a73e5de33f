-------------------------- MODULE PrintJobsProofs --------------------------
(***************************************************************************)
(* Proofs about PrintJobs, for any set of jobs and any size of their       *)
(* documents: types, the ownership of the libusb objects, whose            *)
(* cancellation a transfer watches, what a completed job means, that a     *)
(* closed device leaves no torn document behind and when alone a document  *)
(* can reach the printer inside another; all of it wherever the service    *)
(* dies and whether or not the host keeps the device open.                 *)
(***************************************************************************)
EXTENDS PrintJobs, TLAPS

-----------------------------------------------------------------------------
(* The inductive invariant                                                 *)

Sending == {"loop", "write", "transfer", "after"}

\* The types, but for what the printer took.
PlainTypes ==
  /\ attached \in BOOLEAN
  /\ live \in BOOLEAN
  /\ stage \in Stages \cup {"none"}
  /\ held \subseteq Objects
  /\ opened \in BOOLEAN
  /\ active_job \in Jobs \cup {NoJob}
  /\ reset_requested \in BOOLEAN
  /\ jstate \in [Jobs -> {"pending", "processing"} \cup Terminal]
  /\ cancelled \subseteq Jobs
  /\ cur \in Jobs \cup {NoJob}
  /\ pc \in Pcs
  /\ next \in 1..(Buffers + 1)
  /\ wrote_data \in BOOLEAN
  /\ success \in BOOLEAN
  /\ parser \in Jobs \cup {NoJob}
  /\ expect \in 0..Buffers
  /\ printed \subseteq Jobs
  /\ spliced \subseteq Jobs
  /\ lostReset \in BOOLEAN

\* Only a job is sent, and only with an open device; device_open is called for
\* a waiting job only; what is written was read.
ControlInv ==
  /\ pc = "idle" <=> cur = NoJob
  /\ stage # "none" => pc = "open" /\ ~opened
  /\ pc \in {"prepare"} \cup Sending => opened
  /\ pc \in {"write", "transfer"} => next <= Buffers

\* What device_open has acquired when it is at the next of its calls.
HeldInv ==
  /\ opened => held = {"context", "device", "handle"}
  /\ ~opened /\ stage \in {"none", "init"} => held = {}
  /\ stage = "find" => held = {"context"}
  /\ stage = "open" => held = {"context", "device"}
  /\ stage \in {"interface", "claim"} => held = {"context", "device", "handle"}

CompletedIsParsed ==
  \A j \in Jobs : jstate[j] = "completed" => j \in printed \cup spliced

\* Before send_xqx reports success without a cancellation, the printer has parsed
\* the last buffer of the document, or taken it as part of another.
CompletedInv ==
  /\ CompletedIsParsed
  /\ pc = "loop" /\ next > Buffers => cur \in printed \cup spliced
  /\ pc \in {"after", "returned"} /\ success /\ cur \notin cancelled =>
       cur \in printed \cup spliced

\* The document the printer is in the middle of is the one that is being sent,
\* at the buffer that comes next, and send_xqx knows that it wrote some of it;
\* or else the reset is requested on the open device.
Underway ==
  /\ pc \in Sending
  /\ parser = cur
  /\ wrote_data
  /\ expect = next
  /\ next <= Buffers
  /\ pc = "after" /\ success => cur \in cancelled

TornInv ==
  parser # NoJob /\ ~lostReset => (opened /\ reset_requested) \/ Underway

IInv == /\ PlainTypes
        /\ ControlInv
        /\ HeldInv
        /\ ActiveJobIsCurrent
        /\ CompletedInv
        /\ TornInv

\* Nothing is open, sent or in the printer when the service starts.
LEMMA InitInv == Init => IInv
  <1> SUFFICES ASSUME Init PROVE IInv
    OBVIOUS
  <1> USE NoJobAssumption, PrintJobsAssumption DEF Init, DeviceInit
  <1>1. jstate \in [Jobs -> {"pending", "processing"} \cup Terminal]
    OBVIOUS
  <1>2. next \in 1..(Buffers + 1) /\ expect \in 0..Buffers
    OBVIOUS
  <1>3. PlainTypes
    BY <1>1, <1>2 DEF PlainTypes, Pcs, Stages, Objects
  <1>4. ControlInv /\ HeldInv /\ ActiveJobIsCurrent
    BY DEF ControlInv, HeldInv, ActiveJobIsCurrent, Sending
  <1>5. CompletedInv /\ TornInv
    BY DEF CompletedInv, CompletedIsParsed, TornInv
  <1>6. QED
    BY <1>3, <1>4, <1>5 DEF IInv

\* Each call of device_open leads to another or to the end, and leaves at most
\* one of the three objects behind.
LEMMA NextStages ==
  ASSUME stage \in Stages
  PROVE  /\ NextStage[stage] \in Stages \cup {"none"}
         /\ Acquired[stage] \subseteq Objects
  <1> USE DEF NextStage, Acquired, Objects, Stages
  <1>1. CASE stage = "init"
    BY <1>1
  <1>2. CASE stage = "find"
    BY <1>2
  <1>3. CASE stage = "open"
    BY <1>3
  <1>4. CASE stage = "interface"
    BY <1>4
  <1>5. CASE stage = "claim"
    BY <1>5
  <1>6. QED
    BY <1>1, <1>2, <1>3, <1>4, <1>5

\* No step of the host, of send_xqx, of the user or of the bus breaks it, and
\* neither does the end of the service.
LEMMA NextInv == IInv /\ [Next]_vars => IInv'
  <1> SUFFICES ASSUME IInv, [Next]_vars PROVE IInv'
    OBVIOUS
  <1> USE NoJobAssumption, PrintJobsAssumption
      DEF IInv, bus, device, sender, printer, host
  <1>1. ASSUME NEW j \in Jobs, StartJob(j)
        PROVE  IInv'
    <2> USE <1>1 DEF StartJob
    <2>1. PlainTypes'
      BY DEF PlainTypes, Pcs, Stages, Objects, Terminal
    <2>2. ControlInv' /\ ActiveJobIsCurrent'
      BY DEF ControlInv, ActiveJobIsCurrent, Sending, PlainTypes, Pcs, Stages
    <2>3. HeldInv'
      BY DEF HeldInv, ControlInv, PlainTypes, Stages, Objects
    <2>4. CompletedInv'
      BY DEF CompletedInv, CompletedIsParsed, ControlInv, PlainTypes, Terminal,
             Sending
    <2>5. TornInv'
      BY DEF TornInv, Underway, ControlInv, Sending, PlainTypes
    <2>6. QED
      BY <2>1, <2>2, <2>3, <2>4, <2>5
  <1>2. ASSUME NEW j \in Jobs, CancelJob(j)
        PROVE  IInv'
    <2> USE <1>2 DEF CancelJob, Done, Terminal
    <2>1. PlainTypes'
      BY DEF PlainTypes, Pcs, Stages, Objects, Terminal
    <2>2. ControlInv' /\ ActiveJobIsCurrent'
      BY DEF ControlInv, ActiveJobIsCurrent, Sending, PlainTypes, Pcs, Stages
    <2>3. HeldInv'
      BY DEF HeldInv, ControlInv, PlainTypes, Stages, Objects
    <2>4. CompletedInv'
      BY DEF CompletedInv, CompletedIsParsed, ControlInv, PlainTypes, Terminal,
             Sending
    <2>5. TornInv'
      BY DEF TornInv, Underway, ControlInv, Sending, PlainTypes
    <2>6. QED
      BY <2>1, <2>2, <2>3, <2>4, <2>5
  <1>3. CASE DeviceReady
    <2> USE <1>3 DEF DeviceReady
    <2>1. PlainTypes'
      BY DEF PlainTypes, Pcs, Stages, Objects, Terminal
    <2>2. ControlInv' /\ ActiveJobIsCurrent'
      BY DEF ControlInv, ActiveJobIsCurrent, Sending, PlainTypes, Pcs, Stages
    <2>3. HeldInv'
      BY DEF HeldInv, ControlInv, PlainTypes, Stages, Objects
    <2>4. CompletedInv'
      BY DEF CompletedInv, CompletedIsParsed, ControlInv, PlainTypes, Terminal,
             Sending
    <2>5. TornInv'
      BY DEF TornInv, Underway, ControlInv, Sending, PlainTypes
    <2>6. QED
      BY <2>1, <2>2, <2>3, <2>4, <2>5
  <1>4. CASE OpenDevice
    <2> USE <1>4 DEF OpenDevice, DeviceOpen
    <2>1. PlainTypes'
      BY DEF PlainTypes, Pcs, Stages, Objects, Terminal
    <2>2. ControlInv' /\ ActiveJobIsCurrent'
      BY DEF ControlInv, ActiveJobIsCurrent, Sending, PlainTypes, Pcs, Stages
    <2>3. HeldInv'
      BY DEF HeldInv, ControlInv, PlainTypes, Stages, Objects
    <2>4. CompletedInv'
      BY DEF CompletedInv, CompletedIsParsed, ControlInv, PlainTypes, Terminal,
             Sending
    <2>5. TornInv'
      BY DEF TornInv, Underway, ControlInv, Sending, PlainTypes
    <2>6. QED
      BY <2>1, <2>2, <2>3, <2>4, <2>5
  <1>5. CASE StopWaiting
    <2> USE <1>5 DEF StopWaiting
    <2>1. PlainTypes'
      BY DEF PlainTypes, Pcs, Stages, Objects, Terminal
    <2>2. ControlInv' /\ ActiveJobIsCurrent'
      BY DEF ControlInv, ActiveJobIsCurrent, Sending, PlainTypes, Pcs, Stages
    <2>3. HeldInv'
      BY DEF HeldInv, ControlInv, PlainTypes, Stages, Objects
    <2>4. CompletedInv'
      BY DEF CompletedInv, CompletedIsParsed, ControlInv, PlainTypes, Terminal,
             Sending
    <2>5. TornInv'
      BY DEF TornInv, Underway, ControlInv, Sending, PlainTypes
    <2>6. QED
      BY <2>1, <2>2, <2>3, <2>4, <2>5
  <1>6. ASSUME NEW ok \in BOOLEAN, PrepareEnds(ok)
        PROVE  IInv'
    <2> USE <1>6 DEF PrepareEnds
    <2>1. PlainTypes'
      BY DEF PlainTypes, Pcs, Stages, Objects, Terminal
    <2>2. ControlInv' /\ ActiveJobIsCurrent'
      BY DEF ControlInv, ActiveJobIsCurrent, Sending, PlainTypes, Pcs, Stages
    <2>3. HeldInv'
      BY DEF HeldInv, ControlInv, PlainTypes, Stages, Objects
    <2>4. CompletedInv'
      BY DEF CompletedInv, CompletedIsParsed, ControlInv, PlainTypes, Terminal,
             Sending
    <2>5. TornInv'
      BY DEF TornInv, Underway, ControlInv, Sending, PlainTypes
    <2>6. QED
      BY <2>1, <2>2, <2>3, <2>4, <2>5
  <1>7. CASE SendNothing
    <2> USE <1>7 DEF SendNothing
    <2>1. PlainTypes'
      <3>1. attached' \in BOOLEAN /\ live' \in BOOLEAN /\ opened' \in BOOLEAN
        BY DEF PlainTypes
      <3>2. stage' \in Stages \cup {"none"} /\ held' \subseteq Objects
        BY DEF PlainTypes, Stages, Objects
      <3>3. active_job' \in Jobs \cup {NoJob} /\ reset_requested' \in BOOLEAN
        BY DEF PlainTypes
      <3>4. jstate' \in [Jobs -> {"pending", "processing"} \cup Terminal]
        BY DEF PlainTypes, Terminal
      <3>5. /\ cancelled' \subseteq Jobs /\ cur' \in Jobs \cup {NoJob}
            /\ pc' \in Pcs
        BY DEF PlainTypes, Pcs
      <3>6. next' \in 1..(Buffers + 1) /\ expect' \in 0..Buffers
        BY DEF PlainTypes, ControlInv
      <3>7. wrote_data' \in BOOLEAN /\ success' \in BOOLEAN
        BY DEF PlainTypes
      <3>8. /\ parser' \in Jobs \cup {NoJob} /\ printed' \subseteq Jobs
            /\ spliced' \subseteq Jobs /\ lostReset' \in BOOLEAN
        BY DEF PlainTypes, ControlInv
      <3>9. QED
        BY <3>1, <3>2, <3>3, <3>4, <3>5, <3>6, <3>7, <3>8 DEF PlainTypes
    <2>2. ControlInv' /\ ActiveJobIsCurrent'
      BY DEF ControlInv, ActiveJobIsCurrent, Sending, PlainTypes, Pcs, Stages
    <2>3. HeldInv'
      BY DEF HeldInv, ControlInv, PlainTypes, Stages, Objects
    <2>4. CompletedInv'
      BY DEF CompletedInv, CompletedIsParsed, ControlInv, PlainTypes, Terminal,
             Sending
    <2>5. TornInv'
      BY DEF TornInv, Underway, ControlInv, Sending, PlainTypes
    <2>6. QED
      BY <2>1, <2>2, <2>3, <2>4, <2>5
  <1>8. CASE BeginSend
    <2> USE <1>8 DEF BeginSend, BeginJob
    <2>1. PlainTypes'
      <3>1. attached' \in BOOLEAN /\ live' \in BOOLEAN /\ opened' \in BOOLEAN
        BY DEF PlainTypes
      <3>2. stage' \in Stages \cup {"none"} /\ held' \subseteq Objects
        BY DEF PlainTypes, Stages, Objects
      <3>3. active_job' \in Jobs \cup {NoJob} /\ reset_requested' \in BOOLEAN
        BY DEF PlainTypes
      <3>4. jstate' \in [Jobs -> {"pending", "processing"} \cup Terminal]
        BY DEF PlainTypes, Terminal
      <3>5. /\ cancelled' \subseteq Jobs /\ cur' \in Jobs \cup {NoJob}
            /\ pc' \in Pcs
        BY DEF PlainTypes, Pcs
      <3>6. next' \in 1..(Buffers + 1) /\ expect' \in 0..Buffers
        BY DEF PlainTypes, ControlInv
      <3>7. wrote_data' \in BOOLEAN /\ success' \in BOOLEAN
        BY DEF PlainTypes
      <3>8. /\ parser' \in Jobs \cup {NoJob} /\ printed' \subseteq Jobs
            /\ spliced' \subseteq Jobs /\ lostReset' \in BOOLEAN
        BY DEF PlainTypes, ControlInv
      <3>9. QED
        BY <3>1, <3>2, <3>3, <3>4, <3>5, <3>6, <3>7, <3>8 DEF PlainTypes
    <2>2. ControlInv' /\ ActiveJobIsCurrent'
      BY DEF ControlInv, ActiveJobIsCurrent, Sending, PlainTypes, Pcs, Stages
    <2>3. HeldInv'
      BY DEF HeldInv, ControlInv, PlainTypes, Stages, Objects
    <2>4. CompletedInv'
      BY DEF CompletedInv, CompletedIsParsed, ControlInv, PlainTypes, Terminal,
             Sending
    <2>5. TornInv'
      BY DEF TornInv, Underway, ControlInv, Sending, PlainTypes
    <2>6. QED
      BY <2>1, <2>2, <2>3, <2>4, <2>5
  <1>9. CASE StopOnCancel
    <2> USE <1>9 DEF StopOnCancel
    <2>1. PlainTypes'
      BY DEF PlainTypes, Pcs, Stages, Objects, Terminal
    <2>2. ControlInv' /\ ActiveJobIsCurrent'
      BY DEF ControlInv, ActiveJobIsCurrent, Sending, PlainTypes, Pcs, Stages
    <2>3. HeldInv'
      BY DEF HeldInv, ControlInv, PlainTypes, Stages, Objects
    <2>4. CompletedInv'
      BY DEF CompletedInv, CompletedIsParsed, ControlInv, PlainTypes, Terminal,
             Sending
    <2>5. TornInv'
      BY DEF TornInv, Underway, ControlInv, Sending, PlainTypes
    <2>6. QED
      BY <2>1, <2>2, <2>3, <2>4, <2>5
  <1>10. CASE ReadBuffer
    <2> USE <1>10 DEF ReadBuffer
    <2>1. PlainTypes'
      BY DEF PlainTypes, Pcs, Stages, Objects, Terminal
    <2>2. ControlInv' /\ ActiveJobIsCurrent'
      BY DEF ControlInv, ActiveJobIsCurrent, Sending, PlainTypes, Pcs, Stages
    <2>3. HeldInv'
      BY DEF HeldInv, ControlInv, PlainTypes, Stages, Objects
    <2>4. CompletedInv'
      BY DEF CompletedInv, CompletedIsParsed, ControlInv, PlainTypes, Terminal,
             Sending
    <2>5. TornInv'
      BY DEF TornInv, Underway, ControlInv, Sending, PlainTypes
    <2>6. QED
      BY <2>1, <2>2, <2>3, <2>4, <2>5
  <1>11. ASSUME NEW error \in BOOLEAN, ReadEnds(error)
        PROVE  IInv'
    <2> USE <1>11 DEF ReadEnds
    <2>1. PlainTypes'
      <3>1. attached' \in BOOLEAN /\ live' \in BOOLEAN /\ opened' \in BOOLEAN
        BY DEF PlainTypes
      <3>2. stage' \in Stages \cup {"none"} /\ held' \subseteq Objects
        BY DEF PlainTypes, Stages, Objects
      <3>3. active_job' \in Jobs \cup {NoJob} /\ reset_requested' \in BOOLEAN
        BY DEF PlainTypes
      <3>4. jstate' \in [Jobs -> {"pending", "processing"} \cup Terminal]
        BY DEF PlainTypes, Terminal
      <3>5. /\ cancelled' \subseteq Jobs /\ cur' \in Jobs \cup {NoJob}
            /\ pc' \in Pcs
        BY DEF PlainTypes, Pcs
      <3>6. next' \in 1..(Buffers + 1) /\ expect' \in 0..Buffers
        BY DEF PlainTypes, ControlInv
      <3>7. wrote_data' \in BOOLEAN /\ success' \in BOOLEAN
        BY DEF PlainTypes
      <3>8. /\ parser' \in Jobs \cup {NoJob} /\ printed' \subseteq Jobs
            /\ spliced' \subseteq Jobs /\ lostReset' \in BOOLEAN
        BY DEF PlainTypes, ControlInv
      <3>9. QED
        BY <3>1, <3>2, <3>3, <3>4, <3>5, <3>6, <3>7, <3>8 DEF PlainTypes
    <2>2. ControlInv' /\ ActiveJobIsCurrent'
      BY DEF ControlInv, ActiveJobIsCurrent, Sending, PlainTypes, Pcs, Stages
    <2>3. HeldInv'
      BY DEF HeldInv, ControlInv, PlainTypes, Stages, Objects
    <2>4. CompletedInv'
      BY DEF CompletedInv, CompletedIsParsed, ControlInv, PlainTypes, Terminal,
             Sending
    <2>5. TornInv'
      BY DEF TornInv, Underway, ControlInv, Sending, PlainTypes
    <2>6. QED
      BY <2>1, <2>2, <2>3, <2>4, <2>5
  <1>12. CASE BeginWrite
    <2> USE <1>12 DEF BeginWrite
    <2>1. PlainTypes'
      BY DEF PlainTypes, Pcs, Stages, Objects, Terminal
    <2>2. ControlInv' /\ ActiveJobIsCurrent'
      BY DEF ControlInv, ActiveJobIsCurrent, Sending, PlainTypes, Pcs, Stages
    <2>3. HeldInv'
      BY DEF HeldInv, ControlInv, PlainTypes, Stages, Objects
    <2>4. CompletedInv'
      BY DEF CompletedInv, CompletedIsParsed, ControlInv, PlainTypes, Terminal,
             Sending
    <2>5. TornInv'
      BY DEF TornInv, Underway, ControlInv, Sending, PlainTypes
    <2>6. QED
      BY <2>1, <2>2, <2>3, <2>4, <2>5
  <1>13. CASE WriteWhole
    <2> USE <1>13 DEF WriteWhole, TakeWhole, Continues
    <2>1. PlainTypes'
      <3>1. attached' \in BOOLEAN /\ live' \in BOOLEAN /\ opened' \in BOOLEAN
        BY DEF PlainTypes
      <3>2. stage' \in Stages \cup {"none"} /\ held' \subseteq Objects
        BY DEF PlainTypes, Stages, Objects
      <3>3. active_job' \in Jobs \cup {NoJob} /\ reset_requested' \in BOOLEAN
        BY DEF PlainTypes
      <3>4. jstate' \in [Jobs -> {"pending", "processing"} \cup Terminal]
        BY DEF PlainTypes, Terminal
      <3>5. /\ cancelled' \subseteq Jobs /\ cur' \in Jobs \cup {NoJob}
            /\ pc' \in Pcs
        BY DEF PlainTypes, Pcs
      <3>6. next' \in 1..(Buffers + 1) /\ expect' \in 0..Buffers
        BY DEF PlainTypes, ControlInv
      <3>7. wrote_data' \in BOOLEAN /\ success' \in BOOLEAN
        BY DEF PlainTypes
      <3>8. /\ parser' \in Jobs \cup {NoJob} /\ printed' \subseteq Jobs
            /\ spliced' \subseteq Jobs /\ lostReset' \in BOOLEAN
        BY DEF PlainTypes, ControlInv
      <3>9. QED
        BY <3>1, <3>2, <3>3, <3>4, <3>5, <3>6, <3>7, <3>8 DEF PlainTypes
    <2>2. ControlInv' /\ ActiveJobIsCurrent'
      BY DEF ControlInv, ActiveJobIsCurrent, Sending, PlainTypes, Pcs, Stages
    <2>3. HeldInv'
      BY DEF HeldInv, ControlInv, PlainTypes, Stages, Objects
    <2>4. CompletedInv'
      BY DEF CompletedInv, CompletedIsParsed, ControlInv, PlainTypes, Terminal,
             Sending
    <2>5. TornInv'
      BY DEF TornInv, Underway, ControlInv, Sending, PlainTypes
    <2>6. QED
      BY <2>1, <2>2, <2>3, <2>4, <2>5
  <1>14. ASSUME NEW some \in BOOLEAN, WriteShort(some)
        PROVE  IInv'
    <2> USE <1>14 DEF WriteShort, TakePart, Continues
    <2>1. PlainTypes'
      <3>1. attached' \in BOOLEAN /\ live' \in BOOLEAN /\ opened' \in BOOLEAN
        BY DEF PlainTypes
      <3>2. stage' \in Stages \cup {"none"} /\ held' \subseteq Objects
        BY DEF PlainTypes, Stages, Objects
      <3>3. active_job' \in Jobs \cup {NoJob} /\ reset_requested' \in BOOLEAN
        BY DEF PlainTypes
      <3>4. jstate' \in [Jobs -> {"pending", "processing"} \cup Terminal]
        BY DEF PlainTypes, Terminal
      <3>5. /\ cancelled' \subseteq Jobs /\ cur' \in Jobs \cup {NoJob}
            /\ pc' \in Pcs
        BY DEF PlainTypes, Pcs
      <3>6. next' \in 1..(Buffers + 1) /\ expect' \in 0..Buffers
        BY DEF PlainTypes, ControlInv
      <3>7. wrote_data' \in BOOLEAN /\ success' \in BOOLEAN
        BY DEF PlainTypes
      <3>8. /\ parser' \in Jobs \cup {NoJob} /\ printed' \subseteq Jobs
            /\ spliced' \subseteq Jobs /\ lostReset' \in BOOLEAN
        BY DEF PlainTypes, ControlInv
      <3>9. QED
        BY <3>1, <3>2, <3>3, <3>4, <3>5, <3>6, <3>7, <3>8 DEF PlainTypes
    <2>2. ControlInv' /\ ActiveJobIsCurrent'
      BY DEF ControlInv, ActiveJobIsCurrent, Sending, PlainTypes, Pcs, Stages
    <2>3. HeldInv'
      BY DEF HeldInv, ControlInv, PlainTypes, Stages, Objects
    <2>4. CompletedInv'
      BY DEF CompletedInv, CompletedIsParsed, ControlInv, PlainTypes, Terminal,
             Sending
    <2>5. TornInv'
      BY DEF TornInv, Underway, ControlInv, Sending, PlainTypes
    <2>6. QED
      BY <2>1, <2>2, <2>3, <2>4, <2>5
  <1>15. CASE AfterLoop
    <2> USE <1>15 DEF AfterLoop, EndJob
    <2>1. PlainTypes'
      BY DEF PlainTypes, Pcs, Stages, Objects, Terminal
    <2>2. ControlInv' /\ ActiveJobIsCurrent'
      BY DEF ControlInv, ActiveJobIsCurrent, Sending, PlainTypes, Pcs, Stages
    <2>3. HeldInv'
      BY DEF HeldInv, ControlInv, PlainTypes, Stages, Objects
    <2>4. CompletedInv'
      BY DEF CompletedInv, CompletedIsParsed, ControlInv, PlainTypes, Terminal,
             Sending
    <2>5. TornInv'
      BY DEF TornInv, Underway, ControlInv, Sending, PlainTypes
    <2>6. QED
      BY <2>1, <2>2, <2>3, <2>4, <2>5
  <1>16. CASE OpenSucceeds /\ UNCHANGED <<host, pc, sender, printer>>
    <2> USE <1>16 DEF OpenSucceeds, NextStage, Acquired
    <2>1. PlainTypes'
      <3>1. attached' \in BOOLEAN /\ live' \in BOOLEAN /\ opened' \in BOOLEAN
        BY DEF PlainTypes
      <3>2. stage' \in Stages \cup {"none"} /\ held' \subseteq Objects
        BY NextStages DEF PlainTypes
      <3>3. active_job' \in Jobs \cup {NoJob} /\ reset_requested' \in BOOLEAN
        BY DEF PlainTypes
      <3>4. jstate' \in [Jobs -> {"pending", "processing"} \cup Terminal]
        BY DEF PlainTypes, Terminal
      <3>5. /\ cancelled' \subseteq Jobs /\ cur' \in Jobs \cup {NoJob}
            /\ pc' \in Pcs
        BY DEF PlainTypes, Pcs
      <3>6. next' \in 1..(Buffers + 1) /\ expect' \in 0..Buffers
        BY DEF PlainTypes, ControlInv
      <3>7. wrote_data' \in BOOLEAN /\ success' \in BOOLEAN
        BY DEF PlainTypes
      <3>8. /\ parser' \in Jobs \cup {NoJob} /\ printed' \subseteq Jobs
            /\ spliced' \subseteq Jobs /\ lostReset' \in BOOLEAN
        BY DEF PlainTypes, ControlInv
      <3>9. QED
        BY <3>1, <3>2, <3>3, <3>4, <3>5, <3>6, <3>7, <3>8 DEF PlainTypes
    <2>2. ControlInv' /\ ActiveJobIsCurrent'
      BY DEF ControlInv, ActiveJobIsCurrent, Sending, PlainTypes, Pcs, Stages
    <2>3. HeldInv'
      <3>1. CASE stage = "init"
        BY <3>1 DEF HeldInv, ControlInv
      <3>2. CASE stage = "find"
        BY <3>2 DEF HeldInv, ControlInv
      <3>3. CASE stage = "open"
        BY <3>3 DEF HeldInv, ControlInv
      <3>4. CASE stage = "interface"
        BY <3>4 DEF HeldInv, ControlInv
      <3>5. CASE stage = "claim"
        BY <3>5 DEF HeldInv, ControlInv
      <3>6. QED
        BY <3>1, <3>2, <3>3, <3>4, <3>5 DEF Stages
    <2>4. CompletedInv'
      BY DEF CompletedInv, CompletedIsParsed, ControlInv, PlainTypes, Terminal,
             Sending
    <2>5. TornInv'
      BY DEF TornInv, Underway, ControlInv, Sending, PlainTypes, Stages
    <2>6. QED
      BY <2>1, <2>2, <2>3, <2>4, <2>5
  <1>17. CASE OpenFails /\ UNCHANGED <<host, pc, sender, printer>>
    <2> USE <1>17 DEF OpenFails, Objects
    <2>1. PlainTypes'
      <3>1. attached' \in BOOLEAN /\ live' \in BOOLEAN /\ opened' \in BOOLEAN
        BY DEF PlainTypes
      <3>2. stage' \in Stages \cup {"none"} /\ held' \subseteq Objects
        BY DEF PlainTypes, Stages, Objects
      <3>3. active_job' \in Jobs \cup {NoJob} /\ reset_requested' \in BOOLEAN
        BY DEF PlainTypes
      <3>4. jstate' \in [Jobs -> {"pending", "processing"} \cup Terminal]
        BY DEF PlainTypes, Terminal
      <3>5. /\ cancelled' \subseteq Jobs /\ cur' \in Jobs \cup {NoJob}
            /\ pc' \in Pcs
        BY DEF PlainTypes, Pcs
      <3>6. next' \in 1..(Buffers + 1) /\ expect' \in 0..Buffers
        BY DEF PlainTypes, ControlInv
      <3>7. wrote_data' \in BOOLEAN /\ success' \in BOOLEAN
        BY DEF PlainTypes
      <3>8. /\ parser' \in Jobs \cup {NoJob} /\ printed' \subseteq Jobs
            /\ spliced' \subseteq Jobs /\ lostReset' \in BOOLEAN
        BY DEF PlainTypes, ControlInv
      <3>9. QED
        BY <3>1, <3>2, <3>3, <3>4, <3>5, <3>6, <3>7, <3>8 DEF PlainTypes
    <2>2. ControlInv' /\ ActiveJobIsCurrent'
      BY DEF ControlInv, ActiveJobIsCurrent, Sending, PlainTypes, Pcs, Stages
    <2>3. HeldInv'
      <3>1. held \subseteq {"context", "device", "handle"}
        BY DEF PlainTypes, Objects
      <3>2. held \ {"context", "device", "handle"} = {}
        BY <3>1
      <3>3. QED
        BY <3>1, <3>2 DEF HeldInv, ControlInv, PlainTypes, Stages, Objects
    <2>4. CompletedInv'
      BY DEF CompletedInv, CompletedIsParsed, ControlInv, PlainTypes, Terminal,
             Sending
    <2>5. TornInv'
      BY DEF TornInv, Underway, ControlInv, Sending, PlainTypes
    <2>6. QED
      BY <2>1, <2>2, <2>3, <2>4, <2>5
  <1>18. CASE FinishJob
    <2> USE <1>18 DEF FinishJob, JobOutcome, DeviceClose
    <2>1. PlainTypes'
      <3>1. attached' \in BOOLEAN /\ live' \in BOOLEAN /\ opened' \in BOOLEAN
        BY DEF PlainTypes
      <3>2. stage' \in Stages \cup {"none"} /\ held' \subseteq Objects
        BY DEF PlainTypes, Stages, Objects
      <3>3. active_job' \in Jobs \cup {NoJob} /\ reset_requested' \in BOOLEAN
        BY DEF PlainTypes
      <3>4. jstate' \in [Jobs -> {"pending", "processing"} \cup Terminal]
        BY DEF PlainTypes, Terminal
      <3>5. /\ cancelled' \subseteq Jobs /\ cur' \in Jobs \cup {NoJob}
            /\ pc' \in Pcs
        BY DEF PlainTypes, Pcs
      <3>6. next' \in 1..(Buffers + 1) /\ expect' \in 0..Buffers
        BY DEF PlainTypes, ControlInv
      <3>7. wrote_data' \in BOOLEAN /\ success' \in BOOLEAN
        BY DEF PlainTypes
      <3>8. /\ parser' \in Jobs \cup {NoJob} /\ printed' \subseteq Jobs
            /\ spliced' \subseteq Jobs /\ lostReset' \in BOOLEAN
        BY DEF PlainTypes, ControlInv
      <3>9. QED
        BY <3>1, <3>2, <3>3, <3>4, <3>5, <3>6, <3>7, <3>8 DEF PlainTypes
    <2>2. ControlInv' /\ ActiveJobIsCurrent'
      BY DEF ControlInv, ActiveJobIsCurrent, Sending, PlainTypes, Pcs, Stages
    <2>3. HeldInv'
      <3>1. held \subseteq {"context", "device", "handle"}
        BY DEF PlainTypes, Objects
      <3>2. held \ Objects = {}
        BY <3>1 DEF Objects
      <3>3. CASE UNCHANGED device
        BY <3>3 DEF HeldInv
      <3>4. CASE \E cleared \in BOOLEAN : DeviceClose(cleared)
        <4>1. held' = {} /\ ~opened' /\ stage' = "none"
          BY <3>2, <3>4 DEF ControlInv
        <4>2. QED
          BY <4>1 DEF HeldInv
      <3>5. QED
        BY <3>3, <3>4
    <2>4. CompletedInv'
      BY DEF CompletedInv, CompletedIsParsed, ControlInv, PlainTypes, Terminal,
             Sending
    <2>5. TornInv'
      BY DEF TornInv, Underway, ControlInv, Sending, PlainTypes
    <2>6. QED
      BY <2>1, <2>2, <2>3, <2>4, <2>5
  <1>19. CASE Bus
    <2> USE <1>19 DEF Bus, Attach, Detach
    <2>1. PlainTypes'
      <3>1. attached' \in BOOLEAN /\ live' \in BOOLEAN /\ opened' \in BOOLEAN
        BY DEF PlainTypes
      <3>2. stage' \in Stages \cup {"none"} /\ held' \subseteq Objects
        BY DEF PlainTypes, Stages, Objects
      <3>3. active_job' \in Jobs \cup {NoJob} /\ reset_requested' \in BOOLEAN
        BY DEF PlainTypes
      <3>4. jstate' \in [Jobs -> {"pending", "processing"} \cup Terminal]
        BY DEF PlainTypes, Terminal
      <3>5. /\ cancelled' \subseteq Jobs /\ cur' \in Jobs \cup {NoJob}
            /\ pc' \in Pcs
        BY DEF PlainTypes, Pcs
      <3>6. next' \in 1..(Buffers + 1) /\ expect' \in 0..Buffers
        BY DEF PlainTypes, ControlInv
      <3>7. wrote_data' \in BOOLEAN /\ success' \in BOOLEAN
        BY DEF PlainTypes
      <3>8. /\ parser' \in Jobs \cup {NoJob} /\ printed' \subseteq Jobs
            /\ spliced' \subseteq Jobs /\ lostReset' \in BOOLEAN
        BY DEF PlainTypes, ControlInv
      <3>9. QED
        BY <3>1, <3>2, <3>3, <3>4, <3>5, <3>6, <3>7, <3>8 DEF PlainTypes
    <2>2. ControlInv' /\ ActiveJobIsCurrent'
      BY DEF ControlInv, ActiveJobIsCurrent, Sending, PlainTypes, Pcs, Stages
    <2>3. HeldInv'
      <3>1. UNCHANGED <<stage, held, opened>>
        OBVIOUS
      <3>2. QED
        BY <3>1 DEF HeldInv
    <2>4. CompletedInv'
      BY DEF CompletedInv, CompletedIsParsed, ControlInv, PlainTypes, Terminal,
             Sending
    <2>5. TornInv'
      BY DEF TornInv, Underway, ControlInv, Sending, PlainTypes
    <2>6. QED
      BY <2>1, <2>2, <2>3, <2>4, <2>5
  <1>20. CASE Crash
    <2> USE <1>20 DEF Crash, DeviceDies
    <2>1. PlainTypes'
      <3>1. /\ attached' \in BOOLEAN /\ live' \in BOOLEAN /\ opened' \in BOOLEAN
            /\ stage' \in Stages \cup {"none"} /\ held' \subseteq Objects
        BY DEF PlainTypes
      <3>2. active_job' \in Jobs \cup {NoJob} /\ reset_requested' \in BOOLEAN
        BY DEF PlainTypes
      <3>3. jstate' \in [Jobs -> {"pending", "processing"} \cup Terminal]
        BY DEF PlainTypes, Terminal
      <3>4. cancelled' \subseteq Jobs /\ cur' \in Jobs \cup {NoJob} /\ pc' \in Pcs
        BY DEF PlainTypes, Pcs
      <3>5. next' \in 1..(Buffers + 1) /\ expect' \in 0..Buffers
        BY DEF PlainTypes
      <3>6. wrote_data' \in BOOLEAN /\ success' \in BOOLEAN
        BY DEF PlainTypes
      <3>7. /\ parser' \in Jobs \cup {NoJob} /\ printed' \subseteq Jobs
            /\ spliced' \subseteq Jobs /\ lostReset' \in BOOLEAN
        BY DEF PlainTypes
      <3>8. QED
        BY <3>1, <3>2, <3>3, <3>4, <3>5, <3>6, <3>7 DEF PlainTypes
    <2>2. ControlInv' /\ HeldInv' /\ ActiveJobIsCurrent'
      BY DEF ControlInv, HeldInv, ActiveJobIsCurrent, Sending
    <2>3. CompletedInv'
      BY DEF CompletedInv, CompletedIsParsed, PlainTypes, Terminal, Sending
    <2>4. TornInv'
      BY DEF TornInv
    <2>5. QED
      BY <2>1, <2>2, <2>3, <2>4
  <1>21. CASE UNCHANGED vars
    <2> USE <1>21 DEF vars
    <2>1. PlainTypes' /\ ControlInv' /\ HeldInv' /\ ActiveJobIsCurrent'
      BY DEF PlainTypes, ControlInv, HeldInv, ActiveJobIsCurrent
    <2>2. CompletedInv' /\ TornInv'
      BY DEF CompletedInv, CompletedIsParsed, TornInv, Underway
    <2>3. QED
      BY <2>1, <2>2
  <1>22. QED
    BY <1>1, <1>2, <1>3, <1>4, <1>5, <1>6, <1>7, <1>8, <1>9, <1>10, <1>11,
       <1>12, <1>13, <1>14, <1>15, <1>16, <1>17, <1>18, <1>19, <1>20, <1>21
       DEF Next, Service, Send, OpenStep

\* The invariant holds in every state.
LEMMA Inductive == Spec => []IInv
  BY InitInv, NextInv, PTL DEF Spec

-----------------------------------------------------------------------------
(* What the printer took of each job                                       *)

FirstBuffers(n) == [k \in 1..n |-> k]

\* So far it took of the job that is being sent what has been read, in order,
\* and nothing of the attempts before.
TakenInv ==
  /\ taken \in [Jobs -> Seq(0..Buffers)]
  /\ cur # NoJob => jstate[cur] = "processing"
  /\ pc \in {"open", "prepare"} => taken[cur] = <<>>
  /\ pc \in {"loop", "write", "transfer"} => taken[cur] = FirstBuffers(next - 1)
  /\ pc \in {"after", "returned"} /\ success /\ cur \notin cancelled =>
       taken[cur] = Whole
  /\ \A j \in Jobs : jstate[j] = "completed" => taken[j] = Whole

LEMMA OneMore ==
  ASSUME NEW n \in 1..Buffers
  PROVE  /\ FirstBuffers(n - 1) \in Seq(0..Buffers)
         /\ Append(FirstBuffers(n - 1), n) = FirstBuffers(n)
  <1>1. Buffers \in Nat /\ n \in Nat
    BY PrintJobsAssumption
  <1>2. FirstBuffers(n - 1) \in Seq(0..Buffers) /\ Len(FirstBuffers(n - 1)) = n - 1
    BY <1>1 DEF FirstBuffers
  <1>3. FirstBuffers(n) \in Seq(0..Buffers) /\ Len(FirstBuffers(n)) = n
    BY <1>1 DEF FirstBuffers
  <1>4. /\ Append(FirstBuffers(n - 1), n) \in Seq(0..Buffers)
        /\ Len(Append(FirstBuffers(n - 1), n)) = n
        /\ \A k \in 1..n :
             Append(FirstBuffers(n - 1), n)[k] = FirstBuffers(n)[k]
    BY <1>1, <1>2 DEF FirstBuffers
  <1>5. QED
    BY <1>2, <1>3, <1>4

LEMMA TakenInductive ==
  ASSUME IInv, TakenInv, [Next]_vars
  PROVE  TakenInv'
  <1> USE NoJobAssumption DEF TakenInv, bus, device, sender, printer, host
  <1>1. PlainTypes /\ ControlInv /\ (cur # NoJob => cur \in Jobs)
    BY DEF IInv, PlainTypes
  <1>2. ASSUME NEW j \in Jobs, StartJob(j)
        PROVE  TakenInv'
    <2>1. /\ taken' = [taken EXCEPT ![j] = <<>>] /\ cur' = j /\ pc' = "open"
          /\ jstate' = [jstate EXCEPT ![j] = "processing"] /\ jstate[j] = "pending"
      BY <1>2 DEF StartJob
    <2>2. jstate'[j] = "processing" /\ \A i \in Jobs \ {j} : jstate'[i] = jstate[i]
      BY <1>1, <2>1 DEF PlainTypes
    <2>3. taken' \in [Jobs -> Seq(0..Buffers)]
      BY <2>1
    <2>4. QED
      BY <2>1, <2>2, <2>3
  <1>3. ASSUME NEW j \in Jobs, CancelJob(j)
        PROVE  TakenInv'
    <2>1. UNCHANGED <<taken, cur, pc, next, success>> /\ cancelled \subseteq cancelled'
      BY <1>3 DEF CancelJob
    <2>2. \A i \in Jobs : jstate'[i] \in {jstate[i], "canceled"}
      BY <1>1, <1>3 DEF CancelJob, PlainTypes
    <2>3. cur # NoJob => jstate'[cur] = jstate[cur]
      BY <1>1, <1>3 DEF CancelJob, PlainTypes
    <2>4. QED
      BY <1>1, <2>1, <2>2, <2>3
  <1>4. CASE Bus \/ DeviceReady \/ OpenDevice \/ OpenStep \/ StopWaiting
    <2>1. /\ UNCHANGED <<taken, jstate, cancelled, cur, next, success>>
          /\ \/ UNCHANGED pc
             \/ pc = "open" /\ pc' = "prepare"
             \/ pc' = "returned" /\ cur \in cancelled
      BY <1>4 DEF Bus, DeviceReady, OpenDevice, OpenStep, StopWaiting
    <2>2. QED
      BY <2>1
  <1>5. CASE SendNothing \/ \E ok \in BOOLEAN : PrepareEnds(ok)
    <2>1. /\ UNCHANGED <<taken, jstate, cancelled, cur>>
          /\ pc' = "returned" /\ (success' => cur \in cancelled)
      BY <1>5 DEF SendNothing, PrepareEnds
    <2>2. QED
      BY <2>1
  <1>6. CASE BeginSend
    <2>1. /\ UNCHANGED <<taken, jstate, cancelled, cur>>
          /\ pc = "prepare" /\ pc' = "loop" /\ next' = 1
      BY <1>6 DEF BeginSend
    <2>2. FirstBuffers(1 - 1) = <<>>
      BY DEF FirstBuffers
    <2>3. QED
      BY <2>1, <2>2
  <1>7. CASE StopOnCancel \/ ReadBuffer \/ BeginWrite \/ AfterLoop
    <2>1. /\ UNCHANGED <<taken, jstate, cancelled, cur, next, success>>
          /\ \/ {pc, pc'} \subseteq {"loop", "write", "transfer"}
             \/ pc = "after" /\ pc' = "returned"
             \/ pc' = "after" /\ cur \in cancelled
      BY <1>7 DEF StopOnCancel, ReadBuffer, BeginWrite, AfterLoop
    <2>2. QED
      BY <2>1
  <1>8. ASSUME NEW error \in BOOLEAN, ReadEnds(error)
        PROVE  TakenInv'
    <2>1. /\ UNCHANGED <<taken, jstate, cancelled, cur>>
          /\ pc = "loop" /\ pc' = "after"
          /\ success' => next > Buffers
      BY <1>8 DEF ReadEnds
    <2>2. success' => FirstBuffers(next - 1) = Whole
      <3>1. next > Buffers => next - 1 = Buffers
        BY <1>1, PrintJobsAssumption DEF PlainTypes
      <3>2. QED
        BY <2>1, <3>1 DEF FirstBuffers, Whole
    <2>3. QED
      BY <2>1, <2>2
  <1>9. CASE WriteWhole
    <2>1. /\ taken' = [taken EXCEPT ![cur] = Append(@, next)]
          /\ UNCHANGED <<jstate, cancelled, cur>>
          /\ pc = "transfer" /\ pc' = "loop" /\ next' = next + 1
      BY <1>9 DEF WriteWhole, TakeWhole
    <2>2. cur \in Jobs /\ next \in 1..Buffers /\ next' - 1 = next
      BY <1>1, <2>1, PrintJobsAssumption DEF ControlInv, PlainTypes
    <2>3. taken'[cur] = FirstBuffers(next' - 1) /\ taken' \in [Jobs -> Seq(0..Buffers)]
      <3>1. Append(taken[cur], next) = FirstBuffers(next)
        BY <2>1, <2>2, OneMore
      <3>2. Append(taken[cur], next) \in Seq(0..Buffers)
        BY <2>2, PrintJobsAssumption
      <3>3. QED
        BY <2>1, <2>2, <3>1, <3>2
    <2>4. \A i \in Jobs : i # cur => taken'[i] = taken[i]
      BY <2>1
    <2>5. QED
      BY <2>1, <2>2, <2>3, <2>4
  <1>10. ASSUME NEW some \in BOOLEAN, WriteShort(some)
         PROVE  TakenInv'
    <2>1. /\ taken' = taken \/ taken' = [taken EXCEPT ![cur] = Append(@, 0)]
          /\ UNCHANGED <<jstate, cancelled, cur>>
          /\ pc \in {"transfer", "write"} /\ pc' = "after"
          /\ success' => cur \in cancelled
      BY <1>10 DEF WriteShort, TakePart
    <2>2. cur \in Jobs
      BY <1>1, <2>1 DEF ControlInv
    <2>3. /\ taken' \in [Jobs -> Seq(0..Buffers)]
          /\ \A i \in Jobs : i # cur => taken'[i] = taken[i]
      <3>1. Append(taken[cur], 0) \in Seq(0..Buffers)
        BY <2>2, PrintJobsAssumption
      <3>2. QED
        BY <2>1, <3>1
    <2>4. QED
      BY <2>1, <2>2, <2>3
  <1>11. CASE FinishJob
    <2>1. /\ UNCHANGED <<taken, cancelled>>
          /\ cur' = NoJob /\ pc = "returned" /\ pc' = "idle"
          /\ jstate' = [jstate EXCEPT ![cur] = JobOutcome]
      BY <1>11 DEF FinishJob
    <2>2. cur \in Jobs
      BY <1>1, <2>1 DEF ControlInv
    <2>3. jstate'[cur] = "completed" => success /\ cur \notin cancelled
      BY <1>1, <2>1, <2>2 DEF JobOutcome, PlainTypes
    <2>4. \A i \in Jobs : i # cur => jstate'[i] = jstate[i]
      BY <1>1, <2>1 DEF PlainTypes
    <2>5. QED
      BY <2>1, <2>2, <2>3, <2>4
  <1>12. CASE Crash
    <2>1. UNCHANGED taken /\ cur' = NoJob /\ pc' = "idle"
      BY <1>12 DEF Crash
    <2>2. \A i \in Jobs : jstate'[i] \in {jstate[i], "aborted", "pending"}
      BY <1>1, <1>12 DEF Crash, PlainTypes
    <2>3. QED
      BY <2>1, <2>2
  <1>13. CASE UNCHANGED vars
    BY <1>13 DEF vars
  <1>14. QED
    BY <1>2, <1>3, <1>4, <1>5, <1>6, <1>7, <1>8, <1>9, <1>10, <1>11, <1>12, <1>13
       DEF Next, Service, Send

LEMMA TakenHolds == Spec => []TakenInv
  <1>1. Init => TakenInv
    BY DEF Init, TakenInv
  <1>2. QED
    BY <1>1, TakenInductive, Inductive, PTL DEF Spec

-----------------------------------------------------------------------------
(* A reset that is owed when the next job is sent                          *)

\* With a host that closes the device after every job, none is.
KeptInv ==
  /\ kept \in BOOLEAN
  /\ kept => KeepOpen
  /\ reset_requested => opened
  /\ ~KeepOpen =>
       /\ pc = "idle" => ~opened
       /\ pc \in {"open", "prepare"} => ~reset_requested

\* A job that is sent finds the printer between two documents and continues its
\* own, unless it was sent into a torn one.
SpliceInv ==
  /\ spliced # {} => lostReset \/ kept
  /\ pc \in {"loop", "write", "transfer"} /\ ~lostReset /\ ~kept =>
       \/ parser = NoJob /\ (next = 1 \/ next > Buffers)
       \/ parser = cur /\ expect = next

LEMMA KeptInductive ==
  ASSUME IInv, KeptInv, [Next]_vars
  PROVE  KeptInv'
  <1> USE PrintJobsAssumption DEF KeptInv, bus, device, sender, printer, host
  <1>1. PlainTypes /\ ControlInv
    BY DEF IInv
  <1>2. ASSUME NEW j \in Jobs, StartJob(j) \/ CancelJob(j)
        PROVE  KeptInv'
    BY <1>2 DEF StartJob, CancelJob
  <1>3. CASE Bus \/ DeviceReady \/ OpenDevice \/ StopWaiting
    BY <1>3 DEF Bus, Attach, Detach, DeviceReady, OpenDevice, DeviceOpen,
                StopWaiting
  <1>4. CASE OpenStep
    <2>1. pc = "open" /\ ~opened
      BY <1>1, <1>4 DEF OpenStep, OpenSucceeds, OpenFails, ControlInv, Stages
    <2>2. QED
      BY <1>4, <2>1 DEF OpenStep, OpenSucceeds, OpenFails
  <1>5. CASE SendNothing \/ \E ok \in BOOLEAN : PrepareEnds(ok)
    BY <1>5 DEF SendNothing, PrepareEnds
  <1>6. CASE BeginSend
    BY <1>1, <1>6 DEF BeginSend, PlainTypes
  <1>7. CASE \/ StopOnCancel \/ ReadBuffer \/ BeginWrite
             \/ \E error \in BOOLEAN : ReadEnds(error)
    BY <1>7 DEF StopOnCancel, ReadBuffer, BeginWrite, ReadEnds
  <1>8. CASE WriteWhole
    BY <1>8 DEF WriteWhole, TakeWhole
  <1>9. ASSUME NEW some \in BOOLEAN, WriteShort(some)
        PROVE  KeptInv'
    <2>1. opened /\ UNCHANGED <<opened, kept>> /\ pc' = "after"
      BY <1>1, <1>9 DEF WriteShort, TakePart, ControlInv, Sending
    <2>2. QED
      BY <2>1
  <1>10. CASE AfterLoop
    <2>1. opened /\ UNCHANGED <<opened, kept>> /\ pc' = "returned"
      BY <1>1, <1>10 DEF AfterLoop, ControlInv, Sending
    <2>2. QED
      BY <2>1
  <1>11. CASE FinishJob
    BY <1>11 DEF FinishJob, DeviceClose
  <1>12. CASE Crash
    BY <1>12 DEF Crash, DeviceDies
  <1>13. CASE UNCHANGED vars
    BY <1>13 DEF vars
  <1>14. QED
    BY <1>2, <1>3, <1>4, <1>5, <1>6, <1>7, <1>8, <1>9, <1>10, <1>11, <1>12, <1>13
       DEF Next, Service, Send

LEMMA SpliceInductive ==
  ASSUME IInv, KeptInv, SpliceInv, [Next]_vars
  PROVE  SpliceInv'
  <1> USE NoJobAssumption, PrintJobsAssumption
      DEF SpliceInv, bus, device, sender, printer, host
  <1>1. PlainTypes /\ ControlInv /\ TornInv /\ kept \in BOOLEAN
    BY DEF IInv, KeptInv
  <1>2. ASSUME NEW j \in Jobs, StartJob(j) \/ CancelJob(j)
        PROVE  SpliceInv'
    BY <1>2 DEF StartJob, CancelJob
  <1>3. CASE Bus \/ DeviceReady \/ OpenDevice \/ OpenStep \/ StopWaiting
    BY <1>3 DEF Bus, DeviceReady, OpenDevice, OpenStep, StopWaiting
  <1>4. CASE SendNothing \/ \E ok \in BOOLEAN : PrepareEnds(ok)
    BY <1>4 DEF SendNothing, PrepareEnds
  <1>5. CASE BeginSend
    <2>1. /\ pc = "prepare" /\ UNCHANGED <<spliced, lostReset, parser>> /\ next' = 1
          /\ kept' = (kept \/ (reset_requested /\ parser # NoJob))
      BY <1>5 DEF BeginSend
    <2>2. parser # NoJob => lostReset \/ reset_requested
      BY <1>1, <2>1 DEF TornInv, Underway, Sending
    <2>3. QED
      BY <1>1, <2>1, <2>2
  <1>6. CASE \/ StopOnCancel \/ ReadBuffer \/ BeginWrite \/ AfterLoop
             \/ \E error \in BOOLEAN : ReadEnds(error)
    BY <1>6 DEF StopOnCancel, ReadBuffer, BeginWrite, AfterLoop, ReadEnds
  <1>7. CASE WriteWhole
    <2>1. cur # NoJob /\ next <= Buffers
      BY <1>1, <1>7 DEF WriteWhole, ControlInv
    <2>2. lostReset \/ kept \/ Continues(cur, next)
      BY <1>1, <1>7, <2>1 DEF WriteWhole, Continues, PlainTypes
    <2>3. QED
      BY <1>1, <1>7, <2>1, <2>2 DEF WriteWhole, TakeWhole, PlainTypes
  <1>8. ASSUME NEW some \in BOOLEAN, WriteShort(some)
        PROVE  SpliceInv'
    <2>1. cur # NoJob /\ next <= Buffers
      BY <1>1, <1>8 DEF WriteShort, ControlInv
    <2>2. lostReset \/ kept \/ Continues(cur, next)
      BY <1>1, <1>8, <2>1 DEF WriteShort, Continues, PlainTypes
    <2>3. QED
      BY <1>8, <2>2 DEF WriteShort, TakePart
  <1>9. CASE FinishJob
    BY <1>9 DEF FinishJob
  <1>10. CASE Crash
    BY <1>10 DEF Crash
  <1>11. CASE UNCHANGED vars
    BY <1>11 DEF vars
  <1>12. QED
    BY <1>2, <1>3, <1>4, <1>5, <1>6, <1>7, <1>8, <1>9, <1>10, <1>11
       DEF Next, Service, Send

LEMMA KeptHolds == Spec => [](KeptInv /\ SpliceInv)
  <1>1. Init => KeptInv /\ SpliceInv
    BY DEF Init, DeviceInit, KeptInv, SpliceInv
  <1>2. QED
    BY <1>1, KeptInductive, SpliceInductive, Inductive, PTL DEF Spec

-----------------------------------------------------------------------------
(* The theorems                                                            *)

\* The state stays within its types.
THEOREM TypeCorrect == Spec => []TypeOK
  <1>1. IInv /\ TakenInv /\ KeptInv => TypeOK
    BY DEF IInv, PlainTypes, TakenInv, KeptInv, TypeOK
  <1>2. QED
    BY <1>1, Inductive, TakenHolds, KeptHolds, PTL

\* However device_open fails and whenever the printer is unplugged, a device
\* that is not open owns no libusb object, and an open one owns all three.
THEOREM ObjectsAreOwned == Spec => []NothingLeaks
  <1>1. IInv => NothingLeaks
    BY DEF IInv, ControlInv, HeldInv, NothingLeaks, Objects
  <1>2. QED
    BY <1>1, Inductive, PTL

\* No transfer ever watches the cancellation of another job than its own.
THEOREM RightJobIsWatched == Spec => []ActiveJobIsCurrent
  <1>1. IInv => ActiveJobIsCurrent
    BY DEF IInv
  <1>2. QED
    BY <1>1, Inductive, PTL

\* Once a job is cancelled, no call to write goes past its first check.
THEOREM CancelStopsWrites == Spec => StopsOnCancel
  <1>1. /\ IInv
        /\ [Next]_vars
        => [pc # "transfer" /\ pc' = "transfer" => cur \notin cancelled]_vars
    <2> SUFFICES ASSUME IInv, Next, pc # "transfer", pc' = "transfer"
                 PROVE  cur \notin cancelled
      OBVIOUS
    <2> USE DEF host
    <2>1. ASSUME NEW j \in Jobs, StartJob(j) \/ CancelJob(j)
          PROVE  FALSE
      BY <2>1 DEF StartJob, CancelJob
    <2>2. CASE Bus \/ DeviceReady \/ OpenDevice \/ OpenStep \/ StopWaiting
      BY <2>2 DEF Bus, DeviceReady, OpenDevice, OpenStep, StopWaiting
    <2>3. CASE FinishJob \/ \E ok \in BOOLEAN : PrepareEnds(ok)
      BY <2>3 DEF FinishJob, PrepareEnds
    <2>4. CASE \/ SendNothing \/ BeginSend \/ StopOnCancel \/ ReadBuffer
               \/ WriteWhole \/ AfterLoop
      BY <2>4 DEF SendNothing, BeginSend, StopOnCancel, ReadBuffer, WriteWhole,
                  AfterLoop
    <2>5. CASE \/ \E error \in BOOLEAN : ReadEnds(error)
               \/ \E some \in BOOLEAN : WriteShort(some)
      BY <2>5 DEF ReadEnds, WriteShort
    <2>6. CASE BeginWrite
      BY <2>6, NoJobAssumption
         DEF BeginWrite, JobCancelled, IInv, ActiveJobIsCurrent, ControlInv,
             PlainTypes
    <2>7. CASE Crash
      BY <2>7 DEF Crash
    <2>8. QED
      BY <2>1, <2>2, <2>3, <2>4, <2>5, <2>6, <2>7 DEF Next, Service, Send
  <1>2. QED
    BY <1>1, Inductive, PTL DEF Spec, StopsOnCancel

\* A job that counts as completed was taken by the printer whole and in order in
\* the attempt that completed, and parsed to its end unless it was in the middle
\* of another document.
THEOREM CompletedMeansPrinted == Spec => []CompletedIsPrinted
  <1>1. IInv /\ TakenInv => CompletedIsPrinted
    BY DEF IInv, CompletedInv, CompletedIsParsed, TakenInv, CompletedIsPrinted
  <1>2. QED
    BY <1>1, Inductive, TakenHolds, PTL

\* After the device is closed the printer is in the middle of no document,
\* however its last job ended, unless a reset failed.
THEOREM CloseResets == Spec => []ClosedMeansReset
  <1>1. IInv => ClosedMeansReset
    BY DEF IInv, TornInv, Underway, ControlInv, Sending, ClosedMeansReset
  <1>2. QED
    BY <1>1, Inductive, PTL

\* No document reaches the printer inside another, for any number of jobs of any
\* size, unless a reset was lost or the host sent a job over one that was owed;
\* a host that closes the device after every job does not.
THEOREM DocumentsStayApart == Spec => []NoSplice
  <1>1. KeptInv /\ SpliceInv => NoSplice
    BY DEF KeptInv, SpliceInv, NoSplice
  <1>2. QED
    BY <1>1, KeptHolds, PTL
=============================================================================
