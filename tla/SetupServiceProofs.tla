------------------------- MODULE SetupServiceProofs -------------------------
(***************************************************************************)
(* Proofs about SetupService, for any number of overlapping operations and *)
(* of crashes, logins and lost registrations: that a reported stop holds   *)
(* and keeps every later process down, that a disable leaves nothing       *)
(* registered, that the queue is as it was told.  Then about Uninstall:    *)
(* the invariant of the service survives the script, success means that    *)
(* nothing is left but what was passed over, failure that the script can   *)
(* be run again.                                                           *)
(***************************************************************************)
EXTENDS Uninstall, TLAPS

-----------------------------------------------------------------------------
(* The inductive invariant                                                 *)

\* The marker is there, and no operation is on its way to remove it.
Kept == marker /\ \A v \in Workers : at[v] \notin {"start", "clear"}

\* From the moment the operation of the last button has written the marker,
\* unless a Start was about to remove it then.
MarkInv ==
  overlap # "crossed" =>
    /\ said \in {"stopped", "disabled"} => Kept
    /\ \A w \in Workers :
         w = last /\ at[w] \in {"ask", "down", "unregister", "bootout", "wait"}
           => Kept

\* A process that has not passed the marker check when a stop is reported does
\* not pass it any more.
StopInv == Said("stopped") /\ ~sneaked => proc # "boot" /\ (Ready => terminating)

\* While no two operations overlap, the one under way is the last button's, and
\* nothing is under way once it has reported.
AloneInv ==
  overlap = "none" =>
    /\ \A v \in Workers : at[v] # "idle" => v = last
    /\ said # "nothing" => \A v \in Workers : at[v] = "idle"
    /\ \A v \in Workers : at[v] \in {"bootout", "wait"} => reg \in {"no", "lost"}
    /\ said = "disabled" => reg \in {"no", "lost"}

SInv == TypeOK /\ MarkInv /\ StopInv
IInv == SInv /\ AloneInv /\ QueueAsTold

-----------------------------------------------------------------------------
(* What the steps have in common                                           *)

\* What the script does to the service and the queue by itself.
ScriptMove ==
  \/ BeginPrepare(Helper)
  \/ /\ job /\ Unload
     /\ UNCHANGED <<marker, reg, queue, disturbances, at, history>>
  \/ /\ terminating' = (terminating \/ Ready)
     /\ UNCHANGED <<marker, reg, job, proc, sneaked, queue, disturbances, at,
                    history>>
  \/ /\ queue' \in BOOLEAN
     /\ UNCHANGED <<marker, system, disturbances, at, history>>

\* An operation that goes to one of its places leaves the others where they are.
LEMMA GoTyped ==
  ASSUME TypeOK, NEW w \in Workers, NEW step \in Places, Go(w, step)
  PROVE  /\ at' \in [Workers -> Places]
         /\ at'[w] = step
         /\ \A v \in Workers \ {w} : at'[v] = at[v]
  BY DEF TypeOK, Go

\* A step of an operation is a step from a place other than "idle".
LEMMA StepGoes ==
  ASSUME TypeOK, NEW w \in Workers, Step(w)
  PROVE  /\ at[w] # "idle"
         /\ at' \in [Workers -> Places]
         /\ \A v \in Workers \ {w} : at'[v] = at[v]
         /\ at'[w] \notin {"start", "stop", "disable", "look", "prepare"}
         /\ at'[w] = "clear" => at[w] = "start"
         /\ at'[w] \in {"ask", "down"} => at[w] \in {"stop", "ask"}
         /\ at'[w] = "unregister" => at[w] = "disable"
         /\ at'[w] \in {"bootout", "wait"} => at[w] \in {"unregister", "bootout"}
  <1> USE DEF Report, StopReports
  <1>1. CASE LookForMarker(w) \/ ClearMarker(w) \/ StartLooks(w)
    <2>1. PICK step \in {"clear", "looks", "idle", "remove", "register2", "approved"} :
            Go(w, step) /\ at[w] \in {"start", "clear", "looks"}
                        /\ (step = "clear" => at[w] = "start")
      BY <1>1 DEF LookForMarker, ClearMarker, StartLooks
    <2>2. step \in Places
      BY DEF Places
    <2>3. QED
      BY <2>1, <2>2, GoTyped
  <1>2. CASE Remove(w)
    <2>1. PICK step \in {"evict", "evict2", "evict3"} :
            Go(w, step) /\ at[w] \in {"remove", "remove2", "remove3"}
      BY <1>2 DEF Remove
    <2>2. step \in Places
      BY DEF Places
    <2>3. QED
      BY <2>1, <2>2, GoTyped
  <1>3. CASE Evict(w)
    <2>1. PICK step \in {"register", "register2", "leave", "wait"} :
            /\ Go(w, step)
            /\ at[w] \in {"evict", "evict2", "evict3", "bootout"}
            /\ step = "wait" => at[w] = "bootout"
      BY <1>3 DEF Evict
    <2>2. step \in Places
      BY DEF Places
    <2>3. QED
      BY <2>1, <2>2, GoTyped
  <1>4. CASE Register(w) \/ Kickstart(w) \/ StartReturns(w)
    <2>1. PICK step \in {"approved", "remove2", "idle", "up", "ipp"} :
            Go(w, step) /\ at[w] \in {"register", "register2", "approved", "up"}
      BY <1>4 DEF Register, Kickstart, StartReturns
    <2>2. step \in Places
      BY DEF Places
    <2>3. QED
      BY <2>1, <2>2, GoTyped
  <1>5. CASE AskService(w) \/ Add(w) \/ Look(w) \/ Delete(w)
    <2>1. PICK step \in {"modify", "add", "delete", "idle"} :
            Go(w, step) /\ at[w] \in {"ipp", "modify", "add", "look", "delete"}
      BY <1>5 DEF AskService, Add, Look, Delete
    <2>2. step \in Places
      BY DEF Places
    <2>3. QED
      BY <2>1, <2>2, GoTyped
  <1>6. CASE WriteMarker(w)
    <2>1. PICK step \in {"ask", "unregister", "idle"} :
            /\ Go(w, step) /\ at[w] \in {"stop", "disable"}
            /\ step = "ask" => at[w] = "stop"
            /\ step = "unregister" => at[w] = "disable"
      BY <1>6 DEF WriteMarker
    <2>2. step \in Places
      BY DEF Places
    <2>3. QED
      BY <2>1, <2>2, GoTyped
  <1>7. CASE StopFindsNothing(w) \/ StopReturns(w)
             \/ \E delivered \in BOOLEAN : Shutdown(w, delivered)
    <2>1. PICK step \in {"down", "idle"} :
            Go(w, step) /\ at[w] \in {"ask", "down"} /\ (step = "down" => at[w] = "ask")
      BY <1>7 DEF StopFindsNothing, StopReturns, Shutdown
    <2>2. step \in Places
      BY DEF Places
    <2>3. QED
      BY <2>1, <2>2, GoTyped
  <1>8. CASE Unregister(w)
    <2>1. PICK step \in {"wait", "leave", "bootout", "remove3", "idle"} :
            /\ Go(w, step) /\ at[w] \in {"unregister", "prepare"}
            /\ step \in {"wait", "bootout"} => at[w] = "unregister"
      BY <1>8 DEF Unregister
    <2>2. step \in Places
      BY DEF Places
    <2>3. QED
      BY <2>1, <2>2, GoTyped
  <1>9. CASE WaitReturns(w)
    <2>1. Go(w, "idle") /\ at[w] \in {"wait", "leave"}
      BY <1>9 DEF WaitReturns, Report
    <2>2. "idle" \in Places
      BY DEF Places
    <2>3. QED
      BY <2>1, <2>2, GoTyped
  <1>10. QED
    BY <1>1, <1>2, <1>3, <1>4, <1>5, <1>6, <1>7, <1>8, <1>9 DEF Step

\* So is a button, but from "idle".
LEMMA PressGoes ==
  ASSUME TypeOK, NEW w \in Workers, Begin(w)
  PROVE  /\ at[w] = "idle"
         /\ at' \in [Workers -> Places]
         /\ \A v \in Workers \ {w} : at'[v] = at[v]
         /\ at'[w] \in {"start", "stop", "disable", "look"}
         /\ last' = w /\ said' = "nothing"
         /\ overlap' = IF Busy(w) THEN "some" ELSE "none"
         /\ UNCHANGED <<marker, system, queue, disturbances>>
  <1>1. PICK op \in {"start", "stop", "disable", "look"} : Press(w, op)
    BY DEF Begin
  <1>2. op \in Places
    BY DEF Places
  <1>3. QED
    BY <1>1, <1>2, GoTyped DEF Press

-----------------------------------------------------------------------------
(* Types                                                                   *)

\* The state without the operations' places.
PlainTypes ==
  /\ marker \in BOOLEAN
  /\ queue \in BOOLEAN
  /\ disturbances \in 0..MaxDisturbances
  /\ last \in Workers \cup {"none", "menu"}
  /\ said \in {"nothing", "stopped", "disabled", "started", "too late",
               "added", "removed", "supposed"}
  /\ overlap \in {"none", "some", "crossed"}

SystemTypes ==
  /\ reg \in {"no", "enabled", "approval", "lost"}
  /\ job \in BOOLEAN
  /\ proc \in Procs
  /\ terminating \in BOOLEAN
  /\ sneaked \in BOOLEAN
  /\ reg = "no" => ~job
  /\ proc # "none" /\ ~terminating => job

LEMMA TypeParts ==
  TypeOK <=> at \in [Workers -> Places] /\ PlainTypes /\ SystemTypes
  BY DEF TypeOK, PlainTypes, SystemTypes

LEMMA UnloadTyped ==
  ASSUME SystemTypes, Unload, reg' \in {"no", reg}
  PROVE  SystemTypes'
  BY DEF SystemTypes, Unload, NoProcess, Procs

LEMMA LaunchTyped ==
  ASSUME SystemTypes, Launch, job' = TRUE,
         reg' \in {"enabled", "approval", "lost"}
  PROVE  SystemTypes'
  BY DEF SystemTypes, Launch, Procs

LEMMA DisturbCounts ==
  ASSUME disturbances \in 0..MaxDisturbances, Disturb
  PROVE  disturbances' \in 0..MaxDisturbances
  BY SetupServiceAssumption DEF Disturb

LEMMA PlainKept ==
  ASSUME TypeOK, [Next]_vars
  PROVE  PlainTypes'
  <1> USE DEF PlainTypes, history, Report, StopReports
  <1>1. PlainTypes
    BY TypeParts
  <1>2. ASSUME NEW w \in Workers, Begin(w) PROVE PlainTypes'
    BY <1>1, <1>2, PressGoes
  <1>3. ASSUME NEW w \in Workers, Step(w) PROVE PlainTypes'
    <2>1. CASE LookForMarker(w) \/ ClearMarker(w) \/ StartLooks(w) \/ Remove(w)
               \/ Evict(w) \/ Register(w) \/ Kickstart(w) \/ StartReturns(w)
      BY <1>1, <2>1 DEF LookForMarker, ClearMarker, StartLooks, Remove, Evict,
                        Register, Kickstart, StartReturns
    <2>2. CASE AskService(w) \/ Add(w) \/ Look(w) \/ Delete(w)
      BY <1>1, <2>2 DEF AskService, Add, Look, Delete
    <2>3. CASE WriteMarker(w) \/ StopFindsNothing(w) \/ StopReturns(w)
               \/ \E delivered \in BOOLEAN : Shutdown(w, delivered)
      BY <1>1, <2>3 DEF WriteMarker, StopFindsNothing, StopReturns, Shutdown
    <2>4. CASE Unregister(w) \/ WaitReturns(w)
      BY <1>1, <2>4 DEF Unregister, WaitReturns
    <2>5. QED
      BY <1>3, <2>1, <2>2, <2>3, <2>4 DEF Step
  <1>4. CASE Process
    BY <1>1, <1>4 DEF Process, CheckMarker, Listen, ShutsDown
  <1>5. CASE Crash \/ Lose \/ Login \/ Approve
    <2>1. disturbances' \in 0..MaxDisturbances
      BY <1>1, <1>5, DisturbCounts DEF Crash, Lose, Login, Approve
    <2>2. UNCHANGED <<marker, queue, last, said, overlap>>
      BY <1>5 DEF Crash, Lose, Login, Approve
    <2>3. QED
      BY <1>1, <2>1, <2>2
  <1>6. ASSUME NEW marked \in BOOLEAN, MenuStop(marked) PROVE PlainTypes'
    <2>1. disturbances' \in 0..MaxDisturbances /\ queue' = queue
      BY <1>1, <1>6, DisturbCounts DEF MenuStop
    <2>2. marker' \in BOOLEAN
      BY <1>1, <1>6 DEF MenuStop
    <2>3. last' = "menu" /\ said' \in {"stopped", "nothing"}
          /\ overlap' \in {"crossed", "some"}
      BY <1>6 DEF MenuStop
    <2>4. QED
      BY <1>1, <2>1, <2>2, <2>3
  <1>7. CASE UNCHANGED vars
    BY <1>1, <1>7 DEF vars
  <1>8. QED
    BY <1>2, <1>3, <1>4, <1>5, <1>6, <1>7 DEF Next, Environment

LEMMA SystemKept ==
  ASSUME TypeOK, [Next]_vars
  PROVE  SystemTypes'
  <1>1. SystemTypes
    BY TypeParts
  <1>2. CASE UNCHANGED system
    BY <1>1, <1>2 DEF SystemTypes, system, process
  <1>3. ASSUME NEW w \in Workers, Begin(w) PROVE SystemTypes'
    BY <1>2, <1>3, PressGoes
  <1>4. ASSUME NEW w \in Workers, Step(w) PROVE SystemTypes'
    <2>1. CASE Remove(w)
      BY <1>1, <1>2, <2>1, UnloadTyped DEF Remove
    <2>2. CASE Evict(w)
      BY <1>1, <1>2, <2>2, UnloadTyped DEF Evict, system
    <2>3. CASE Register(w)
      <3>1. CASE reg' = "enabled" /\ Load
        <4>1. CASE Launch
          BY <1>1, <3>1, <4>1, LaunchTyped DEF Load
        <4>2. CASE job /\ UNCHANGED process
          BY <1>1, <3>1, <4>2 DEF Load, SystemTypes, process
        <4>3. QED
          BY <3>1, <4>1, <4>2 DEF Load
      <3>2. CASE reg # "enabled" /\ reg' = "approval" /\ UNCHANGED <<job, process>>
        BY <1>1, <3>2 DEF SystemTypes, process
      <3>3. QED
        BY <1>2, <2>3, <3>1, <3>2 DEF Register
    <2>4. CASE Kickstart(w)
      <3>1. CASE job /\ Launch
        <4>1. reg # "no" /\ reg' = reg /\ job' = TRUE
          BY <1>1, <2>4, <3>1 DEF Kickstart, SystemTypes
        <4>2. QED
          BY <1>1, <3>1, <4>1, LaunchTyped DEF SystemTypes
      <3>2. QED
        BY <1>2, <2>4, <3>1 DEF Kickstart, system
    <2>5. CASE StopFindsNothing(w) \/ StopReturns(w)
      <3>1. UNCHANGED <<reg, job, proc, terminating>>
        BY <2>5 DEF StopFindsNothing, StopReturns
      <3>2. sneaked' \in {sneaked, proc = "boot"}
        BY <2>5 DEF StopFindsNothing, StopReturns, StopReports
      <3>3. QED
        BY <1>1, <3>1, <3>2 DEF SystemTypes
    <2>6. CASE \E delivered \in BOOLEAN : Shutdown(w, delivered)
      BY <1>1, <2>6 DEF Shutdown, SystemTypes
    <2>7. CASE Unregister(w)
      BY <1>1, <1>2, <2>7, UnloadTyped DEF Unregister
    <2>8. CASE LookForMarker(w) \/ ClearMarker(w) \/ StartLooks(w)
               \/ StartReturns(w) \/ AskService(w) \/ Add(w) \/ Look(w)
               \/ Delete(w) \/ WriteMarker(w) \/ WaitReturns(w)
      <3>1. UNCHANGED system
        BY <2>8 DEF LookForMarker, ClearMarker, StartLooks, StartReturns,
                    AskService, Add, Look, Delete, WriteMarker, WaitReturns
      <3>2. QED
        BY <1>2, <3>1
    <2>9. QED
      BY <1>4, <2>1, <2>2, <2>3, <2>4, <2>5, <2>6, <2>7, <2>8 DEF Step
  <1>5. CASE Process
    <2>1. CASE CheckMarker \/ Listen
      <3>1. /\ UNCHANGED <<reg, job, terminating, sneaked>>
            /\ proc # "none" /\ proc' \in Procs
        BY <2>1 DEF CheckMarker, Listen, Procs
      <3>2. QED
        BY <1>1, <3>1 DEF SystemTypes
    <2>2. CASE ShutsDown
      BY <1>1, <2>2 DEF ShutsDown, NoProcess, SystemTypes, Procs
    <2>3. QED
      BY <1>5, <2>1, <2>2 DEF Process
  <1>6. CASE Crash \/ Lose
    <2>1. CASE Crash /\ job /\ Launch
      BY <1>1, <2>1 DEF Crash, SystemTypes, Launch, Procs
    <2>2. CASE Crash /\ NoProcess
      BY <1>1, <2>2 DEF Crash, SystemTypes, NoProcess, Procs
    <2>3. CASE Lose
      BY <1>1, <2>3 DEF Lose, SystemTypes, process
    <2>4. QED
      BY <1>6, <2>1, <2>2, <2>3 DEF Crash
  <1>7. CASE Login
    BY <1>1, <1>7 DEF Login, SystemTypes, Launch, NoProcess, Procs
  <1>8. CASE Approve
    BY <1>1, <1>8 DEF Approve, Load, SystemTypes, Launch, process, Procs
  <1>9. ASSUME NEW marked \in BOOLEAN, MenuStop(marked) PROVE SystemTypes'
    BY <1>1, <1>9 DEF MenuStop, SystemTypes
  <1>10. QED
    BY <1>2, <1>3, <1>4, <1>5, <1>6, <1>7, <1>8, <1>9 DEF Next, Environment, vars

LEMMA TypeKept ==
  ASSUME TypeOK, [Next]_vars
  PROVE  TypeOK'
  <1>1. at' \in [Workers -> Places]
    <2>1. at \in [Workers -> Places]
      BY TypeParts
    <2>2. at' = at => at' \in [Workers -> Places]
      BY <2>1
    <2>3. ASSUME NEW w \in Workers, Begin(w) \/ Step(w)
          PROVE  at' \in [Workers -> Places]
      BY <2>3, PressGoes, StepGoes
    <2>4. CASE Process
      BY <2>2, <2>4 DEF Process, CheckMarker, Listen, ShutsDown
    <2>5. CASE Login
      BY <2>5 DEF Login, Places
    <2>6. CASE Crash \/ Lose \/ Approve \/ \E marked \in BOOLEAN : MenuStop(marked)
      BY <2>2, <2>6 DEF Crash, Lose, Approve, MenuStop
    <2>7. QED
      BY <2>2, <2>3, <2>4, <2>5, <2>6 DEF Next, Environment, vars
  <1>2. PlainTypes' /\ SystemTypes'
    BY PlainKept, SystemKept
  <1>3. QED
    BY <1>1, <1>2, TypeParts DEF TypeOK, PlainTypes, SystemTypes

-----------------------------------------------------------------------------
(* Every other invariant is kept by every step                             *)

\* Only the operation whose button was pressed last is heard.
LEMMA StepSays ==
  ASSUME NEW w \in Workers, Step(w)
  PROVE  /\ last' = last
         /\ overlap' \in {overlap, "crossed"}
         /\ said' # said =>
              /\ w = last /\ Go(w, "idle")
              /\ said' = "stopped" => at[w] \in {"ask", "down"}
              /\ said' = "disabled" => at[w] = "wait" /\ reg' = reg
              /\ said' = "added" => queue'
              /\ said' = "removed" => ~queue'
  <1> USE DEF history, system, Report, StopReports
  <1>1. CASE LookForMarker(w) \/ ClearMarker(w) \/ StartLooks(w) \/ Remove(w)
             \/ Evict(w) \/ Register(w) \/ Kickstart(w)
    BY <1>1 DEF LookForMarker, ClearMarker, StartLooks, Remove, Evict, Register,
                Kickstart
  <1>2. CASE StartReturns(w) \/ AskService(w)
    BY <1>2 DEF StartReturns, AskService
  <1>3. CASE Add(w)
    BY <1>3 DEF Add
  <1>4. CASE Look(w)
    BY <1>4 DEF Look
  <1>5. CASE Delete(w)
    BY <1>5 DEF Delete
  <1>6. CASE WriteMarker(w)
    BY <1>6 DEF WriteMarker
  <1>7. CASE StopFindsNothing(w) \/ StopReturns(w)
             \/ \E delivered \in BOOLEAN : Shutdown(w, delivered)
    BY <1>7 DEF StopFindsNothing, StopReturns, Shutdown
  <1>8. CASE Unregister(w) \/ WaitReturns(w)
    BY <1>8 DEF Unregister, WaitReturns
  <1>9. QED
    BY <1>1, <1>2, <1>3, <1>4, <1>5, <1>6, <1>7, <1>8 DEF Step

\* A marker that nobody is about to remove stays.
LEMMA StepMarks ==
  ASSUME TypeOK, Kept, NEW w \in Workers, Step(w)
  PROVE  Kept'
  <1>1. marker' = TRUE
    <2>1. at[w] # "clear" /\ marker = TRUE
      BY DEF Kept, TypeOK
    <2>2. CASE LookForMarker(w) \/ StartLooks(w) \/ Remove(w) \/ Evict(w)
               \/ Register(w) \/ Kickstart(w) \/ StartReturns(w)
      BY <2>1, <2>2 DEF LookForMarker, StartLooks, Remove, Evict, Register,
                        Kickstart, StartReturns
    <2>3. CASE AskService(w) \/ Add(w) \/ Look(w) \/ Delete(w)
               \/ WriteMarker(w)
      BY <2>1, <2>3 DEF AskService, Add, Look, Delete, WriteMarker
    <2>4. CASE StopFindsNothing(w) \/ StopReturns(w)
               \/ (\E delivered \in BOOLEAN : Shutdown(w, delivered))
               \/ Unregister(w) \/ WaitReturns(w)
      BY <2>1, <2>4 DEF StopFindsNothing, StopReturns, Shutdown, Unregister,
                        WaitReturns
    <2>5. CASE ClearMarker(w)
      BY <2>1, <2>5 DEF ClearMarker
    <2>6. QED
      BY <2>2, <2>3, <2>4, <2>5 DEF Step
  <1>2. \A v \in Workers : at'[v] \notin {"start", "clear"}
    BY StepGoes DEF Kept
  <1>3. QED
    BY <1>1, <1>2 DEF Kept

LEMMA MarkKept ==
  ASSUME TypeOK, MarkInv, [Next]_vars
  PROVE  MarkInv'
  <1>1. ASSUME UNCHANGED <<marker, at, history>> PROVE MarkInv'
    BY <1>1 DEF MarkInv, Kept, history
  <1>2. ASSUME NEW w \in Workers, Begin(w) PROVE MarkInv'
    BY <1>2, PressGoes DEF MarkInv
  <1>3. ASSUME NEW w \in Workers, Step(w), overlap' # "crossed"
        PROVE  MarkInv'
    <2>1. overlap # "crossed" /\ last' = last
      BY <1>3, StepSays
    <2>2. Kept => Kept'
      BY <1>3, StepMarks
    <2>3. ASSUME said' \in {"stopped", "disabled"} PROVE Kept'
      BY <1>3, <2>1, <2>2, <2>3, StepSays DEF MarkInv
    <2>4. ASSUME NEW v \in Workers, v = last,
                 at'[v] \in {"ask", "down", "unregister", "bootout", "wait"}
          PROVE  Kept'
      <3>1. CASE at[v] \in {"ask", "down", "unregister", "bootout", "wait"}
        BY <2>1, <2>2, <2>4, <3>1 DEF MarkInv
      <3>2. CASE at[v] \notin {"ask", "down", "unregister", "bootout", "wait"}
        <4>1. v = w /\ at[w] \in {"stop", "disable"} /\ at'[w] # "idle"
          BY <1>3, <2>4, <3>2, StepGoes
        <4>2. WriteMarker(w)
          BY <1>3, <4>1
             DEF Step, LookForMarker, ClearMarker, StartLooks, Remove, Evict,
                 Register, Kickstart, StartReturns, AskService, Add, Look, Delete,
                 StopFindsNothing, StopReturns, Shutdown, Unregister,
                 WaitReturns
        <4>3. ~Go(w, "idle")
          BY <4>1 DEF Go, TypeOK
        <4>4. marker' /\ ~Clearing(w)
          BY <1>3, <2>4, <4>1, <4>2, <4>3 DEF WriteMarker
        <4>5. \A u \in Workers : at'[u] \notin {"start", "clear"}
          BY <1>3, <2>4, <4>1, <4>4, StepGoes DEF Clearing
        <4>6. QED
          BY <4>4, <4>5 DEF Kept
      <3>3. QED
        BY <3>1, <3>2
    <2>5. QED
      BY <2>1, <2>3, <2>4 DEF MarkInv
  <1>4. CASE Process
    BY <1>1, <1>4 DEF Process, CheckMarker, Listen, ShutsDown
  <1>5. CASE Crash \/ Lose \/ Approve
    BY <1>1, <1>5 DEF Crash, Lose, Approve
  <1>6. CASE Login
    <2>1. /\ UNCHANGED <<marker, history>>
          /\ \A v \in Workers : at'[v] = "idle"
      BY <1>6 DEF Login
    <2>2. QED
      BY <2>1 DEF MarkInv, Kept, history
  <1>7. ASSUME NEW marked \in BOOLEAN, MenuStop(marked) PROVE MarkInv'
    <2>1. last' \notin Workers
      BY <1>7, SetupServiceAssumption DEF MenuStop
    <2>2. ASSUME overlap' # "crossed", said' \in {"stopped", "disabled"}
          PROVE  Kept'
      BY <1>7, <2>2 DEF MenuStop, Kept
    <2>3. QED
      BY <2>1, <2>2 DEF MarkInv
  <1>8. QED
    <2>1. ASSUME NEW w \in Workers, Step(w) PROVE MarkInv'
      BY <1>3, <2>1 DEF MarkInv
    <2>2. QED
      BY <1>1, <1>2, <1>4, <1>5, <1>6, <1>7, <2>1 DEF Next, Environment, vars

\* What launchd does to the process leaves no server that was not there.
LEMMA NewProcess ==
  ASSUME NoProcess \/ Launch
  PROVE  StopInv'
  BY DEF NoProcess, Launch, StopInv, Ready

LEMMA OldProcess ==
  ASSUME StopInv, proc' = proc, sneaked' = sneaked,
         terminating => terminating', Said("stopped")' => Said("stopped")
  PROVE  StopInv'
  BY DEF StopInv, Ready

LEMMA UnloadStops ==
  ASSUME StopInv, Unload, UNCHANGED history
  PROVE  StopInv'
  <1>1. CASE NoProcess
    BY <1>1, NewProcess
  <1>2. CASE terminating' = TRUE /\ UNCHANGED <<proc, sneaked>>
    BY <1>2, OldProcess DEF Said, history
  <1>3. QED
    BY <1>1, <1>2 DEF Unload

LEMMA LoadStops ==
  ASSUME StopInv, Load, UNCHANGED history
  PROVE  StopInv'
  <1>1. CASE Launch
    BY <1>1, NewProcess
  <1>2. CASE UNCHANGED process
    BY <1>2, OldProcess DEF Said, history, process
  <1>3. QED
    BY <1>1, <1>2 DEF Load

LEMMA StopKept ==
  ASSUME TypeOK, MarkInv, StopInv, [Next]_vars
  PROVE  StopInv'
  <1>1. ASSUME UNCHANGED <<process, history>> PROVE StopInv'
    BY <1>1, OldProcess DEF process, history, Said
  <1>2. ASSUME NEW w \in Workers, Begin(w) PROVE StopInv'
    BY <1>2, PressGoes DEF StopInv, Said
  <1>3. ASSUME NEW w \in Workers, Step(w) PROVE StopInv'
    <2>1. CASE Remove(w) \/ Evict(w) \/ Unregister(w)
      <3>1. UNCHANGED history /\ (Unload \/ UNCHANGED process)
        BY <2>1 DEF Remove, Evict, Unregister, system
      <3>2. QED
        BY <1>1, <3>1, UnloadStops
    <2>2. CASE Register(w)
      <3>1. UNCHANGED history /\ (Load \/ UNCHANGED process)
        BY <2>2 DEF Register, system
      <3>2. QED
        BY <1>1, <3>1, LoadStops
    <2>3. CASE Kickstart(w)
      <3>1. UNCHANGED history /\ (Launch \/ UNCHANGED process)
        BY <2>3 DEF Kickstart
      <3>2. QED
        BY <1>1, <3>1, NewProcess
    <2>4. CASE StopFindsNothing(w) \/ StopReturns(w)
      <3>1. UNCHANGED <<proc, terminating>>
        BY <2>4 DEF StopFindsNothing, StopReturns
      <3>2. CASE StopReports(w) /\ ~Ready
        <4>1. CASE w = last
          BY <3>1, <3>2, <4>1 DEF StopReports, StopInv, Ready
        <4>2. CASE w # last
          BY <3>1, <3>2, <4>2, OldProcess DEF StopReports, Report, Said
        <4>3. QED
          BY <4>1, <4>2
      <3>3. QED
        BY <1>1, <2>4, <3>1, <3>2 DEF StopFindsNothing, StopReturns, process
    <2>5. CASE \E delivered \in BOOLEAN : Shutdown(w, delivered)
      <3>1. /\ UNCHANGED <<proc, sneaked, history>>
            /\ terminating => terminating'
        BY <2>5 DEF Shutdown
      <3>2. QED
        BY <3>1, OldProcess DEF history, Said
    <2>6. CASE LookForMarker(w) \/ ClearMarker(w) \/ StartLooks(w)
               \/ StartReturns(w) \/ AskService(w) \/ Add(w) \/ Look(w)
               \/ Delete(w) \/ WriteMarker(w) \/ WaitReturns(w)
      <3>1. UNCHANGED process
        BY <2>6 DEF LookForMarker, ClearMarker, StartLooks, StartReturns,
                    AskService, Add, Look, Delete, WriteMarker, WaitReturns, system
      <3>2. said' = said \/ said' # "stopped"
        BY <2>6 DEF LookForMarker, ClearMarker, StartLooks, StartReturns,
                    AskService, Add, Look, Delete, WriteMarker, WaitReturns, history, Report
      <3>3. overlap' \in {overlap, "crossed"}
        BY <1>3, StepSays
      <3>4. QED
        BY <3>1, <3>2, <3>3, OldProcess DEF process, Said
    <2>7. QED
      BY <1>3, <2>1, <2>2, <2>3, <2>4, <2>5, <2>6 DEF Step
  <1>4. CASE Process
    <2>1. CASE CheckMarker
      <3>1. Said("stopped") => marker
        BY DEF MarkInv, Said, Kept
      <3>2. QED
        BY <2>1, <3>1 DEF CheckMarker, StopInv, Said, Ready, history
    <2>2. CASE Listen
      BY <2>2 DEF Listen, StopInv, Said, Ready, history
    <2>3. CASE ShutsDown
      BY <2>3, NewProcess DEF ShutsDown
    <2>4. QED
      BY <1>4, <2>1, <2>2, <2>3 DEF Process
  <1>5. CASE Crash \/ Login
    BY <1>5, NewProcess DEF Crash, Login
  <1>6. CASE Lose
    BY <1>1, <1>6 DEF Lose
  <1>7. CASE Approve
    BY <1>7, LoadStops DEF Approve
  <1>8. ASSUME NEW marked \in BOOLEAN, MenuStop(marked) PROVE StopInv'
    BY <1>8 DEF MenuStop, StopInv, Ready
  <1>9. QED
    <2>1. UNCHANGED vars => StopInv'
      BY <1>1 DEF vars, system
    <2>2. QED
      BY <1>2, <1>3, <1>4, <1>5, <1>6, <1>7, <1>8, <2>1 DEF Next, Environment

LEMMA AloneKept ==
  ASSUME TypeOK, AloneInv, [Next]_vars
  PROVE  AloneInv'
  <1>1. ASSUME UNCHANGED <<reg, at, history>> PROVE AloneInv'
    BY <1>1 DEF AloneInv, history
  <1>2. ASSUME NEW w \in Workers, Begin(w) PROVE AloneInv'
    <2>1. ASSUME overlap' = "none" PROVE \A v \in Workers \ {w} : at'[v] = "idle"
      BY <1>2, <2>1, PressGoes DEF Busy
    <2>2. QED
      BY <1>2, <2>1, PressGoes DEF AloneInv
  <1>3. ASSUME NEW w \in Workers, Step(w), overlap' = "none"
        PROVE  AloneInv'
    <2>1. overlap = "none" /\ last' = last
      BY <1>3, StepSays
    <2>2. /\ w = last /\ said = "nothing"
          /\ \A v \in Workers \ {w} : at'[v] = "idle"
      BY <1>3, <2>1, StepGoes DEF AloneInv
    <2>3. said' # "nothing" => at'[w] = "idle"
      BY <1>3, <2>2, StepSays DEF Go, TypeOK
    <2>4. at'[w] \in {"bootout", "wait"} => reg' \in {"no", "lost"}
      <3>1. CASE Unregister(w)
        BY <3>1 DEF Unregister, Go, TypeOK, system
      <3>2. CASE Evict(w)
        <4>1. at'[w] \in {"bootout", "wait"} => at[w] = "bootout"
          BY <3>2, <1>3, StepGoes DEF Evict
        <4>2. QED
          BY <2>1, <3>2, <4>1 DEF Evict, AloneInv
      <3>3. CASE ~Unregister(w) /\ ~Evict(w)
        <4>1. at[w] \notin {"unregister", "bootout"}
          BY <1>3, <3>3
             DEF Step, LookForMarker, ClearMarker, StartLooks, Remove, Register,
                 Kickstart, StartReturns, AskService, Add, Look, Delete,
                 WriteMarker, StopFindsNothing, StopReturns, Shutdown,
                 WaitReturns
        <4>2. QED
          BY <1>3, <4>1, StepGoes
      <3>4. QED
        BY <3>1, <3>2, <3>3
    <2>5. said' = "disabled" => reg' \in {"no", "lost"}
      BY <1>3, <2>1, <2>2, StepSays DEF AloneInv
    <2>6. QED
      BY <2>1, <2>2, <2>3, <2>4, <2>5 DEF AloneInv
  <1>4. CASE Process
    BY <1>1, <1>4 DEF Process, CheckMarker, Listen, ShutsDown
  <1>5. CASE Crash
    BY <1>1, <1>5 DEF Crash
  <1>6. CASE Lose \/ Approve
    BY <1>6 DEF Lose, Approve, AloneInv, history
  <1>7. CASE Login
    <2>1. /\ UNCHANGED <<reg, history>>
          /\ \A v \in Workers : at'[v] = "idle"
      BY <1>7 DEF Login
    <2>2. QED
      BY <2>1 DEF AloneInv, history
  <1>8. ASSUME NEW marked \in BOOLEAN, MenuStop(marked) PROVE AloneInv'
    BY <1>8 DEF MenuStop, AloneInv
  <1>9. QED
    <2>1. ASSUME NEW w \in Workers, Step(w) PROVE AloneInv'
      BY <1>3, <2>1 DEF AloneInv
    <2>2. UNCHANGED vars => AloneInv'
      BY <1>1 DEF vars, system
    <2>3. QED
      BY <1>2, <1>4, <1>5, <1>6, <1>7, <1>8, <2>1, <2>2 DEF Next, Environment

LEMMA QueueKept ==
  ASSUME TypeOK, AloneInv, QueueAsTold, [Next]_vars
  PROVE  QueueAsTold'
  <1>1. ASSUME UNCHANGED <<queue, history>> PROVE QueueAsTold'
    BY <1>1 DEF QueueAsTold, history
  <1>2. ASSUME NEW w \in Workers, Begin(w) PROVE QueueAsTold'
    BY <1>2, PressGoes DEF QueueAsTold
  <1>3. ASSUME NEW w \in Workers, Step(w), overlap' = "none"
        PROVE  QueueAsTold'
    <2>1. overlap = "none" /\ said = "nothing"
      BY <1>3, StepSays, StepGoes DEF AloneInv
    <2>2. QED
      BY <1>3, <2>1, StepSays DEF QueueAsTold
  <1>4. CASE Process
    BY <1>1, <1>4 DEF Process, CheckMarker, Listen, ShutsDown
  <1>5. CASE Crash \/ Lose \/ Login \/ Approve
    BY <1>1, <1>5 DEF Crash, Lose, Login, Approve
  <1>6. ASSUME NEW marked \in BOOLEAN, MenuStop(marked) PROVE QueueAsTold'
    BY <1>6 DEF MenuStop, QueueAsTold
  <1>7. QED
    <2>1. ASSUME NEW w \in Workers, Step(w) PROVE QueueAsTold'
      BY <1>3, <2>1 DEF QueueAsTold
    <2>2. UNCHANGED vars => QueueAsTold'
      BY <1>1 DEF vars
    <2>3. QED
      BY <1>2, <1>4, <1>5, <1>6, <2>1, <2>2 DEF Next, Environment

LEMMA InitInv == Init => IInv
  <1>1. SUFFICES ASSUME Init PROVE IInv
    OBVIOUS
  <1>2. 0 \in 0..MaxDisturbances
    BY SetupServiceAssumption
  <1>3. TypeOK
    BY <1>1, <1>2 DEF Init, TypeOK, Procs, Places
  <1>4. MarkInv /\ StopInv /\ AloneInv /\ QueueAsTold
    BY <1>1, SetupServiceAssumption
       DEF Init, MarkInv, StopInv, AloneInv, QueueAsTold, Ready
  <1>5. QED
    BY <1>3, <1>4 DEF IInv, SInv

LEMMA NextInv == ASSUME IInv, [Next]_vars PROVE IInv'
  BY TypeKept, MarkKept, StopKept, AloneKept, QueueKept DEF IInv, SInv

THEOREM Inductive == Spec => []IInv
  BY InitInv, NextInv, PTL DEF Spec

-----------------------------------------------------------------------------
(* What the invariant gives                                                *)

\* Every variable keeps its type, a service without a registration has no job,
\* and its process only runs on without one to shut down.
THEOREM TypeCorrect == Spec => []TypeOK
  <1>1. IInv => TypeOK
    BY DEF IInv, SInv
  <1>2. QED
    BY <1>1, Inductive, PTL

\* A stop that was reported holds, whatever happens to the service and whatever
\* other operation is under way, but for the two windows StopHolds names.
THEOREM StopIsKept == Spec => []StopHolds
  <1>1. IInv => StopHolds
    BY DEF IInv, SInv, StopInv, StopHolds
  <1>2. QED
    BY <1>1, Inductive, PTL

\* No process gets past the marker any more once a stop or a disable has
\* reported success.
THEOREM NothingComesUp == Spec => StaysDown
  <1>1. ASSUME IInv, [Next]_vars, Said("stopped") \/ Said("disabled")
        PROVE  ~(proc = "check" /\ proc' = "boot")
    <2>1. SUFFICES ASSUME proc = "check", proc' = "boot" PROVE FALSE
      OBVIOUS
    <2>2. marker
      BY <1>1 DEF IInv, SInv, MarkInv, Said, Kept
    <2>3. UNCHANGED proc \/ NoProcess \/ Launch \/ CheckMarker
      <3>1. ASSUME NEW w \in Workers, Begin(w) PROVE UNCHANGED proc
        BY <3>1 DEF Begin, Press, system, process
      <3>2. ASSUME NEW w \in Workers, Step(w)
            PROVE  UNCHANGED proc \/ NoProcess \/ Launch
        <4>1. CASE Remove(w) \/ Evict(w) \/ Register(w) \/ Kickstart(w)
                   \/ Unregister(w)
          BY <4>1 DEF Remove, Evict, Register, Kickstart, Unregister, Unload,
                      Load, system, process
        <4>2. CASE ~(Remove(w) \/ Evict(w) \/ Register(w) \/ Kickstart(w)
                     \/ Unregister(w))
          BY <3>2, <4>2
             DEF Step, LookForMarker, ClearMarker, StartLooks, StartReturns,
                 AskService, Add, Look, Delete, WriteMarker, StopFindsNothing,
                 StopReturns, Shutdown, WaitReturns, system,
                 process
        <4>3. QED
          BY <4>1, <4>2
      <3>3. Environment => UNCHANGED proc \/ NoProcess \/ Launch
        BY DEF Environment, Crash, Lose, Login, Approve, MenuStop, Load, process
      <3>4. Process => NoProcess \/ CheckMarker
        BY <2>1 DEF Process, Listen, ShutsDown
      <3>5. QED
        BY <1>1, <3>1, <3>2, <3>3, <3>4 DEF Next, vars, system, process
    <2>4. QED
      BY <2>1, <2>2, <2>3 DEF NoProcess, Launch, CheckMarker
  <1>2. [Next]_vars /\ IInv =>
          [Said("stopped") \/ Said("disabled") =>
             ~(proc = "check" /\ proc' = "boot")]_vars
    BY <1>1
  <1>3. QED
    BY <1>2, Inductive, PTL DEF Spec, StaysDown

\* After a disable that reported success, alone, there is no registration that
\* SMAppService knows, no job and no process that stays.
THEOREM DisableIsComplete == Spec => []DisabledIsUnregistered
  <1>1. IInv => DisabledIsUnregistered
    BY DEF IInv, SInv, TypeOK, AloneInv, DisabledIsUnregistered
  <1>2. QED
    BY <1>1, Inductive, PTL

\* The queue is as the operation that reported last said it is, but for a lpstat
\* that failed.
THEOREM QueueIsAsTold == Spec => []QueueAsTold
  <1>1. IInv => QueueAsTold
    BY DEF IInv
  <1>2. QED
    BY <1>1, Inductive, PTL

-----------------------------------------------------------------------------
(* Uninstall                                                               *)

OwnTypes ==
  /\ script \in Steps \cup {"none", "done", "failed"}
  /\ {data, receipt, calm, late} \subseteq BOOLEAN
  /\ apps \subseteq Copies
  /\ app \in Copies
  /\ stray \in {"none", "running", "ending"}
  /\ skipped \subseteq Copies \cup {"queue", "stray", "receipt"}
  /\ app \notin apps =>
       script \in {"current", "names", "receipt", "done", "failed"}

\* The helper works while the script waits for it, the buttons rest while nobody
\* uses them, and past unregister there is nothing SMAppService knows.
HelperInv ==
  /\ at[Helper] # "idle" <=> script = "prepare"
  /\ at[Helper] \in {"idle", "prepare", "remove3", "evict3", "leave"}
  /\ calm => \A w \in Workers \ {Helper} : at[w] = "idle"
  /\ calm /\ at[Helper] \in {"remove3", "evict3", "leave"} =>
       reg \in {"no", "lost"}

\* The run failed after the application it was started from had gone.
Half == script = "failed" /\ app \notin apps

\* What each step of the script leaves behind is gone for the steps after it.
CleanInv ==
  calm =>
    /\ script \in {"bootout", "queue", "kill", "data", "receipt", "done"}
                    \cup AppSteps \/ Half => reg \in {"no", "lost"}
    /\ script \in {"kill", "data", "receipt", "done"} \cup AppSteps \/ Half =>
         (queue => "queue" \in skipped)
    /\ script \in {"data", "receipt", "done"} \cup AppSteps =>
         (stray = "running" => "stray" \in skipped)
    /\ script \in {"receipt", "done"} \cup AppSteps \/ Half =>
         (reg = "no" /\ data => late)
    /\ script \in {"current", "names", "receipt", "done"} =>
         {"versioned"} \cap apps \subseteq skipped
    /\ script \in {"names", "receipt", "done"} =>
         {app} \cap apps \cap Known \subseteq skipped
    /\ script \in {"receipt", "done"} => {"fixed"} \cap apps \subseteq skipped
    /\ script = "done" => (receipt => "receipt" \in skipped)

UInv == SInv /\ OwnTypes /\ HelperInv /\ CleanInv

\* For the service, a step of the machine is one of its own or the script's.
LEMMA ServiceSteps ==
  ASSUME TypeOK, [UNext]_uvars
  PROVE  [Next]_vars \/ ScriptMove
  <1>1. CASE BeginScript
    BY <1>1 DEF BeginScript, ScriptMove
  <1>2. CASE Prepare
    BY <1>2, UninstallAssumption DEF Prepare, Next
  <1>3. CASE Bootout
    BY <1>3 DEF Bootout, ScriptMove, vars, system
  <1>4. CASE RemoveQueue
    BY <1>4 DEF RemoveQueue, ScriptMove, TypeOK
  <1>5. CASE KillStray
    BY <1>5 DEF KillStray, ScriptMove, vars, system, process
  <1>6. CASE RemoveData \/ RemoveApps \/ ForgetReceipt \/ StrayEnds
    BY <1>6 DEF RemoveData, RemoveApps, ForgetReceipt, StrayEnds
  <1>7. CASE Service
    <2>1. CASE Writes
      BY <2>1 DEF Writes, Next, Step, Process
    <2>2. CASE MenuUsed
      BY <2>2 DEF MenuUsed, Next, Environment
    <2>3. CASE RestOfService
      BY <2>3 DEF RestOfService, Next, Process, Environment
    <2>4. QED
      BY <1>7, <2>1, <2>2, <2>3 DEF Service
  <1>8. CASE UNCHANGED uvars
    BY <1>8 DEF uvars
  <1>9. QED
    BY <1>1, <1>2, <1>3, <1>4, <1>5, <1>6, <1>7, <1>8 DEF UNext, Script

LEMMA ScriptKeeps ==
  ASSUME SInv, ScriptMove
  PROVE  SInv'
  <1>1. TypeOK /\ MarkInv /\ StopInv /\ SystemTypes
    BY TypeParts DEF SInv
  <1>2. CASE BeginPrepare(Helper)
    <2>1. /\ at' \in [Workers -> Places]
          /\ \A v \in Workers \ {Helper} : at'[v] = at[v]
          /\ at'[Helper] = "prepare"
      BY <1>1, <1>2, UninstallAssumption, GoTyped DEF BeginPrepare, Places
    <2>2. /\ UNCHANGED <<marker, system, queue, disturbances, last, said>>
          /\ overlap' \in {"crossed", "some"}
          /\ overlap' = "crossed" <=> overlap = "crossed"
      BY <1>2 DEF BeginPrepare
    <2>3. TypeOK'
      <3>1. SystemTypes'
        BY <1>1, <2>2 DEF SystemTypes, system, process
      <3>2. PlainTypes'
        BY <1>1, <2>2, TypeParts DEF PlainTypes
      <3>3. QED
        BY <2>1, <3>1, <3>2 DEF TypeOK, SystemTypes, PlainTypes
    <2>4. MarkInv'
      BY <1>1, <2>1, <2>2 DEF MarkInv, Kept
    <2>5. StopInv'
      BY <1>1, <2>2, OldProcess DEF Said, system, process
    <2>6. QED
      BY <2>3, <2>4, <2>5 DEF SInv
  <1>3. CASE /\ job /\ Unload
             /\ UNCHANGED <<marker, reg, queue, disturbances, at, history>>
    <2>1. SystemTypes'
      BY <1>1, <1>3, UnloadTyped
    <2>2. TypeOK'
      BY <1>1, <1>3, <2>1 DEF TypeOK, SystemTypes, history
    <2>3. MarkInv' /\ StopInv'
      BY <1>1, <1>3, UnloadStops DEF MarkInv, Kept, history
    <2>4. QED
      BY <2>2, <2>3 DEF SInv
  <1>4. CASE /\ terminating' = (terminating \/ Ready)
             /\ UNCHANGED <<marker, reg, job, proc, sneaked, queue, disturbances,
                            at, history>>
    <2>1. TypeOK'
      <3>1. SystemTypes'
        BY <1>1, <1>4 DEF SystemTypes, Ready
      <3>2. QED
        BY <1>1, <1>4, <3>1 DEF TypeOK, SystemTypes, history
    <2>2. MarkInv'
      BY <1>1, <1>4 DEF MarkInv, Kept, history
    <2>3. StopInv'
      BY <1>1, <1>4, OldProcess DEF Said, history
    <2>4. QED
      BY <2>1, <2>2, <2>3 DEF SInv
  <1>5. CASE /\ queue' \in BOOLEAN
             /\ UNCHANGED <<marker, system, disturbances, at, history>>
    <2>1. TypeOK'
      <3>1. SystemTypes'
        BY <1>1, <1>5 DEF SystemTypes, system, process
      <3>2. PlainTypes'
        BY <1>1, <1>5, TypeParts DEF PlainTypes, history
      <3>3. QED
        BY <1>1, <1>5, <3>1, <3>2 DEF TypeOK, SystemTypes, PlainTypes
    <2>2. MarkInv'
      BY <1>1, <1>5 DEF MarkInv, Kept, history
    <2>3. StopInv'
      BY <1>1, <1>5, OldProcess DEF Said, history, system, process
    <2>4. QED
      BY <2>1, <2>2, <2>3 DEF SInv
  <1>6. QED
    BY <1>2, <1>3, <1>4, <1>5 DEF ScriptMove

LEMMA SKept ==
  ASSUME SInv, [UNext]_uvars
  PROVE  SInv'
  <1>1. CASE [Next]_vars
    BY <1>1, TypeKept, MarkKept, StopKept DEF SInv
  <1>2. CASE ScriptMove
    BY <1>2, ScriptKeeps
  <1>3. QED
    BY <1>1, <1>2, ServiceSteps DEF SInv

LEMMA OwnTypesKept ==
  ASSUME OwnTypes, [UNext]_uvars
  PROVE  OwnTypes'
  <1> USE DEF OwnTypes, Reach
  <1>1. CASE BeginScript \/ Prepare
    BY <1>1 DEF BeginScript, Prepare, mess, Steps
  <1>2. CASE Bootout \/ RemoveQueue
    BY <1>2 DEF Bootout, RemoveQueue, PassOver, mess, Steps
  <1>3. CASE KillStray
    BY <1>3 DEF KillStray, PassOver, Steps
  <1>4. CASE RemoveData
    BY <1>4 DEF RemoveData, Steps, AppSteps
  <1>5. CASE RemoveApps
    <2>1. Expected \subseteq apps
      BY <1>5 DEF RemoveApps, Expected, AppSteps
    <2>2. /\ apps' \subseteq apps
          /\ skipped' \subseteq Copies \cup {"queue", "stray", "receipt"}
      BY <1>5, <2>1 DEF RemoveApps, PassOver
    <2>3. script' \in {"current", "names", "receipt", "failed"}
      BY <1>5 DEF RemoveApps, AppSteps
    <2>4. UNCHANGED <<data, receipt, app, stray, calm, late>>
      BY <1>5 DEF RemoveApps
    <2>5. QED
      BY <2>2, <2>3, <2>4 DEF Steps, AppSteps
  <1>6. CASE ForgetReceipt
    BY <1>6 DEF ForgetReceipt, PassOver
  <1>7. CASE Service
    <2>1. data' \in BOOLEAN /\ calm' \in BOOLEAN /\ late' \in BOOLEAN
      BY <1>7 DEF Service
    <2>2. UNCHANGED <<script, receipt, app, apps, stray, skipped>>
      BY <1>7 DEF Service
    <2>3. QED
      BY <2>1, <2>2
  <1>8. CASE StrayEnds
    BY <1>8 DEF StrayEnds
  <1>9. CASE UNCHANGED uvars
    BY <1>9 DEF uvars, mess
  <1>10. QED
    BY <1>1, <1>2, <1>3, <1>4, <1>5, <1>6, <1>7, <1>8, <1>9 DEF UNext, Script

\* What the service does while nobody uses the application.
LEMMA CalmService ==
  ASSUME SInv, HelperInv, Service, calm'
  PROVE  /\ calm
         /\ UNCHANGED <<at, queue>>
         /\ reg \in {"no", "lost"} => reg' \in {"no", "lost"}
         /\ reg' = "no" => reg = "no"
         /\ late => late'
         /\ data' /\ ~data /\ reg = "no" => late'
  <1>1. calm /\ UNCHANGED at /\ ~MenuUsed /\ (late => late')
    BY DEF Service
  <1>2. TypeOK
    BY DEF SInv
  <1>3. ASSUME NEW w \in Workers \ {Helper} PROVE ~Step(w) /\ ~Begin(w)
    <2>1. at[w] = "idle"
      BY <1>1 DEF HelperInv
    <2>2. ~Step(w)
      BY <1>2, <2>1, StepGoes
    <2>3. ~Begin(w)
      BY <1>1, <1>2, <2>1, PressGoes
    <2>4. QED
      BY <2>2, <2>3
  <1>4. CASE Writes
    <2>1. CheckMarker \/ ShutsDown
      BY <1>3, <1>4 DEF Writes, Step
    <2>2. UNCHANGED <<queue, reg>>
      BY <2>1 DEF CheckMarker, ShutsDown
    <2>3. reg = "no" => terminating
      BY <1>2, <2>1 DEF TypeOK, CheckMarker, ShutsDown
    <2>4. QED
      BY <1>1, <2>2, <2>3 DEF Service
  <1>5. CASE RestOfService /\ UNCHANGED data
    <2>1. Listen \/ Crash \/ Lose \/ Approve \/ Login
      BY <1>3, <1>5 DEF RestOfService
    <2>2. /\ UNCHANGED queue
          /\ reg \in {"no", "lost"} => reg' \in {"no", "lost"}
          /\ reg' = "no" => reg = "no"
      BY <2>1 DEF Listen, Crash, Lose, Approve, Login
    <2>3. QED
      BY <1>1, <1>5, <2>2
  <1>6. QED
    BY <1>1, <1>4, <1>5 DEF Service

LEMMA HelperKept ==
  ASSUME SInv, HelperInv, [UNext]_uvars
  PROVE  HelperInv'
  <1>1. TypeOK /\ Helper \in Workers
    BY UninstallAssumption DEF SInv
  <1>2. CASE BeginScript
    <2>1. script # "prepare" /\ at[Helper] = "idle"
      BY <1>2 DEF BeginScript, HelperInv
    <2>2. CASE BeginPrepare(Helper) /\ Reach("prepare")
      <3>1. /\ \A v \in Workers \ {Helper} : at'[v] = at[v]
            /\ at'[Helper] = "prepare" /\ script' = "prepare"
        BY <1>1, <2>2, GoTyped DEF BeginPrepare, Reach, Places
      <3>2. calm' => \A v \in Workers \ {Helper} : at[v] = "idle"
        BY <1>2 DEF BeginScript
      <3>3. QED
        BY <3>1, <3>2 DEF HelperInv
    <2>3. CASE UNCHANGED vars /\ Reach("failed")
      <3>1. at' = at /\ script' = "failed"
        BY <2>3 DEF vars, Reach
      <3>2. calm' => \A v \in Workers \ {Helper} : at[v] = "idle"
        BY <1>2 DEF BeginScript
      <3>3. QED
        BY <2>1, <3>1, <3>2 DEF HelperInv
    <2>4. QED
      BY <1>2, <2>2, <2>3 DEF BeginScript
  <1>3. CASE Prepare
    <2>1. /\ Step(Helper) /\ calm' = calm
          /\ \A v \in Workers \ {Helper} : at'[v] = at[v]
      BY <1>1, <1>3, StepGoes DEF Prepare
    <2>2. at[Helper] \in {"prepare", "remove3", "evict3", "leave"}
      BY <1>3 DEF Prepare, HelperInv
    <2>3. Unregister(Helper) \/ Remove(Helper) \/ Evict(Helper)
            \/ WaitReturns(Helper)
      BY <2>1, <2>2
         DEF Step, LookForMarker, ClearMarker, StartLooks, Register, Kickstart,
             StartReturns, AskService, Add, Look, Delete, WriteMarker,
             StopFindsNothing, StopReturns, Shutdown
    <2>4. /\ at'[Helper] \in {"idle", "remove3", "evict3", "leave"}
          /\ calm /\ at'[Helper] # "idle" => reg' \in {"no", "lost"}
      <3>1. CASE Unregister(Helper)
        BY <1>1, <2>2, <3>1 DEF Unregister, Go, TypeOK, system
      <3>2. CASE Remove(Helper)
        BY <1>1, <2>2, <3>2 DEF Remove, Go, TypeOK, system, HelperInv
      <3>3. CASE Evict(Helper)
        BY <1>1, <2>2, <3>3 DEF Evict, Go, TypeOK, HelperInv
      <3>4. CASE WaitReturns(Helper)
        BY <1>1, <3>4 DEF WaitReturns, Report, Go, TypeOK
      <3>5. QED
        BY <2>3, <3>1, <3>2, <3>3, <3>4
    <2>5. at'[Helper] # "idle" <=> script' = "prepare"
      BY <1>3 DEF Prepare, Reach
    <2>6. QED
      BY <2>1, <2>4, <2>5 DEF HelperInv
  <1>4. CASE Bootout \/ RemoveQueue \/ KillStray \/ RemoveData \/ RemoveApps
             \/ ForgetReceipt \/ StrayEnds
    <2>1. UNCHANGED <<at, reg, calm>>
      BY <1>4 DEF Bootout, RemoveQueue, KillStray, RemoveData, RemoveApps,
                  ForgetReceipt, StrayEnds, vars, system
    <2>2. (script' = "prepare" <=> script = "prepare")
      BY <1>4 DEF Bootout, RemoveQueue, KillStray, RemoveData, RemoveApps,
                  ForgetReceipt, StrayEnds, Reach, AppSteps
    <2>3. QED
      BY <2>1, <2>2 DEF HelperInv
  <1>5. CASE Service
    <2>1. CASE calm'
      <3>1. UNCHANGED <<at, script>> /\ calm
            /\ (reg \in {"no", "lost"} => reg' \in {"no", "lost"})
        BY <1>5, <2>1, CalmService DEF Service
      <3>2. QED
        BY <2>1, <3>1 DEF HelperInv
    <2>2. CASE ~calm'
      <3>1. script' = script
        BY <1>5 DEF Service
      <3>2. at'[Helper] = at[Helper]
        <4>1. ASSUME NEW w \in Workers \ {Helper}, Begin(w) \/ Step(w)
              PROVE  at'[Helper] = at[Helper]
          BY <1>1, <4>1, StepGoes, PressGoes
        <4>2. CASE Writes
          BY <4>1, <4>2 DEF Writes, Step, CheckMarker, ShutsDown
        <4>3. CASE MenuUsed
          BY <4>3 DEF MenuUsed, MenuStop
        <4>4. CASE RestOfService
          <5>1. CASE ~Running /\ Login
            <6>1. at[Helper] = "idle"
              BY <5>1 DEF Running, Steps, HelperInv
            <6>2. QED
              BY <1>1, <5>1, <6>1 DEF Login
          <5>2. CASE Listen \/ Crash \/ Lose \/ Approve
            BY <5>2 DEF Listen, Crash, Lose, Approve
          <5>3. QED
            BY <4>1, <4>4, <5>1, <5>2 DEF RestOfService
        <4>5. QED
          BY <1>5, <4>2, <4>3, <4>4 DEF Service
      <3>3. QED
        BY <2>2, <3>1, <3>2 DEF HelperInv
    <2>3. QED
      BY <2>1, <2>2
  <1>6. CASE UNCHANGED uvars
    BY <1>6 DEF uvars, vars, system, HelperInv
  <1>7. QED
    BY <1>2, <1>3, <1>4, <1>5, <1>6 DEF UNext, Script

LEMMA CleanKept ==
  ASSUME SInv, OwnTypes, HelperInv, CleanInv, [UNext]_uvars
  PROVE  CleanInv'
  <1>1. TypeOK /\ Helper \in Workers
    BY UninstallAssumption DEF SInv
  <1>2. CASE BeginScript
    <2>1. script' \in {"prepare", "failed"} /\ app' \in apps'
      BY <1>2 DEF BeginScript, Reach, mess
    <2>2. QED
      BY <2>1 DEF CleanInv, Half, AppSteps
  <1>3. CASE Prepare
    <2>1. UNCHANGED <<mess, skipped, calm, late>> /\ app \in apps
      BY <1>3 DEF Prepare, OwnTypes
    <2>2. CASE script' = "bootout"
      <3>1. at[Helper] = "leave" /\ Step(Helper)
        BY <1>3, <2>2 DEF Prepare, Reach
      <3>2. UNCHANGED reg
        BY <3>1 DEF Step, LookForMarker, ClearMarker, StartLooks, Remove, Evict,
                    Register, Kickstart, StartReturns, AskService, Add, Look,
                    Delete, WriteMarker, StopFindsNothing, StopReturns, Shutdown,
                    Unregister, WaitReturns, system
      <3>3. calm' => reg' \in {"no", "lost"}
        BY <2>1, <3>1, <3>2 DEF HelperInv
      <3>4. QED
        BY <2>2, <3>3 DEF CleanInv, Half, AppSteps
    <2>3. CASE script' \in {"prepare", "failed"}
      BY <2>1, <2>3 DEF CleanInv, Half, AppSteps, mess
    <2>4. QED
      BY <1>3, <2>2, <2>3 DEF Prepare, Reach
  <1>4. CASE Bootout
    <2>1. script = "bootout" /\ script' = "queue" /\ UNCHANGED <<reg, calm>>
      BY <1>4 DEF Bootout, Reach
    <2>2. QED
      BY <2>1 DEF CleanInv, Half, AppSteps
  <1>5. CASE RemoveQueue
    <2>1. /\ script = "queue" /\ script' \in {"kill", "failed"}
          /\ app \in apps /\ UNCHANGED <<reg, calm, app, apps>>
          /\ script' = "kill" => (queue' => "queue" \in skipped')
      BY <1>5 DEF RemoveQueue, Reach, PassOver, mess, system, OwnTypes
    <2>2. QED
      BY <2>1 DEF CleanInv, Half, AppSteps
  <1>6. CASE KillStray
    <2>1. /\ script = "kill" /\ script' = "data"
          /\ UNCHANGED <<reg, queue, calm, app, apps>>
          /\ skipped \subseteq skipped'
          /\ stray' = "running" => "stray" \in skipped'
      BY <1>6 DEF KillStray, Reach, PassOver
    <2>2. QED
      BY <2>1 DEF CleanInv, Half, AppSteps
  <1>7. CASE RemoveData
    <2>1. /\ script = "data" /\ script' \in {"versions", "failed"}
          /\ script' = "versions" => ~data'
          /\ app \in apps
          /\ UNCHANGED <<reg, queue, calm, app, apps, stray, skipped>>
      BY <1>7 DEF RemoveData, Reach, OwnTypes, vars, system
    <2>2. QED
      BY <2>1 DEF CleanInv, Half, AppSteps
  <1>8. CASE RemoveApps
    <2>1. /\ UNCHANGED <<reg, queue, data, receipt, app, stray, calm, late>>
          /\ skipped \subseteq skipped' /\ apps' \subseteq apps
      BY <1>8 DEF RemoveApps, PassOver, vars, system
    <2>2. ASSUME script' # "failed"
          PROVE  /\ Expected \cap apps' \subseteq skipped'
                 /\ script' = CASE script = "versions" -> "current"
                                [] script = "current" -> "names"
                                [] script = "names" -> "receipt"
      <3>1. \E a : Expected \subseteq {a}
        BY <1>8 DEF RemoveApps, Expected, AppSteps
      <3>2. CASE apps' = apps \ Expected
        BY <1>8, <2>2, <3>2 DEF RemoveApps, Reach
      <3>3. CASE \E a \in Expected : PassOver(a)
        BY <1>8, <2>2, <3>1, <3>3 DEF RemoveApps, Reach, PassOver
      <3>4. QED
        BY <1>8, <2>2, <3>2, <3>3 DEF RemoveApps, Reach
    <2>3. CASE script' = "failed"
      BY <1>8, <2>1, <2>3 DEF RemoveApps, CleanInv, Half, AppSteps
    <2>4. CASE script = "versions" /\ script' # "failed"
      <3>1. script' = "current" /\ {"versioned"} \cap apps' \subseteq skipped'
        BY <2>1, <2>2, <2>4 DEF Expected
      <3>2. QED
        BY <2>1, <2>4, <3>1 DEF CleanInv, Half, AppSteps
    <2>5. CASE script = "current" /\ script' # "failed"
      <3>1. /\ script' = "names"
            /\ {app} \cap apps' \cap Known \subseteq skipped'
        BY <2>1, <2>2, <2>5 DEF Expected
      <3>2. QED
        BY <2>1, <2>5, <3>1 DEF CleanInv, Half, AppSteps
    <2>6. CASE script = "names" /\ script' # "failed"
      <3>1. script' = "receipt" /\ {"fixed"} \cap apps' \subseteq skipped'
        BY <2>1, <2>2, <2>6 DEF Expected
      <3>2. QED
        BY <2>1, <2>6, <3>1 DEF CleanInv, Half, AppSteps
    <2>7. QED
      BY <1>8, <2>3, <2>4, <2>5, <2>6 DEF RemoveApps, AppSteps
  <1>9. CASE ForgetReceipt
    <2>1. /\ UNCHANGED <<reg, queue, data, app, apps, stray, calm, late>>
          /\ skipped \subseteq skipped'
          /\ script = "receipt" /\ script' \in {"done", "failed"}
          /\ script' = "done" => (receipt' => "receipt" \in skipped')
      BY <1>9 DEF ForgetReceipt, PassOver, Reach, vars, system
    <2>2. QED
      BY <2>1 DEF CleanInv, Half, AppSteps
  <1>10. CASE Service /\ calm'
    <2>1. UNCHANGED <<script, receipt, app, apps, stray, skipped>>
      BY <1>10 DEF Service
    <2>2. /\ calm /\ UNCHANGED <<at, queue>> /\ (late => late')
          /\ reg \in {"no", "lost"} => reg' \in {"no", "lost"}
          /\ reg' = "no" => reg = "no"
          /\ data' /\ ~data /\ reg = "no" => late'
      BY <1>10, CalmService
    <2>3. (reg = "no" /\ data => late) => (reg' = "no" /\ data' => late')
      BY <2>2
    <2>4. QED
      BY <2>1, <2>2, <2>3 DEF CleanInv, Half
  <1>11. CASE StrayEnds
    <2>1. /\ UNCHANGED <<reg, queue, script, receipt, app, apps, skipped, calm>>
          /\ stray' # "running"
          /\ data' => data \/ late'
          /\ late => late'
      BY <1>11 DEF StrayEnds, vars, system
    <2>2. QED
      BY <2>1 DEF CleanInv, Half
  <1>12. CASE UNCHANGED uvars
    BY <1>12 DEF uvars, vars, system, mess, CleanInv, Half
  <1>13. QED
    <2>1. ~calm' => CleanInv'
      BY DEF CleanInv
    <2>2. QED
      BY <1>2, <1>3, <1>4, <1>5, <1>6, <1>7, <1>8, <1>9, <1>10, <1>11, <1>12, <2>1
         DEF UNext, Script

LEMMA UInitInv == UInit => UInv
  <1>1. SUFFICES ASSUME UInit PROVE UInv
    OBVIOUS
  <1>2. SInv
    BY <1>1, InitInv DEF UInit, IInv
  <1>3. OwnTypes
    BY <1>1 DEF UInit, OwnTypes
  <1>4. at[Helper] = "idle" /\ script = "none" /\ \A w \in Workers : at[w] = "idle"
    BY <1>1, UninstallAssumption DEF UInit, Init
  <1>5. HelperInv /\ CleanInv
    BY <1>4 DEF HelperInv, CleanInv, Half, AppSteps
  <1>6. QED
    BY <1>2, <1>3, <1>5 DEF UInv

LEMMA UNextInv == ASSUME UInv, [UNext]_uvars PROVE UInv'
  BY SKept, OwnTypesKept, HelperKept, CleanKept DEF UInv

THEOREM UInductive == USpec => []UInv
  BY UInitInv, UNextInv, PTL DEF USpec

\* The types of the service and of the script, with the order of the script:
\* the application goes after everything that only its script cleans up.
THEOREM UTypeCorrect == USpec => []UTypeOK
  <1>1. UInv => UTypeOK
    BY DEF UInv, SInv, OwnTypes, UTypeOK
  <1>2. QED
    BY <1>1, UInductive, PTL

\* When the script reports success all is gone but what a command silently took
\* for absent, whichever copies of the application were installed.
THEOREM SuccessIsClean == USpec => []DoneIsClean
  <1>1. ASSUME UInv, script = "done", calm PROVE ServiceGone
    BY <1>1 DEF UInv, SInv, TypeOK, CleanInv, ServiceGone
  <1>2. ASSUME UInv, script = "done", calm
        PROVE  /\ stray = "running" => "stray" \in skipped
               /\ queue => "queue" \in skipped
               /\ receipt => "receipt" \in skipped
               /\ apps \cap ({"versioned", "fixed"} \cup ({app} \cap Known))
                    \subseteq skipped
    BY <1>2 DEF UInv, CleanInv
  <1>3. UInv => DoneIsClean
    BY <1>1, <1>2 DEF DoneIsClean
  <1>4. QED
    BY <1>3, UInductive, PTL

\* A run that fails after the application it was started from has gone has
\* cleaned up the service, its files and the queue before.
THEOREM FailureCanBeRepeated == USpec => []FailureIsRepeatable
  <1>1. ASSUME UInv, script = "failed", app \notin apps, calm
        PROVE  ServiceGone /\ (queue => "queue" \in skipped)
    BY <1>1 DEF UInv, SInv, TypeOK, CleanInv, Half, ServiceGone
  <1>2. UInv => FailureIsRepeatable
    BY <1>1 DEF FailureIsRepeatable
  <1>3. QED
    BY <1>2, UInductive, PTL

\* A stop that was reported holds while the script runs, too.
THEOREM StopIsKeptByScript == USpec => []StopHolds
  <1>1. UInv => StopHolds
    BY DEF UInv, SInv, StopInv, StopHolds
  <1>2. QED
    BY <1>1, UInductive, PTL
=============================================================================
