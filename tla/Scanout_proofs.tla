--------------------------- MODULE Scanout_proofs ---------------------------
(***************************************************************************)
(* The type invariant of Scanout; that descriptor pools outlive the frames *)
(* on the GPU and that acks and buffer phases agree; that no buffer on the *)
(* screen is drawn into, completions retire their own frame and commits    *)
(* are not made in vain; and that what is out of date stays damaged: for   *)
(* any number of buffers, slots, rects and faults.                         *)
(***************************************************************************)
EXTENDS Scanout, WellFoundedInduction, TLAPS

-----------------------------------------------------------------------------
(* The inductive invariant.                                                 *)

\* The frames that hold a slot.
Frames == {JobOf(a) : a \in InFlight} \cup deferred \cup failed

\* One owner for every slot, whatever list it is on, and for every unfinished frame.
SlotsHeld ==
    /\ gpu \subseteq Frames
    /\ \A j \in Frames : j.slot \in inUse
    /\ \A i, j \in Frames : i.slot = j.slot => i = j
    /\ \A a \in InFlight : JobOf(a) \notin deferred \cup failed
    /\ deferred \cap failed = {}

\* The buffers of refused flips, which the reset of DPMS and the seat may free before
\* the tick recycles them.
FailedHeld ==
    /\ \A j \in failed : phase[j.bo] \in {"Recording", "Free"}
    /\ \A j \in failed \cap gpu : phase[j.bo] = "Recording"
    /\ \A i, j \in failed : i.bo = j.bo => i = j

\* How far the server's books can be trusted about the kernel's flips.
Asleep ==
    /\ pc = "drm" => queue > 0
    /\ ~lit \/ seat # "Active" => flip = Off /\ InPhase("Pending") = {}
    /\ scan = Off => ~lit \/ untracked

\* The Pending buffer is the one of the flip under way, or on the screen with its
\* completion unread, and then the only one the GPU may not have finished.
PendingFlips ==
    \A b \in InPhase("Pending") :
        \/ flip = b
        \/ /\ flip = Off /\ scan = b /\ queue > 0 /\ ~untracked
           /\ \A j \in gpu : j.bo = b

\* Unless a flip was forgotten, a flip under way and an unread completion are those
\* of the Pending buffer, and not both.
NoStray ==
    ~outrun => /\ flip # Off => phase[flip] = "Pending" /\ queue = 0
               /\ queue > 0 => scan \in InPhase("Pending") /\ flip = Off

\* The buffer that a flip the server follows put on the screen is known to be there.
ScreenKnown ==
    ~untracked /\ scan \in Bos =>
        \/ phase[scan] = "Pending" /\ flip = Off /\ queue > 0
        \/ phase[scan] = "OnScreen" /\ ~outrun /\ queue = 0

\* An acknowledged frame that the GPU may not have finished is on the screen, or the
\* flip that replaced it was taken for done too early and is still to come.
DeferredShown ==
    \A i \in deferred \cap gpu :
        \/ phase[i.bo] = "OnScreen"
        \/ outrun /\ flip # Off /\ flip # i.bo /\ phase[i.bo] # "Pending"

FlipsFollowed == Asleep /\ PendingFlips /\ NoStray /\ ScreenKnown /\ DeferredShown

\* What is painted while a frame is in flight is damaged, dirty, and counted as
\* painted again if the frame holds it.
Kept(R, snap) == R \subseteq damage /\ R \cap snap \subseteq again /\ (R = {} \/ dirty)
InFlightKept ==
    \A a \in InFlight : /\ flip = a.bo => Kept(coming, a.snap)
                        /\ flip = Off => Kept(shown, a.snap)

-----------------------------------------------------------------------------
(* What the helpers return.                                                 *)

\* The order of the naturals as a relation.
Less == {p \in Nat \X Nat : p[1] < p[2]}

LEMMA LessWellFounded == IsWellFoundedOn(Less, Nat)
BY NatLessThanWellFounded, Zenon DEF OpToRel, Less

LEMMA LeastIn ==
  ASSUME NEW S \in SUBSET Nat, S # {}
  PROVE  Least(S) \in S
<1>1. PICK x \in S : \A y \in S : ~(<<y, x>> \in Less)
  BY WFMin, LessWellFounded
<1>2. ASSUME NEW y \in S
      PROVE  x <= y
  <2>1. <<y, x>> \notin Less /\ y \in Nat /\ x \in Nat
    BY <1>1
  <2>2. ~(y < x)
    BY <2>1 DEF Less
  <2> QED
    BY <2>1, <2>2
<1> QED
  BY <1>2 DEF Least

\* The gate keeps at most one frame in flight.
LEMMA OneInFlight ==
  ASSUME TypeOK
  PROVE  \/ acks = <<>> /\ InFlight = {}
         \/ /\ acks # <<>>
            /\ Head(acks) \in Ack /\ InFlight = {Head(acks)}
            /\ Tail(acks) = <<>>
<1>1. CASE acks = <<>>
  BY <1>1 DEF InFlight
<1>2. ASSUME NEW a \in Ack, acks = <<a>>
      PROVE  /\ acks # <<>> /\ Head(acks) \in Ack
             /\ InFlight = {Head(acks)} /\ Tail(acks) = <<>>
  BY <1>2 DEF InFlight
<1>3. acks = <<>> \/ \E a \in Ack : acks = <<a>>
  BY DEF TypeOK
<1> QED
  BY <1>1, <1>2, <1>3

\* What the tick takes is free, and within the pool and the ring.
LEMMA NextTaken ==
  ASSUME TypeOK, Renders
  PROVE  /\ NextBo \in FreeAfterReap /\ NextBo \in Bos
         /\ NextSlot \in Slots /\ NextSlot \notin RingAfterReap
<1>1. FreeAfterReap \subseteq Bos
  BY DEF TypeOK, FreeAfterReap, InPhase, RetiredFailed, Job
<1>2. NextBo \in FreeAfterReap
  BY <1>1, LeastIn, NumBosAssumption DEF NextBo, Renders, Bos
<1>3. RingAfterReap \subseteq Slots
  BY DEF TypeOK, RingAfterReap
<1>4. Slots \ RingAfterReap # {}
  BY <1>3 DEF Renders
<1>5. NextSlot \in Slots \ RingAfterReap
  BY <1>4, LeastIn, NumSlotsAssumption DEF NextSlot, Slots
<1> QED
  BY <1>1, <1>2, <1>5

-----------------------------------------------------------------------------
(* Type correctness.                                                        *)

LEMMA TypeInit == Init => TypeOK
<1> SUFFICES ASSUME Init
             PROVE  TypeOK
  OBVIOUS
<1>1. /\ scan \in 0..Boot /\ flip \in 0..NumBos /\ queue \in Nat
      /\ faults \in 0..MaxFaults
  BY NumBosAssumption, MaxFaultsAssumption DEF Init, Off, Boot
<1>2. phase \in [Bos -> {"Free", "Recording", "Pending", "OnScreen"}]
  BY DEF Init
<1> QED
  BY <1>1, <1>2 DEF Init, TypeOK

\* What the tick's reaping leaves.
LEMMA ReapTyped ==
  ASSUME TypeOK
  PROVE  /\ Reaped \in [Bos -> {"Free", "Recording", "Pending", "OnScreen"}]
         /\ RingAfterReap \subseteq Slots
         /\ failed \cap gpu \subseteq Job /\ deferred \cap gpu \subseteq Job
BY DEF TypeOK, Reaped, RingAfterReap

LEMMA TypeFlipReady ==
  ASSUME TypeOK, FlipReady
  PROVE  TypeOK'
<1>1. phase' \in [Bos -> {"Free", "Recording", "Pending", "OnScreen"}]
  <2>1. \A b \in Bos : Retired(b) \in [Bos -> {"Free", "Recording", "Pending", "OnScreen"}]
    BY DEF TypeOK, Retired
  <2>2. CASE phase' = phase
    BY <2>2 DEF TypeOK
  <2>3. CASE InPhase("Pending") # {} /\ phase' = Retired(Least(InPhase("Pending")))
    <3>1. InPhase("Pending") \subseteq Nat /\ InPhase("Pending") \subseteq Bos
      BY NumBosAssumption DEF InPhase, Bos
    <3>2. Least(InPhase("Pending")) \in Bos
      BY <3>1, <2>3, LeastIn
    <3> QED
      BY <2>1, <2>3, <3>2
  <2> QED
    BY <2>2, <2>3 DEF FlipReady
<1>2. /\ acks' \in {<<>>} \cup {<<a>> : a \in Ack}
      /\ deferred' \subseteq Job /\ inUse' \subseteq Slots
      /\ damage' \subseteq Rects /\ repaint' \in BOOLEAN
  <2>1. CASE UNCHANGED <<acks, damage, repaint, deferred, inUse>>
    BY <2>1 DEF TypeOK
  <2>2. CASE acks # <<>> /\ AckFrame(Head(acks))
    <3>1. Head(acks) \in Ack /\ Tail(acks) = <<>>
      BY <2>2, OneInFlight
    <3>2. JobOf(Head(acks)) \in Job
      BY <3>1 DEF JobOf, Ack, Job
    <3>3. repaint' \in BOOLEAN
      BY <2>2 DEF AckFrame
    <3> QED
      BY <2>2, <3>1, <3>2, <3>3 DEF AckFrame, TypeOK
  <2> QED
    BY <2>1, <2>2 DEF FlipReady
<1>3. outrun' \in BOOLEAN /\ pc' = "work" /\ stop' = stop /\ queue' = 0
  BY DEF FlipReady
<1>4. UNCHANGED <<faults, power, failed, dirty, first, retry, gpu, scan, flip,
                   content, untracked, again>>
  BY DEF FlipReady
<1> QED
  BY <1>1, <1>2, <1>3, <1>4 DEF TypeOK, power, content

LEMMA TypePresents ==
  ASSUME TypeOK, TickPresents
  PROVE  TypeOK'
<1>1. NextBo \in Bos /\ NextSlot \in Slots
  BY NextTaken DEF TickPresents
<1>2. acks = <<>>
  BY DEF TickPresents, Composites, Ready
<1>3. [bo |-> NextBo, slot |-> NextSlot] \in Job
  BY <1>1 DEF Job
<1>4. [bo |-> NextBo, slot |-> NextSlot, snap |-> damage, repaint |-> repaint] \in Ack
  BY <1>1 DEF Ack, TypeOK
<1>5. acks' \in {<<>>} \cup {<<a>> : a \in Ack}
  BY <1>2, <1>4 DEF TickPresents
<1>6. phase' \in [Bos -> {"Free", "Recording", "Pending", "OnScreen"}]
  BY <1>1, ReapTyped DEF TickPresents
<1>7. inUse' \subseteq Slots /\ gpu' \subseteq Job /\ failed' \subseteq Job /\ deferred' \subseteq Job
  BY <1>1, <1>3, ReapTyped DEF TickPresents, ReapLists, TypeOK
<1>8. flip' \in 0..NumBos
  BY <1>1, NumBosAssumption DEF TickPresents, Bos
<1> QED
  BY <1>5, <1>6, <1>7, <1>8 DEF TickPresents, Ticking, TypeOK, power, history

LEMMA TypeCommitFails ==
  ASSUME TypeOK, TickCommitFails
  PROVE  TypeOK'
<1>1. NextBo \in Bos /\ NextSlot \in Slots
  BY NextTaken DEF TickCommitFails
<1>2. [bo |-> NextBo, slot |-> NextSlot] \in Job
  BY <1>1 DEF Job
<1>3. phase' \in [Bos -> {"Free", "Recording", "Pending", "OnScreen"}]
  BY <1>1, ReapTyped DEF TickCommitFails
<1>4. inUse' \subseteq Slots /\ gpu' \subseteq Job /\ failed' \subseteq Job /\ deferred' \subseteq Job
  BY <1>1, <1>2, ReapTyped DEF TickCommitFails, TypeOK
<1>5. faults' \in 0..MaxFaults
  BY MaxFaultsAssumption DEF TickCommitFails, Fault, NoFault, TypeOK
<1>6. repaint' \in BOOLEAN /\ pc' = "block" /\ stop' = stop /\ retry' = "wait"
  BY DEF TickCommitFails, Ticking
<1>7. UNCHANGED <<power, acks, dirty, damage, first, kernel, content, history>>
  BY DEF TickCommitFails
<1> QED
  BY <1>3, <1>4, <1>5, <1>6, <1>7 DEF TypeOK, power, kernel, content, history

\* The ticks that present nothing.
LEMMA TypeOtherTicks ==
  ASSUME TypeOK, TickGated \/ TickEmpty \/ TickStarved \/ TickSubmitFails \/ TickNoFence
  PROVE  TypeOK'
<1>1. CASE TickGated
  BY <1>1 DEF TickGated, Ticking, TypeOK, power, frames, scene, kernel, content, history
<1>2. CASE TickEmpty
  <2>1. /\ phase' \in [Bos -> {"Free", "Recording", "Pending", "OnScreen"}]
        /\ inUse' \subseteq Slots /\ failed' \subseteq Job /\ deferred' \subseteq Job
    BY <1>2, ReapTyped DEF TickEmpty, ReapLists, TypeOK
  <2>2. /\ pc' = "block" /\ stop' = stop /\ dirty' = FALSE
        /\ UNCHANGED <<faults, power, acks, damage, repaint, first, retry, gpu, kernel,
                       content, history>>
    BY <1>2 DEF TickEmpty, Ticking
  <2>3. dirty' \in BOOLEAN
    BY <2>2
  <2> QED
    BY <2>1, <2>2, <2>3 DEF TypeOK, power, kernel, content, history
<1>3. CASE TickStarved
  BY <1>3, ReapTyped DEF TickStarved, Ticking, ReapLists, TypeOK, power, scene, kernel, content,
                         history
<1>4. CASE TickSubmitFails
  <2>1. faults' \in 0..MaxFaults /\ repaint' \in BOOLEAN
    BY <1>4, MaxFaultsAssumption DEF TickSubmitFails, Fault, TypeOK
  <2> QED
    BY <1>4, <2>1, ReapTyped
       DEF TickSubmitFails, Ticking, ReapLists, TypeOK, power, kernel, content, history
<1>5. CASE TickNoFence
  <2>1. faults' \in 0..MaxFaults
    BY <1>5, MaxFaultsAssumption DEF TickNoFence, Fault, TypeOK
  <2>2. NextSlot \in Slots
    BY <1>5, NextTaken DEF TickNoFence
  <2> QED
    BY <1>5, <2>1, <2>2, ReapTyped
       DEF TickNoFence, Ticking, ReapLists, TypeOK, power, scene, kernel, content, history
<1> QED
  BY <1>1, <1>2, <1>3, <1>4, <1>5

LEMMA TypePower ==
  ASSUME TypeOK,
         \/ DpmsSleep \/ DpmsSleepFails \/ DpmsWake \/ DpmsWakeFails
         \/ Suspend \/ Resume \/ ResumeFails
  PROVE  TypeOK'
<1>1. ModesetBo \in 0..Boot
  <2>1. InPhase("OnScreen") \subseteq Nat /\ InPhase("OnScreen") \subseteq Bos
    BY NumBosAssumption DEF InPhase, Bos
  <2>2. InPhase("OnScreen") # {} => Least(InPhase("OnScreen")) \in Bos
    BY <2>1, LeastIn
  <2> QED
    BY <2>2, NumBosAssumption DEF ModesetBo, Bos, Boot
<1>2. ASSUME StopOutput
      PROVE  /\ gpu' = {} /\ deferred' = {} /\ acks' = <<>> /\ failed' = failed
             /\ inUse' \subseteq Slots /\ outrun' \in BOOLEAN
             /\ phase' \in [Bos -> {"Free", "Recording", "Pending", "OnScreen"}]
  BY <1>2 DEF StopOutput, DrainAll, ResetBos, TypeOK
<1>3. ASSUME Modeset
      PROVE  /\ scan' \in 0..Boot /\ flip' \in 0..NumBos /\ untracked' = TRUE
             /\ shown' = Rects /\ coming' = {}
  BY <1>1, <1>3, NumBosAssumption DEF Modeset, Off
<1>4. CASE DpmsSleep
  <2>1. StopOutput
    BY <1>4 DEF DpmsSleep
  <2>2. scan' \in 0..Boot /\ flip' \in 0..NumBos /\ queue' \in Nat
    BY <1>4, NumBosAssumption DEF DpmsSleep, TypeOK, Off, Boot
  <2>3. /\ lit' = FALSE /\ shown' = {} /\ coming' = {}
        /\ UNCHANGED <<loop, seat, granted, scene, untracked, again>>
    BY <1>4 DEF DpmsSleep
  <2>4. lit' \in BOOLEAN
    BY <2>3
  <2> QED
    BY <1>2, <2>1, <2>2, <2>3, <2>4 DEF TypeOK, loop, scene
<1>4a. CASE DpmsSleepFails
  <2>1. StopOutput
    BY <1>4a DEF DpmsSleepFails
  <2>2. faults' \in 0..MaxFaults
    BY <1>4a, MaxFaultsAssumption DEF DpmsSleepFails, TypeOK, Fault, NoFault
  <2> QED
    BY <1>2, <1>4a, <2>1, <2>2 DEF DpmsSleepFails, TypeOK, power, scene, content
<1>5. CASE DpmsWake
  BY <1>3, <1>5 DEF DpmsWake, TypeOK, loop, frames
<1>5a. CASE DpmsWakeFails
  <2>1. faults' \in 0..MaxFaults
    BY <1>5a, MaxFaultsAssumption DEF DpmsWakeFails, TypeOK, Fault, NoFault
  <2> QED
    BY <1>5a, <2>1 DEF DpmsWakeFails, TypeOK, power, frames, kernel, content, history
<1>6. CASE Suspend
  <2>1. StopOutput
    BY <1>6 DEF Suspend
  <2>2. /\ scan' \in 0..Boot /\ flip' \in 0..NumBos /\ queue' \in Nat
    BY <1>6, NumBosAssumption DEF Suspend, TypeOK, Off, Boot
  <2> QED
    BY <1>2, <1>6, <2>1, <2>2 DEF Suspend, TypeOK, loop, scene
<1>7. CASE Resume
  BY <1>3, <1>7 DEF Resume, TypeOK, loop, frames
<1>8. CASE ResumeFails
  <2>1. faults' \in 0..MaxFaults /\ stop' \in {"none", "sent", "due"}
    BY <1>8, MaxFaultsAssumption DEF ResumeFails, Fault, TypeOK
  <2>2. CASE UNCHANGED <<lit, scan, flip, content, untracked>>
    BY <1>8, <2>1, <2>2 DEF ResumeFails, TypeOK, frames, content
  <2>3. CASE Modeset /\ lit' = TRUE
    BY <1>3, <1>8, <2>1, <2>3 DEF ResumeFails, TypeOK, frames
  <2> QED
    BY <1>8, <2>2, <2>3 DEF ResumeFails
<1> QED
  BY <1>4, <1>4a, <1>5, <1>5a, <1>6, <1>7, <1>8

LEMMA TypeStep == TypeOK /\ [Next]_vars => TypeOK'
<1> SUFFICES ASSUME TypeOK, [Next]_vars
             PROVE  TypeOK'
  OBVIOUS
<1>1. CASE Poll
  BY <1>1 DEF Poll, TypeOK, power, frames, scene, kernel, content, history
<1>2. ASSUME NEW R \in {{}} \cup {{r} : r \in Rects}, Request(R)
      PROVE  TypeOK'
  <2>1. R \subseteq Rects
    OBVIOUS
  <2>2. UNION {a.snap \cap R : a \in InFlight} \subseteq Rects
    BY <2>1
  <2> QED
    BY <1>2, <2>1, <2>2 DEF Request, TypeOK, loop, power, frames, kernel
<1>3. CASE FlipReady
  BY <1>3, TypeFlipReady
<1>4. CASE FlipDone
  <2>1. scan' \in 0..Boot /\ flip' \in 0..NumBos /\ queue' \in Nat
    BY <1>4, NumBosAssumption DEF FlipDone, TypeOK, Off, Boot
  <2> QED
    BY <1>4, <2>1 DEF FlipDone, TypeOK, loop, power, frames, scene
<1>5. CASE RetryDue
  BY <1>5 DEF RetryDue, TypeOK, loop, power, frames, kernel, content, history
<1>6. ASSUME NEW j \in gpu, FenceSignals(j)
      PROVE  TypeOK'
  BY <1>6 DEF FenceSignals, TypeOK, loop, power, frames, scene, kernel, content, history
<1>7. CASE Tick
  BY <1>7, TypePresents, TypeCommitFails, TypeOtherTicks DEF Tick
<1>8. CASE \/ DpmsSleep \/ DpmsSleepFails \/ DpmsWake \/ DpmsWakeFails
           \/ Suspend \/ Resume \/ ResumeFails
  BY <1>8, TypePower
<1>9. CASE Grant
  BY <1>9 DEF Grant, TypeOK, loop, frames, scene, kernel, content, history
<1>10. CASE Shutdown
  BY <1>10 DEF Shutdown, TypeOK, power, frames, scene, kernel, content, history
<1>11. CASE UNCHANGED vars
  BY <1>11 DEF vars, TypeOK, loop, power, frames, scene, kernel, content, history
<1> QED
  BY <1>1, <1>2, <1>3, <1>4, <1>5, <1>6, <1>7, <1>8, <1>9, <1>10, <1>11 DEF Next, Exited

\* The type invariant, whatever the loop, the kernel, the GPU, DPMS and the seat do.
THEOREM TypeCorrect == Spec => []TypeOK
<1> QED
  BY TypeInit, TypeStep, PTL DEF Spec

-----------------------------------------------------------------------------
(* Slots.                                                                   *)

\* Reaping with nothing in flight leaves exactly the unfinished frames, and they
\* keep their slots.
LEMMA ReapHeld ==
  ASSUME TypeOK, SlotsHeld, acks = <<>>
  PROVE  /\ (deferred \cap gpu) \cup (failed \cap gpu) = gpu
         /\ \A j \in gpu : j.slot \in RingAfterReap
<1>1. InFlight = {}
  BY OneInFlight
<1>2. Frames = deferred \cup failed
  BY <1>1 DEF Frames
<1>3. gpu \subseteq deferred \cup failed
  BY <1>2 DEF SlotsHeld
<1>4. ASSUME NEW j \in gpu
      PROVE  j.slot \in RingAfterReap
  <2>1. j \in Frames /\ j.slot \in inUse
    BY DEF SlotsHeld
  <2>2. ASSUME NEW i \in RetiredFailed \cup RetiredDeferred
        PROVE  i.slot # j.slot
    <3>1. i \in Frames /\ i # j
      BY <1>2, <2>2 DEF RetiredFailed, RetiredDeferred
    <3> QED
      BY <2>1, <3>1 DEF SlotsHeld
  <2> QED
    BY <2>1, <2>2 DEF RingAfterReap, SlotsOf
<1> QED
  BY <1>3, <1>4

LEMMA SlotsStop ==
  ASSUME TypeOK, SlotsHeld, StopOutput
  PROVE  SlotsHeld'
<1>1. acks' = <<>> /\ deferred' = {} /\ gpu' = {} /\ failed' = failed
      /\ inUse' = inUse \ SlotsOf(InFlight)
  BY DEF StopOutput, DrainAll
<1>2. InFlight' = {}
  BY <1>1 DEF InFlight
<1>3. Frames' = failed
  BY <1>1, <1>2 DEF Frames
<1>4. ASSUME NEW j \in failed
      PROVE  j.slot \in inUse'
  <2>1. j \in Frames /\ j.slot \in inUse
    BY DEF Frames, SlotsHeld
  <2>2. ASSUME NEW a \in InFlight
        PROVE  a.slot # j.slot
    <3>1. JobOf(a) \in Frames /\ JobOf(a) # j /\ JobOf(a).slot = a.slot
      BY DEF Frames, SlotsHeld, JobOf
    <3> QED
      BY <2>1, <3>1 DEF SlotsHeld
  <2> QED
    BY <1>1, <2>1, <2>2 DEF SlotsOf
<1>5. \A i, j \in failed : i.slot = j.slot => i = j
  BY DEF SlotsHeld, Frames
<1> QED
  BY <1>1, <1>2, <1>3, <1>4, <1>5 DEF SlotsHeld

LEMMA SlotsAck ==
  ASSUME TypeOK, SlotsHeld, acks # <<>>, AckFrame(Head(acks)),
         UNCHANGED <<failed, gpu>>
  PROVE  SlotsHeld'
<1> DEFINE a == Head(acks)
<1> DEFINE j == JobOf(a)
<1>1. /\ InFlight = {a} /\ Tail(acks) = <<>> /\ a \in Ack
  BY OneInFlight
<1>2. j \in Frames /\ j.slot = a.slot /\ j \notin deferred \cup failed
  BY <1>1 DEF Frames, SlotsHeld, JobOf
<1>3. InFlight' = {}
  <2>1. acks' = <<>>
    BY <1>1 DEF AckFrame
  <2> QED
    BY <2>1 DEF InFlight
<1>4. Frames = {j} \cup deferred \cup failed
  BY <1>1 DEF Frames
<1>5. CASE j \in gpu
  <2>1. deferred' = deferred \cup {j} /\ inUse' = inUse
    BY <1>5 DEF AckFrame
  <2>2. Frames' = Frames
    BY <1>3, <1>4, <2>1 DEF Frames
  <2> QED
    BY <1>2, <1>3, <2>1, <2>2 DEF SlotsHeld
<1>6. CASE j \notin gpu
  <2>1. deferred' = deferred /\ inUse' = inUse \ {a.slot}
    BY <1>6 DEF AckFrame
  <2>2. Frames' = deferred \cup failed
    BY <1>3, <2>1 DEF Frames
  <2>3. gpu \subseteq deferred \cup failed
    BY <1>4, <1>6 DEF SlotsHeld
  <2>4. \A i \in deferred \cup failed : i.slot # a.slot /\ i.slot \in inUse
    BY <1>2, <1>4 DEF SlotsHeld
  <2>5. \A i, k \in deferred \cup failed : i.slot = k.slot => i = k
    BY <1>4 DEF SlotsHeld
  <2> QED
    BY <1>3, <2>1, <2>2, <2>3, <2>4, <2>5 DEF SlotsHeld
<1> QED
  BY <1>5, <1>6

\* A tick that starts no frame; TickNoFence takes a slot for none.
LEMMA SlotsReap ==
  ASSUME TypeOK, SlotsHeld, Composites, ReapLists, UNCHANGED <<acks, gpu>>,
         RingAfterReap \subseteq inUse'
  PROVE  SlotsHeld'
<1>1. acks = <<>> /\ acks' = <<>>
  BY DEF Composites, Ready
<1>2. InFlight' = {}
  BY <1>1 DEF InFlight
<1>3. Frames' = gpu
  BY <1>1, <1>2, ReapHeld DEF Frames, ReapLists
<1>4. \A j \in gpu : j.slot \in inUse'
  BY <1>1, ReapHeld
<1>5. \A i, j \in gpu : i.slot = j.slot => i = j
  BY DEF SlotsHeld
<1>6. deferred' \cap failed' = {}
  BY DEF ReapLists, SlotsHeld
<1> QED
  BY <1>2, <1>3, <1>4, <1>5, <1>6 DEF SlotsHeld

\* A tick that gives a frame to the GPU, in flight or refused.
LEMMA SlotsPresents ==
  ASSUME TypeOK, SlotsHeld, TickPresents \/ TickCommitFails
  PROVE  SlotsHeld'
<1> DEFINE n == [bo |-> NextBo, slot |-> NextSlot]
<1>1. acks = <<>> /\ NextSlot \notin RingAfterReap /\ n.slot = NextSlot
  BY NextTaken DEF TickPresents, TickCommitFails, Composites, Ready
<1>2. /\ (deferred \cap gpu) \cup (failed \cap gpu) = gpu
      /\ \A j \in gpu : j.slot \in RingAfterReap
  BY <1>1, ReapHeld
<1>3. n \notin gpu
  BY <1>1, <1>2
<1>4. gpu' = gpu \cup {n} /\ inUse' = RingAfterReap \cup {NextSlot}
  BY DEF TickPresents, TickCommitFails
<1>5. \A i, j \in gpu \cup {n} : i.slot = j.slot => i = j
  <2>1. \A i, j \in gpu : i.slot = j.slot => i = j
    BY DEF SlotsHeld
  <2>2. \A i \in gpu : i.slot # n.slot
    BY <1>1, <1>2
  <2> QED
    BY <2>1, <2>2
<1>6. \A j \in gpu \cup {n} : j.slot \in inUse'
  BY <1>1, <1>2, <1>4
<1>7. CASE TickPresents
  <2>1. /\ failed' = failed \cap gpu /\ deferred' = deferred \cap gpu
        /\ acks' = <<[bo |-> NextBo, slot |-> NextSlot, snap |-> damage, repaint |-> repaint]>>
    BY <1>1, <1>7 DEF TickPresents, ReapLists
  <2>2. InFlight' = {[bo |-> NextBo, slot |-> NextSlot, snap |-> damage, repaint |-> repaint]}
    BY <2>1 DEF InFlight
  <2>3. {JobOf(a) : a \in InFlight'} = {n}
    BY <2>2 DEF JobOf
  <2>4. Frames' = gpu \cup {n}
    BY <1>2, <2>1, <2>3 DEF Frames
  <2>5. \A a \in InFlight' : JobOf(a) \notin deferred' \cup failed'
    BY <1>3, <2>1, <2>3
  <2>6. deferred' \cap failed' = {}
    BY <2>1 DEF SlotsHeld
  <2> QED
    BY <1>4, <1>5, <1>6, <2>4, <2>5, <2>6 DEF SlotsHeld
<1>8. CASE TickCommitFails
  <2>1. /\ failed' = (failed \cap gpu) \cup {n} /\ deferred' = deferred \cap gpu
        /\ acks' = <<>>
    BY <1>1, <1>8 DEF TickCommitFails
  <2>2. InFlight' = {}
    BY <2>1 DEF InFlight
  <2>3. Frames' = gpu \cup {n}
    BY <1>2, <2>1, <2>2 DEF Frames
  <2>4. deferred' \cap failed' = {}
    BY <1>3, <2>1 DEF SlotsHeld
  <2> QED
    BY <1>4, <1>5, <1>6, <2>2, <2>3, <2>4 DEF SlotsHeld
<1> QED
  BY <1>7, <1>8

LEMMA SlotsSame ==
  ASSUME SlotsHeld, UNCHANGED frames, gpu' \subseteq gpu
  PROVE  SlotsHeld'
<1>1. InFlight' = InFlight /\ Frames' = Frames
  BY DEF frames, InFlight, Frames
<1> QED
  BY <1>1 DEF frames, SlotsHeld

LEMMA SlotsStep == TypeOK /\ SlotsHeld /\ [Next]_vars => SlotsHeld'
<1> SUFFICES ASSUME TypeOK, SlotsHeld, [Next]_vars
             PROVE  SlotsHeld'
  OBVIOUS
<1>1. CASE FlipReady
  <2>1. UNCHANGED <<failed, gpu>>
    BY <1>1 DEF FlipReady
  <2>2. CASE acks # <<>> /\ AckFrame(Head(acks))
    BY <2>1, <2>2, SlotsAck
  <2>3. CASE UNCHANGED <<acks, deferred, inUse>>
    <3>1. InFlight' = InFlight /\ Frames' = Frames
      BY <2>1, <2>3 DEF InFlight, Frames
    <3> QED
      BY <2>1, <2>3, <3>1 DEF SlotsHeld
  <2> QED
    BY <1>1, <2>2, <2>3 DEF FlipReady
<1>2. CASE DpmsSleep \/ DpmsSleepFails \/ Suspend
  <2>1. StopOutput
    BY <1>2 DEF DpmsSleep, DpmsSleepFails, Suspend
  <2> QED
    BY <2>1, SlotsStop
<1>3. CASE TickEmpty \/ TickStarved \/ TickSubmitFails \/ TickNoFence
  <2>1. /\ Composites /\ ReapLists /\ UNCHANGED <<acks, gpu>>
        /\ RingAfterReap \subseteq inUse'
    BY <1>3 DEF TickEmpty, TickStarved, TickSubmitFails, TickNoFence
  <2> QED
    BY <2>1, SlotsReap
<1>4. CASE TickPresents \/ TickCommitFails
  BY <1>4, SlotsPresents
<1>5. ASSUME NEW j \in gpu, FenceSignals(j)
      PROVE  SlotsHeld'
  <2>1. UNCHANGED frames /\ gpu' \subseteq gpu
    BY <1>5 DEF FenceSignals
  <2> QED
    BY <2>1, SlotsSame
<1>6. ASSUME NEW R \in {{}} \cup {{r} : r \in Rects}, Request(R)
      PROVE  SlotsHeld'
  <2>1. UNCHANGED frames /\ gpu' = gpu
    BY <1>6 DEF Request
  <2> QED
    BY <2>1, SlotsSame
<1>7. CASE \/ Poll \/ FlipDone \/ RetryDue \/ TickGated \/ DpmsWake \/ DpmsWakeFails
           \/ Grant \/ Resume \/ ResumeFails \/ Shutdown \/ UNCHANGED vars
  <2>1. UNCHANGED frames /\ gpu' = gpu
    BY <1>7 DEF Poll, FlipDone, RetryDue, TickGated, DpmsWake, DpmsWakeFails, Grant,
                Resume, ResumeFails, Shutdown, vars
  <2> QED
    BY <2>1, SlotsSame
<1> QED
  BY <1>1, <1>2, <1>3, <1>4, <1>5, <1>6, <1>7 DEF Next, Tick, Exited

\* No descriptor pool is given back, reset or taken twice while the GPU has a frame
\* recorded from it (VUID-vkResetDescriptorPool-00313): NoPool starves the tick rather
\* than lets it take one that drain_pending_pool_releases has not freed.
THEOREM PoolsSafe == Spec => []PoolsOutliveFrames
<1>1. Init => SlotsHeld
  <2> SUFFICES ASSUME Init
               PROVE  SlotsHeld
    OBVIOUS
  <2>1. InFlight = {}
    BY DEF Init, InFlight
  <2>2. Frames = {}
    BY <2>1 DEF Init, Frames
  <2> QED
    BY <2>1, <2>2 DEF Init, SlotsHeld
<1>2. SlotsHeld => PoolsOutliveFrames
  <2> SUFFICES ASSUME SlotsHeld
               PROVE  PoolsOutliveFrames
    OBVIOUS
  <2>1. ASSUME NEW j \in Frames
        PROVE  j.slot \in Owned
    BY <2>1 DEF Frames, Owned, SlotsOf, JobOf
  <2> QED
    BY <2>1 DEF SlotsHeld, PoolsOutliveFrames
<1> QED
  BY <1>1, <1>2, TypeInit, TypeStep, SlotsStep, PTL DEF Spec

-----------------------------------------------------------------------------
(* Buffers.                                                                 *)

BosHeld == FailedHeld /\ AcksMatchFlips

LEMMA BosSame ==
  ASSUME BosHeld, UNCHANGED frames, gpu' \subseteq gpu
  PROVE  BosHeld'
<1>1. InFlight' = InFlight /\ phase' = phase /\ failed' = failed
  BY DEF frames, InFlight
<1>2. \A p : InPhase(p)' = InPhase(p)
  BY <1>1 DEF InPhase
<1> QED
  BY <1>1, <1>2 DEF BosHeld, FailedHeld, AcksMatchFlips

LEMMA BosStop ==
  ASSUME TypeOK, BosHeld, StopOutput
  PROVE  BosHeld'
<1>1. /\ acks' = <<>> /\ gpu' = {} /\ failed' = failed
      /\ \A b \in Bos : phase'[b] = "Free"
  BY DEF StopOutput, DrainAll, ResetBos
<1>2. InFlight' = {} /\ InPhase("Pending")' = {} /\ InPhase("OnScreen")' = {}
  BY <1>1 DEF InFlight, InPhase
<1>3. \A j \in failed : j.bo \in Bos
  BY DEF TypeOK, Job
<1> QED
  BY <1>1, <1>2, <1>3 DEF BosHeld, FailedHeld, AcksMatchFlips

LEMMA BosFlipReady ==
  ASSUME TypeOK, BosHeld, FlipReady
  PROVE  BosHeld'
<1>1. failed' = failed /\ gpu' = gpu
  BY DEF FlipReady
<1>2. CASE UNCHANGED <<phase, acks>>
  <2>1. InFlight' = InFlight /\ \A p : InPhase(p)' = InPhase(p)
    BY <1>2 DEF InFlight, InPhase
  <2> QED
    BY <1>1, <1>2, <2>1 DEF BosHeld, FailedHeld, AcksMatchFlips
<1>3. CASE /\ InPhase("Pending") # {}
           /\ phase' = Retired(Least(InPhase("Pending")))
           /\ acks # <<>> => AckFrame(Head(acks))
  <2> DEFINE b == Least(InPhase("Pending"))
  <2>1. acks # <<>>
    BY <1>3, OneInFlight DEF BosHeld, AcksMatchFlips
  <2>2. InFlight = {Head(acks)} /\ Tail(acks) = <<>>
    BY <2>1, OneInFlight
  <2>3. InPhase("Pending") \subseteq Nat /\ InPhase("Pending") \subseteq Bos
    BY NumBosAssumption DEF InPhase, Bos
  <2>4. b \in InPhase("Pending") /\ b \in Bos
    BY <1>3, <2>3, LeastIn
  <2>5. InPhase("Pending") = {b}
    BY <2>2, <2>4 DEF BosHeld, AcksMatchFlips
  <2>6. acks' = <<>>
    BY <1>3, <2>1, <2>2 DEF AckFrame
  <2>7. InFlight' = {}
    BY <2>6 DEF InFlight
  <2>8. ASSUME NEW x \in Bos
        PROVE  /\ phase'[x] # "Pending"
               /\ phase'[x] = "OnScreen" => x = b
               /\ x # b /\ phase[x] # "OnScreen" => phase'[x] = phase[x]
    <3>1. phase'[x] = CASE x = b -> "OnScreen"
                        [] x # b /\ phase[x] = "OnScreen" -> "Free"
                        [] OTHER -> phase[x]
      BY <1>3 DEF Retired
    <3>2. x # b => phase[x] # "Pending"
      BY <2>5 DEF InPhase
    <3> QED
      BY <3>1, <3>2
  <2>9. InPhase("Pending")' = {} /\ \A c, d \in InPhase("OnScreen")' : c = d
    BY <2>8 DEF InPhase
  <2>10. ASSUME NEW j \in failed
         PROVE  phase'[j.bo] = phase[j.bo]
    <3>1. j.bo \in Bos /\ phase[j.bo] \in {"Recording", "Free"}
      BY DEF TypeOK, Job, BosHeld, FailedHeld
    <3>2. phase[b] = "Pending"
      BY <2>4 DEF InPhase
    <3> QED
      BY <2>8, <3>1, <3>2
  <2> QED
    BY <1>1, <2>7, <2>9, <2>10 DEF BosHeld, FailedHeld, AcksMatchFlips
<1> QED
  BY <1>2, <1>3 DEF FlipReady

\* The buffers of unfinished refused frames are not among those the tick may take.
LEMMA ReapBos ==
  ASSUME TypeOK, BosHeld, acks = <<>>
  PROVE  /\ \A j \in failed \cap gpu : /\ j.bo \in Bos /\ j.bo \notin FreeAfterReap
                                       /\ Reaped[j.bo] = "Recording"
         /\ \A b \in Bos : /\ Reaped[b] # "Pending"
                           /\ Reaped[b] = "OnScreen" => phase[b] = "OnScreen"
<1>1. ASSUME NEW j \in failed \cap gpu
      PROVE  /\ j.bo \in Bos /\ j.bo \notin FreeAfterReap
             /\ Reaped[j.bo] = "Recording"
  <2>1. j.bo \in Bos /\ phase[j.bo] = "Recording"
    BY DEF TypeOK, Job, BosHeld, FailedHeld
  <2>2. ASSUME NEW i \in RetiredFailed
        PROVE  i.bo # j.bo
    BY DEF RetiredFailed, BosHeld, FailedHeld
  <2>3. j.bo \notin FreeAfterReap
    BY <2>1, <2>2 DEF FreeAfterReap, InPhase
  <2> QED
    BY <2>1, <2>3 DEF Reaped
<1>2. InPhase("Pending") = {}
  BY OneInFlight DEF BosHeld, AcksMatchFlips
<1>3. ASSUME NEW b \in Bos
      PROVE  /\ Reaped[b] # "Pending"
             /\ Reaped[b] = "OnScreen" => phase[b] = "OnScreen"
  BY <1>2 DEF InPhase, Reaped
<1> QED
  BY <1>1, <1>3

\* A tick that starts no frame.
LEMMA BosReap ==
  ASSUME TypeOK, BosHeld, Composites, ReapLists, phase' = Reaped, UNCHANGED <<acks, gpu>>
  PROVE  BosHeld'
<1>1. acks = <<>> /\ acks' = <<>>
  BY DEF Composites, Ready
<1>2. InFlight' = {}
  BY <1>1 DEF InFlight
<1>3. /\ \A j \in failed \cap gpu : phase'[j.bo] = "Recording"
      /\ \A b \in Bos : phase'[b] # "Pending" /\ (phase'[b] = "OnScreen" => phase[b] = "OnScreen")
  BY <1>1, ReapBos
<1>4. InPhase("Pending")' = {} /\ InPhase("OnScreen")' \subseteq InPhase("OnScreen")
  BY <1>3 DEF InPhase
<1>5. failed' = failed \cap gpu /\ gpu' = gpu
  BY DEF ReapLists
<1> QED
  BY <1>2, <1>3, <1>4, <1>5 DEF BosHeld, FailedHeld, AcksMatchFlips

\* A tick that gives a frame to the GPU.
LEMMA BosPresents ==
  ASSUME TypeOK, BosHeld, TickPresents \/ TickCommitFails
  PROVE  BosHeld'
<1> DEFINE n == [bo |-> NextBo, slot |-> NextSlot]
<1>1. acks = <<>> /\ NextBo \in FreeAfterReap /\ NextBo \in Bos /\ n.bo = NextBo
  BY NextTaken DEF TickPresents, TickCommitFails, Composites, Ready
<1>2. /\ \A j \in failed \cap gpu : /\ j.bo \in Bos /\ j.bo # NextBo
                                    /\ Reaped[j.bo] = "Recording"
      /\ \A b \in Bos : /\ Reaped[b] # "Pending"
                        /\ Reaped[b] = "OnScreen" => phase[b] = "OnScreen"
  BY <1>1, ReapBos
<1>3. Reaped \in [Bos -> {"Free", "Recording", "Pending", "OnScreen"}]
  BY ReapTyped
<1>4. gpu' = gpu \cup {n}
  BY DEF TickPresents, TickCommitFails
<1>5. \A i, j \in failed : i.bo = j.bo => i = j
  BY DEF BosHeld, FailedHeld
<1>6. CASE TickPresents
  <2>1. /\ failed' = failed \cap gpu
        /\ phase' = [Reaped EXCEPT ![NextBo] = "Pending"]
        /\ acks' = <<[bo |-> NextBo, slot |-> NextSlot, snap |-> damage, repaint |-> repaint]>>
    BY <1>1, <1>6 DEF TickPresents, ReapLists
  <2>2. InFlight' = {[bo |-> NextBo, slot |-> NextSlot, snap |-> damage, repaint |-> repaint]}
    BY <2>1 DEF InFlight
  <2>3. {a.bo : a \in InFlight'} = {NextBo}
    BY <2>2
  <2>4. phase'[NextBo] = "Pending" /\ \A b \in Bos : b # NextBo => phase'[b] = Reaped[b]
    BY <1>1, <1>3, <2>1
  <2>5. InPhase("Pending")' = {NextBo} /\ InPhase("OnScreen")' \subseteq InPhase("OnScreen")
    BY <1>1, <1>2, <2>4 DEF InPhase
  <2>6. \A j \in failed' : phase'[j.bo] = "Recording"
    BY <1>2, <2>1, <2>4
  <2>7. AcksMatchFlips'
    BY <2>3, <2>5 DEF BosHeld, AcksMatchFlips
  <2> QED
    BY <1>5, <2>1, <2>6, <2>7 DEF BosHeld, FailedHeld
<1>7. CASE TickCommitFails
  <2>1. /\ failed' = (failed \cap gpu) \cup {n} /\ acks' = <<>>
        /\ phase' = [Reaped EXCEPT ![NextBo] = "Recording"]
    BY <1>1, <1>7 DEF TickCommitFails
  <2>2. InFlight' = {}
    BY <2>1 DEF InFlight
  <2>3. phase'[NextBo] = "Recording" /\ \A b \in Bos : b # NextBo => phase'[b] = Reaped[b]
    BY <1>1, <1>3, <2>1
  <2>4. InPhase("Pending")' = {} /\ InPhase("OnScreen")' \subseteq InPhase("OnScreen")
    BY <1>1, <1>2, <2>3 DEF InPhase
  <2>5. \A j \in failed' : phase'[j.bo] = "Recording"
    BY <1>1, <1>2, <2>1, <2>3
  <2>6. \A i, j \in failed' : i.bo = j.bo => i = j
    BY <1>1, <1>2, <1>5, <2>1
  <2>7. AcksMatchFlips'
    BY <2>2, <2>4 DEF BosHeld, AcksMatchFlips
  <2> QED
    BY <2>5, <2>6, <2>7 DEF BosHeld, FailedHeld
<1> QED
  BY <1>6, <1>7

LEMMA BosStep == TypeOK /\ BosHeld /\ [Next]_vars => BosHeld'
<1> SUFFICES ASSUME TypeOK, BosHeld, [Next]_vars
             PROVE  BosHeld'
  OBVIOUS
<1>1. CASE FlipReady
  BY <1>1, BosFlipReady
<1>2. CASE DpmsSleep \/ DpmsSleepFails \/ Suspend
  <2>1. StopOutput
    BY <1>2 DEF DpmsSleep, DpmsSleepFails, Suspend
  <2> QED
    BY <2>1, BosStop
<1>3. CASE TickEmpty \/ TickStarved \/ TickSubmitFails \/ TickNoFence
  <2>1. Composites /\ ReapLists /\ phase' = Reaped /\ UNCHANGED <<acks, gpu>>
    BY <1>3 DEF TickEmpty, TickStarved, TickSubmitFails, TickNoFence
  <2> QED
    BY <2>1, BosReap
<1>4. CASE TickPresents \/ TickCommitFails
  BY <1>4, BosPresents
<1>5. ASSUME NEW j \in gpu, FenceSignals(j)
      PROVE  BosHeld'
  <2>1. UNCHANGED frames /\ gpu' \subseteq gpu
    BY <1>5 DEF FenceSignals
  <2> QED
    BY <2>1, BosSame
<1>6. ASSUME NEW R \in {{}} \cup {{r} : r \in Rects}, Request(R)
      PROVE  BosHeld'
  <2>1. UNCHANGED frames /\ gpu' = gpu
    BY <1>6 DEF Request
  <2> QED
    BY <2>1, BosSame
<1>7. CASE \/ Poll \/ FlipDone \/ RetryDue \/ TickGated \/ DpmsWake \/ DpmsWakeFails
           \/ Grant \/ Resume \/ ResumeFails \/ Shutdown \/ UNCHANGED vars
  <2>1. UNCHANGED frames /\ gpu' = gpu
    BY <1>7 DEF Poll, FlipDone, RetryDue, TickGated, DpmsWake, DpmsWakeFails, Grant,
                Resume, ResumeFails, Shutdown, vars
  <2> QED
    BY <2>1, BosSame
<1> QED
  BY <1>1, <1>2, <1>3, <1>4, <1>5, <1>6, <1>7 DEF Next, Tick, Exited

\* The platform's buffer phases and the compositor's pending_acks never disagree about
\* the frame a completion retires, although two modules keep them and refused commits,
\* DPMS and VT switches reset each on its own.
THEOREM AcksSafe == Spec => []AcksMatchFlips
<1>1. Init => BosHeld
  BY DEF Init, BosHeld, FailedHeld, AcksMatchFlips, InFlight, InPhase
<1>2. BosHeld => AcksMatchFlips
  BY DEF BosHeld
<1> QED
  BY <1>1, <1>2, TypeInit, TypeStep, BosStep, PTL DEF Spec

-----------------------------------------------------------------------------
(* Flips.                                                                   *)

FlipsInv == TypeOK /\ SlotsHeld /\ BosHeld /\ FlipsFollowed

\* The Pending buffer is the one in flight.
LEMMA OnePending ==
  ASSUME TypeOK, BosHeld
  PROVE  /\ acks = <<>> => InPhase("Pending") = {}
         /\ acks # <<>> => InPhase("Pending") = {Head(acks).bo}
         /\ \A b, c \in InPhase("Pending") : b = c
         /\ \A b : b \in InPhase("Pending") <=> b \in Bos /\ phase[b] = "Pending"
         /\ flip # Off => flip \in Bos
         /\ Off \notin Bos
<1>1. flip # Off => flip \in Bos
  BY NumBosAssumption DEF TypeOK, Off, Bos
<1>2. Off \notin Bos
  BY DEF Off, Bos
<1>3. \A b : b \in InPhase("Pending") <=> b \in Bos /\ phase[b] = "Pending"
  BY DEF InPhase
<1>4. /\ acks = <<>> => InPhase("Pending") = {}
      /\ acks # <<>> => InPhase("Pending") = {Head(acks).bo}
  BY OneInFlight DEF BosHeld, AcksMatchFlips
<1> QED
  BY <1>1, <1>2, <1>3, <1>4

\* What the server knows stays so when neither its books nor the kernel's change.
LEMMA FlipsSame ==
  ASSUME FlipsFollowed, Asleep', gpu' \subseteq gpu,
         UNCHANGED <<phase, deferred, scan, flip, queue, untracked, outrun>>
  PROVE  FlipsFollowed'
<1>1. InPhase("Pending")' = InPhase("Pending")
  BY DEF InPhase
<1>2. PendingFlips' /\ NoStray' /\ ScreenKnown'
  BY <1>1 DEF FlipsFollowed, PendingFlips, NoStray, ScreenKnown
<1>3. DeferredShown'
  BY DEF FlipsFollowed, DeferredShown
<1> QED
  BY <1>2, <1>3 DEF FlipsFollowed

LEMMA FlipsStop ==
  ASSUME FlipsInv, DpmsSleep \/ DpmsSleepFails \/ Suspend
  PROVE  FlipsFollowed'
<1>1. /\ gpu' = {} /\ (outrun' <=> (queue' > 0 \/ flip' # Off))
      /\ \A b \in Bos : phase'[b] = "Free"
  BY DEF DpmsSleep, DpmsSleepFails, Suspend, StopOutput, ResetBos
<1>2. InPhase("Pending")' = {}
  BY <1>1 DEF InPhase
<1>3. Asleep'
  <2>1. queue \in Nat /\ Asleep /\ pc' = pc
    BY DEF FlipsInv, TypeOK, FlipsFollowed, DpmsSleep, DpmsSleepFails, Suspend, loop
  <2>2. CASE DpmsSleep
    <3>1. lit' = FALSE /\ flip' = Off
      BY <2>2 DEF DpmsSleep
    <3>2. queue > 0 => queue' > 0
      BY <2>1, <2>2 DEF DpmsSleep
    <3> QED
      BY <1>2, <2>1, <3>1, <3>2 DEF Asleep
  <2>3. CASE DpmsSleepFails
    <3>1. untracked' = TRUE /\ UNCHANGED <<scan, flip, queue, lit, seat>>
      BY <2>3 DEF DpmsSleepFails, power
    <3> QED
      BY <1>2, <2>1, <3>1 DEF Asleep
  <2>4. CASE Suspend
    <3>1. untracked' = TRUE /\ flip' = Off
      BY <2>4 DEF Suspend
    <3>2. queue > 0 => queue' > 0
      BY <2>1, <2>4 DEF Suspend
    <3> QED
      BY <1>2, <2>1, <3>1, <3>2 DEF Asleep
  <2> QED
    BY <2>2, <2>3, <2>4
<1>4. ScreenKnown'
  <2>1. untracked' \/ scan' = Off
    BY DEF DpmsSleep, DpmsSleepFails, Suspend
  <2>2. Off \notin Bos
    BY DEF Off, Bos
  <2> QED
    BY <2>1, <2>2 DEF ScreenKnown
<1> QED
  BY <1>1, <1>2, <1>3, <1>4 DEF FlipsFollowed, PendingFlips, NoStray, DeferredShown

LEMMA FlipsModeset ==
  ASSUME FlipsInv, DpmsWake \/ Resume \/ (ResumeFails /\ Modeset /\ lit' = TRUE)
  PROVE  FlipsFollowed'
<1>1. /\ TypeOK /\ BosHeld /\ Asleep /\ NoStray /\ DeferredShown
  BY DEF FlipsInv, FlipsFollowed
<1>2. /\ flip' = Off /\ scan' = ModesetBo /\ untracked' = TRUE /\ lit' = TRUE
      /\ UNCHANGED <<pc, phase, deferred, gpu, queue, outrun>>
  BY DEF DpmsWake, Resume, ResumeFails, Modeset, loop, frames
<1>3. flip = Off /\ InPhase("Pending") = {}
  BY <1>1 DEF DpmsWake, Resume, ResumeFails, Asleep
<1>4. InPhase("Pending")' = {}
  BY <1>2, <1>3 DEF InPhase
<1>5. scan' # Off
  <2>1. InPhase("OnScreen") \subseteq Nat /\ InPhase("OnScreen") \subseteq Bos
    BY NumBosAssumption DEF InPhase, Bos
  <2>2. InPhase("OnScreen") # {} => Least(InPhase("OnScreen")) \in Bos
    BY <2>1, LeastIn
  <2> QED
    BY <1>2, <2>2, NumBosAssumption DEF ModesetBo, Bos, Off
<1>6. ~outrun => ~(queue > 0)
  BY <1>1, <1>3 DEF NoStray
<1> QED
  BY <1>1, <1>2, <1>3, <1>4, <1>5, <1>6
     DEF FlipsFollowed, Asleep, PendingFlips, NoStray, ScreenKnown, DeferredShown

LEMMA FlipsDone ==
  ASSUME FlipsInv, FlipDone
  PROVE  FlipsFollowed'
<1>1. /\ TypeOK /\ BosHeld /\ Asleep /\ NoStray /\ DeferredShown /\ PendingFlips
      /\ queue \in Nat /\ flip \in Bos /\ flip # Off
  BY OnePending DEF FlipsInv, FlipsFollowed, TypeOK, FlipDone
<1>2. /\ \A j \in gpu : j.bo = flip
      /\ scan' = flip /\ flip' = Off /\ queue' = queue + 1
      /\ untracked' = (phase[flip] # "Pending")
      /\ UNCHANGED <<pc, seat, lit, phase, deferred, gpu, outrun>>
  BY DEF FlipDone, loop, power, frames
<1>3. InPhase("Pending")' = InPhase("Pending") /\ queue' > 0
  BY <1>1, <1>2 DEF InPhase
<1>4. Asleep'
  BY <1>1, <1>2, <1>3 DEF Asleep
<1>5. ASSUME NEW b \in InPhase("Pending")
      PROVE  b = flip /\ phase[b] = "Pending"
  BY <1>1, <1>5 DEF PendingFlips, InPhase
<1>6. PendingFlips'
  BY <1>2, <1>3, <1>5 DEF PendingFlips
<1>7. NoStray'
  <2>1. ~outrun => phase[flip] = "Pending"
    BY <1>1 DEF NoStray
  <2>2. ~outrun => flip \in InPhase("Pending")
    BY <1>1, <2>1 DEF InPhase
  <2> QED
    BY <1>2, <1>3, <2>2 DEF NoStray
<1>8. ScreenKnown'
  BY <1>1, <1>2, <1>3 DEF ScreenKnown
<1>9. DeferredShown'
  BY <1>1, <1>2 DEF DeferredShown
<1> QED
  BY <1>4, <1>6, <1>7, <1>8, <1>9 DEF FlipsFollowed

\* What reading completions comes to: the Pending buffer, if there is one, is retired
\* and its frame acknowledged.
LEMMA ReadyEffect ==
  ASSUME FlipsInv, FlipReady
  PROVE  /\ queue > 0 /\ InPhase("Pending")' = {}
         /\ \/ InPhase("Pending") = {} /\ UNCHANGED <<phase, acks, damage, deferred>>
            \/ /\ acks # <<>> /\ InPhase("Pending") = {Head(acks).bo}
               /\ AckFrame(Head(acks))
               /\ phase' = Retired(Head(acks).bo)
<1>1. TypeOK /\ BosHeld /\ Asleep /\ queue > 0
  BY DEF FlipsInv, FlipsFollowed, FlipReady, Asleep
<1>2. CASE seat = "Active" /\ InPhase("Pending") # {}
  <2> DEFINE b == Head(acks).bo
  <2>1. acks # <<>> /\ InPhase("Pending") = {b}
    BY <1>1, <1>2, OnePending
  <2>2. InPhase("Pending") \subseteq Nat /\ InPhase("Pending") \subseteq Bos
    BY NumBosAssumption DEF InPhase, Bos
  <2>3. Least(InPhase("Pending")) = b
    BY <2>1, <2>2, LeastIn
  <2>4. phase' = Retired(b) /\ AckFrame(Head(acks))
    BY <1>2, <2>1, <2>3 DEF FlipReady
  <2> HIDE DEF b
  <2>5. ASSUME NEW x \in Bos
        PROVE  phase'[x] # "Pending"
    <3>1. phase'[x] = CASE x = b -> "OnScreen"
                        [] x # b /\ phase[x] = "OnScreen" -> "Free"
                        [] OTHER -> phase[x]
      BY <2>4 DEF Retired
    <3>2. x # b => phase[x] # "Pending"
      BY <2>1 DEF InPhase
    <3> QED
      BY ONLY <3>1, <3>2
  <2>6. InPhase("Pending")' = {}
    BY <2>5 DEF InPhase
  <2> QED
    BY <1>1, <2>1, <2>4, <2>6 DEF b
<1>3. CASE ~(seat = "Active" /\ InPhase("Pending") # {})
  <2>1. InPhase("Pending") = {}
    BY <1>1, <1>3 DEF Asleep
  <2>2. UNCHANGED <<phase, acks, damage, deferred>>
    BY <1>3 DEF FlipReady
  <2>3. InPhase("Pending")' = {}
    BY <2>1, <2>2 DEF InPhase
  <2> QED
    BY <1>1, <2>1, <2>2, <2>3
<1> QED
  BY <1>2, <1>3

LEMMA FlipsReady ==
  ASSUME FlipsInv, FlipReady
  PROVE  FlipsFollowed'
<1>1. /\ TypeOK /\ BosHeld /\ Asleep /\ PendingFlips /\ NoStray /\ ScreenKnown
      /\ DeferredShown
  BY DEF FlipsInv, FlipsFollowed
<1>2. /\ pc' = "work" /\ queue' = 0
      /\ (outrun' <=> (outrun /\ flip # Off /\ phase'[flip] # "Pending"))
      /\ UNCHANGED <<seat, lit, scan, flip, untracked, gpu>>
  BY DEF FlipReady, power
<1>3. queue > 0 /\ InPhase("Pending")' = {}
  BY ReadyEffect
<1>4. flip # Off => flip \in Bos /\ phase'[flip] # "Pending"
  BY <1>1, <1>3, OnePending DEF InPhase
<1>5. ~outrun' => flip = Off
  BY <1>1, <1>2, <1>3, <1>4 DEF NoStray
<1>6. CASE InPhase("Pending") = {} /\ UNCHANGED <<phase, deferred>>
  <2>1. Asleep' /\ PendingFlips' /\ NoStray'
    BY <1>1, <1>2, <1>3, <1>5 DEF Asleep, PendingFlips, NoStray
  <2>2. ScreenKnown'
    BY <1>1, <1>2, <1>3, <1>6, OnePending DEF ScreenKnown
  <2>3. outrun /\ flip # Off => outrun'
    BY <1>2, <1>4
  <2>4. DeferredShown'
    BY <1>1, <1>2, <1>6, <2>3 DEF DeferredShown
  <2> QED
    BY <2>1, <2>2, <2>4 DEF FlipsFollowed
<1>7. CASE /\ acks # <<>> /\ InPhase("Pending") = {Head(acks).bo}
           /\ AckFrame(Head(acks))
           /\ phase' = Retired(Head(acks).bo)
  <2> DEFINE b == Head(acks).bo
  <2>1. b \in Bos /\ phase[b] = "Pending" /\ InPhase("Pending") = {b}
    BY <1>1, <1>7, OnePending
  <2>2. ASSUME NEW x \in Bos
        PROVE  phase'[x] = CASE x = b -> "OnScreen"
                             [] x # b /\ phase[x] = "OnScreen" -> "Free"
                             [] OTHER -> phase[x]
    BY <1>7 DEF Retired
  <2>3. deferred' \subseteq deferred \cup {JobOf(Head(acks))} /\ JobOf(Head(acks)).bo = b
    BY <1>7 DEF AckFrame, JobOf
  <2> HIDE DEF b
  <2>4. phase'[b] = "OnScreen"
    BY ONLY <2>1, <2>2
  <2>5. Asleep' /\ PendingFlips' /\ NoStray'
    BY <1>1, <1>2, <1>3, <1>5, <2>1 DEF Asleep, PendingFlips, NoStray
  <2>6. ScreenKnown'
    <3> SUFFICES ASSUME ~untracked, scan \in Bos
                 PROVE  phase'[scan] = "OnScreen" /\ ~outrun' /\ queue' = 0
      BY <1>2 DEF ScreenKnown
    <3>1. phase[scan] = "Pending" /\ flip = Off
      BY <1>1, <1>3 DEF ScreenKnown
    <3>2. scan = b
      BY <2>1, <3>1 DEF InPhase
    <3> QED
      BY <1>2, <2>4, <3>1, <3>2
  <2>7. ASSUME NEW i \in deferred' \cap gpu
        PROVE  \/ phase'[i.bo] = "OnScreen"
               \/ outrun' /\ flip # Off /\ flip # i.bo /\ phase'[i.bo] # "Pending"
    <3>1. CASE i.bo = b
      BY <2>4, <3>1
    <3>2. CASE i.bo # b
      <4>1. i \in deferred \cap gpu /\ i.bo \in Bos
        BY <1>1, <2>3, <2>7, <3>2 DEF TypeOK, Job
      <4>2. flip = b
        BY <1>1, <2>1, <3>2, <4>1 DEF PendingFlips
      <4>3. flip # Off /\ outrun /\ outrun'
        BY <1>1, <1>2, <1>3, <1>4, <2>1, <4>2, OnePending DEF NoStray
      <4>4. phase[i.bo] # "Pending"
        BY <1>1, <4>1 DEF DeferredShown
      <4>5. phase'[i.bo] # "Pending"
        BY ONLY <2>2, <3>2, <4>1, <4>4
      <4> QED
        BY <3>2, <4>2, <4>3, <4>5
    <3> QED
      BY <3>1, <3>2
  <2>8. DeferredShown'
    BY <1>2, <2>7 DEF DeferredShown
  <2> QED
    BY <2>5, <2>6, <2>8 DEF FlipsFollowed
<1> QED
  BY <1>6, <1>7, ReadyEffect

\* A tick composites when nothing is in flight: then neither is a flip the server
\* knows of, and what it may render into is not on the screen.
LEMMA AtTick ==
  ASSUME FlipsInv, Composites
  PROVE  /\ acks = <<>> /\ InPhase("Pending") = {} /\ lit /\ seat = "Active"
         /\ ~outrun => flip = Off /\ queue = 0
         /\ ~untracked /\ scan \in Bos => ~outrun /\ phase[scan] = "OnScreen"
         /\ \A b \in Bos : phase[b] = "OnScreen" =>
               b \notin FreeAfterReap /\ Reaped[b] = "OnScreen"
         /\ \A b \in Bos : Reaped[b] # "Pending"
         /\ \A i \in gpu : i \notin deferred => i \in failed /\ i.bo \notin FreeAfterReap
<1>1. /\ TypeOK /\ BosHeld /\ SlotsHeld /\ PendingFlips /\ NoStray /\ ScreenKnown
  BY DEF FlipsInv, FlipsFollowed
<1>2. acks = <<>> /\ lit /\ seat = "Active"
  BY DEF Composites, Ready
<1>3. InPhase("Pending") = {}
  BY <1>1, <1>2, OnePending
<1>4. ~outrun => flip = Off /\ queue = 0
  <2>1. flip \in Bos => phase[flip] # "Pending"
    BY <1>3 DEF InPhase
  <2>2. flip # Off => flip \in Bos
    BY <1>1, OnePending
  <2>3. queue \in Nat
    BY <1>1 DEF TypeOK
  <2> QED
    BY <1>1, <1>3, <2>1, <2>2, <2>3 DEF NoStray
<1>5. ~untracked /\ scan \in Bos => ~outrun /\ phase[scan] = "OnScreen"
  BY <1>1, <1>3 DEF ScreenKnown, InPhase
<1>6. ASSUME NEW b \in Bos, phase[b] = "OnScreen"
      PROVE  b \notin FreeAfterReap /\ Reaped[b] = "OnScreen"
  <2>1. \A j \in failed : phase[j.bo] \in {"Recording", "Free"}
    BY <1>1 DEF BosHeld, FailedHeld
  <2>2. b \notin FreeAfterReap
    BY <1>6, <2>1 DEF FreeAfterReap, InPhase, RetiredFailed
  <2> QED
    BY <1>6, <2>2 DEF Reaped
<1>7. /\ \A b \in Bos : Reaped[b] # "Pending"
      /\ \A j \in failed \cap gpu : j.bo \notin FreeAfterReap
  BY <1>1, <1>2, ReapBos
<1>8. \A i \in gpu : i \in deferred \/ i \in failed
  <2>1. (deferred \cap gpu) \cup (failed \cap gpu) = gpu
    BY <1>1, <1>2, ReapHeld
  <2> QED
    BY <2>1
<1>9. \A i \in gpu : i \notin deferred => i \in failed /\ i.bo \notin FreeAfterReap
  BY ONLY <1>7, <1>8
<1> QED
  BY ONLY <1>2, <1>3, <1>4, <1>5, <1>6, <1>7, <1>9

\* A tick that commits no flip; it may take one buffer that is free.
LEMMA FlipsReap ==
  ASSUME FlipsInv, Composites, pc' = "block",
         deferred' = deferred \cap gpu,
         UNCHANGED <<lit, seat, scan, flip, queue, untracked, outrun>>,
         \/ gpu' = gpu /\ phase' = Reaped
         \/ /\ Renders
            /\ gpu' = gpu \cup {[bo |-> NextBo, slot |-> NextSlot]}
            /\ phase' = [Reaped EXCEPT ![NextBo] = "Recording"]
  PROVE  FlipsFollowed'
<1>1. TypeOK /\ Asleep /\ DeferredShown /\ NoStray
  BY DEF FlipsInv, FlipsFollowed
<1>2. /\ ~outrun => flip = Off /\ queue = 0
      /\ ~untracked /\ scan \in Bos => ~outrun /\ phase[scan] = "OnScreen"
      /\ \A b \in Bos : phase[b] = "OnScreen" =>
            b \notin FreeAfterReap /\ Reaped[b] = "OnScreen"
      /\ \A b \in Bos : Reaped[b] # "Pending"
      /\ lit /\ seat = "Active"
  BY AtTick
<1>3. Reaped \in [Bos -> {"Free", "Recording", "Pending", "OnScreen"}]
  BY <1>1, ReapTyped
<1>4. ASSUME NEW b \in Bos
      PROVE  phase'[b] # "Pending" /\ (phase[b] = "OnScreen" => phase'[b] = "OnScreen")
  <2>1. CASE phase' = Reaped
    BY ONLY <1>2, <2>1, b \in Bos
  <2>2. CASE /\ Renders
             /\ phase' = [Reaped EXCEPT ![NextBo] = "Recording"]
    <3>1. NextBo \in FreeAfterReap
      BY <1>1, <2>2, NextTaken
    <3> QED
      BY <1>2, <1>3, <2>2, <3>1
  <2> QED
    BY <2>1, <2>2
<1>5. InPhase("Pending")' = {}
  BY <1>4 DEF InPhase
<1>6. Asleep'
  BY <1>1, <1>2, <1>5 DEF Asleep
<1>7. NoStray' /\ PendingFlips'
  <2>1. ~outrun => ~(queue > 0)
    BY <1>2
  <2> QED
    BY <1>2, <1>5, <2>1 DEF NoStray, PendingFlips
<1>8. ScreenKnown'
  BY <1>2, <1>4 DEF ScreenKnown
<1>9. ASSUME NEW i \in deferred' \cap gpu'
      PROVE  \/ phase'[i.bo] = "OnScreen"
             \/ outrun /\ flip # Off /\ flip # i.bo /\ phase'[i.bo] # "Pending"
  <2>1. i \in deferred \cap gpu /\ i.bo \in Bos
    BY <1>1, <1>9 DEF TypeOK, Job
  <2> QED
    BY <1>1, <1>4, <2>1 DEF DeferredShown
<1>10. DeferredShown'
  BY <1>9 DEF DeferredShown
<1> QED
  BY <1>5, <1>6, <1>7, <1>8, <1>10 DEF FlipsFollowed

LEMMA FlipsPresents ==
  ASSUME FlipsInv, TickPresents
  PROVE  FlipsFollowed'
<1> DEFINE n == [bo |-> NextBo, slot |-> NextSlot]
<1>1. TypeOK /\ Asleep /\ DeferredShown
  BY DEF FlipsInv, FlipsFollowed
<1>2. /\ ~outrun => flip = Off /\ queue = 0
      /\ ~untracked /\ scan \in Bos => ~outrun /\ phase[scan] = "OnScreen"
      /\ \A b \in Bos : phase[b] = "OnScreen" =>
            b \notin FreeAfterReap /\ Reaped[b] = "OnScreen"
      /\ \A b \in Bos : Reaped[b] # "Pending"
      /\ lit /\ seat = "Active"
  BY AtTick DEF TickPresents
<1>3. /\ pc' = "block" /\ flip' = NextBo /\ deferred' = deferred \cap gpu
      /\ gpu' = gpu \cup {n} /\ phase' = [Reaped EXCEPT ![NextBo] = "Pending"]
      /\ flip = Off
      /\ UNCHANGED <<lit, seat, scan, queue, untracked, outrun>>
  BY DEF TickPresents, Ticking, Accepts, ReapLists, power, history
<1>4. NextBo \in FreeAfterReap /\ NextBo \in Bos /\ NextBo # Off
  BY <1>1, NextTaken DEF TickPresents, Off, Bos
<1>5. Reaped \in [Bos -> {"Free", "Recording", "Pending", "OnScreen"}]
  BY <1>1, ReapTyped
<1>6. /\ phase'[NextBo] = "Pending"
      /\ \A b \in Bos : b # NextBo => phase'[b] = Reaped[b]
  BY <1>3, <1>4, <1>5
<1>7. InPhase("Pending")' = {NextBo}
  BY <1>2, <1>4, <1>6 DEF InPhase
<1>8. Asleep' /\ PendingFlips'
  BY <1>1, <1>2, <1>3, <1>7 DEF Asleep, PendingFlips
<1>9. NoStray'
  <2>1. ~outrun => queue' = 0 /\ ~(queue' > 0)
    BY <1>2, <1>3
  <2> QED
    BY <1>3, <1>6, <2>1 DEF NoStray
<1>10. ScreenKnown'
  <2> SUFFICES ASSUME ~untracked, scan \in Bos
               PROVE  phase'[scan] = "OnScreen" /\ ~outrun /\ queue = 0
    BY <1>3 DEF ScreenKnown
  <2>1. ~outrun /\ phase[scan] = "OnScreen" /\ queue = 0
    BY <1>2
  <2>2. scan # NextBo /\ Reaped[scan] = "OnScreen"
    BY <1>2, <1>4, <2>1
  <2> QED
    BY <1>6, <2>1, <2>2
<1>11. ASSUME NEW i \in deferred' \cap gpu'
       PROVE  phase'[i.bo] = "OnScreen"
  <2>1. i \in deferred \cap gpu /\ i.bo \in Bos
    BY <1>1, <1>3, <1>11 DEF TypeOK, Job
  <2>2. phase[i.bo] = "OnScreen"
    BY <1>1, <1>3, <2>1 DEF DeferredShown
  <2>3. i.bo # NextBo /\ Reaped[i.bo] = "OnScreen"
    BY <1>2, <1>4, <2>1, <2>2
  <2> QED
    BY <1>6, <2>1, <2>3
<1>12. DeferredShown'
  BY <1>11 DEF DeferredShown
<1> QED
  BY <1>8, <1>9, <1>10, <1>12 DEF FlipsFollowed

LEMMA FlipsTick ==
  ASSUME FlipsInv, Tick
  PROVE  FlipsFollowed'
<1>1. CASE TickGated
  <2>1. /\ pc' = "block"
        /\ UNCHANGED <<lit, seat, phase, deferred, gpu, scan, flip, queue, untracked, outrun>>
    BY <1>1 DEF TickGated, Ticking, power, frames, kernel, history
  <2>2. Asleep'
    BY <2>1 DEF FlipsInv, FlipsFollowed, Asleep, InPhase
  <2> QED
    BY <2>1, <2>2, FlipsSame DEF FlipsInv
<1>2. CASE TickEmpty \/ TickStarved \/ TickSubmitFails \/ TickNoFence
  <2>1. /\ Composites /\ pc' = "block" /\ ReapLists /\ phase' = Reaped
        /\ UNCHANGED <<lit, seat, gpu, scan, flip, queue, untracked, outrun>>
    BY <1>2 DEF TickEmpty, TickStarved, TickSubmitFails, TickNoFence, Ticking, power, kernel,
                history
  <2> QED
    BY <2>1, FlipsReap DEF ReapLists
<1>3. CASE TickCommitFails
  <2>1. /\ Composites /\ Renders /\ pc' = "block" /\ deferred' = deferred \cap gpu
        /\ phase' = [Reaped EXCEPT ![NextBo] = "Recording"]
        /\ gpu' = gpu \cup {[bo |-> NextBo, slot |-> NextSlot]}
        /\ UNCHANGED <<lit, seat, scan, flip, queue, untracked, outrun>>
    BY <1>3 DEF TickCommitFails, Ticking, power, kernel, history
  <2> QED
    BY <2>1, FlipsReap
<1> QED
  BY <1>1, <1>2, <1>3, FlipsPresents DEF Tick

LEMMA FlipsStep == FlipsInv /\ [Next]_vars => FlipsInv'
<1> SUFFICES ASSUME FlipsInv, [Next]_vars
             PROVE  FlipsFollowed'
  BY TypeStep, SlotsStep, BosStep DEF FlipsInv
<1>1. FlipsFollowed /\ Asleep
  BY DEF FlipsInv, FlipsFollowed
<1>2. ASSUME UNCHANGED <<seat, lit, phase, deferred, kernel, untracked, outrun>>,
             gpu' \subseteq gpu, pc' = "drm" => queue > 0
      PROVE  FlipsFollowed'
  <2>1. Asleep'
    BY <1>1, <1>2 DEF Asleep, InPhase, kernel
  <2> QED
    BY <1>1, <1>2, <2>1, FlipsSame DEF kernel
<1>3. CASE Poll \/ RetryDue \/ DpmsWakeFails \/ Grant \/ Shutdown \/ UNCHANGED vars
  BY <1>1, <1>2, <1>3 DEF Poll, RetryDue, DpmsWakeFails, Grant, Shutdown, vars, loop, power,
                          frames, kernel, history, Asleep
<1>4. ASSUME NEW R \in {{}} \cup {{r} : r \in Rects}, Request(R)
      PROVE  FlipsFollowed'
  BY <1>1, <1>2, <1>4 DEF Request, loop, power, frames, kernel, Asleep
<1>5. ASSUME NEW j \in gpu, FenceSignals(j)
      PROVE  FlipsFollowed'
  BY <1>1, <1>2, <1>5 DEF FenceSignals, loop, power, frames, kernel, history, Asleep
<1>6. CASE ResumeFails
  <2>1. CASE UNCHANGED <<lit, scan, flip, content, untracked>>
    <3>1. /\ UNCHANGED <<pc, lit, phase, deferred, gpu, scan, flip, queue, untracked, outrun>>
          /\ seat # "Active"
      BY <1>6, <2>1 DEF ResumeFails, frames
    <3>2. Asleep'
      BY <1>1, <3>1 DEF Asleep, InPhase
    <3> QED
      BY <1>1, <3>1, <3>2, FlipsSame
  <2>2. CASE Modeset /\ lit' = TRUE
    BY <1>6, <2>2, FlipsModeset
  <2> QED
    BY <1>6, <2>1, <2>2 DEF ResumeFails
<1> QED
  BY <1>3, <1>4, <1>5, <1>6, FlipsStop, FlipsModeset, FlipsDone, FlipsReady, FlipsTick
     DEF Next, Exited

LEMMA FlipsInit == Init => FlipsInv
<1> SUFFICES ASSUME Init
             PROVE  FlipsInv
  OBVIOUS
<1>1. InFlight = {}
  BY DEF Init, InFlight
<1>2. SlotsHeld /\ BosHeld
  <2>1. Frames = {}
    BY <1>1 DEF Init, Frames
  <2>2. InPhase("Pending") = {} /\ InPhase("OnScreen") = {}
    BY DEF Init, InPhase
  <2> QED
    BY <1>1, <2>1, <2>2 DEF Init, SlotsHeld, BosHeld, FailedHeld, AcksMatchFlips
<1>3. InPhase("Pending") = {} /\ Boot # Off
  BY NumBosAssumption DEF Init, InPhase, Boot, Off
<1>4. FlipsFollowed
  BY <1>3 DEF Init, FlipsFollowed, Asleep, PendingFlips, NoStray, ScreenKnown, DeferredShown
<1> QED
  BY <1>2, <1>4, TypeInit DEF FlipsInv

LEMMA FlipsAlways == Spec => []FlipsInv
BY FlipsInit, FlipsStep, PTL DEF Spec

LEMMA RendersStep ==
  ASSUME FlipsInv, Next, NEW j \in gpu' \ gpu
  PROVE  \/ outrun
         \/ j.bo \notin {i.bo : i \in gpu} /\ (untracked \/ j.bo \notin {scan, flip})
<1>1. TickPresents \/ TickCommitFails
  BY DEF Next, Poll, Request, FlipReady, FlipDone, RetryDue, FenceSignals, Tick, TickGated,
         TickEmpty, TickStarved, TickSubmitFails, TickNoFence, DpmsSleep, DpmsSleepFails,
         DpmsWake, DpmsWakeFails, Suspend, Grant, Resume, ResumeFails, Shutdown, Exited,
         StopOutput, vars
<1>2. Composites /\ Renders /\ j = [bo |-> NextBo, slot |-> NextSlot]
  BY <1>1 DEF TickPresents, TickCommitFails
<1>3. j.bo \in FreeAfterReap /\ j.bo \in Bos
  BY <1>2, NextTaken DEF FlipsInv
<1>4. SUFFICES ASSUME ~outrun
               PROVE  j.bo \notin {i.bo : i \in gpu} /\ (untracked \/ j.bo \notin {scan, flip})
  OBVIOUS
<1>5. /\ flip = Off
      /\ ~untracked /\ scan \in Bos => phase[scan] = "OnScreen"
      /\ \A b \in Bos : phase[b] = "OnScreen" => b \notin FreeAfterReap
      /\ \A i \in gpu : i \notin deferred => i.bo \notin FreeAfterReap
  BY <1>2, <1>4, AtTick
<1>6. ASSUME NEW i \in gpu
      PROVE  i.bo # j.bo
  <2>1. CASE i \in deferred
    <3>1. phase[i.bo] = "OnScreen" /\ i.bo \in Bos
      BY <1>4, <2>1 DEF FlipsInv, FlipsFollowed, DeferredShown, TypeOK, Job
    <3> QED
      BY <1>3, <1>5, <3>1
  <2>2. CASE i \notin deferred
    BY <1>3, <1>5, <2>2
  <2> QED
    BY <2>1, <2>2
<1>7. j.bo # flip
  BY <1>3, <1>5 DEF Off, Bos
<1>8. ~untracked => j.bo # scan
  BY <1>3, <1>5
<1> QED
  BY <1>6, <1>7, <1>8

\* No frame is rendered into a buffer that the screen shows or is about to show, nor
\* into one the GPU is still rendering, but where a modeset or a forgotten flip has put
\* the buffer there.
THEOREM RendersSafe == Spec => RendersOffScreen
<1>1. FlipsInv /\ [Next]_vars =>
         [\A j \in gpu' \ gpu :
             \/ outrun
             \/ j.bo \notin {i.bo : i \in gpu} /\ (untracked \/ j.bo \notin {scan, flip})]_vars
  BY RendersStep
<1> QED
  BY <1>1, FlipsAlways, PTL DEF Spec, RendersOffScreen

LEMMA RetiresStep ==
  ASSUME FlipsInv, Next, NEW b \in Bos, phase[b] = "Pending", phase'[b] = "OnScreen", ~outrun
  PROVE  scan = b
<1>1. TypeOK /\ BosHeld /\ NoStray
  BY DEF FlipsInv, FlipsFollowed
<1>2. CASE FlipReady
  <2>1. queue > 0 /\ scan \in InPhase("Pending")
    BY <1>1, <1>2, ReadyEffect DEF NoStray
  <2>2. b \in InPhase("Pending")
    BY DEF InPhase
  <2> QED
    BY <1>1, <2>1, <2>2, OnePending
<1>3. CASE Tick /\ ~TickGated
  <2>1. Composites
    BY <1>3 DEF Tick, TickEmpty, TickStarved, TickPresents, TickCommitFails,
                TickSubmitFails, TickNoFence
  <2>2. InPhase("Pending") = {}
    BY <2>1, AtTick
  <2> QED
    BY <2>2 DEF InPhase
<1>4. CASE DpmsSleep \/ DpmsSleepFails \/ Suspend
  BY <1>4 DEF DpmsSleep, DpmsSleepFails, Suspend, StopOutput, ResetBos
<1>5. CASE phase' = phase
  BY <1>5
<1> QED
  BY <1>2, <1>3, <1>4, <1>5
     DEF Next, Poll, Request, FlipDone, RetryDue, FenceSignals, Tick, TickGated, DpmsWake,
         DpmsWakeFails, Grant, Resume, ResumeFails, Shutdown, Exited, vars, frames

\* A completion that is read retires the flip the kernel completed, although it names
\* no buffer, unless a flip was forgotten.
THEOREM RetiresTheRightOne == Spec => FlipRetiresItself
<1>1. FlipsInv /\ [Next]_vars =>
         [\A b \in Bos : phase[b] = "Pending" /\ phase'[b] = "OnScreen" /\ ~outrun => scan = b]_vars
  BY RetiresStep
<1> QED
  BY <1>1, FlipsAlways, PTL DEF Spec, FlipRetiresItself

\* The tick commits no flip that the kernel must refuse, but for those that follow a
\* modeset or a forgotten flip.
THEOREM CommitsAccepted == Spec => NoHopelessCommit
<1>1. ASSUME FlipsInv, TickCommitFails, ~untracked, ~outrun
      PROVE  Accepts
  <2>1. Composites /\ Asleep
    BY <1>1 DEF TickCommitFails, FlipsInv, FlipsFollowed
  <2>2. lit /\ seat = "Active" /\ flip = Off
    BY <1>1, <2>1, AtTick
  <2> QED
    BY <1>1, <2>1, <2>2 DEF Asleep, Accepts
<1>2. FlipsInv /\ [Next]_vars => [TickCommitFails => Accepts \/ untracked \/ outrun]_vars
  BY <1>1
<1> QED
  BY <1>2, FlipsAlways, PTL DEF Spec, NoHopelessCommit

-----------------------------------------------------------------------------
(* Damage.                                                                  *)

DamageInv == FlipsInv /\ InFlightKept /\ DamageCoversScreen

\* The guard of DamageCoversScreen.
Followed == scan \in Bos /\ ~untracked /\ ~outrun
Covered == shown \subseteq damage \cup again /\ (shown \subseteq again \/ dirty \/ acks # <<>>)

LEMMA CoversIs == DamageCoversScreen <=> (Followed => Covered)
BY DEF DamageCoversScreen, Followed, Covered

LEMMA DamageSame ==
  ASSUME DamageInv, UNCHANGED <<acks, flip, scan, damage, again, shown, coming, untracked, outrun>>,
         dirty => dirty'
  PROVE  InFlightKept' /\ (Followed => Covered)'
<1>1. InFlight' = InFlight
  BY DEF InFlight
<1>2. InFlightKept'
  BY <1>1 DEF DamageInv, InFlightKept, Kept
<1>3. (Followed => Covered)'
  BY DEF DamageInv, DamageCoversScreen, Followed, Covered
<1> QED
  BY <1>2, <1>3

LEMMA DamagePainted ==
  ASSUME DamageInv, NEW R, Request(R)
  PROVE  InFlightKept' /\ (Followed => Covered)'
<1>1. /\ damage' = damage \cup R /\ dirty' = TRUE /\ shown' = shown \cup R
      /\ coming' = IF flip = Off THEN {} ELSE coming \cup R
      /\ again' = again \cup UNION {a.snap \cap R : a \in InFlight}
      /\ UNCHANGED <<acks, flip, scan, untracked, outrun>>
  BY DEF Request, frames, kernel
<1>2. InFlight' = InFlight
  BY <1>1 DEF InFlight
<1>3. ASSUME NEW a \in InFlight, NEW S, Kept(S, a.snap)
      PROVE  S \cup R \subseteq damage' /\ (S \cup R) \cap a.snap \subseteq again'
  BY <1>1, <1>3 DEF Kept
<1>4. ASSUME NEW a \in InFlight
      PROVE  /\ flip = a.bo => Kept(coming, a.snap)'
             /\ flip = Off => Kept(shown, a.snap)'
  <2>1. CASE flip = Off
    <3>1. Kept(shown, a.snap) /\ coming' = {}
      BY <1>1, <1>4, <2>1 DEF DamageInv, InFlightKept
    <3> QED
      BY <1>1, <1>3, <1>4, <3>1 DEF Kept
  <2>2. CASE flip # Off /\ flip = a.bo
    <3>1. Kept(coming, a.snap) /\ coming' = coming \cup R
      BY <1>1, <1>4, <2>2 DEF DamageInv, InFlightKept
    <3> QED
      BY <1>1, <1>3, <1>4, <2>2, <3>1 DEF Kept
  <2> QED
    BY <2>1, <2>2
<1>5. InFlightKept'
  BY <1>1, <1>2, <1>4 DEF InFlightKept
<1>6. (Followed => Covered)'
  <2>1. shown \subseteq damage \cup again => shown' \subseteq damage' \cup again'
    BY <1>1
  <2> QED
    BY <1>1, <2>1 DEF DamageInv, DamageCoversScreen, Followed, Covered
<1> QED
  BY <1>5, <1>6

LEMMA DamageStop ==
  ASSUME DamageInv,
         \/ DpmsSleep \/ DpmsSleepFails \/ Suspend \/ DpmsWake \/ Resume
         \/ ResumeFails /\ Modeset
  PROVE  InFlightKept' /\ (Followed => Covered)'
<1>1. acks' = <<>>
  <2>1. CASE DpmsSleep \/ DpmsSleepFails \/ Suspend
    BY <2>1 DEF DpmsSleep, DpmsSleepFails, Suspend, StopOutput, DrainAll
  <2>2. CASE DpmsWake \/ Resume \/ ResumeFails
    <3>1. InPhase("Pending") = {} /\ acks' = acks
      BY <2>2 DEF DamageInv, FlipsInv, FlipsFollowed, Asleep, DpmsWake, Resume, ResumeFails,
                  frames
    <3> QED
      BY <3>1, OnePending DEF DamageInv, FlipsInv
  <2> QED
    BY <2>1, <2>2
<1>2. InFlight' = {}
  BY <1>1 DEF InFlight
<1>3. untracked' \/ scan' = Off
  BY DEF DpmsSleep, DpmsSleepFails, Suspend, DpmsWake, Resume, Modeset
<1>4. Off \notin Bos
  BY DEF Off, Bos
<1> QED
  BY <1>2, <1>3, <1>4 DEF InFlightKept, Followed

LEMMA DamageShown ==
  ASSUME DamageInv, FlipDone
  PROVE  InFlightKept' /\ (Followed => Covered)'
<1>1. /\ TypeOK /\ BosHeld /\ PendingFlips /\ InFlightKept /\ flip # Off
      /\ flip \in Bos /\ Off \notin Bos
  BY OnePending DEF DamageInv, FlipsInv, FlipsFollowed, FlipDone
<1>2. /\ scan' = flip /\ flip' = Off /\ untracked' = (phase[flip] # "Pending")
      /\ shown' = coming /\ again' = again \cap coming
      /\ UNCHANGED <<acks, damage, dirty, outrun>>
  BY DEF FlipDone, frames, scene
<1>3. InFlight' = InFlight
  BY <1>2 DEF InFlight
<1>4. ASSUME NEW a \in InFlight
      PROVE  Kept(coming, a.snap) /\ a.bo \in Bos
  <2>1. a.bo \in InPhase("Pending")
    BY <1>1 DEF BosHeld, AcksMatchFlips
  <2>2. flip = a.bo
    BY <1>1, <2>1 DEF PendingFlips
  <2> QED
    BY <1>1, <1>4, <2>2 DEF InFlightKept
<1>5. InFlightKept'
  BY <1>1, <1>2, <1>3, <1>4 DEF InFlightKept, Kept
<1>6. (Followed => Covered)'
  <2> SUFFICES ASSUME phase[flip] = "Pending"
               PROVE  Covered'
    BY <1>2 DEF Followed
  <2>1. InPhase("Pending") # {}
    BY <1>1 DEF InPhase
  <2>2. acks # <<>> /\ Head(acks) \in InFlight
    BY <1>1, <2>1, OnePending, OneInFlight
  <2>3. coming \subseteq damage
    BY <1>4, <2>2 DEF Kept
  <2> QED
    BY <1>2, <2>2, <2>3 DEF Covered
<1> QED
  BY <1>5, <1>6

\* The acknowledgement takes from the damage what the frame shows, but for what was
\* painted again.
LEMMA DamageAcked ==
  ASSUME DamageInv, FlipReady
  PROVE  InFlightKept' /\ (Followed => Covered)'
<1>1. /\ TypeOK /\ BosHeld /\ ScreenKnown /\ InFlightKept
  BY DEF DamageInv, FlipsInv, FlipsFollowed
<1>2. UNCHANGED <<dirty, scan, flip, shown, coming, untracked, again>>
  BY DEF FlipReady, content
<1>3. queue > 0
  BY ReadyEffect DEF DamageInv
<1>4. CASE InPhase("Pending") = {} /\ UNCHANGED <<phase, acks, damage>>
  <2>1. InFlight' = {}
    BY <1>1, <1>4, OnePending DEF InFlight
  <2>2. ~Followed'
    BY <1>1, <1>2, <1>3, <1>4, OnePending DEF Followed, ScreenKnown
  <2> QED
    BY <2>1, <2>2 DEF InFlightKept
<1>5. CASE acks # <<>> /\ InPhase("Pending") = {Head(acks).bo} /\ AckFrame(Head(acks))
  <2> DEFINE a == Head(acks)
  <2>1. a \in InFlight /\ Tail(acks) = <<>>
    BY <1>1, <1>5, OneInFlight
  <2>2. acks' = <<>> /\ damage' = damage \ a.snap
    BY <1>5, <2>1 DEF AckFrame
  <2>3. InFlight' = {}
    BY <2>2 DEF InFlight
  <2> HIDE DEF a
  <2>4. (Followed => Covered)'
    <3> SUFFICES ASSUME ~untracked, scan \in Bos
                 PROVE  Covered'
      BY <1>2 DEF Followed
    <3>1. flip = Off
      BY <1>1, <1>3 DEF ScreenKnown
    <3>2. Kept(shown, a.snap)
      BY <1>1, <2>1, <3>1 DEF InFlightKept
    <3>3. shown \subseteq (damage \ a.snap) \cup again /\ (shown = {} \/ dirty)
      BY ONLY <3>2 DEF Kept
    <3> QED
      BY <1>2, <2>2, <3>3 DEF Covered
  <2> QED
    BY <2>3, <2>4 DEF InFlightKept
<1> QED
  BY <1>4, <1>5, ReadyEffect DEF DamageInv

LEMMA DamageTick ==
  ASSUME DamageInv, Tick
  PROVE  InFlightKept' /\ (Followed => Covered)'
<1>1. CASE TickGated \/ TickStarved \/ TickCommitFails \/ TickSubmitFails \/ TickNoFence
  <2>1. /\ UNCHANGED <<acks, flip, scan, damage, again, shown, coming, untracked, outrun>>
        /\ dirty' = dirty
    BY <1>1 DEF TickGated, TickStarved, TickCommitFails, TickSubmitFails, TickNoFence, frames,
                scene, kernel, content, history
  <2> QED
    BY <2>1, DamageSame
<1>2. CASE TickEmpty
  <2>1. /\ UNCHANGED <<acks, scan, damage, again, shown, untracked, outrun>>
        /\ acks = <<>> /\ damage = {}
    BY <1>2 DEF TickEmpty, Owed, Composites, Ready, kernel, content, history
  <2>2. InFlight' = {}
    BY <2>1 DEF InFlight
  <2>3. (Followed => Covered)'
    BY <2>1 DEF DamageInv, DamageCoversScreen, Followed, Covered
  <2> QED
    BY <2>2, <2>3 DEF InFlightKept
<1>3. CASE TickPresents
  <2> DEFINE a == [bo |-> NextBo, slot |-> NextSlot, snap |-> damage, repaint |-> repaint]
  <2>1. /\ acks = <<>> /\ flip' = NextBo /\ coming' = {} /\ acks' = Append(acks, a)
        /\ UNCHANGED <<scan, damage, again, shown, untracked, outrun>>
    BY <1>3 DEF TickPresents, Composites, Ready, history
  <2>2. InFlight' = {a} /\ acks' # <<>>
    BY <2>1 DEF InFlight
  <2>3. NextBo # Off
    BY <1>3, NextTaken DEF TickPresents, DamageInv, FlipsInv, Bos, Off
  <2>4. InFlightKept'
    BY <2>1, <2>2, <2>3 DEF InFlightKept, Kept
  <2>5. (Followed => Covered)'
    BY <2>1, <2>2 DEF DamageInv, DamageCoversScreen, Followed, Covered
  <2> QED
    BY <2>4, <2>5
<1> QED
  BY <1>1, <1>2, <1>3 DEF Tick

LEMMA DamageStep == DamageInv /\ [Next]_vars => DamageInv'
<1> SUFFICES ASSUME DamageInv, [Next]_vars
             PROVE  InFlightKept' /\ (Followed => Covered)'
  BY FlipsStep, CoversIs, PTL DEF DamageInv
<1>1. CASE \/ Poll \/ RetryDue \/ DpmsWakeFails \/ Grant \/ Shutdown \/ UNCHANGED vars
           \/ \E j \in gpu : FenceSignals(j)
  <2>1. /\ UNCHANGED <<acks, flip, scan, damage, again, shown, coming, untracked, outrun>>
        /\ dirty => dirty'
    BY <1>1 DEF Poll, RetryDue, DpmsWakeFails, Grant, Shutdown, FenceSignals, vars, frames,
                scene, kernel, content, history
  <2> QED
    BY <2>1, DamageSame
<1>2. CASE ResumeFails
  <2>1. CASE UNCHANGED <<lit, scan, flip, content, untracked>>
    <3>1. /\ UNCHANGED <<acks, flip, scan, damage, again, shown, coming, untracked, outrun>>
          /\ dirty => dirty'
      BY <1>2, <2>1 DEF ResumeFails, frames, content
    <3> QED
      BY <3>1, DamageSame
  <2>2. CASE Modeset
    BY <1>2, <2>2, DamageStop
  <2> QED
    BY <1>2, <2>1, <2>2 DEF ResumeFails
<1> QED
  BY <1>1, <1>2, DamagePainted, DamageStop, DamageShown, DamageAcked, DamageTick
     DEF Next, Exited

\* What the screen shows out of date is damaged, and a tick or a completion will look
\* at it: a paint at any point of a frame's way through tick, GPU, kernel and
\* acknowledgement is lost by none of them, but for what is painted twice in one flip.
THEOREM DamageSafe == Spec => []DamageCoversScreen
<1>1. Init => DamageInv
  <2> SUFFICES ASSUME Init
               PROVE  InFlightKept /\ DamageCoversScreen
    BY FlipsInit DEF DamageInv
  <2>1. InFlight = {}
    BY DEF Init, InFlight
  <2> QED
    BY <2>1 DEF Init, InFlightKept, DamageCoversScreen
<1> QED
  BY <1>1, DamageStep, PTL DEF Spec, DamageInv

=============================================================================
