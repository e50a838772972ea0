------------------------------- MODULE Scanout -------------------------------
(***************************************************************************)
(* One output of the KMS backend: the compositor's tick, the scanout       *)
(* buffers, the ring of descriptor pools, the GPU's fences, the kernel's   *)
(* page flips with their completion events, and what interrupts them: DPMS *)
(* and VT switches, both run by the core loop between two ticks.           *)
(*                                                                         *)
(* A rect stands for damage that is equal as a rectangle of one drawable   *)
(* (or of the output): RegionSet tells no more apart.                      *)
(***************************************************************************)
EXTENDS Integers, Sequences, FiniteSets

CONSTANTS
    NumBos,    \* scanout buffers of the output
    NumSlots,  \* RING_LEN
    Rects,
    MaxFaults  \* bound: commits, submits, fences, modesets and resumes that fail

ASSUME NumBosAssumption == NumBos \in Nat \ {0}
ASSUME NumSlotsAssumption == NumSlots \in Nat \ {0}
ASSUME MaxFaultsAssumption == MaxFaults \in Nat

VARIABLES
    pc,        \* the core loop: "block", "drm" (completions to read), "work", "exit"
    stop,      \* Message::Shutdown: "none", "sent", or "due" in this iteration
    seat,      \* "Active" or "Suspended"; the states between are inside one event
    granted,   \* libseat has given the session (and DRM master) back
    lit,       \* kms_outputs_active
    phase,     \* BoPhase of every buffer
    acks,      \* pending_acks with their pool_slots
    deferred,  \* pending_pool_releases: the slot waits for the fence of its frame
    failed,    \* failed_submit_bos
    inUse,     \* slots of the ring that are taken
    dirty,     \* scene_structure_dirty
    damage,    \* presentation damage and scene structure damage
    repaint,   \* pending_repaint_after_failed_submit is not empty
    first,     \* no frame yet: current_generation = 0
    retry,     \* next_submit_retry_at: "none", "wait", "due"
    gpu,       \* frames whose fence has not signalled
    scan,      \* kernel: the buffer on the screen, Off or Boot
    flip,      \* kernel: the buffer of the commit under way, or Off
    queue,     \* kernel: completion events not yet read
    shown,     \* the rects of the buffer on the screen that are out of date
    coming,    \* the same of the buffer of the flip under way
    faults,
    untracked, \* history: the buffer on the screen came there by no flip the server follows
    outrun,    \* history: the completion of a flip the server has forgotten is unread, or to come
    again      \* history: rects painted again while a frame that holds them was in flight

loop == <<pc, stop, faults>>
power == <<seat, granted, lit>>
frames == <<phase, acks, deferred, failed, inUse>>
scene == <<dirty, damage, repaint, first, retry>>
kernel == <<scan, flip, queue>>
content == <<shown, coming>>
history == <<untracked, outrun, again>>
vars == <<loop, power, frames, scene, gpu, kernel, content, history>>

Bos == 1..NumBos
Slots == 1..NumSlots
Off == 0
Boot == NumBos + 1  \* the buffer of the modeset at startup
Job == [bo : Bos, slot : Slots]
Ack == [bo : Bos, slot : Slots, snap : SUBSET Rects, repaint : BOOLEAN]

\* The type invariant; the gates of the tick keep at most one frame in flight.
TypeOK ==
    /\ pc \in {"block", "drm", "work", "exit"}
    /\ stop \in {"none", "sent", "due"}
    /\ seat \in {"Active", "Suspended"}
    /\ granted \in BOOLEAN /\ lit \in BOOLEAN
    /\ phase \in [Bos -> {"Free", "Recording", "Pending", "OnScreen"}]
    /\ acks \in {<<>>} \cup {<<a>> : a \in Ack}
    /\ deferred \subseteq Job /\ failed \subseteq Job /\ gpu \subseteq Job
    /\ inUse \subseteq Slots
    /\ dirty \in BOOLEAN /\ repaint \in BOOLEAN /\ first \in BOOLEAN
    /\ damage \subseteq Rects /\ again \subseteq Rects
    /\ retry \in {"none", "wait", "due"}
    /\ scan \in 0..Boot /\ flip \in 0..NumBos /\ queue \in Nat
    /\ shown \subseteq Rects /\ coming \subseteq Rects
    /\ faults \in 0..MaxFaults
    /\ untracked \in BOOLEAN /\ outrun \in BOOLEAN

Init ==
    /\ pc = "block" /\ stop = "none" /\ seat = "Active" /\ granted = TRUE /\ lit = TRUE
    /\ phase = [b \in Bos |-> "Free"]
    /\ acks = <<>> /\ deferred = {} /\ failed = {} /\ inUse = {}
    /\ dirty = TRUE /\ damage = {} /\ repaint = FALSE /\ first = TRUE
    /\ retry = "none" /\ gpu = {}
    /\ scan = Boot /\ flip = Off /\ queue = 0
    /\ shown = Rects /\ coming = {}
    /\ faults = 0
    /\ untracked = TRUE /\ outrun = FALSE /\ again = {}

Fault == faults < MaxFaults /\ faults' = faults + 1
NoFault == UNCHANGED faults
Handling == pc \in {"drm", "work"}

\* The end of an iteration, with maybe_composite; not of the last one.
Ticking == pc = "work" /\ stop # "due" /\ pc' = "block" /\ UNCHANGED stop
InPhase(p) == {b \in Bos : phase[b] = p}
Least(S) == CHOOSE x \in S : \A y \in S : x <= y
InFlight == {acks[i] : i \in 1..Len(acks)}
JobOf(a) == [bo |-> a.bo, slot |-> a.slot]
SlotsOf(S) == {j.slot : j \in S}

-----------------------------------------------------------------------------
(* The core loop.                                                          *)

\* Mutant of Ready: a frame in flight does not gate the next.
Ready_Eager == retry # "wait"

\* has_output_ready_for_submit
Ready == acks = <<>> /\ retry # "wait"

\* What ends a poll by itself: a readable DRM fd, next_wakeup's deadline, or the
\* message that stops the loop.
WakeDue ==
    \/ queue > 0
    \/ stop # "none"
    \/ seat = "Active" /\ lit /\ ((dirty /\ Ready) \/ retry = "due")

\* poll returns, for one of these reasons or for another client's request.
Poll ==
    /\ pc = "block"
    /\ pc' = IF queue > 0 THEN "drm" ELSE "work"
    /\ stop' = IF stop = "sent" THEN "due" ELSE stop
    /\ UNCHANGED <<faults, power, frames, scene, gpu, kernel, content, history>>

\* A request was handled: the paths that paint add damage, every one wakes the
\* compositor (mark_dirty).
Request(R) ==
    /\ Handling
    /\ damage' = damage \cup R
    /\ dirty' = TRUE
    /\ shown' = shown \cup R
    /\ coming' = IF flip = Off THEN {} ELSE coming \cup R
    /\ again' = again \cup UNION {a.snap \cap R : a \in InFlight}
    /\ UNCHANGED <<loop, power, frames, repaint, first, retry, gpu, kernel,
                   untracked, outrun>>

-----------------------------------------------------------------------------
(* Page flips.                                                              *)

\* Mutant of AckFrame: the slot goes back at once.
AckFrame_Unfenced(a) ==
    /\ acks' = Tail(acks)
    /\ damage' = damage \ a.snap
    /\ repaint' = (repaint /\ ~a.repaint)
    /\ inUse' = inUse \ {a.slot} /\ UNCHANGED deferred

\* Mutant of AckFrame: all live damage counts as presented.
AckFrame_ClearsAll(a) ==
    /\ acks' = Tail(acks)
    /\ damage' = {}
    /\ repaint' = (repaint /\ ~a.repaint)
    /\ IF JobOf(a) \in gpu
       THEN deferred' = deferred \cup {JobOf(a)} /\ UNCHANGED inUse
       ELSE inUse' = inUse \ {a.slot} /\ UNCHANGED deferred

\* handle_page_flip_complete's ack: the frame's snapshot leaves the live damage,
\* its slot the ring, the latter only once its fence has signalled.
AckFrame(a) ==
    /\ acks' = Tail(acks)
    /\ damage' = damage \ a.snap
    /\ repaint' = (repaint /\ ~a.repaint)
    /\ IF JobOf(a) \in gpu
       THEN deferred' = deferred \cup {JobOf(a)} /\ UNCHANGED inUse
       ELSE inUse' = inUse \ {a.slot} /\ UNCHANGED deferred

\* Mutant of Retired: the presented buffer goes back to the pool.
Retired_Both(b) == [x \in Bos |-> IF x = b \/ phase[x] = "OnScreen" THEN "Free" ELSE phase[x]]

\* on_page_flip_complete: the first Pending buffer is on the screen now, the one
\* that was there is free.
Retired(b) == [x \in Bos |-> CASE x = b -> "OnScreen"
                               [] x # b /\ phase[x] = "OnScreen" -> "Free"
                               [] OTHER -> phase[x]]

\* on_page_flip_ready.  The gate of the tick admits one flip at a time, so of
\* several completions the later ones find no Pending buffer.
FlipReady ==
    /\ pc = "drm" /\ pc' = "work" /\ UNCHANGED stop
    /\ queue' = 0
    /\ IF seat = "Active" /\ InPhase("Pending") # {}
       THEN /\ phase' = Retired(Least(InPhase("Pending")))
            /\ IF acks # <<>> THEN AckFrame(Head(acks))
               ELSE UNCHANGED <<acks, damage, repaint, deferred, inUse>>
       ELSE UNCHANGED <<phase, acks, damage, repaint, deferred, inUse>>
    /\ outrun' = (outrun /\ flip # Off /\ phase'[flip] # "Pending")
    /\ UNCHANGED <<faults, power, failed, dirty, first, retry, gpu, scan, flip,
                   content, untracked, again>>

\* External: the kernel finishes the flip at a vblank and queues its event.  It has
\* waited for the frame (IN_FENCE_FD), hence for the frames before it; the frame's
\* own Vulkan fence may still be seen unsignalled.
FlipDone ==
    /\ flip # Off
    /\ \A j \in gpu : j.bo = flip
    /\ scan' = flip /\ flip' = Off /\ queue' = queue + 1
    /\ untracked' = (phase[flip] # "Pending")
    /\ shown' = coming /\ coming' = {}
    /\ again' = again \cap coming
    /\ UNCHANGED <<loop, power, frames, scene, gpu, outrun>>

\* External: the GPU finishes a frame.
FenceSignals(j) ==
    /\ gpu' = gpu \ {j}
    /\ UNCHANGED <<loop, power, frames, scene, kernel, content, history>>

\* The commit-retry back-off has passed.
RetryDue ==
    /\ retry = "wait" /\ retry' = "due"
    /\ UNCHANGED <<loop, power, frames, dirty, damage, repaint, first, gpu, kernel,
                   content, history>>

-----------------------------------------------------------------------------
(* maybe_composite, the last thing an iteration does.  tick_one_output      *)
(* first takes back what the fences have released.                          *)

\* Mutant of Composites: no DPMS gate.
Composites_Dark == seat = "Active" /\ dirty /\ Ready

Composites == seat = "Active" /\ lit /\ dirty /\ Ready

RetiredFailed == failed \ gpu
RetiredDeferred == deferred \ gpu
FreeAfterReap == InPhase("Free") \cup {j.bo : j \in RetiredFailed}
RingAfterReap == inUse \ (SlotsOf(RetiredFailed) \cup SlotsOf(RetiredDeferred))

\* retire_failed_submit_bos, drain_pending_pool_releases
Reaped == [b \in Bos |-> IF b \in FreeAfterReap THEN "Free" ELSE phase[b]]
ReapLists == failed' = failed \cap gpu /\ deferred' = deferred \cap gpu

Owed == damage # {} \/ repaint \/ first
Renders == FreeAfterReap # {} /\ RingAfterReap # Slots
NextBo == Least(FreeAfterReap)
NextSlot == Least(Slots \ RingAfterReap)

TickGated ==
    /\ Ticking
    /\ ~Composites
    /\ UNCHANGED <<faults, power, frames, scene, gpu, kernel, content, history>>

\* EmptyDamage: nothing to show, the scene is clean.
TickEmpty ==
    /\ Ticking
    /\ Composites /\ ~Owed
    /\ ReapLists /\ phase' = Reaped /\ inUse' = RingAfterReap
    /\ dirty' = FALSE
    /\ UNCHANGED <<faults, power, acks, damage, repaint, first, retry, gpu, kernel,
                   content, history>>

\* NoBO, NoPool: the scene stays dirty.
TickStarved ==
    /\ Ticking
    /\ Composites /\ Owed /\ ~Renders
    /\ ReapLists /\ phase' = Reaped /\ inUse' = RingAfterReap
    /\ UNCHANGED <<faults, power, acks, scene, gpu, kernel, content, history>>

\* The kernel takes a flip from the master, on a lit output, one at a time.
Accepts == seat = "Active" /\ scan # Off /\ flip = Off

\* The frame is submitted to the GPU and the flip committed.
TickPresents ==
    /\ Ticking
    /\ Composites /\ Owed /\ Renders /\ Accepts
    /\ ReapLists
    /\ phase' = [Reaped EXCEPT ![NextBo] = "Pending"]
    /\ inUse' = RingAfterReap \cup {NextSlot}
    /\ acks' = Append(acks, [bo |-> NextBo, slot |-> NextSlot, snap |-> damage,
                             repaint |-> repaint])
    /\ gpu' = gpu \cup {[bo |-> NextBo, slot |-> NextSlot]}
    /\ flip' = NextBo /\ coming' = {}
    /\ dirty' = FALSE /\ first' = FALSE /\ retry' = "none"
    /\ UNCHANGED <<faults, power, damage, repaint, scan, queue, shown, history>>

\* Mutant of TickCommitFails: the scene counts as clean.
TickCommitFails_Cleans ==
    /\ Ticking
    /\ Composites /\ Owed /\ Renders
    /\ IF Accepts THEN Fault ELSE NoFault
    /\ phase' = [Reaped EXCEPT ![NextBo] = "Recording"]
    /\ inUse' = RingAfterReap \cup {NextSlot}
    /\ LET j == [bo |-> NextBo, slot |-> NextSlot]
       IN  /\ failed' = (failed \cap gpu) \cup {j}
           /\ gpu' = gpu \cup {j}
    /\ deferred' = deferred \cap gpu
    /\ repaint' = (repaint \/ damage # {})
    /\ retry' = "wait" /\ dirty' = FALSE
    /\ UNCHANGED <<power, acks, damage, first, kernel, content, history>>

\* 9b: the GPU has the frame, the kernel refuses the flip.  Buffer and slot stay
\* taken until the fence.
TickCommitFails ==
    /\ Ticking
    /\ Composites /\ Owed /\ Renders
    /\ IF Accepts THEN Fault ELSE NoFault
    /\ phase' = [Reaped EXCEPT ![NextBo] = "Recording"]
    /\ inUse' = RingAfterReap \cup {NextSlot}
    /\ LET j == [bo |-> NextBo, slot |-> NextSlot]
       IN  /\ failed' = (failed \cap gpu) \cup {j}
           /\ gpu' = gpu \cup {j}
    /\ deferred' = deferred \cap gpu
    /\ repaint' = (repaint \/ damage # {})
    /\ retry' = "wait"
    /\ UNCHANGED <<power, acks, dirty, damage, first, kernel, content, history>>

\* 9a: the queue submit failed; buffer and slot go straight back.
TickSubmitFails ==
    /\ Ticking
    /\ Composites /\ Owed /\ Renders /\ Fault
    /\ ReapLists /\ phase' = Reaped /\ inUse' = RingAfterReap
    /\ repaint' = (repaint \/ damage # {})
    /\ retry' = "wait"
    /\ UNCHANGED <<power, acks, dirty, damage, first, gpu, kernel, content, history>>

\* acquire_fence_ticket failed: the early return keeps the slot it had taken.
TickNoFence ==
    /\ Ticking
    /\ Composites /\ Owed /\ Renders /\ Fault
    /\ ReapLists /\ phase' = Reaped
    /\ inUse' = RingAfterReap \cup {NextSlot}
    /\ UNCHANGED <<power, acks, scene, gpu, kernel, content, history>>

-----------------------------------------------------------------------------
(* DPMS and the seat.  Both first stop the output: wait_idle_bounded,       *)
(* SceneCompositor::drain_all and reset_scanout_bos_for_suspend.            *)

\* Mutant of DrainAll: the frames in flight keep their acks.
DrainAll_KeepsAcks ==
    /\ UNCHANGED <<acks, inUse, failed>>
    /\ deferred' = {}

\* drain_all gives back the slots of the frames in flight; the ones that were
\* waiting for a fence it only waits for.
DrainAll ==
    /\ acks' = <<>>
    /\ deferred' = {}
    /\ inUse' = inUse \ SlotsOf(InFlight)
    /\ UNCHANGED failed

\* Mutant of ResetBos: the flip in flight keeps its buffer.
ResetBos_KeepsPending ==
    phase' = [b \in Bos |-> IF phase[b] = "Pending" THEN "Pending" ELSE "Free"]

ResetBos == phase' = [b \in Bos |-> "Free"]

StopOutput ==
    /\ gpu' = {} /\ DrainAll /\ ResetBos
    /\ outrun' = (queue' > 0 \/ flip' # Off)

\* The buffer a modeset shows: the one on the screen, else the first.
ModesetBo == IF InPhase("OnScreen") # {} THEN Least(InPhase("OnScreen")) ELSE 1

Modeset ==
    /\ scan' = ModesetBo /\ flip' = Off
    /\ shown' = Rects /\ coming' = {}
    /\ untracked' = TRUE

\* set_dpms_power to off.  The disabling commit waits for the flip under way,
\* whose event is queued.
DpmsSleep ==
    /\ Handling /\ lit /\ granted
    /\ lit' = FALSE
    /\ scan' = Off /\ flip' = Off /\ shown' = {} /\ coming' = {}
    /\ queue' = IF flip # Off THEN queue + 1 ELSE queue
    /\ StopOutput
    /\ UNCHANGED <<loop, seat, granted, scene, untracked, again>>

\* The commit failed, as it must without DRM master: all was reset, and the outputs
\* stay lit.
DpmsSleepFails ==
    /\ Handling /\ lit
    /\ IF granted THEN Fault ELSE NoFault
    /\ untracked' = TRUE
    /\ UNCHANGED <<scan, flip, queue>>
    /\ StopOutput
    /\ UNCHANGED <<pc, stop, power, scene, content, again>>

\* set_dpms_power to on.
DpmsWake ==
    /\ Handling /\ ~lit /\ granted
    /\ lit' = TRUE
    /\ Modeset
    /\ dirty' = TRUE
    /\ UNCHANGED <<loop, seat, granted, frames, damage, repaint, first, retry, gpu,
                   queue, outrun, again>>

\* The commit failed; wake_for_damage all the same.
DpmsWakeFails ==
    /\ Handling /\ ~lit
    /\ IF granted THEN Fault ELSE NoFault
    /\ dirty' = TRUE
    /\ UNCHANGED <<pc, stop, power, frames, damage, repaint, first, retry, gpu, kernel,
                   content, history>>

\* libseat's Disable: run_suspend, up to the ack that gives DRM master up.  The
\* event of a flip under way comes or is lost.
Suspend ==
    /\ Handling /\ seat = "Active"
    /\ seat' = "Suspended" /\ granted' = FALSE
    /\ scan' = Off /\ flip' = Off /\ shown' = {} /\ coming' = {}
    /\ queue' \in {queue} \cup {queue + 1 : b \in Bos \cap {flip}}
    /\ untracked' = TRUE
    /\ StopOutput
    /\ UNCHANGED <<loop, lit, scene, again>>

\* External: the session is given back; the next poll reports it.
Grant ==
    /\ pc = "block" /\ ~granted /\ granted' = TRUE
    /\ UNCHANGED <<loop, seat, lit, frames, scene, gpu, kernel, content, history>>

\* libseat's Enable: run_resume, then wake_for_damage.
Resume ==
    /\ Handling /\ seat = "Suspended" /\ granted
    /\ seat' = "Active"
    /\ Modeset /\ lit' = TRUE
    /\ dirty' = TRUE
    /\ UNCHANGED <<loop, granted, frames, damage, repaint, first, retry, gpu, queue,
                   outrun, again>>

\* The modeset failed, or libinput's resume after it: request_exit, whose message
\* the loop may find in this iteration and finds in the next.  The seat is Active
\* all the same.
ResumeFails ==
    /\ Handling /\ seat = "Suspended" /\ granted
    /\ Fault
    /\ seat' = "Active" /\ stop' = (IF stop = "none" THEN "sent" ELSE stop)
    /\ dirty' = TRUE
    /\ \/ UNCHANGED <<lit, scan, flip, content, untracked>>
       \/ Modeset /\ lit' = TRUE
    /\ UNCHANGED <<pc, granted, frames, damage, repaint, first, retry, gpu, queue, outrun,
                   again>>

\* Message::Shutdown ends the loop where it is read.
Shutdown ==
    /\ Handling /\ stop # "none"
    /\ pc' = "exit"
    /\ UNCHANGED <<stop, faults, power, frames, scene, gpu, kernel, content, history>>

Exited == pc = "exit" /\ UNCHANGED vars

-----------------------------------------------------------------------------
Tick == TickGated \/ TickEmpty \/ TickStarved \/ TickPresents \/ TickCommitFails
            \/ TickSubmitFails \/ TickNoFence

Next ==
    \/ Poll
    \/ \E R \in {{}} \cup {{r} : r \in Rects} : Request(R)
    \/ FlipReady \/ FlipDone \/ RetryDue
    \/ \E j \in gpu : FenceSignals(j)
    \/ Tick
    \/ DpmsSleep \/ DpmsSleepFails \/ DpmsWake \/ DpmsWakeFails
    \/ Suspend \/ Grant \/ Resume \/ ResumeFails
    \/ Shutdown
    \/ Exited

Spec == Init /\ [][Next]_vars

\* The core loop runs, and is woken by what WakeDue says; the GPU finishes its
\* work and the kernel its flips.
Fairness ==
    /\ WF_vars(WakeDue /\ Poll) /\ WF_vars(FlipReady) /\ WF_vars(Tick)
    /\ WF_vars(FlipDone) /\ WF_vars(RetryDue) /\ WF_vars(Shutdown)
    /\ WF_vars(\E j \in gpu : FenceSignals(j))

FairSpec == Spec /\ Fairness

-----------------------------------------------------------------------------
(* Properties.                                                              *)

Owned == SlotsOf(InFlight) \cup SlotsOf(deferred) \cup SlotsOf(failed)

\* A descriptor pool is reset and reused only after the GPU is done with the frame
\* that used it (VUID-vkResetDescriptorPool-00313): every unfinished frame has its
\* slot, taken and held for it alone.
PoolsOutliveFrames ==
    /\ \A j \in gpu : j.slot \in inUse /\ j.slot \in Owned
    /\ \A i, j \in gpu : i # j => i.slot # j.slot

\* on_page_flip_complete retires by phase, handle_page_flip_complete by queue: the
\* two agree on the frame, through failed commits, DPMS and VT switches, and at most
\* one buffer is taken for the one on the screen.
AcksMatchFlips ==
    /\ InPhase("Pending") = {a.bo : a \in InFlight}
    /\ \A b, c \in InPhase("OnScreen") : b = c

\* What the screen shows and the live damage agree: a rect of the buffer on the
\* screen that is out of date is still damaged, and a tick or a completion will
\* look at it.  Left out are the rects painted twice within one flip (see
\* PaintSurvives) and a screen that a modeset set.
DamageCoversScreen ==
    (scan \in Bos /\ ~untracked /\ ~outrun) =>
        /\ shown \subseteq damage \cup again
        /\ shown \subseteq again \/ dirty \/ acks # <<>>

\* "so post-peek damage survives" (store.rs), "is NOT in the snapshots and therefore
\* survives, driving the next tick" (scene.rs).
PaintSurvives ==
    (scan \in Bos /\ ~untracked /\ ~outrun) => shown \subseteq damage

\* "drain_all clears pending_acks, releases pool slots" (backend.rs): a slot that is
\* taken has a frame that will give it back.
NoSlotLost == inUse = Owned

\* No frame is rendered into the buffer that the screen shows or is about to show,
\* unless a modeset put it there (reset_scanout_bos_for_suspend leaves that one
\* Free), nor into one the GPU is still rendering.
RendersOffScreen ==
    [][\A j \in gpu' \ gpu :
           \/ outrun
           \/ j.bo \notin {i.bo : i \in gpu} /\ (untracked \/ j.bo \notin {scan, flip})]_vars

\* A completion that is read retires the flip that the kernel completed, unless the
\* outputs went off and on again before it was read.
FlipRetiresItself ==
    [][\A b \in Bos : phase[b] = "Pending" /\ phase'[b] = "OnScreen" /\ ~outrun => scan = b]_vars

\* The tick commits no flip that the kernel must refuse (no master, a dark output,
\* one under way), except after DPMS or the seat made the server forget one.
NoHopelessCommit ==
    [][TickCommitFails => Accepts \/ untracked \/ outrun]_vars

Blanked == seat # "Active" \/ ~lit \/ pc = "exit"

\* A frame in flight is always acknowledged: no VT switch, DPMS change or failure
\* strands pending_acks, which would gate every later tick, until the loop ends.
FramesAcked == acks # <<>> ~> acks = <<>> \/ pc = "exit"

\* Damage reaches the screen: the loop is woken for it, retries what failed, and is
\* not starved of buffers or slots, unless every slot is lost.
DamageFlips == (dirty /\ damage # {}) ~> (flip # Off \/ damage = {} \/ Blanked \/ inUse \ Owned = Slots)
=============================================================================
