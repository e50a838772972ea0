--------------------------- MODULE ClientOutbound ---------------------------
(***************************************************************************)
(* One client's outbound path: write_or_buffer with its capped backlog,    *)
(* the non-blocking socket, the poller's edge-triggered WRITABLE readiness *)
(* and the reconciliation at the end of every iteration of the core loop.  *)
(* A unit is a piece of a message that the kernel takes or leaves whole.   *)
(***************************************************************************)
EXTENDS Integers, Sequences

CONSTANTS
    Sizes,      \* sizes of the messages written, in units
    KernelCap,  \* units the socket's send buffer takes
    OutboundCap,
    MaxUnits    \* bound: units produced

ASSUME SizesAssumption == Sizes \subseteq Nat \ {0}
\* A reply's length is a 32-bit field and an event has 32 bytes.
ASSUME LargestAssumption == \E n \in Sizes : \A m \in Sizes : m <= n
ASSUME KernelAssumption == KernelCap \in Nat \ {0} /\ OutboundCap \in Nat
ASSUME MaxUnitsAssumption == MaxUnits \in Nat

VARIABLES
    phase,     \* the core: "poll", "handling", "drained" (reconcile, before reregister)
    client,    \* the entry in state.clients exists
    outbound,  \* ClientState.outbound, as unit numbers
    watching,  \* watching_writable: WRITABLE is in the poller's interest
    ready,     \* the poller holds a writable event for this client
    kernel,    \* units in the socket's send buffer
    wire,      \* units the peer has read
    gone,      \* the peer closed its end
    made,      \* units produced so far: the number of the last one
    accepted,  \* the units of the messages that were written or buffered
    skipped    \* a message was refused and its caller kept the client

vars == <<phase, client, outbound, watching, ready, kernel, wire, gone, made,
          accepted, skipped>>

MaxSize == CHOOSE n \in Sizes : \A m \in Sizes : m <= n
Largest(a, b) == IF a >= b THEN a ELSE b
Least(a, b) == IF a <= b THEN a ELSE b

TypeOK ==
    /\ phase \in {"poll", "handling", "drained"}
    /\ {client, watching, ready, gone, skipped} \subseteq BOOLEAN
    /\ \A q \in {outbound, kernel, wire, accepted} : q \in Seq(1..MaxUnits)
    /\ made \in 0..MaxUnits
    /\ Len(kernel) <= KernelCap

Init ==
    /\ phase = "handling"
    /\ client = TRUE /\ watching = FALSE /\ ready = FALSE
    /\ outbound = <<>> /\ kernel = <<>> /\ wire = <<>>
    /\ gone = FALSE /\ made = 0 /\ accepted = <<>> /\ skipped = FALSE

Free == KernelCap - Len(kernel)

\* drain_outbound against a peer that is still there: writes until the socket
\* has taken everything or takes no more.
DrainOutbound ==
    LET n == Least(Free, Len(outbound))
    IN  /\ kernel' = kernel \o SubSeq(outbound, 1, n)
        /\ outbound' = SubSeq(outbound, n + 1, Len(outbound))

ProcessDisconnect == client' = FALSE /\ UNCHANGED <<kernel, outbound>>

-----------------------------------------------------------------------------
(* write_or_buffer.  The outcomes of its branches, for the message m:       *)

Units(m) == [i \in 1..m |-> made + i]

\* Of message m the socket takes what fits behind the backlog; what it does not
\* take is buffered, unless some backlog is left and the two exceed the cap.
Taken(m) == LET room == Free - Len(outbound) IN IF room <= 0 THEN 0 ELSE Least(room, m)

\* Mutant of Overflow: no cap.
Overflow_Never(m) == FALSE

Overflow(m) == /\ Len(outbound) > Free
               /\ Len(outbound) - Free + m > OutboundCap

\* Mutant of Accept: a partial write buffers the whole message again.
Accept_Repeats(m) ==
    LET backlog == SubSeq(outbound, Least(Free, Len(outbound)) + 1, Len(outbound)) IN
    /\ kernel' = kernel \o SubSeq(outbound, 1, Least(Free, Len(outbound)))
                        \o SubSeq(Units(m), 1, Taken(m))
    /\ outbound' = IF Taken(m) = m THEN backlog ELSE backlog \o Units(m)
    /\ accepted' = accepted \o Units(m)

\* Mutant of Accept: the message is tried before the backlog.
Accept_Overtakes(m) ==
    /\ kernel' = kernel \o SubSeq(Units(m), 1, Least(Free, m))
    /\ outbound' = outbound \o SubSeq(Units(m), Least(Free, m) + 1, m)
    /\ accepted' = accepted \o Units(m)

Accept(m) ==
    LET backlog == SubSeq(outbound, Least(Free, Len(outbound)) + 1, Len(outbound)) IN
    /\ kernel' = kernel \o SubSeq(outbound, 1, Least(Free, Len(outbound)))
                        \o SubSeq(Units(m), 1, Taken(m))
    /\ outbound' = backlog \o SubSeq(Units(m), Taken(m) + 1, m)
    /\ accepted' = accepted \o Units(m)

\* What the caller makes of the outcome Disconnect: write_to_client's drop the
\* client, the event fan-outs' ignore it.
Refused(ignore) == client' = ignore /\ skipped' = (skipped \/ ignore)

\* A reply (write_to_client) or an event (the fan-outs).
Write(m, ignore) ==
    /\ phase = "handling"
    /\ client
    /\ made + m <= MaxUnits
    /\ made' = made + m
    /\ IF gone
       THEN /\ Refused(ignore)
            /\ UNCHANGED <<kernel, outbound, accepted>>
       ELSE IF Overflow(m)
       THEN /\ Refused(ignore)
            /\ kernel' = kernel \o SubSeq(outbound, 1, Free)
            /\ outbound' = SubSeq(outbound, Free + 1, Len(outbound))
            /\ UNCHANGED accepted
       ELSE Accept(m) /\ UNCHANGED <<client, skipped>>
    /\ UNCHANGED <<phase, watching, ready, wire, gone>>

-----------------------------------------------------------------------------
(* The end of the iteration and the poller. *)

\* First half of reconcile_client_writable_interest: the proactive drain.
ReconcileDrain ==
    /\ phase = "handling"
    /\ phase' = "drained"
    /\ IF client /\ outbound # <<>>
       THEN IF gone THEN ProcessDisconnect ELSE DrainOutbound /\ UNCHANGED client
       ELSE UNCHANGED <<client, kernel, outbound>>
    /\ UNCHANGED <<watching, ready, wire, gone, made, accepted, skipped>>

\* Mutant of ReconcileRegister: the interest is never re-armed.
ReconcileRegister_Never ==
    /\ phase = "drained"
    /\ phase' = "poll"
    /\ UNCHANGED <<client, outbound, watching, ready, kernel, wire, gone, made, accepted, skipped>>

\* Second half: reregister when the interest changed.  Modifying the interest
\* makes epoll look at the socket anew, so readiness that is there is reported.
ReconcileRegister ==
    LET needs == outbound # <<>> IN
    /\ phase = "drained"
    /\ phase' = "poll"
    /\ IF client /\ needs # watching
       THEN /\ watching' = needs
            /\ ready' = (needs /\ (Free > 0 \/ gone))
       ELSE UNCHANGED <<watching, ready>>
    /\ UNCHANGED <<client, outbound, kernel, wire, gone, made, accepted, skipped>>

\* The poller returns with the client's writable event, consuming it.
Writable ==
    /\ phase = "poll"
    /\ ready
    /\ phase' = "handling"
    /\ ready' = FALSE
    /\ IF ~client THEN UNCHANGED <<client, kernel, outbound>>
       ELSE IF gone /\ outbound # <<>> THEN ProcessDisconnect
       ELSE DrainOutbound /\ UNCHANGED client
    /\ UNCHANGED <<watching, wire, gone, made, accepted, skipped>>

\* The poller returns for anything else: requests, input, a deadline.
OtherWake ==
    /\ phase = "poll"
    /\ phase' = "handling"
    /\ UNCHANGED <<client, outbound, watching, ready, kernel, wire, gone, made, accepted, skipped>>

\* The reader thread saw the end of the stream and the core handles its message.
ReaderSawEof ==
    /\ phase = "handling"
    /\ gone /\ client
    /\ client' = FALSE
    /\ UNCHANGED <<phase, outbound, watching, ready, kernel, wire, gone, made, accepted, skipped>>

-----------------------------------------------------------------------------
(* The peer and its socket. *)

\* The peer reads some of what is there; an edge is due when a full buffer
\* gets room and the poller watches for it.
PeerRead ==
    \E n \in 1..Len(kernel) :
        /\ ~gone
        /\ wire' = wire \o SubSeq(kernel, 1, n)
        /\ kernel' = SubSeq(kernel, n + 1, Len(kernel))
        /\ ready' = (ready \/ (watching /\ client /\ Free = 0))
        /\ UNCHANGED <<phase, client, outbound, watching, gone, made, accepted, skipped>>

PeerClose ==
    /\ ~gone
    /\ gone' = TRUE
    /\ ready' = (ready \/ (watching /\ client))
    /\ UNCHANGED <<phase, client, outbound, watching, kernel, wire, made, accepted, skipped>>

Next == \/ \E m \in Sizes, ignore \in BOOLEAN : Write(m, ignore)
        \/ ReconcileDrain \/ ReconcileRegister
        \/ Writable \/ OtherWake \/ ReaderSawEof
        \/ PeerRead \/ PeerClose

\* The core finishes its iterations and takes up the events it is given; the
\* peer of interest keeps reading.  Nothing else wakes the core in time.
Fairness == /\ WF_vars(ReconcileDrain) /\ WF_vars(ReconcileRegister)
            /\ WF_vars(Writable)
            /\ WF_vars(PeerRead)

Spec     == Init /\ [][Next]_vars
FairSpec == Spec /\ Fairness

-----------------------------------------------------------------------------
(* Properties. *)

\* What the peer has read, what the kernel holds and what is buffered are the
\* accepted messages, whole, once and in order, however the writes were split.
WholeInOrder == client => wire \o kernel \o outbound = accepted

\* The backlog is bounded: one message of any size, or the cap.
BacklogBounded ==
    /\ TypeOK
    /\ Len(outbound) <= MaxSize \/ Len(outbound) <= OutboundCap

\* A buffered tail goes out without any further request, as long as the peer
\* reads: no lost writable edge strands it.
TailGoesOut == (client /\ outbound # <<>>) ~> (outbound = <<>> \/ ~client \/ gone)

\* The units of s up to the first that is missing or out of place.
Gapless(s) ==
    SubSeq(s, 1, CHOOSE n \in 0..Len(s) :
                    /\ \A i \in 1..n : s[i] = i
                    /\ n < Len(s) => s[n + 1] # n + 1)

\* To the client the connection is a gapless stream until it is given up or
\* the caller of a fan-out keeps it after a refusal; of what follows a refusal
\* nothing is promised.
Stream == INSTANCE ByteStream WITH
    MaxStep  <- Largest(KernelCap, MaxSize),
    emitted  <- made,
    received <- IF skipped THEN Gapless(wire) ELSE wire,
    up       <- client /\ ~skipped
StreamSpec == Stream!SSpec

\* client_io.rs and fanout.rs say that a refused client is dropped: then the
\* stream would have no gap at all while the client is served.
Promised == INSTANCE ByteStream WITH
    MaxStep  <- Largest(KernelCap, MaxSize),
    emitted  <- made,
    received <- wire,
    up       <- client
NoGapSpec == Promised!SSpec
=============================================================================
