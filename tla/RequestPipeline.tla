--------------------------- MODULE RequestPipeline ---------------------------
(***************************************************************************)
(* How requests reach their handlers: reader threads frame them, number    *)
(* them and send them into the core's channel; the core polls, works off   *)
(* its backlog, drains the channel under a request budget, and defers the  *)
(* rest.  The BIG-REQUESTS barrier stops a reader after an Enable until    *)
(* the core has decided how the next frame is to be read.  Input messages  *)
(* share the channel; the budget exists for their sake.                    *)
(***************************************************************************)
EXTENDS Naturals, Sequences

CONSTANTS
    Client,     \* registered clients, each with its reader thread
    Kinds,      \* kinds of request the clients send, out of AllKinds
    Budget,     \* MAX_REQUESTS_PER_ITER
    SeqWrap,    \* sequence numbers are u16: 65536
    MaxQueued   \* bound: messages waiting, in the channel and the backlog

AllKinds == {"plain",        \* any other request
             "enable",       \* BIG-REQUESTS Enable
             "enableTooBig", \* Enable in an extended frame over the maximum
             "badMinor"}     \* BIG-REQUESTS opcode, minor other than Enable

ASSUME KindsAssumption == Kinds \subseteq AllKinds
ASSUME BudgetAssumption == Budget \in Nat \ {0}
ASSUME SeqWrapAssumption == SeqWrap \in Nat \ {0}

VARIABLES
    chan,      \* core channel
    waker,     \* the poller's eventfd has been written since the last poll
    deferred,  \* deferred_requests
    phase,     \* the core: "poll", "backlog", "drain" or "rest" (of the iteration)
    notified,  \* this iteration's events hold NOTIFY_TOKEN
    budget,    \* request_budget of this iteration
    clients,   \* keys of state.clients
    lastSeq,   \* ClientState.last_sequence
    coreBig,   \* ClientState.big_requests_enabled
    ctl,       \* ReaderControl channel of each reader
    reader,    \* where each reader thread is
    seq,       \* each reader's sequence counter
    big,       \* each reader's framing mode
    misled,    \* history: clients whose parked reader was released by an Ignore
               \* meant for another request
    open,      \* the peer may still write: neither end closed the socket
    input,     \* the input thread is about to wake the core
    waited     \* requests handled since an input message's wake-up, while it was queued

coreVars   == <<phase, notified, budget, deferred>>
stateVars  == <<clients, lastSeq, coreBig>>
readerVars == <<reader, seq, big, misled>>
vars == <<chan, waker, coreVars, stateVars, ctl, readerVars, open, input, waited>>

Request(c, s, k) == [what |-> "request", c |-> c, seq |-> s, kind |-> k]
Gone(c)          == [what |-> "disconnected", c |-> c]
HostInput        == [what |-> "input"]

Requests == [what : {"request"}, c : Client, seq : 0..(SeqWrap - 1), kind : Kinds]
Messages == Requests \cup [what : {"disconnected"}, c : Client] \cup {HostInput}

TypeOK ==
    /\ chan \in Seq(Messages)
    /\ waker \in BOOLEAN /\ notified \in BOOLEAN /\ input \in BOOLEAN
    /\ deferred \in Seq(Requests)
    /\ phase \in {"poll", "backlog", "drain", "rest"}
    /\ budget \in 0..Budget
    /\ clients \in SUBSET Client
    /\ lastSeq \in [Client -> 0..(SeqWrap - 1)]
    /\ seq \in [Client -> 0..(SeqWrap - 1)]
    /\ coreBig \in [Client -> BOOLEAN] /\ big \in [Client -> BOOLEAN]
    /\ open \in [Client -> BOOLEAN]
    /\ ctl \in [Client -> Seq({"apply", "ignore", "shutdown"})]
    /\ reader \in [Client -> {"top", "reading", "sent", "sentEnable", "parked",
                              "sentGone", "exited"}]
    /\ misled \in SUBSET Client
    /\ waited \in 0..(2 * Budget + 1)

Init ==
    /\ chan = <<>> /\ waker = FALSE /\ deferred = <<>>
    /\ phase = "poll" /\ notified = FALSE /\ budget = 0
    /\ clients = Client
    /\ lastSeq = [c \in Client |-> 0] /\ seq = [c \in Client |-> 0]
    /\ coreBig = [c \in Client |-> FALSE] /\ big = [c \in Client |-> FALSE]
    /\ ctl = [c \in Client |-> <<>>]
    /\ reader = [c \in Client |-> "top"]
    /\ open = [c \in Client |-> TRUE]
    /\ misled = {} /\ input = FALSE /\ waited = 0

-----------------------------------------------------------------------------
(* Producers.  CoreSender::send pushes first and wakes afterwards; another  *)
(* thread may run between the two.                                          *)

Goto(c, pc) == reader' = [reader EXCEPT ![c] = pc]

\* Top of the reader's loop: one try_recv.  An answer nobody is waiting for
\* is logged and dropped.
ReaderTop(c) ==
    /\ reader[c] = "top"
    /\ IF ctl[c] = <<>>
       THEN Goto(c, "reading") /\ UNCHANGED ctl
       ELSE /\ ctl' = [ctl EXCEPT ![c] = Tail(@)]
            /\ Goto(c, IF Head(ctl[c]) = "shutdown" THEN "exited" ELSE "reading")
    /\ UNCHANGED <<chan, waker, coreVars, stateVars, seq, big, misled, open, input, waited>>

\* Mutants of ReaderFrame: the number does not wrap; no barrier.
ReaderFrame_NoWrap(c, k) ==
    /\ reader[c] = "reading"
    /\ open[c]
    /\ k = "enableTooBig" => big[c]
    /\ Len(chan) + Len(deferred) < MaxQueued
    /\ seq' = [seq EXCEPT ![c] = @ + 1]
    /\ chan' = Append(chan, Request(c, seq'[c], k))
    /\ Goto(c, IF k \in {"enable", "enableTooBig"} THEN "sentEnable" ELSE "sent")
    /\ UNCHANGED <<waker, coreVars, stateVars, ctl, big, misled, open, input, waited>>
ReaderFrame_NoBarrier(c, k) ==
    /\ reader[c] = "reading"
    /\ open[c]
    /\ k = "enableTooBig" => big[c]
    /\ Len(chan) + Len(deferred) < MaxQueued
    /\ seq' = [seq EXCEPT ![c] = (@ + 1) % SeqWrap]
    /\ chan' = Append(chan, Request(c, seq'[c], k))
    /\ Goto(c, "sent")
    /\ UNCHANGED <<waker, coreVars, stateVars, ctl, big, misled, open, input, waited>>

\* read_request returned a frame: number it, send it, and remember to park if
\* it is an Enable.  Only extended frames can exceed the maximum.
ReaderFrame(c, k) ==
    /\ reader[c] = "reading"
    /\ open[c]
    /\ k = "enableTooBig" => big[c]
    /\ Len(chan) + Len(deferred) < MaxQueued
    /\ seq' = [seq EXCEPT ![c] = (@ + 1) % SeqWrap]
    /\ chan' = Append(chan, Request(c, seq'[c], k))
    /\ Goto(c, IF k \in {"enable", "enableTooBig"} THEN "sentEnable" ELSE "sent")
    /\ UNCHANGED <<waker, coreVars, stateVars, ctl, big, misled, open, input, waited>>

ReaderEof(c) ==
    /\ reader[c] = "reading"
    /\ ~open[c]
    /\ chan' = Append(chan, Gone(c))
    /\ Goto(c, "sentGone")
    /\ UNCHANGED <<waker, coreVars, stateVars, ctl, seq, big, misled, open, input, waited>>

\* Mutant of ReaderWake: the core is not woken.
ReaderWake_Forgets(c) ==
    /\ reader[c] \in {"sent", "sentEnable", "sentGone"}
    /\ Goto(c, CASE reader[c] = "sent"       -> "top"
                 [] reader[c] = "sentEnable" -> "parked"
                 [] reader[c] = "sentGone"   -> "exited")
    /\ UNCHANGED <<chan, waker, coreVars, stateVars, ctl, seq, big, misled, open, input, waited>>

ReaderWake(c) ==
    /\ reader[c] \in {"sent", "sentEnable", "sentGone"}
    /\ waker' = TRUE
    /\ Goto(c, CASE reader[c] = "sent"       -> "top"
                 [] reader[c] = "sentEnable" -> "parked"
                 [] reader[c] = "sentGone"   -> "exited")
    /\ UNCHANGED <<chan, coreVars, stateVars, ctl, seq, big, misled, open, input, waited>>

\* Parked at the barrier: the first control message decides.  An Ignore never
\* answers an Enable: it was sent for a bad minor that came before.
ReaderUnpark(c) ==
    /\ reader[c] = "parked"
    /\ ctl[c] # <<>>
    /\ ctl' = [ctl EXCEPT ![c] = Tail(@)]
    /\ big' = [big EXCEPT ![c] = @ \/ Head(ctl[c]) = "apply"]
    /\ misled' = IF Head(ctl[c]) = "ignore" THEN misled \cup {c} ELSE misled
    /\ Goto(c, IF Head(ctl[c]) = "shutdown" THEN "exited" ELSE "top")
    /\ UNCHANGED <<chan, waker, coreVars, stateVars, seq, open, input, waited>>

PeerClose(c) ==
    /\ open[c]
    /\ open' = [open EXCEPT ![c] = FALSE]
    /\ UNCHANGED <<chan, waker, coreVars, stateVars, ctl, readerVars, input, waited>>

\* The input thread sends one event at a time here: a second one waits behind
\* the first and no longer than it.
InputSend ==
    /\ ~input
    /\ ~\E i \in DOMAIN chan : chan[i] = HostInput
    /\ chan' = Append(chan, HostInput)
    /\ input' = TRUE
    /\ UNCHANGED <<waker, coreVars, stateVars, ctl, readerVars, open, waited>>

InputWake ==
    /\ input
    /\ input' = FALSE
    /\ waker' = TRUE
    /\ UNCHANGED <<chan, coreVars, stateVars, ctl, readerVars, open, waited>>

-----------------------------------------------------------------------------
(* The core loop. *)

\* poll.poll: returns at once with a backlog, else when woken.  Other fds and
\* deadlines may wake it as well, without NOTIFY_TOKEN.
Poll ==
    /\ phase = "poll"
    /\ notified' = waker
    /\ waker' = FALSE
    /\ budget' = Budget
    /\ phase' = "backlog"
    /\ UNCHANGED <<chan, deferred, stateVars, ctl, readerVars, open, input, waited>>

InputQueued == \E i \in DOMAIN chan : chan[i] = HostInput
CountWait   ==
    waited' = IF InputQueued /\ ~input /\ waited <= 2 * Budget THEN waited + 1 ELSE waited

\* process_disconnect, as far as the reader can tell.
Disconnect(c) ==
    IF c \notin clients
    THEN UNCHANGED <<clients, open, ctl>>
    ELSE /\ clients' = clients \ {c}
         /\ open' = [open EXCEPT ![c] = FALSE]
         /\ ctl' = [ctl EXCEPT ![c] = Append(@, "shutdown")]

\* The outbound buffer overflowed or the peer's socket failed: the writable
\* event or the end of the iteration disconnects the client.
DropUnwritable(c) ==
    /\ phase \in {"drain", "rest"}
    /\ c \in clients
    /\ Disconnect(c)
    /\ UNCHANGED <<chan, waker, coreVars, lastSeq, coreBig, readerVars, input, waited>>

\* process_request stamps the client with the request's number and validates
\* its length; an oversized Enable is answered BadLength there and never
\* reaches the handler that would enable big requests.
Dispatched(m) ==
    /\ lastSeq' = [lastSeq EXCEPT ![m.c] = m.seq]
    /\ coreBig' = [coreBig EXCEPT ![m.c] = @ \/ m.kind = "enable"]

\* What the handler tells the reader, whether or not its reply was written.
Answer(k) == CASE k = "enable"   -> <<"apply">>
               [] k = "badMinor" -> <<"ignore">>
               [] OTHER          -> <<>>

\* Mutant of Process: a client dropped for a failed reply leaves its reader.
Process_NoShutdown(m) ==
    LET c == m.c IN
        IF c \notin clients
        THEN UNCHANGED <<stateVars, ctl, open>>
        ELSE /\ Dispatched(m)
             /\ ctl' = [ctl EXCEPT ![c] = @ \o Answer(m.kind)]
             /\ \/ UNCHANGED <<clients, open>>
                \/ /\ clients' = clients \ {c}
                   /\ open' = [open EXCEPT ![c] = FALSE]

\* process_request_inline: dropped when the client is gone; a reply that cannot
\* be written disconnects.
Process(m) ==
    LET c == m.c IN
        IF c \notin clients
        THEN UNCHANGED <<stateVars, ctl, open>>
        ELSE /\ Dispatched(m)
             /\ \/ /\ ctl' = [ctl EXCEPT ![c] = @ \o Answer(m.kind)]
                   /\ UNCHANGED <<clients, open>>
                \/ /\ ctl' = [ctl EXCEPT ![c] = @ \o Answer(m.kind) \o <<"shutdown">>]
                   /\ clients' = clients \ {c}
                   /\ open' = [open EXCEPT ![c] = FALSE]

\* The backlog comes first and is counted against the budget.
Backlog ==
    /\ phase = "backlog"
    /\ budget > 0
    /\ deferred # <<>>
    /\ deferred' = Tail(deferred)
    /\ budget' = budget - 1
    /\ Process(Head(deferred))
    /\ CountWait
    /\ UNCHANGED <<chan, waker, phase, notified, readerVars, input>>

BacklogDone ==
    /\ phase = "backlog"
    /\ budget = 0 \/ deferred = <<>>
    /\ phase' = IF notified THEN "drain" ELSE "rest"
    /\ UNCHANGED <<chan, waker, notified, budget, deferred, stateVars, ctl, readerVars,
                   open, input, waited>>

HeadIs(what) == phase = "drain" /\ chan # <<>> /\ Head(chan).what = what

\* Mutant of DrainRequest: no budget.
DrainRequest_NoBudget ==
    /\ HeadIs("request")
    /\ Process(Head(chan))
    /\ CountWait
    /\ chan' = Tail(chan)
    /\ UNCHANGED <<waker, phase, notified, budget, deferred, readerVars, input>>

DrainRequest ==
    /\ HeadIs("request")
    /\ budget > 0
    /\ budget' = budget - 1
    /\ Process(Head(chan))
    /\ CountWait
    /\ chan' = Tail(chan)
    /\ UNCHANGED <<waker, phase, notified, deferred, readerVars, input>>

\* Mutant of Defer: the request goes to the front of the backlog.
Defer_Front ==
    /\ HeadIs("request")
    /\ budget = 0
    /\ deferred' = <<Head(chan)>> \o deferred
    /\ chan' = Tail(chan)
    /\ UNCHANGED <<waker, phase, notified, budget, stateVars, ctl, readerVars, open,
                   input, waited>>

Defer ==
    /\ HeadIs("request")
    /\ budget = 0
    /\ deferred' = Append(deferred, Head(chan))
    /\ chan' = Tail(chan)
    /\ UNCHANGED <<waker, phase, notified, budget, stateVars, ctl, readerVars, open,
                   input, waited>>

DrainDisconnected ==
    /\ HeadIs("disconnected")
    /\ chan' = Tail(chan)
    /\ Disconnect(Head(chan).c)
    /\ UNCHANGED <<waker, coreVars, lastSeq, coreBig, readerVars, input, waited>>

DrainInput ==
    /\ HeadIs("input")
    /\ chan' = Tail(chan)
    /\ waited' = 0
    /\ UNCHANGED <<waker, coreVars, stateVars, ctl, readerVars, open, input>>

DrainDone ==
    /\ phase = "drain"
    /\ chan = <<>>
    /\ phase' = "rest"
    /\ UNCHANGED <<chan, waker, notified, budget, deferred, stateVars, ctl, readerVars,
                   open, input, waited>>

\* Mutant of Rest: a backlog does not keep the poller from blocking; only a
\* waker write ends the poll.
Rest_Blocks ==
    /\ phase = "rest"
    /\ waker
    /\ phase' = "poll"
    /\ UNCHANGED <<chan, waker, notified, budget, deferred, stateVars, ctl, readerVars,
                   open, input, waited>>

\* Rest of the iteration (timers, composite) and back to the poller, which
\* blocks until there is a backlog or a wake-up.
Rest ==
    /\ phase = "rest"
    /\ deferred # <<>> \/ waker
    /\ phase' = "poll"
    /\ UNCHANGED <<chan, waker, notified, budget, deferred, stateVars, ctl, readerVars,
                   open, input, waited>>

-----------------------------------------------------------------------------
CoreNext == \/ Poll \/ Backlog \/ BacklogDone \/ DrainRequest \/ Defer
            \/ DrainDisconnected \/ DrainInput \/ DrainDone \/ Rest

ReaderNext(c) == \/ ReaderTop(c) \/ ReaderEof(c) \/ ReaderWake(c) \/ ReaderUnpark(c)

Next == \/ CoreNext
        \/ InputSend \/ InputWake
        \/ \E c \in Client : \/ ReaderNext(c) \/ PeerClose(c) \/ DropUnwritable(c)
                             \/ \E k \in Kinds : ReaderFrame(c, k)

\* The core thread runs, and so does every thread that is not waiting for its
\* peer.  What clients and input devices send, and when, is free.
Fairness == /\ WF_vars(CoreNext)
            /\ WF_vars(InputWake)
            /\ \A c \in Client : WF_vars(ReaderNext(c))

Spec     == Init /\ [][Next]_vars
FairSpec == Spec /\ Fairness

-----------------------------------------------------------------------------
(* Properties. *)

\* Behind the barrier the reader frames as the core decided: once the core has
\* enabled BIG-REQUESTS, a reader back at reading frames big, unless the Ignore
\* of an earlier bad minor released it from the barrier too soon.
FramingAgrees ==
    \A c \in clients \ misled : coreBig[c] /\ reader[c] \in {"top", "reading"} => big[c]

\* The budget does for input what its comment says: once the input thread has
\* woken the core, no more requests run before the input is handled than what
\* is left of this iteration's budget and all of the next one's.
InputNotStarved == waited <= 2 * Budget

\* What waits, in the order the core will take it, and a client's part of it.
Line == deferred \o chan
From(c, m) == m.what = "request" /\ m.c = c
Queued(c) == SelectSeq(Line, LAMBDA m : From(c, m))

\* A client's stops along the line q: its last handled request, as stop 0, and the
\* positions of those that wait.
Stops(c, q) == {0} \cup {i \in DOMAIN q : From(c, q[i])}
NumberAt(c, q, i) == IF i = 0 THEN lastSeq[c] ELSE q[i].seq
Latest(S, i) == \A j \in S : j <= i
Consecutive(S, i, k) == i < k /\ \A j \in S : j <= i \/ k <= j

\* A connected client's requests are neither lost, repeated nor reordered
\* between reader and handler, across deferral and u16 wrap: the waiting ones
\* continue the numbers handled, one by one, and end at the last one read.
NothingLostOrReordered ==
    \A c \in clients :
        LET S == Stops(c, Line) IN
        /\ \A i, k \in S :
              Consecutive(S, i, k) =>
                  NumberAt(c, Line, k) = (NumberAt(c, Line, i) + 1) % SeqWrap
        /\ \A i \in S : Latest(S, i) => NumberAt(c, Line, i) = seq[c]

\* try_recv_all goes on until the channel is empty and has no limit: a drain
\* ends only when the producers let it, which nothing in the code makes them do.
DrainsEnd == []<>(phase # "drain")

\* Again and again the queue is empty or gives up its head.
ChannelMoves == \/ []<>(chan = <<>>)
                \/ []<><<chan # <<>> /\ chan' = Tail(chan)>>_vars
BacklogMoves == \/ []<>(deferred = <<>>)
                \/ []<><<deferred # <<>> /\ deferred' = Tail(deferred)>>_vars

\* Nothing queued is stranded by the wake-up protocol or by a blocking poll:
\* whatever the producers do, the channel moves, so that every message leaves it;
\* and where drains end, the backlog moves, so that every request is handled.
QueuesDrain == ChannelMoves /\ (DrainsEnd => BacklogMoves)

\* Where drains end, a parked reader gets its answer, or the order to stop.
ParkedReleased ==
    DrainsEnd => \A c \in Client : reader[c] = "parked" ~> reader[c] # "parked"
=============================================================================
