----------------------- MODULE RequestPipeline_proofs -----------------------
(***************************************************************************)
(* Proofs about RequestPipeline: requests reach their handlers once and in *)
(* order, input is taken up within two budgets, and reader and core agree  *)
(* on the framing unless an Ignore for another request misled the reader. *)
(***************************************************************************)
EXTENDS RequestPipeline, SequenceTheorems, TLAPS

-----------------------------------------------------------------------------
(* The inductive invariants.                                                *)

\* The core drains the channel only when woken, and takes a request from there
\* for handling only when none is deferred: those are older.
Phases ==
    /\ phase = "drain" => notified
    /\ phase = "drain" /\ budget > 0 => deferred = <<>>

\* Nothing waits at the wake-up's budget but input that is queued.
Waiting == InputQueued /\ ~input

\* How far the wait of input can have come: it ends in an iteration that was
\* notified, and at most one iteration before that one has a budget to spend.
Awaited ==
    /\ ~Waiting => waited = 0
    /\ Waiting => \/ /\ phase \in {"backlog", "drain"}
                     /\ notified
                     /\ waited + budget <= 2 * Budget
                  \/ /\ phase = "backlog"
                     /\ waker
                     /\ waited + budget <= Budget
                  \/ /\ phase \in {"rest", "poll"}
                     /\ waker
                     /\ waited <= Budget

InputInv == TypeOK /\ Phases /\ Awaited

OrderInv == TypeOK /\ Phases /\ NothingLostOrReordered

\* The Enables of c that wait in q, and that there is one at most.
Enables(c, q) == {i \in DOMAIN q : From(c, q[i]) /\ q[i].kind = "enable"}
OneEnable(c, q) == \A i, k \in Enables(c, q) : i = k

\* What the core has told c's reader and the reader has not yet taken.
Says(c, a)  == \E i \in DOMAIN ctl[c] : ctl[c][i] = a
OneApply(c) == \A i, k \in DOMAIN ctl[c] : ctl[c][i] = "apply" /\ ctl[c][k] = "apply" => i = k

\* Of a connected client at most one Enable is under way: in the line, or answered
\* in the control channel; its reader is behind the barrier for as long.
Behind(c) ==
    /\ Enables(c, Line) # {} => /\ reader[c] \in {"sentEnable", "parked"}
                                /\ ~Says(c, "apply")
    /\ OneEnable(c, Line)
    /\ Says(c, "apply") => reader[c] \in {"sentEnable", "parked"}
    /\ OneApply(c)
    /\ ~Says(c, "shutdown")
    /\ coreBig[c] /\ reader[c] \in {"top", "reading", "sent"} => big[c]

Barrier == \A c \in clients \ misled : Behind(c)

FramingInv == TypeOK /\ Phases /\ Barrier

-----------------------------------------------------------------------------
(* Type correctness.                                                        *)

Controls == {"apply", "ignore", "shutdown"}

LEMMA MessagesAre ==
  /\ Requests \subseteq Messages /\ HostInput \in Messages
  /\ \A c \in Client : Gone(c) \in Messages /\ Gone(c).what = "disconnected"
  /\ \A c \in Client, n \in 0..(SeqWrap - 1), k \in Kinds :
        /\ Request(c, n, k) \in Requests
        /\ Request(c, n, k).what = "request" /\ Request(c, n, k).c = c
        /\ Request(c, n, k).seq = n /\ Request(c, n, k).kind = k
  /\ HostInput.what = "input"
  /\ \A m \in Messages : m.what = "request" => m \in Requests
  /\ \A m \in Messages : m.what = "disconnected" => m.c \in Client
  /\ \A m \in Messages : m.what = "input" => m = HostInput
  /\ \A m \in Requests : /\ m.what = "request" /\ m.c \in Client /\ m.kind \in Kinds
                         /\ m.seq \in 0..(SeqWrap - 1)
<1>1. ASSUME NEW m \in Messages
      PROVE  \/ m \in Requests
             \/ m.what = "disconnected" /\ m.c \in Client
             \/ m = HostInput
  BY DEF Messages
<1>2. \A m \in Requests : /\ m.what = "request" /\ m.c \in Client /\ m.kind \in Kinds
                         /\ m.seq \in 0..(SeqWrap - 1)
  BY DEF Requests
<1>3. HostInput.what = "input"
  BY DEF HostInput
<1> QED
  BY <1>1, <1>2, <1>3 DEF Messages, Requests, Gone, Request, HostInput

\* What an action that takes the head of the channel finds there.
LEMMA HeadOfChan ==
  ASSUME TypeOK, NEW what, HeadIs(what)
  PROVE  /\ phase = "drain" /\ chan # <<>>
         /\ Head(chan) \in Messages /\ Tail(chan) \in Seq(Messages)
         /\ Head(chan).what = what
BY HeadTailProperties DEF TypeOK, HeadIs

LEMMA AnswerTyped ==
  ASSUME NEW k
  PROVE  Answer(k) \in Seq(Controls)
<1>1. Answer(k) = <<"apply">> \/ Answer(k) = <<"ignore">> \/ Answer(k) = <<>>
  BY DEF Answer
<1>2. /\ <<"apply">> \in Seq(Controls) /\ <<"ignore">> \in Seq(Controls)
      /\ <<>> \in Seq(Controls)
  BY DEF Controls
<1> QED
  BY <1>1, <1>2

LEMMA DisconnectTyped ==
  ASSUME TypeOK, NEW c \in Client, Disconnect(c)
  PROVE  /\ clients' \in SUBSET Client /\ open' \in [Client -> BOOLEAN]
         /\ ctl' \in [Client -> Seq(Controls)]
<1>1. ctl \in [Client -> Seq(Controls)] /\ open \in [Client -> BOOLEAN]
      /\ clients \in SUBSET Client
  BY DEF TypeOK, Controls
<1>2. Append(ctl[c], "shutdown") \in Seq(Controls)
  BY <1>1, AppendProperties DEF Controls
<1> QED
  BY <1>1, <1>2 DEF Disconnect

LEMMA ProcessTyped ==
  ASSUME TypeOK, NEW m \in Requests, Process(m)
  PROVE  /\ clients' \in SUBSET Client /\ open' \in [Client -> BOOLEAN]
         /\ ctl' \in [Client -> Seq(Controls)]
         /\ lastSeq' \in [Client -> 0..(SeqWrap - 1)]
         /\ coreBig' \in [Client -> BOOLEAN]
<1> DEFINE c == m.c
<1>1. /\ ctl \in [Client -> Seq(Controls)] /\ open \in [Client -> BOOLEAN]
      /\ clients \in SUBSET Client /\ lastSeq \in [Client -> 0..(SeqWrap - 1)]
      /\ coreBig \in [Client -> BOOLEAN]
      /\ c \in Client /\ m.seq \in 0..(SeqWrap - 1)
  BY MessagesAre DEF TypeOK, Controls
<1>2. CASE c \notin clients
  BY <1>1, <1>2 DEF Process, stateVars
<1>3. CASE c \in clients
  <2>1. Answer(m.kind) \in Seq(Controls) /\ <<"shutdown">> \in Seq(Controls)
    BY AnswerTyped DEF Controls
  <2>2. /\ ctl[c] \o Answer(m.kind) \in Seq(Controls)
        /\ ctl[c] \o Answer(m.kind) \o <<"shutdown">> \in Seq(Controls)
    BY <1>1, <2>1, ConcatProperties
  <2>3. /\ lastSeq' = [lastSeq EXCEPT ![c] = m.seq]
        /\ coreBig' = [coreBig EXCEPT ![c] = @ \/ m.kind = "enable"]
        /\ \/ /\ ctl' = [ctl EXCEPT ![c] = @ \o Answer(m.kind)]
              /\ UNCHANGED <<clients, open>>
           \/ /\ ctl' = [ctl EXCEPT ![c] = @ \o Answer(m.kind) \o <<"shutdown">>]
              /\ clients' = clients \ {c}
              /\ open' = [open EXCEPT ![c] = FALSE]
    BY <1>3 DEF Process, Dispatched
  <2>4. ctl' \in [Client -> Seq(Controls)]
    BY ONLY <1>1, <2>2, <2>3
  <2>5. lastSeq' \in [Client -> 0..(SeqWrap - 1)] /\ coreBig' \in [Client -> BOOLEAN]
    BY ONLY <1>1, <2>3
  <2>6. clients' \in SUBSET Client /\ open' \in [Client -> BOOLEAN]
    BY ONLY <1>1, <2>3
  <2> QED
    BY <2>4, <2>5, <2>6
<1> QED
  BY <1>2, <1>3

LEMMA CountWaitTyped ==
  ASSUME TypeOK, CountWait
  PROVE  waited' \in 0..(2 * Budget + 1)
BY BudgetAssumption DEF TypeOK, CountWait

Places == {"top", "reading", "sent", "sentEnable", "parked", "sentGone", "exited"}

LEMMA GotoTyped ==
  ASSUME TypeOK, NEW c \in Client, NEW pc \in Places, Goto(c, pc)
  PROVE  reader' \in [Client -> Places]
BY DEF TypeOK, Goto, Places

LEMMA TypeInit == Init => TypeOK
<1> SUFFICES ASSUME Init
             PROVE  TypeOK
  OBVIOUS
<1>1. 0 \in 0..(SeqWrap - 1) /\ 0 \in 0..Budget /\ 0 \in 0..(2 * Budget + 1)
  BY SeqWrapAssumption, BudgetAssumption
<1>2. chan \in Seq(Messages) /\ deferred \in Seq(Requests)
  BY EmptySeq DEF Init
<1>3. ctl \in [Client -> Seq({"apply", "ignore", "shutdown"})]
  BY EmptySeq DEF Init
<1> QED
  BY <1>1, <1>2, <1>3 DEF Init, TypeOK

LEMMA TypeReaders ==
  ASSUME TypeOK, NEW c \in Client,
         \/ ReaderTop(c) \/ ReaderEof(c) \/ ReaderWake(c) \/ ReaderUnpark(c)
         \/ PeerClose(c) \/ \E k \in Kinds : ReaderFrame(c, k)
  PROVE  TypeOK'
<1> USE DEF coreVars, stateVars, readerVars
<1>1. ctl \in [Client -> Seq(Controls)] /\ chan \in Seq(Messages)
      /\ seq \in [Client -> 0..(SeqWrap - 1)] /\ reader \in [Client -> Places]
      /\ big \in [Client -> BOOLEAN]
  BY DEF TypeOK, Controls, Places
<1>2. CASE ReaderTop(c)
  <2>1. ctl' \in [Client -> Seq(Controls)]
    <3>1. ctl[c] # <<>> => Tail(ctl[c]) \in Seq(Controls)
      BY <1>1, HeadTailProperties
    <3>2. \/ ctl' = ctl
          \/ /\ ctl[c] # <<>>
             /\ ctl' = [ctl EXCEPT ![c] = Tail(@)]
      <4>1. CASE ctl[c] = <<>>
        BY <1>2, <4>1 DEF ReaderTop
      <4>2. CASE ctl[c] # <<>>
        BY <1>2, <4>2 DEF ReaderTop
      <4> QED
        BY <4>1, <4>2
    <3> QED
      BY ONLY <1>1, <3>1, <3>2
  <2>2. reader' \in [Client -> Places]
    BY <1>2, GotoTyped DEF ReaderTop, Places
  <2> QED
    BY <1>2, <2>1, <2>2 DEF ReaderTop, TypeOK, Controls, Places
<1>3. CASE ReaderEof(c)
  <2>1. chan' \in Seq(Messages)
    BY <1>1, <1>3, MessagesAre, AppendProperties DEF ReaderEof
  <2>2. reader' \in [Client -> Places]
    BY <1>3, GotoTyped DEF ReaderEof, Places
  <2> QED
    BY <1>3, <2>1, <2>2 DEF ReaderEof, TypeOK, Places
<1>4. CASE ReaderWake(c)
  <2>1. reader' \in [Client -> Places]
    BY <1>4, GotoTyped DEF ReaderWake, Places
  <2> QED
    BY <1>4, <2>1 DEF ReaderWake, TypeOK, Places
<1>5. CASE ReaderUnpark(c)
  <2>1. ctl' \in [Client -> Seq(Controls)]
    BY <1>1, <1>5, HeadTailProperties DEF ReaderUnpark
  <2>2. reader' \in [Client -> Places]
    BY <1>5, GotoTyped DEF ReaderUnpark, Places
  <2>3. big' \in [Client -> BOOLEAN]
    BY <1>1, <1>5 DEF ReaderUnpark
  <2>4. misled' \in SUBSET Client
    BY <1>5 DEF ReaderUnpark, TypeOK
  <2> QED
    BY <1>5, <2>1, <2>2, <2>3, <2>4 DEF ReaderUnpark, TypeOK, Controls, Places
<1>6. CASE PeerClose(c)
  BY <1>6 DEF PeerClose, TypeOK
<1>7. ASSUME NEW k \in Kinds, ReaderFrame(c, k)
      PROVE  TypeOK'
  <2>1. (seq[c] + 1) % SeqWrap \in 0..(SeqWrap - 1)
    BY <1>1, SeqWrapAssumption
  <2>2. seq' \in [Client -> 0..(SeqWrap - 1)] /\ seq'[c] \in 0..(SeqWrap - 1)
    BY <1>1, <1>7, <2>1 DEF ReaderFrame
  <2>3. chan' \in Seq(Messages)
    <3>1. Request(c, seq'[c], k) \in Messages
      BY <2>2, MessagesAre
    <3> QED
      BY <1>1, <1>7, <3>1, AppendProperties DEF ReaderFrame
  <2>4. reader' \in [Client -> Places]
    BY <1>7, GotoTyped DEF ReaderFrame, Places
  <2> QED
    BY <1>7, <2>2, <2>3, <2>4 DEF ReaderFrame, TypeOK, Places
<1> QED
  BY <1>2, <1>3, <1>4, <1>5, <1>6, <1>7

LEMMA TypeCore ==
  ASSUME TypeOK,
         \/ CoreNext \/ InputSend \/ InputWake
         \/ \E c \in Client : DropUnwritable(c)
  PROVE  TypeOK'
<1> USE DEF coreVars, stateVars, readerVars
<1>1. /\ chan \in Seq(Messages) /\ deferred \in Seq(Requests)
      /\ Budget \in Nat /\ budget \in 0..Budget
  BY BudgetAssumption DEF TypeOK
<1>2. CASE Poll
  <2>1. budget' \in 0..Budget /\ phase' = "backlog"
    BY <1>1, <1>2 DEF Poll
  <2>2. notified' \in BOOLEAN /\ waker' \in BOOLEAN
    BY <1>2 DEF Poll, TypeOK
  <2> QED
    BY <1>2, <2>1, <2>2 DEF Poll, TypeOK
<1>3. CASE Backlog
  <2>1. Head(deferred) \in Requests /\ deferred' \in Seq(Requests)
    BY <1>1, <1>3, HeadTailProperties DEF Backlog
  <2>2. /\ clients' \in SUBSET Client /\ open' \in [Client -> BOOLEAN]
        /\ ctl' \in [Client -> Seq(Controls)]
        /\ lastSeq' \in [Client -> 0..(SeqWrap - 1)]
        /\ coreBig' \in [Client -> BOOLEAN]
    BY <1>3, <2>1, ProcessTyped DEF Backlog
  <2>3. budget' \in 0..Budget /\ waited' \in 0..(2 * Budget + 1)
    BY <1>1, <1>3, CountWaitTyped DEF Backlog
  <2> QED
    BY <1>3, <2>1, <2>2, <2>3 DEF Backlog, TypeOK, Controls
<1>4. CASE BacklogDone
  BY <1>4 DEF BacklogDone, TypeOK
<1>5. CASE DrainRequest
  <2>1. /\ Head(chan) \in Requests /\ Tail(chan) \in Seq(Messages)
        /\ chan' = Tail(chan) /\ Process(Head(chan))
    BY <1>5, HeadOfChan, MessagesAre DEF DrainRequest
  <2>2. /\ clients' \in SUBSET Client /\ open' \in [Client -> BOOLEAN]
        /\ ctl' \in [Client -> Seq(Controls)]
        /\ lastSeq' \in [Client -> 0..(SeqWrap - 1)]
        /\ coreBig' \in [Client -> BOOLEAN]
    BY <2>1, ProcessTyped
  <2>3. budget' \in 0..Budget /\ waited' \in 0..(2 * Budget + 1)
    BY <1>1, <1>5, CountWaitTyped DEF DrainRequest
  <2> QED
    BY <1>5, <2>1, <2>2, <2>3 DEF DrainRequest, TypeOK, Controls
<1>6. CASE Defer
  <2>1. /\ Head(chan) \in Requests /\ Tail(chan) \in Seq(Messages)
        /\ chan' = Tail(chan) /\ deferred' = Append(deferred, Head(chan))
    BY <1>6, HeadOfChan, MessagesAre DEF Defer
  <2>2. deferred' \in Seq(Requests)
    BY <1>1, <2>1, AppendProperties
  <2> QED
    BY <1>6, <2>1, <2>2 DEF Defer, TypeOK
<1>7. CASE DrainDisconnected
  <2>1. /\ Head(chan).c \in Client /\ Tail(chan) \in Seq(Messages)
        /\ chan' = Tail(chan) /\ Disconnect(Head(chan).c)
    BY <1>7, HeadOfChan, MessagesAre DEF DrainDisconnected
  <2>2. /\ clients' \in SUBSET Client /\ open' \in [Client -> BOOLEAN]
        /\ ctl' \in [Client -> Seq(Controls)]
    BY <2>1, DisconnectTyped
  <2> QED
    BY <1>7, <2>1, <2>2 DEF DrainDisconnected, TypeOK, Controls
<1>8. CASE DrainInput
  <2>1. chan' \in Seq(Messages) /\ waited' \in 0..(2 * Budget + 1)
    BY <1>1, <1>8, HeadOfChan DEF DrainInput
  <2> QED
    BY <1>8, <2>1 DEF DrainInput, TypeOK
<1>9. CASE DrainDone
  BY <1>9 DEF DrainDone, TypeOK
<1>10. CASE Rest
  BY <1>10 DEF Rest, TypeOK
<1>11. CASE InputSend
  <2>1. chan' \in Seq(Messages)
    BY <1>1, <1>11, MessagesAre, AppendProperties DEF InputSend
  <2> QED
    BY <1>11, <2>1 DEF InputSend, TypeOK
<1>12. CASE InputWake
  BY <1>12 DEF InputWake, TypeOK
<1>13. ASSUME NEW c \in Client, DropUnwritable(c)
       PROVE  TypeOK'
  <2>1. /\ clients' \in SUBSET Client /\ open' \in [Client -> BOOLEAN]
        /\ ctl' \in [Client -> Seq(Controls)]
    BY <1>13, DisconnectTyped DEF DropUnwritable
  <2> QED
    BY <1>13, <2>1 DEF DropUnwritable, TypeOK, Controls
<1> QED
  BY <1>2, <1>3, <1>4, <1>5, <1>6, <1>7, <1>8, <1>9, <1>10, <1>11, <1>12, <1>13
     DEF CoreNext

LEMMA TypeNext == TypeOK /\ [Next]_vars => TypeOK'
<1> SUFFICES ASSUME TypeOK, [Next]_vars
             PROVE  TypeOK'
  OBVIOUS
<1>1. CASE UNCHANGED vars
  BY <1>1 DEF vars, coreVars, stateVars, readerVars, TypeOK
<1> QED
  BY <1>1, TypeReaders, TypeCore DEF Next, ReaderNext

\* The state stays well-typed: every message, deferred request, sequence number
\* and reader state is one the code has.
THEOREM PipelineTyped == Spec => []TypeOK
BY TypeInit, TypeNext, PTL DEF Spec

-----------------------------------------------------------------------------
(* The core's phases.                                                       *)

LEMMA PhasesInit == Init => Phases
BY DEF Init, Phases

LEMMA PhasesNext == TypeOK /\ Phases /\ [Next]_vars => Phases'
<1> SUFFICES ASSUME TypeOK, Phases, [Next]_vars
             PROVE  Phases'
  OBVIOUS
<1> USE DEF coreVars, stateVars, readerVars
<1>1. /\ Budget \in Nat /\ budget \in 0..Budget
  BY BudgetAssumption DEF TypeOK
<1>2. ASSUME UNCHANGED coreVars
      PROVE  Phases'
  BY <1>2 DEF Phases
<1>3. ASSUME NEW c \in Client,
             \/ ReaderNext(c) \/ PeerClose(c) \/ DropUnwritable(c)
             \/ \E k \in Kinds : ReaderFrame(c, k)
      PROVE  UNCHANGED coreVars
  BY <1>3 DEF ReaderNext, ReaderTop, ReaderEof, ReaderWake, ReaderUnpark, PeerClose,
              DropUnwritable, ReaderFrame
<1>4. CASE InputSend \/ InputWake \/ DrainDisconnected \/ DrainInput
  BY <1>2, <1>4 DEF InputSend, InputWake, DrainDisconnected, DrainInput
<1>5. CASE Poll
  BY <1>5 DEF Poll, Phases
<1>6. CASE Backlog
  BY <1>6 DEF Backlog, Phases
<1>7. CASE BacklogDone
  BY <1>1, <1>7 DEF BacklogDone, Phases
<1>8. CASE DrainRequest
  BY <1>1, <1>8 DEF DrainRequest, HeadIs, Phases
<1>9. CASE Defer
  BY <1>1, <1>9 DEF Defer, HeadIs, Phases
<1>10. CASE DrainDone \/ Rest
  BY <1>10 DEF DrainDone, Rest, Phases
<1>11. CASE UNCHANGED vars
  BY <1>2, <1>11 DEF vars
<1> QED
  BY <1>2, <1>3, <1>4, <1>5, <1>6, <1>7, <1>8, <1>9, <1>10, <1>11 DEF Next, CoreNext

-----------------------------------------------------------------------------
(* Input is taken up within two budgets.                                    *)

\* Whether input is queued depends on input messages only.
LEMMA QueuedAfterAppend ==
  ASSUME TypeOK, NEW m \in Messages, chan' = Append(chan, m)
  PROVE  InputQueued' = (InputQueued \/ m = HostInput)
<1>1. /\ chan \in Seq(Messages) /\ Len(chan) \in Nat
      /\ DOMAIN chan = 1..Len(chan) /\ DOMAIN chan' = 1..(Len(chan) + 1)
      /\ \A i \in 1..Len(chan) : chan'[i] = chan[i]
      /\ chan'[Len(chan) + 1] = m
  BY LenProperties, AppendProperties DEF TypeOK
<1>2. 1..(Len(chan) + 1) = (1..Len(chan)) \cup {Len(chan) + 1}
  BY ONLY <1>1
<1>3. InputQueued' <=> (InputQueued \/ m = HostInput)
  BY ONLY <1>1, <1>2 DEF InputQueued
<1> QED
  BY ONLY <1>3 DEF InputQueued

LEMMA QueuedAfterTail ==
  ASSUME TypeOK, chan # <<>>, chan' = Tail(chan), Head(chan) # HostInput
  PROVE  InputQueued' = InputQueued
<1>1. /\ chan \in Seq(Messages) /\ Len(chan) \in Nat /\ Len(chan) > 0
      /\ DOMAIN chan = 1..Len(chan) /\ DOMAIN chan' = 1..(Len(chan) - 1)
      /\ \A i \in 1..(Len(chan) - 1) : chan'[i] = chan[i + 1]
      /\ chan[1] # HostInput
  <2>1. chan \in Seq(Messages)
    BY DEF TypeOK
  <2>2. /\ Tail(chan) \in Seq(Messages) /\ Len(Tail(chan)) = Len(chan) - 1
        /\ \A i \in 1..Len(Tail(chan)) : Tail(chan)[i] = chan[i + 1]
    BY ONLY <2>1, chan # <<>>, HeadTailProperties
  <2>3. Len(chan) \in Nat /\ Len(chan) > 0 /\ DOMAIN chan = 1..Len(chan)
    BY ONLY <2>1, chan # <<>>, LenProperties, EmptySeq
  <2>4. DOMAIN Tail(chan) = 1..Len(Tail(chan))
    BY ONLY <2>2, LenProperties
  <2>5. Head(chan) = chan[1]
    BY ONLY <2>1, chan # <<>>
  <2> QED
    BY ONLY <2>1, <2>2, <2>3, <2>4, <2>5, chan' = Tail(chan), Head(chan) # HostInput
<1>2. ASSUME NEW i \in 1..Len(chan), chan[i] = HostInput
      PROVE  \E k \in 1..(Len(chan) - 1) : chan'[k] = HostInput
  <2>1. i - 1 \in 1..(Len(chan) - 1) /\ (i - 1) + 1 = i
    BY ONLY <1>1, <1>2
  <2> QED
    BY ONLY <1>1, <1>2, <2>1
<1>3. ASSUME NEW k \in 1..(Len(chan) - 1), chan'[k] = HostInput
      PROVE  \E i \in 1..Len(chan) : chan[i] = HostInput
  <2>1. k + 1 \in 1..Len(chan)
    BY ONLY <1>1, <1>3
  <2> QED
    BY ONLY <1>1, <1>3, <2>1
<1>4. InputQueued' <=> InputQueued
  BY ONLY <1>1, <1>2, <1>3 DEF InputQueued
<1> QED
  BY ONLY <1>4 DEF InputQueued

LEMMA InputInit == Init => InputInv
<1> SUFFICES ASSUME Init
             PROVE  InputInv
  OBVIOUS
<1>1. Awaited
  <2>1. ~InputQueued
    BY DEF Init, InputQueued
  <2> QED
    BY <2>1 DEF Init, Awaited, Waiting
<1> QED
  BY <1>1, TypeInit, PhasesInit DEF InputInv

LEMMA InputReaders ==
  ASSUME InputInv,
         \/ \E c \in Client : \/ ReaderNext(c) \/ PeerClose(c) \/ DropUnwritable(c)
                              \/ \E k \in Kinds : ReaderFrame(c, k)
         \/ UNCHANGED vars
  PROVE  Awaited'
<1> USE DEF coreVars, stateVars, readerVars
<1>1. UNCHANGED <<phase, notified, budget, input, waited>>
  BY DEF ReaderNext, ReaderTop, ReaderEof, ReaderWake, ReaderUnpark, PeerClose,
         DropUnwritable, ReaderFrame, vars
<1>2. waker' = waker \/ waker' = TRUE
  BY DEF ReaderNext, ReaderTop, ReaderEof, ReaderWake, ReaderUnpark, PeerClose,
         DropUnwritable, ReaderFrame, vars
<1>3. InputQueued' = InputQueued
  <2>1. TypeOK
    BY DEF InputInv
  <2>2. CASE UNCHANGED chan
    BY <2>2 DEF InputQueued
  <2>3. ASSUME NEW m \in Messages, m # HostInput, chan' = Append(chan, m)
        PROVE  InputQueued' = InputQueued
    <3>1. InputQueued' = (InputQueued \/ m = HostInput)
      BY <2>1, <2>3, QueuedAfterAppend
    <3>2. InputQueued \in BOOLEAN
      BY DEF InputQueued
    <3> QED
      BY ONLY <2>3, <3>1, <3>2
  <2>4. ASSUME NEW c \in Client, ReaderEof(c)
        PROVE  InputQueued' = InputQueued
    <3>1. Gone(c) \in Messages /\ Gone(c) # HostInput
      BY MessagesAre
    <3> QED
      BY <2>3, <2>4, <3>1 DEF ReaderEof
  <2>5. ASSUME NEW c \in Client, NEW k \in Kinds, ReaderFrame(c, k)
        PROVE  InputQueued' = InputQueued
    <3>1. seq \in [Client -> 0..(SeqWrap - 1)]
      BY <2>1 DEF TypeOK
    <3>2. (seq[c] + 1) % SeqWrap \in 0..(SeqWrap - 1)
      BY <3>1, SeqWrapAssumption
    <3>3. seq'[c] \in 0..(SeqWrap - 1)
      BY <2>5, <3>1, <3>2 DEF ReaderFrame
    <3>4. Request(c, seq'[c], k) \in Messages /\ Request(c, seq'[c], k) # HostInput
      BY <3>3, MessagesAre
    <3> QED
      BY <2>3, <2>5, <3>4 DEF ReaderFrame
  <2> QED
    BY <2>2, <2>4, <2>5
       DEF ReaderNext, ReaderTop, ReaderWake, ReaderUnpark, PeerClose, DropUnwritable, vars
<1>4. Waiting' = Waiting
  BY <1>1, <1>3 DEF Waiting
<1> QED
  BY <1>1, <1>2, <1>4 DEF InputInv, Awaited

\* A request handled while input waits counts once, against budget and wait.
LEMMA InputCounted ==
  ASSUME InputInv, CountWait, budget > 0, budget' = budget - 1,
         UNCHANGED <<phase, notified, waker, input>>, Waiting' = Waiting,
         phase \in {"backlog", "drain"}
  PROVE  Awaited'
<1>1. /\ Budget \in Nat /\ budget \in Nat /\ waited \in Nat
  BY BudgetAssumption DEF InputInv, TypeOK
<1>2. CASE Waiting
  <2>1. \/ notified /\ waited + budget <= 2 * Budget
        \/ phase = "backlog" /\ waker /\ waited + budget <= Budget
    BY <1>2 DEF InputInv, Awaited
  <2>2. waited <= 2 * Budget
    BY <1>1, <2>1
  <2>3. waited' = waited + 1
    BY <1>2, <2>2 DEF CountWait, Waiting
  <2>4. waited' + budget' = waited + budget
    BY <1>1, <2>3
  <2> QED
    BY <1>2, <2>1, <2>4 DEF Awaited
<1>3. CASE ~Waiting
  <2>1. waited' = waited
    BY <1>3 DEF CountWait, Waiting
  <2> QED
    BY <1>3, <2>1 DEF InputInv, Awaited
<1> QED
  BY <1>2, <1>3

LEMMA InputCore ==
  ASSUME InputInv, CoreNext \/ InputSend \/ InputWake
  PROVE  Awaited'
<1> USE DEF coreVars, stateVars, readerVars
<1>1. /\ TypeOK /\ Phases /\ Awaited
      /\ Budget \in Nat /\ budget \in 0..Budget /\ waited \in Nat
      /\ phase \in {"poll", "backlog", "drain", "rest"}
  BY BudgetAssumption DEF InputInv, TypeOK
<1>2. CASE Poll
  <2>1. Waiting' = Waiting /\ waited' = waited
    BY <1>2 DEF Poll, Waiting, InputQueued
  <2>2. Waiting => waker /\ waited <= Budget
    BY <1>1, <1>2 DEF Awaited, Poll
  <2> QED
    BY <1>1, <1>2, <2>1, <2>2 DEF Awaited, Poll
<1>3. CASE Backlog
  <2>1. Waiting' = Waiting
    BY <1>3 DEF Backlog, Waiting, InputQueued
  <2> QED
    BY <1>3, <2>1, InputCounted DEF Backlog
<1>4. CASE BacklogDone
  <2>1. Waiting' = Waiting
    BY <1>4 DEF BacklogDone, Waiting, InputQueued
  <2>2. CASE notified
    BY <1>1, <1>4, <2>1, <2>2 DEF BacklogDone, Awaited
  <2>3. CASE ~notified
    BY <1>1, <1>4, <2>1, <2>3 DEF BacklogDone, Awaited
  <2> QED
    BY <2>2, <2>3
<1>5. CASE DrainRequest
  <2>1. /\ chan # <<>> /\ Head(chan).what = "request" /\ chan' = Tail(chan)
        /\ input' = input /\ phase = "drain"
    BY <1>5 DEF DrainRequest, HeadIs
  <2>2. Waiting' = Waiting
    BY <1>1, <2>1, QueuedAfterTail, MessagesAre DEF Waiting
  <2> QED
    BY <1>5, <2>1, <2>2, InputCounted DEF DrainRequest
<1>6. CASE Defer
  <2>1. /\ chan # <<>> /\ Head(chan).what = "request" /\ chan' = Tail(chan)
        /\ input' = input
    BY <1>6 DEF Defer, HeadIs
  <2>2. Waiting' = Waiting
    BY <1>1, <2>1, QueuedAfterTail, MessagesAre DEF Waiting
  <2> QED
    BY <1>1, <1>6, <2>2 DEF Defer, Awaited
<1>7. CASE DrainDisconnected
  <2>1. /\ chan # <<>> /\ Head(chan).what = "disconnected" /\ chan' = Tail(chan)
        /\ input' = input
    BY <1>7 DEF DrainDisconnected, HeadIs
  <2>2. Waiting' = Waiting
    BY <1>1, <2>1, QueuedAfterTail, MessagesAre DEF Waiting
  <2> QED
    BY <1>1, <1>7, <2>2 DEF DrainDisconnected, Awaited
<1>8. CASE DrainInput
  <2>1. /\ notified' /\ phase' = "drain" /\ waited' = 0 /\ budget' = budget
    BY <1>1, <1>8 DEF DrainInput, HeadIs, Phases
  <2> QED
    BY <1>1, <2>1 DEF Awaited
<1>9. CASE DrainDone
  <2>1. ~Waiting /\ ~Waiting' /\ waited' = waited
    BY <1>9 DEF DrainDone, Waiting, InputQueued
  <2> QED
    BY <1>1, <2>1 DEF Awaited
<1>10. CASE Rest
  <2>1. Waiting' = Waiting
    BY <1>10 DEF Rest, Waiting, InputQueued
  <2> QED
    BY <1>1, <1>10, <2>1 DEF Rest, Awaited
<1>11. CASE InputSend
  <2>1. ~Waiting /\ ~Waiting' /\ waited' = waited
    BY <1>11 DEF InputSend, Waiting, InputQueued
  <2> QED
    BY <1>1, <2>1 DEF Awaited
<1>12. CASE InputWake
  <2>1. waited = 0
    BY <1>1, <1>12 DEF InputWake, Awaited, Waiting
  <2>2. /\ waker' /\ waited' = 0 /\ budget' = budget /\ phase' = phase
        /\ notified' = notified
    BY <1>12, <2>1 DEF InputWake
  <2>3. CASE phase \in {"poll", "rest"}
    BY <1>1, <2>2, <2>3 DEF Awaited
  <2>4. CASE phase = "backlog"
    BY <1>1, <2>2, <2>4 DEF Awaited
  <2>5. CASE phase = "drain"
    BY <1>1, <2>2, <2>5 DEF Awaited, Phases
  <2> QED
    BY <1>1, <2>3, <2>4, <2>5
<1> QED
  BY <1>2, <1>3, <1>4, <1>5, <1>6, <1>7, <1>8, <1>9, <1>10, <1>11, <1>12 DEF CoreNext

LEMMA InputNext == InputInv /\ [Next]_vars => InputInv'
<1> SUFFICES ASSUME InputInv, [Next]_vars
             PROVE  InputInv'
  OBVIOUS
<1>1. Awaited'
  BY InputReaders, InputCore DEF Next
<1>2. TypeOK' /\ Phases'
  BY TypeNext, PhasesNext DEF InputInv
<1> QED
  BY <1>1, <1>2 DEF InputInv

\* Once the input thread has woken the core, no more requests run before the
\* input is handled than what is left of this iteration's budget and all of the
\* next one's, for every budget.
THEOREM InputWithinTwoBudgets == Spec => []InputNotStarved
<1>1. InputInv => InputNotStarved
  <2> SUFFICES ASSUME InputInv
               PROVE  waited <= 2 * Budget
    BY DEF InputNotStarved
  <2>1. /\ Budget \in Nat /\ budget \in Nat /\ waited \in Nat
    BY BudgetAssumption DEF InputInv, TypeOK
  <2>2. CASE ~Waiting
    BY <2>1, <2>2 DEF InputInv, Awaited
  <2>3. CASE Waiting
    BY <2>1, <2>3 DEF InputInv, Awaited
  <2> QED
    BY <2>2, <2>3
<1> QED
  BY <1>1, InputInit, InputNext, PTL DEF Spec

-----------------------------------------------------------------------------
(* Sequences: what the core's steps do to the line.                         *)

LEMMA TailIs ==
  ASSUME NEW S, NEW q \in Seq(S), q # <<>>
  PROVE  /\ Len(q) \in Nat \ {0} /\ DOMAIN q = 1..Len(q)
         /\ Head(q) = q[1] /\ q[1] \in S
         /\ Tail(q) \in Seq(S) /\ Len(Tail(q)) = Len(q) - 1
         /\ DOMAIN Tail(q) = 1..(Len(q) - 1)
         /\ \A i \in 1..(Len(q) - 1) : Tail(q)[i] = q[i + 1]
<1>1. Len(q) \in Nat \ {0} /\ DOMAIN q = 1..Len(q)
  BY EmptySeq, LenProperties
<1>2. /\ Tail(q) \in Seq(S) /\ Len(Tail(q)) = Len(q) - 1
      /\ \A i \in 1..Len(Tail(q)) : Tail(q)[i] = q[i + 1]
      /\ Head(q) \in S
  BY HeadTailProperties
<1>3. DOMAIN Tail(q) = 1..Len(Tail(q))
  BY ONLY <1>2, LenProperties
<1>4. Head(q) = q[1]
  OBVIOUS
<1> QED
  BY ONLY <1>1, <1>2, <1>3, <1>4

LEMMA JoinAppend ==
  ASSUME NEW S, NEW d \in Seq(S), NEW q \in Seq(S), NEW m \in S
  PROVE  d \o Append(q, m) = Append(d \o q, m)
<1>1. <<m>> \in Seq(S) /\ d \o q \in Seq(S)
  BY ConcatProperties
<1>2. Append(q, m) = q \o <<m>> /\ Append(d \o q, m) = (d \o q) \o <<m>>
  BY ONLY <1>1, m \in S, q \in Seq(S), AppendIsConcat
<1> DEFINE u == <<m>>
<1>3. u \in Seq(S)
  BY ONLY <1>1
<1>4. Append(q, m) = q \o u /\ Append(d \o q, m) = (d \o q) \o u
  BY ONLY <1>2
<1> HIDE DEF u
<1>5. (d \o q) \o u = d \o (q \o u)
  BY ONLY <1>3, d \in Seq(S), q \in Seq(S), ConcatAssociative
<1> QED
  BY ONLY <1>4, <1>5

\* Deferring the head of the channel leaves the line alone.
LEMMA JoinMoved ==
  ASSUME NEW S, NEW d \in Seq(S), NEW q \in Seq(S), q # <<>>
  PROVE  Append(d, Head(q)) \o Tail(q) = d \o q
<1> DEFINE h == Head(q)  t == Tail(q)  u == <<h>>
<1>1. h \in S /\ t \in Seq(S) /\ u \in Seq(S)
  BY HeadTailProperties
<1>2. q = u \o t
  <2>1. u \o t \in Seq(S) /\ Len(u \o t) = Len(q)
    <3>1. Len(t) = Len(q) - 1 /\ Len(q) \in Nat /\ Len(u) = 1
      BY HeadTailProperties, LenProperties
    <3> QED
      BY <1>1, <3>1, ConcatProperties
  <2>2. ASSUME NEW i \in 1..Len(q)
        PROVE  q[i] = (u \o t)[i]
    <3>1. Len(u) = 1 /\ u[1] = q[1] /\ Len(t) = Len(q) - 1 /\ Len(q) \in Nat
          /\ \A k \in 1..(Len(q) - 1) : t[k] = q[k + 1]
      BY TailIs
    <3>2. i \in 1..(Len(u) + Len(t))
      BY ONLY <2>2, <3>1
    <3>3. (u \o t)[i] = IF i <= Len(u) THEN u[i] ELSE t[i - Len(u)]
      <4> HIDE DEF u, t
      <4> QED
        BY ONLY <1>1, <3>2, ConcatProperties
    <3> HIDE DEF u, t, h
    <3>4. CASE i = 1
      BY ONLY <3>1, <3>3, <3>4
    <3>5. CASE i # 1
      <4>1. i - 1 \in 1..(Len(q) - 1) /\ (i - 1) + 1 = i /\ ~(i <= 1)
        BY ONLY <2>2, <3>1, <3>5
      <4> QED
        BY ONLY <3>1, <3>3, <4>1
    <3> QED
      BY ONLY <3>4, <3>5
  <2> HIDE DEF u, t
  <2> QED
    BY ONLY <2>1, <2>2, q \in Seq(S), SeqEqual
<1>3. Append(d, h) = d \o u
  BY <1>1, AppendIsConcat
<1> HIDE DEF u, t, h
<1>4. (d \o u) \o t = d \o (u \o t)
  BY ONLY <1>1, d \in Seq(S), ConcatAssociative
<1>5. Append(d, h) \o t = d \o q
  BY ONLY <1>2, <1>3, <1>4
<1> QED
  BY ONLY <1>5 DEF h, t

\* Position k has left q, the rest is as it was.
Removed(q, k, r) ==
    /\ Len(q) \in Nat /\ k \in 1..Len(q)
    /\ DOMAIN q = 1..Len(q) /\ DOMAIN r = 1..(Len(q) - 1)
    /\ \A i \in 1..(k - 1) : r[i] = q[i]
    /\ \A i \in k..(Len(q) - 1) : r[i] = q[i + 1]

\* Taking the head of the channel removes the position behind the backlog.
LEMMA JoinRemoved ==
  ASSUME NEW S, NEW d \in Seq(S), NEW q \in Seq(S), q # <<>>
  PROVE  /\ Removed(d \o q, Len(d) + 1, d \o Tail(q))
         /\ (d \o q)[Len(d) + 1] = Head(q)
<1> DEFINE t == Tail(q)  a == d \o q  b == d \o t  n == Len(d)  m == Len(q)
<1>1. /\ t \in Seq(S) /\ n \in Nat /\ m \in Nat /\ m > 0 /\ Len(t) = m - 1
      /\ \A i \in 1..(m - 1) : t[i] = q[i + 1]
      /\ Head(q) = q[1]
  <2>1. Len(d) \in Nat
    BY LenProperties
  <2> QED
    BY <2>1, TailIs
<1> HIDE DEF t
<1>2. /\ a \in Seq(S) /\ Len(a) = n + m
      /\ \A i \in 1..(n + m) : a[i] = IF i <= n THEN d[i] ELSE q[i - n]
  BY ConcatProperties
<1>3. /\ b \in Seq(S) /\ Len(b) = n + Len(t)
      /\ \A i \in 1..(n + Len(t)) : b[i] = IF i <= n THEN d[i] ELSE t[i - n]
  BY ONLY <1>1, d \in Seq(S), ConcatProperties
<1>4. DOMAIN a = 1..Len(a) /\ DOMAIN b = 1..Len(b)
  BY ONLY <1>2, <1>3, LenProperties
<1> HIDE DEF a, b, n, m
<1>5. ASSUME NEW i \in 1..n
      PROVE  b[i] = a[i]
  BY ONLY <1>1, <1>2, <1>3, <1>5
<1>6. ASSUME NEW i \in (n + 1)..(n + m - 1)
      PROVE  b[i] = a[i + 1]
  <2>1. i - n \in 1..(m - 1) /\ (i - n) + 1 = (i + 1) - n /\ ~(i <= n) /\ ~(i + 1 <= n)
        /\ i \in 1..(n + Len(t)) /\ i + 1 \in 1..(n + m) /\ i \in Nat
    BY ONLY <1>1, <1>6
  <2> QED
    BY ONLY <1>1, <1>2, <1>3, <2>1
<1>7. a[n + 1] = q[1]
  <2>1. n + 1 \in 1..(n + m) /\ (n + 1) - n = 1 /\ ~(n + 1 <= n)
    BY ONLY <1>1
  <2> QED
    BY ONLY <1>2, <2>1
<1>8. Removed(a, n + 1, b)
  <2>1. /\ Len(a) \in Nat /\ n + 1 \in 1..Len(a) /\ Len(b) = Len(a) - 1
        /\ (n + 1) - 1 = n /\ Len(a) - 1 = n + m - 1
    BY ONLY <1>1, <1>2, <1>3
  <2> QED
    BY ONLY <1>4, <1>5, <1>6, <2>1 DEF Removed
<1> QED
  BY ONLY <1>1, <1>7, <1>8 DEF a, b, n, t

-----------------------------------------------------------------------------
(* Requests are neither lost, repeated nor reordered.                       *)

\* The numbers of c's requests in q run from l, the last handled, to s, the last
\* read: NothingLostOrReordered for one client and any line.
Num(q, l, i) == IF i = 0 THEN l ELSE q[i].seq
Runs(c, q, l, s) ==
    /\ \A i, k \in Stops(c, q) :
          Consecutive(Stops(c, q), i, k) => Num(q, l, k) = (Num(q, l, i) + 1) % SeqWrap
    /\ \A i \in Stops(c, q) : Latest(Stops(c, q), i) => Num(q, l, i) = s

LEMMA OrderIsRuns ==
  NothingLostOrReordered <=> \A c \in clients : Runs(c, Line, lastSeq[c], seq[c])
<1>1. ASSUME NEW c, NEW i
      PROVE  NumberAt(c, Line, i) = Num(Line, lastSeq[c], i)
  BY DEF NumberAt, Num
<1> QED
  BY ONLY <1>1 DEF NothingLostOrReordered, Runs

\* The numbers of r run as those of q do when f takes the stops of r, in order, to
\* stops of q with the same numbers and leaves none out but at the front.
LEMMA RunsAlong ==
  ASSUME NEW c, NEW q, NEW r, NEW l, NEW l2, NEW s, NEW f,
         Runs(c, q, l, s),
         \A i \in Stops(c, r) : f[i] \in Stops(c, q) /\ Num(r, l2, i) = Num(q, l, f[i]),
         \A i, k \in Stops(c, r) : (i < k => f[i] < f[k]) /\ (i <= k => f[i] <= f[k]),
         \A x \in Stops(c, q) : \/ \E y \in Stops(c, r) : x = f[y]
                                \/ \A i \in Stops(c, r) : x <= f[i]
  PROVE  Runs(c, r, l2, s)
<1>1. ASSUME NEW i \in Stops(c, r), NEW k \in Stops(c, r), Consecutive(Stops(c, r), i, k)
      PROVE  Num(r, l2, k) = (Num(r, l2, i) + 1) % SeqWrap
  <2>1. f[i] < f[k]
    BY <1>1 DEF Consecutive
  <2>2. ASSUME NEW x \in Stops(c, q)
        PROVE  x <= f[i] \/ f[k] <= x
    <3>1. CASE \A j \in Stops(c, r) : x <= f[j]
      BY <3>1, <1>1
    <3>2. ASSUME NEW y \in Stops(c, r), x = f[y]
          PROVE  x <= f[i] \/ f[k] <= x
      <4>1. y <= i \/ k <= y
        BY <1>1 DEF Consecutive
      <4> QED
        BY <3>2, <4>1, <1>1
    <3> QED
      BY <3>1, <3>2
  <2>3. Consecutive(Stops(c, q), f[i], f[k])
    BY <2>1, <2>2 DEF Consecutive
  <2>4. Num(q, l, f[k]) = (Num(q, l, f[i]) + 1) % SeqWrap
    BY <1>1, <2>3 DEF Runs
  <2> QED
    BY <2>4, <1>1
<1>2. ASSUME NEW i \in Stops(c, r), Latest(Stops(c, r), i)
      PROVE  Num(r, l2, i) = s
  <2>1. ASSUME NEW x \in Stops(c, q)
        PROVE  x <= f[i]
    BY <1>2 DEF Latest
  <2>2. Latest(Stops(c, q), f[i])
    BY <2>1 DEF Latest
  <2>3. Num(q, l, f[i]) = s
    BY <1>2, <2>2 DEF Runs
  <2> QED
    BY <2>3, <1>2
<1> QED
  BY <1>1, <1>2 DEF Runs

LEMMA StopsAre ==
  ASSUME NEW c, NEW q, NEW n \in Nat, DOMAIN q = 1..n
  PROVE  /\ Stops(c, q) \subseteq 0..n
         /\ 0 \in Stops(c, q)
         /\ \A i \in 1..n : i \in Stops(c, q) <=> From(c, q[i])
<1>1. Stops(c, q) = {0} \cup {i \in 1..n : From(c, q[i])}
  BY DEF Stops
<1> QED
  BY ONLY <1>1, n \in Nat

\* A message that is not a request of c leaves.
LEMMA RunsRemoved ==
  ASSUME NEW c, NEW q, NEW k, NEW r, NEW l, NEW s,
         Runs(c, q, l, s), Removed(q, k, r), ~From(c, q[k])
  PROVE  Runs(c, r, l, s)
<1> DEFINE n == Len(q)
           f == [i \in 0..(n - 1) |-> IF i < k THEN i ELSE i + 1]
<1>1. /\ n \in Nat /\ k \in 1..n /\ DOMAIN q = 1..n /\ DOMAIN r = 1..(n - 1)
      /\ n - 1 \in Nat
      /\ \A i \in 1..(k - 1) : r[i] = q[i]
      /\ \A i \in k..(n - 1) : r[i] = q[i + 1]
  BY DEF Removed
<1> HIDE DEF n
<1>2. /\ Stops(c, q) \subseteq 0..n /\ 0 \in Stops(c, q)
      /\ \A i \in 1..n : i \in Stops(c, q) <=> From(c, q[i])
  BY ONLY <1>1, StopsAre
<1>3. /\ Stops(c, r) \subseteq 0..(n - 1) /\ 0 \in Stops(c, r)
      /\ \A i \in 1..(n - 1) : i \in Stops(c, r) <=> From(c, r[i])
  BY ONLY <1>1, StopsAre
<1>4. \A i \in 0..(n - 1) : f[i] = IF i < k THEN i ELSE i + 1
  OBVIOUS
<1> HIDE DEF f
<1>5. ASSUME NEW i \in Stops(c, r)
      PROVE  f[i] \in Stops(c, q) /\ Num(r, l, i) = Num(q, l, f[i])
  <2>1. CASE i = 0
    BY ONLY <1>1, <1>2, <1>4, <2>1 DEF Num
  <2>2. CASE i \in 1..(k - 1)
    <3>1. i \in 1..n /\ i \in 1..(n - 1) /\ i # 0 /\ f[i] = i /\ r[i] = q[i]
      BY ONLY <1>1, <1>4, <2>2
    <3> QED
      BY ONLY <1>2, <1>3, <1>5, <3>1 DEF Num
  <2>3. CASE i \in k..(n - 1)
    <3>1. i + 1 \in 1..n /\ i \in 1..(n - 1) /\ i # 0 /\ f[i] = i + 1 /\ r[i] = q[i + 1]
          /\ i + 1 # 0
      BY ONLY <1>1, <1>4, <2>3
    <3> QED
      BY ONLY <1>2, <1>3, <1>5, <3>1 DEF Num
  <2> QED
    BY ONLY <1>1, <1>3, <1>5, <2>1, <2>2, <2>3
<1>6. ASSUME NEW i \in Stops(c, r), NEW j \in Stops(c, r)
      PROVE  (i < j => f[i] < f[j]) /\ (i <= j => f[i] <= f[j])
  BY ONLY <1>1, <1>3, <1>4, <1>6
<1>7. ASSUME NEW x \in Stops(c, q)
      PROVE  \E y \in Stops(c, r) : x = f[y]
  <2>1. CASE x = 0
    BY ONLY <1>1, <1>3, <1>4, <2>1
  <2>2. CASE x \in 1..(k - 1)
    <3>1. x \in 1..n /\ x \in 1..(n - 1) /\ f[x] = x /\ r[x] = q[x]
      BY ONLY <1>1, <1>4, <2>2
    <3> QED
      BY ONLY <1>2, <1>3, <1>7, <3>1
  <2>3. x # k
    BY <1>1, <1>2, <1>7
  <2>4. CASE x \in (k + 1)..n
    <3>1. x \in 1..n /\ x - 1 \in 1..(n - 1) /\ x - 1 \in k..(n - 1) /\ (x - 1) + 1 = x
          /\ f[x - 1] = x
      BY ONLY <1>1, <1>4, <2>4
    <3>2. r[x - 1] = q[x]
      BY ONLY <1>1, <3>1
    <3> QED
      BY ONLY <1>2, <1>3, <1>7, <3>1, <3>2
  <2> QED
    BY ONLY <1>1, <1>2, <1>7, <2>1, <2>2, <2>3, <2>4
<1> QED
  BY ONLY <1>5, <1>6, <1>7, Runs(c, q, l, s), RunsAlong

\* The request of c at the head is handled: its number is the last handled now.
LEMMA RunsHandled ==
  ASSUME NEW c, NEW q, NEW r, NEW l, NEW s,
         Runs(c, q, l, s), Removed(q, 1, r), From(c, q[1])
  PROVE  Runs(c, r, q[1].seq, s)
<1> DEFINE n == Len(q)
           f == [i \in 0..(n - 1) |-> i + 1]
<1>1. /\ n \in Nat /\ 1 \in 1..n /\ DOMAIN q = 1..n /\ DOMAIN r = 1..(n - 1)
      /\ n - 1 \in Nat
      /\ \A i \in 1..(n - 1) : r[i] = q[i + 1]
  BY DEF Removed
<1> HIDE DEF n
<1>2. /\ Stops(c, q) \subseteq 0..n /\ 0 \in Stops(c, q)
      /\ \A i \in 1..n : i \in Stops(c, q) <=> From(c, q[i])
  BY ONLY <1>1, StopsAre
<1>3. /\ Stops(c, r) \subseteq 0..(n - 1) /\ 0 \in Stops(c, r)
      /\ \A i \in 1..(n - 1) : i \in Stops(c, r) <=> From(c, r[i])
  BY ONLY <1>1, StopsAre
<1>4. \A i \in 0..(n - 1) : f[i] = i + 1
  OBVIOUS
<1> HIDE DEF f
<1>5. ASSUME NEW i \in Stops(c, r)
      PROVE  f[i] \in Stops(c, q) /\ Num(r, q[1].seq, i) = Num(q, l, f[i])
  <2>1. CASE i = 0
    <3>1. f[i] = 1
      BY ONLY <1>1, <1>4, <2>1
    <3> QED
      BY <1>1, <1>2, <2>1, <3>1 DEF Num
  <2>2. CASE i \in 1..(n - 1)
    <3>1. i + 1 \in 1..n /\ i # 0 /\ f[i] = i + 1 /\ r[i] = q[i + 1] /\ i + 1 # 0
      BY ONLY <1>1, <1>4, <2>2
    <3> QED
      BY ONLY <1>2, <1>3, <1>5, <2>2, <3>1 DEF Num
  <2> QED
    BY ONLY <1>1, <1>3, <1>5, <2>1, <2>2
<1>6. ASSUME NEW i \in Stops(c, r), NEW j \in Stops(c, r)
      PROVE  (i < j => f[i] < f[j]) /\ (i <= j => f[i] <= f[j])
  BY ONLY <1>1, <1>3, <1>4, <1>6
<1>7. ASSUME NEW x \in Stops(c, q)
      PROVE  \/ \E y \in Stops(c, r) : x = f[y]
             \/ \A i \in Stops(c, r) : x <= f[i]
  <2>1. CASE x = 0 \/ x = 1
    BY ONLY <1>1, <1>3, <1>4, <2>1
  <2>2. CASE x \in 2..n
    <3>1. x \in 1..n /\ x - 1 \in 1..(n - 1) /\ (x - 1) + 1 = x /\ f[x - 1] = x
      BY ONLY <1>1, <1>4, <2>2
    <3>2. r[x - 1] = q[x]
      BY ONLY <1>1, <3>1
    <3> QED
      BY ONLY <1>2, <1>3, <1>7, <3>1, <3>2
  <2> QED
    BY ONLY <1>1, <1>2, <1>7, <2>1, <2>2
<1> QED
  BY ONLY <1>5, <1>6, <1>7, Runs(c, q, l, s), RunsAlong

\* m has joined q at the end.
Appended(q, m, r) ==
    /\ Len(q) \in Nat
    /\ DOMAIN q = 1..Len(q) /\ DOMAIN r = 1..(Len(q) + 1)
    /\ \A i \in 1..Len(q) : r[i] = q[i]
    /\ r[Len(q) + 1] = m

LEMMA AppendedIs ==
  ASSUME NEW S, NEW q \in Seq(S), NEW m \in S
  PROVE  Appended(q, m, Append(q, m))
<1>1. /\ Len(q) \in Nat /\ DOMAIN q = 1..Len(q)
      /\ Append(q, m) \in Seq(S) /\ Len(Append(q, m)) = Len(q) + 1
      /\ \A i \in 1..Len(q) : Append(q, m)[i] = q[i]
      /\ Append(q, m)[Len(q) + 1] = m
  BY LenProperties, AppendProperties
<1>2. DOMAIN Append(q, m) = 1..Len(Append(q, m))
  BY ONLY <1>1, LenProperties
<1> QED
  BY ONLY <1>1, <1>2 DEF Appended

\* A message that is not a request of c joins.
LEMMA RunsBeside ==
  ASSUME NEW c, NEW q, NEW m, NEW r, NEW l, NEW s,
         Runs(c, q, l, s), Appended(q, m, r), ~From(c, m)
  PROVE  Runs(c, r, l, s)
<1> DEFINE n == Len(q)
<1>1. /\ n \in Nat /\ n + 1 \in Nat /\ DOMAIN q = 1..n /\ DOMAIN r = 1..(n + 1)
      /\ \A i \in 1..n : r[i] = q[i]
      /\ r[n + 1] = m
  BY DEF Appended
<1> HIDE DEF n
<1>2. /\ Stops(c, q) \subseteq 0..n /\ 0 \in Stops(c, q)
      /\ \A i \in 1..n : i \in Stops(c, q) <=> From(c, q[i])
  BY ONLY <1>1, StopsAre
<1>3. /\ Stops(c, r) \subseteq 0..(n + 1) /\ 0 \in Stops(c, r)
      /\ \A i \in 1..(n + 1) : i \in Stops(c, r) <=> From(c, r[i])
  BY ONLY <1>1, StopsAre
<1>4. ASSUME NEW i
      PROVE  i \in Stops(c, r) <=> i \in Stops(c, q)
  <2>1. CASE i = 0
    BY ONLY <1>2, <1>3, <2>1
  <2>2. CASE i \in 1..n
    <3>1. i \in 1..(n + 1)
      BY ONLY <1>1, <2>2
    <3> QED
      BY ONLY <1>1, <1>2, <1>3, <2>2, <3>1
  <2>3. CASE i = n + 1
    <3>1. i \in 1..(n + 1) /\ i \notin 0..n
      BY ONLY <1>1, <2>3
    <3> QED
      BY <1>1, <1>2, <1>3, <2>3, <3>1
  <2>4. CASE i \notin 0..(n + 1)
    BY ONLY <1>1, <1>2, <1>3, <2>4
  <2> QED
    BY ONLY <1>1, <2>1, <2>2, <2>3, <2>4
<1>5. Stops(c, r) = Stops(c, q)
  BY ONLY <1>4
<1>6. ASSUME NEW i \in Stops(c, r)
      PROVE  Num(r, l, i) = Num(q, l, i)
  BY ONLY <1>1, <1>2, <1>5, <1>6 DEF Num
<1> QED
  BY ONLY <1>5, <1>6, Runs(c, q, l, s) DEF Runs, Consecutive

\* The next request of c joins: its number is the last read now.
LEMMA RunsRead ==
  ASSUME NEW c, NEW q, NEW m, NEW r, NEW l, NEW s,
         Runs(c, q, l, s), Appended(q, m, r), From(c, m), m.seq = (s + 1) % SeqWrap
  PROVE  Runs(c, r, l, m.seq)
<1> DEFINE n == Len(q)
<1>1. /\ n \in Nat /\ n + 1 \in Nat /\ DOMAIN q = 1..n /\ DOMAIN r = 1..(n + 1)
      /\ \A i \in 1..n : r[i] = q[i]
      /\ r[n + 1] = m
  BY DEF Appended
<1> HIDE DEF n
<1>2. /\ Stops(c, q) \subseteq 0..n /\ 0 \in Stops(c, q)
      /\ \A i \in 1..n : i \in Stops(c, q) <=> From(c, q[i])
  BY ONLY <1>1, StopsAre
<1>3. /\ Stops(c, r) \subseteq 0..(n + 1) /\ 0 \in Stops(c, r)
      /\ \A i \in 1..(n + 1) : i \in Stops(c, r) <=> From(c, r[i])
  BY ONLY <1>1, StopsAre
<1>4. n + 1 \in Stops(c, r)
  <2>1. n + 1 \in 1..(n + 1)
    BY ONLY <1>1
  <2> QED
    BY <1>1, <1>3, <2>1
<1>5. ASSUME NEW i, i # n + 1
      PROVE  i \in Stops(c, r) <=> i \in Stops(c, q)
  <2>1. CASE i = 0
    BY ONLY <1>2, <1>3, <2>1
  <2>2. CASE i \in 1..n
    <3>1. i \in 1..(n + 1)
      BY ONLY <1>1, <2>2
    <3> QED
      BY ONLY <1>1, <1>2, <1>3, <2>2, <3>1
  <2>3. CASE i \notin 0..(n + 1)
    BY ONLY <1>1, <1>2, <1>3, <2>3
  <2> QED
    BY ONLY <1>1, <1>5, <2>1, <2>2, <2>3
<1>6. ASSUME NEW i \in Stops(c, q)
      PROVE  Num(r, l, i) = Num(q, l, i) /\ i < n + 1 /\ i \in Stops(c, r)
  <2>1. i \in 0..n /\ i < n + 1 /\ i # n + 1
    BY ONLY <1>1, <1>2, <1>6
  <2>2. Num(r, l, i) = Num(q, l, i)
    BY ONLY <1>1, <2>1 DEF Num
  <2> QED
    BY ONLY <1>5, <1>6, <2>1, <2>2
<1>7. ASSUME NEW i \in Stops(c, r), NEW k \in Stops(c, r), Consecutive(Stops(c, r), i, k)
      PROVE  Num(r, l, k) = (Num(r, l, i) + 1) % SeqWrap
  <2>1. i \in Stops(c, q)
    <3>1. i < k /\ i \in 0..(n + 1) /\ k \in 0..(n + 1)
      BY ONLY <1>3, <1>7 DEF Consecutive
    <3>2. i # n + 1
      BY ONLY <1>1, <3>1
    <3> QED
      BY ONLY <1>5, <1>7, <3>2
  <2>2. CASE k = n + 1
    <3>1. ASSUME NEW j \in Stops(c, q)
          PROVE  j <= i
      <4>1. j < n + 1 /\ j \in 0..n
        BY ONLY <1>2, <1>6, <3>1
      <4>2. j <= i \/ k <= j
        BY ONLY <1>6, <1>7, <3>1 DEF Consecutive
      <4> QED
        BY ONLY <1>1, <2>2, <4>1, <4>2
    <3>2. Num(q, l, i) = s
      BY <2>1, <3>1 DEF Runs, Latest
    <3>3. Num(r, l, i) = s
      BY ONLY <1>6, <2>1, <3>2
    <3>4. Num(r, l, k) = m.seq
      <4>1. n + 1 # 0
        BY ONLY <1>1
      <4> QED
        BY ONLY <1>1, <2>2, <4>1 DEF Num
    <3> QED
      BY <3>3, <3>4
  <2>3. CASE k # n + 1
    <3>1. k \in Stops(c, q)
      BY ONLY <1>5, <1>7, <2>3
    <3>2. Consecutive(Stops(c, q), i, k)
      BY ONLY <1>6, <1>7 DEF Consecutive
    <3>3. Num(q, l, k) = (Num(q, l, i) + 1) % SeqWrap
      BY <2>1, <3>1, <3>2 DEF Runs
    <3> QED
      BY ONLY <1>6, <2>1, <3>1, <3>3
  <2> QED
    BY ONLY <2>2, <2>3
<1>8. ASSUME NEW i \in Stops(c, r), Latest(Stops(c, r), i)
      PROVE  Num(r, l, i) = m.seq
  <2>1. n + 1 <= i /\ i \in 0..(n + 1)
    BY ONLY <1>3, <1>4, <1>8 DEF Latest
  <2>2. i = n + 1 /\ i # 0
    BY ONLY <1>1, <2>1
  <2> QED
    BY ONLY <1>1, <2>2 DEF Num
<1> QED
  BY ONLY <1>7, <1>8 DEF Runs

\* What each kind of step does to the line.
LEMMA LineIs ==
  ASSUME TypeOK
  PROVE  /\ deferred \in Seq(Messages) /\ chan \in Seq(Messages) /\ Line \in Seq(Messages)
<1>1. deferred \in Seq(Messages) /\ chan \in Seq(Messages)
  BY MessagesAre, SeqMonotonic DEF TypeOK
<1>2. deferred \o chan \in Seq(Messages)
  BY ONLY <1>1, ConcatProperties
<1> QED
  BY ONLY <1>1, <1>2 DEF Line

LEMMA LineGrows ==
  ASSUME TypeOK, NEW m \in Messages, chan' = Append(chan, m), deferred' = deferred
  PROVE  Appended(Line, m, Line')
<1>1. deferred \in Seq(Messages) /\ chan \in Seq(Messages) /\ Line \in Seq(Messages)
  BY LineIs
<1>2. Line' = Append(Line, m)
  <2>1. deferred \o Append(chan, m) = Append(deferred \o chan, m)
    BY ONLY <1>1, m \in Messages, JoinAppend
  <2> QED
    BY <2>1 DEF Line
<1>3. Appended(Line, m, Append(Line, m))
  BY ONLY <1>1, m \in Messages, AppendedIs
<1> QED
  BY <1>2, <1>3

LEMMA LineTaken ==
  ASSUME TypeOK, chan # <<>>, chan' = Tail(chan), deferred' = deferred
  PROVE  /\ Removed(Line, Len(deferred) + 1, Line')
         /\ Line[Len(deferred) + 1] = Head(chan)
<1>1. deferred \in Seq(Messages) /\ chan \in Seq(Messages)
  BY LineIs
<1>2. /\ Removed(deferred \o chan, Len(deferred) + 1, deferred \o Tail(chan))
      /\ (deferred \o chan)[Len(deferred) + 1] = Head(chan)
  BY ONLY <1>1, chan # <<>>, JoinRemoved
<1> QED
  BY <1>2 DEF Line

LEMMA LineServed ==
  ASSUME TypeOK, deferred # <<>>, deferred' = Tail(deferred), chan' = chan
  PROVE  Removed(Line, 1, Line') /\ Line[1] = Head(deferred)
<1> DEFINE t == Tail(deferred)  n == Len(deferred)  k == Len(chan)
           a == deferred \o chan  b == t \o chan
<1>1. deferred \in Seq(Messages) /\ chan \in Seq(Messages)
  BY LineIs
<1>2. /\ n \in Nat \ {0} /\ Head(deferred) = deferred[1]
      /\ t \in Seq(Messages) /\ Len(t) = n - 1
      /\ \A i \in 1..(n - 1) : t[i] = deferred[i + 1]
  BY ONLY <1>1, deferred # <<>>, TailIs
<1>3. k \in Nat
  BY <1>1, LenProperties
<1> HIDE DEF t, n, k
<1>4. /\ a \in Seq(Messages) /\ Len(a) = n + k
      /\ \A i \in 1..(n + k) : a[i] = IF i <= n THEN deferred[i] ELSE chan[i - n]
  BY ONLY <1>1, ConcatProperties DEF n, k
<1>5. /\ b \in Seq(Messages) /\ Len(b) = (n - 1) + k
      /\ \A i \in 1..((n - 1) + k) : b[i] = IF i <= n - 1 THEN t[i] ELSE chan[i - (n - 1)]
  <2>1. /\ b \in Seq(Messages) /\ Len(b) = Len(t) + k
        /\ \A i \in 1..(Len(t) + k) :
              b[i] = IF i <= Len(t) THEN t[i] ELSE chan[i - Len(t)]
    BY ONLY <1>1, <1>2, ConcatProperties DEF k
  <2> HIDE DEF b
  <2> QED
    BY ONLY <1>2, <2>1
<1>6. DOMAIN a = 1..Len(a) /\ DOMAIN b = 1..Len(b)
  BY ONLY <1>4, <1>5, LenProperties
<1>7. Line = a /\ Line' = b
  BY DEF Line, t
<1> HIDE DEF a, b
<1>8. ASSUME NEW i \in 1..((n - 1) + k)
      PROVE  b[i] = a[i + 1]
  <2>1. i + 1 \in 1..(n + k) /\ i - (n - 1) = (i + 1) - n /\ (i <= n - 1 <=> i + 1 <= n)
    BY ONLY <1>2, <1>3, <1>8
  <2>2. i <= n - 1 => i \in 1..(n - 1)
    BY ONLY <1>2, <1>3, <1>8
  <2> QED
    BY ONLY <1>2, <1>4, <1>5, <2>1, <2>2
<1>9. a[1] = deferred[1]
  <2>1. 1 \in 1..(n + k) /\ 1 <= n
    BY ONLY <1>2, <1>3
  <2> QED
    BY ONLY <1>4, <2>1
<1>10. Removed(a, 1, b)
  <2>1. /\ Len(a) \in Nat /\ 1 \in 1..Len(a) /\ Len(b) = Len(a) - 1
        /\ 1..(1 - 1) = {} /\ Len(a) - 1 = (n - 1) + k
    BY ONLY <1>2, <1>3, <1>4, <1>5
  <2> QED
    BY ONLY <1>6, <1>8, <2>1 DEF Removed
<1> QED
  BY ONLY <1>2, <1>7, <1>9, <1>10

\* Every client's numbers still run when nobody's do anything but stand still: a
\* client may leave, and a message that is no connected client's request may come
\* or go.
OrderKept ==
    \A c \in clients' :
        /\ c \in clients
        /\ lastSeq'[c] = lastSeq[c] /\ seq'[c] = seq[c]
        /\ \/ Line' = Line
           \/ \E m \in Messages : ~From(c, m) /\ Appended(Line, m, Line')
           \/ \E k \in 1..Len(Line) : ~From(c, Line[k]) /\ Removed(Line, k, Line')

LEMMA OrderStands ==
  ASSUME NothingLostOrReordered, OrderKept
  PROVE  NothingLostOrReordered'
<1>1. ASSUME NEW c \in clients'
      PROVE  Runs(c, Line', lastSeq'[c], seq'[c])
  <2>1. /\ Runs(c, Line, lastSeq'[c], seq'[c])
        /\ \/ Line' = Line
           \/ \E m \in Messages : ~From(c, m) /\ Appended(Line, m, Line')
           \/ \E k \in 1..Len(Line) : ~From(c, Line[k]) /\ Removed(Line, k, Line')
    BY <1>1, OrderIsRuns DEF OrderKept
  <2>2. CASE Line' = Line
    BY ONLY <2>1, <2>2
  <2>3. ASSUME NEW m \in Messages, ~From(c, m), Appended(Line, m, Line')
        PROVE  Runs(c, Line', lastSeq'[c], seq'[c])
    BY ONLY <2>1, <2>3, RunsBeside
  <2>4. ASSUME NEW k \in 1..Len(Line), ~From(c, Line[k]), Removed(Line, k, Line')
        PROVE  Runs(c, Line', lastSeq'[c], seq'[c])
    BY ONLY <2>1, <2>4, RunsRemoved
  <2> QED
    BY ONLY <2>1, <2>2, <2>3, <2>4
<1>2. (\A c \in clients : Runs(c, Line, lastSeq[c], seq[c]))'
  BY ONLY <1>1 DEF Runs, Stops, Consecutive, Latest, Num
<1> QED
  BY <1>2, OrderIsRuns, PTL

\* The head of the line is handled.
LEMMA OrderServed ==
  ASSUME OrderInv, NEW m \in Requests, Process(m), seq' = seq,
         Removed(Line, 1, Line'), Line[1] = m
  PROVE  NothingLostOrReordered'
<1>1. TypeOK /\ lastSeq \in [Client -> 0..(SeqWrap - 1)] /\ clients \subseteq Client
  BY DEF OrderInv, TypeOK
<1>2. m.what = "request" /\ m.c \in Client
  BY MessagesAre
<1>3. CASE m.c \notin clients
  <2>1. clients' = clients /\ lastSeq' = lastSeq
    BY <1>3 DEF Process, stateVars
  <2>2. 1 \in 1..Len(Line)
    BY DEF Removed
  <2>3. OrderKept
    BY <1>3, <2>1, <2>2 DEF OrderKept, From
  <2> QED
    BY <2>3, OrderStands DEF OrderInv
<1>4. CASE m.c \in clients
  <2>1. /\ lastSeq' = [lastSeq EXCEPT ![m.c] = m.seq]
        /\ clients' \subseteq clients
    BY <1>4 DEF Process, Dispatched
  <2>2. ASSUME NEW c \in clients'
        PROVE  Runs(c, Line', lastSeq'[c], seq'[c])
    <3>1. c \in clients /\ c \in Client /\ seq'[c] = seq[c]
      BY <1>1, <2>1
    <3>2. Runs(c, Line, lastSeq[c], seq[c])
      BY <3>1, OrderIsRuns DEF OrderInv
    <3>3. CASE c = m.c
      <4>1. lastSeq'[c] = Line[1].seq
        BY <1>1, <2>1, <3>1, <3>3
      <4>2. From(c, Line[1])
        BY <1>2, <3>3 DEF From
      <4>3. Runs(c, Line', Line[1].seq, seq[c])
        BY ONLY <3>2, <4>2, Removed(Line, 1, Line'), RunsHandled
      <4> QED
        BY ONLY <3>1, <4>1, <4>3
    <3>4. CASE c # m.c
      <4>1. lastSeq'[c] = lastSeq[c]
        BY <1>1, <2>1, <3>1, <3>4
      <4>2. ~From(c, Line[1])
        BY <3>4 DEF From
      <4>3. Runs(c, Line', lastSeq[c], seq[c])
        BY ONLY <3>2, <4>2, Removed(Line, 1, Line'), RunsRemoved
      <4> QED
        BY ONLY <3>1, <4>1, <4>3
    <3> QED
      BY <3>3, <3>4
  <2>3. (\A c \in clients : Runs(c, Line, lastSeq[c], seq[c]))'
    BY ONLY <2>2 DEF Runs, Stops, Consecutive, Latest, Num
  <2> QED
    BY <2>3, OrderIsRuns, PTL
<1> QED
  BY <1>3, <1>4

\* A reader numbers the next frame and sends it.
LEMMA OrderRead ==
  ASSUME OrderInv, NEW b \in Client, NEW k \in Kinds, ReaderFrame(b, k)
  PROVE  NothingLostOrReordered'
<1> DEFINE m == Request(b, seq'[b], k)
<1>1. /\ TypeOK /\ seq \in [Client -> 0..(SeqWrap - 1)] /\ clients \subseteq Client
  BY DEF OrderInv, TypeOK
<1>2. /\ seq' = [seq EXCEPT ![b] = (@ + 1) % SeqWrap]
      /\ chan' = Append(chan, m) /\ deferred' = deferred
      /\ clients' = clients /\ lastSeq' = lastSeq
  BY DEF ReaderFrame, coreVars, stateVars
<1>3. seq'[b] = (seq[b] + 1) % SeqWrap /\ seq'[b] \in 0..(SeqWrap - 1)
  <2>1. (seq[b] + 1) % SeqWrap \in 0..(SeqWrap - 1)
    BY <1>1, SeqWrapAssumption
  <2> QED
    BY <1>1, <1>2, <2>1
<1>4. m \in Messages /\ m.what = "request" /\ m.c = b /\ m.seq = seq'[b]
  BY <1>3, MessagesAre
<1> HIDE DEF m
<1>5. Appended(Line, m, Line')
  BY <1>1, <1>2, <1>4, LineGrows
<1>6. ASSUME NEW c \in clients'
      PROVE  Runs(c, Line', lastSeq'[c], seq'[c])
  <2>1. c \in clients /\ c \in Client /\ lastSeq'[c] = lastSeq[c]
    BY <1>1, <1>2
  <2>2. Runs(c, Line, lastSeq[c], seq[c])
    BY <2>1, OrderIsRuns DEF OrderInv
  <2>3. CASE c = b
    <3>1. From(c, m) /\ m.seq = (seq[c] + 1) % SeqWrap
      BY <1>3, <1>4, <2>3 DEF From
    <3>2. Runs(c, Line', lastSeq[c], m.seq)
      BY ONLY <1>5, <2>2, <3>1, RunsRead
    <3> QED
      BY ONLY <1>4, <2>1, <2>3, <3>2
  <2>4. CASE c # b
    <3>1. ~From(c, m) /\ seq'[c] = seq[c]
      BY <1>1, <1>2, <1>4, <2>1, <2>4 DEF From
    <3>2. Runs(c, Line', lastSeq[c], seq[c])
      BY ONLY <1>5, <2>2, <3>1, RunsBeside
    <3> QED
      BY ONLY <2>1, <3>1, <3>2
  <2> QED
    BY <2>3, <2>4
<1>7. (\A c \in clients : Runs(c, Line, lastSeq[c], seq[c]))'
  BY ONLY <1>6 DEF Runs, Stops, Consecutive, Latest, Num
<1> QED
  BY <1>7, OrderIsRuns, PTL

LEMMA DisconnectShrinks ==
  ASSUME NEW c, Disconnect(c)
  PROVE  clients' \subseteq clients
BY DEF Disconnect

LEMMA OrderNext == OrderInv /\ [Next]_vars => OrderInv'
<1> SUFFICES ASSUME OrderInv, [Next]_vars
             PROVE  NothingLostOrReordered'
  BY TypeNext, PhasesNext DEF OrderInv
<1> USE DEF coreVars, stateVars, readerVars
<1>1. TypeOK /\ Phases /\ NothingLostOrReordered
  BY DEF OrderInv
<1>2. ASSUME clients' \subseteq clients, lastSeq' = lastSeq, seq' = seq,
             chan' = chan, deferred' = deferred
      PROVE  NothingLostOrReordered'
  <2>1. Line' = Line
    BY <1>2 DEF Line
  <2> QED
    BY <1>1, <1>2, <2>1, OrderStands DEF OrderKept
<1>3. ASSUME NEW c \in Client, ReaderTop(c) \/ ReaderWake(c) \/ ReaderUnpark(c) \/ PeerClose(c)
      PROVE  NothingLostOrReordered'
  BY <1>2, <1>3 DEF ReaderTop, ReaderWake, ReaderUnpark, PeerClose
<1>4. ASSUME NEW c \in Client, DropUnwritable(c)
      PROVE  NothingLostOrReordered'
  BY <1>2, <1>4, DisconnectShrinks DEF DropUnwritable
<1>5. ASSUME NEW m \in Messages, m.what # "request", chan' = Append(chan, m),
             UNCHANGED <<deferred, clients, lastSeq, seq>>
      PROVE  NothingLostOrReordered'
  <2>1. Appended(Line, m, Line')
    BY <1>1, <1>5, LineGrows
  <2> QED
    BY <1>1, <1>5, <2>1, OrderStands DEF OrderKept, From
<1>6. ASSUME NEW c \in Client, ReaderEof(c)
      PROVE  NothingLostOrReordered'
  BY <1>5, <1>6, MessagesAre DEF ReaderEof
<1>7. CASE InputSend
  BY <1>5, <1>7, MessagesAre DEF InputSend
<1>8. ASSUME chan # <<>>, Head(chan).what # "request", chan' = Tail(chan),
             clients' \subseteq clients, UNCHANGED <<deferred, lastSeq, seq>>
      PROVE  NothingLostOrReordered'
  <2>1. /\ Removed(Line, Len(deferred) + 1, Line')
        /\ Line[Len(deferred) + 1] = Head(chan)
    BY <1>1, <1>8, LineTaken
  <2>2. Len(deferred) + 1 \in 1..Len(Line)
    BY <2>1 DEF Removed
  <2> QED
    BY <1>1, <1>8, <2>1, <2>2, OrderStands DEF OrderKept, From
<1>9. CASE DrainDisconnected
  BY <1>8, <1>9, DisconnectShrinks DEF DrainDisconnected, HeadIs
<1>10. CASE DrainInput
  BY <1>8, <1>10 DEF DrainInput, HeadIs
<1>11. CASE InputWake \/ Poll \/ BacklogDone \/ DrainDone \/ Rest \/ UNCHANGED vars
  BY <1>2, <1>11 DEF InputWake, Poll, BacklogDone, DrainDone, Rest, vars
<1>12. CASE Defer
  <2>1. /\ chan # <<>> /\ chan' = Tail(chan) /\ deferred' = Append(deferred, Head(chan))
        /\ UNCHANGED <<clients, lastSeq, seq>>
    BY <1>12 DEF Defer, HeadIs
  <2>2. deferred \in Seq(Messages) /\ chan \in Seq(Messages)
    BY <1>1, LineIs
  <2>3. Append(deferred, Head(chan)) \o Tail(chan) = deferred \o chan
    BY ONLY <2>1, <2>2, JoinMoved
  <2>4. Line' = Line
    BY <2>1, <2>3 DEF Line
  <2> QED
    BY <1>1, <2>1, <2>4, OrderStands DEF OrderKept
<1>13. CASE Backlog
  <2>1. /\ deferred # <<>> /\ deferred' = Tail(deferred) /\ chan' = chan /\ seq' = seq
        /\ Process(Head(deferred))
    BY <1>13 DEF Backlog
  <2>2. Head(deferred) \in Requests
    BY <1>1, <2>1, HeadTailProperties DEF TypeOK
  <2>3. Removed(Line, 1, Line') /\ Line[1] = Head(deferred)
    BY <1>1, <2>1, LineServed
  <2> QED
    BY <2>1, <2>2, <2>3, OrderServed
<1>14. CASE DrainRequest
  <2>1. /\ chan # <<>> /\ chan' = Tail(chan) /\ deferred' = deferred /\ seq' = seq
        /\ Process(Head(chan)) /\ Head(chan) \in Requests
    BY <1>1, <1>14, HeadOfChan, MessagesAre DEF DrainRequest
  <2>2. deferred = <<>>
    BY <1>1, <1>14 DEF DrainRequest, HeadIs, Phases
  <2>3. Removed(Line, Len(deferred) + 1, Line') /\ Line[Len(deferred) + 1] = Head(chan)
    BY <1>1, <2>1, LineTaken
  <2>4. Len(deferred) + 1 = 1
    BY <2>2
  <2> QED
    BY <2>1, <2>3, <2>4, OrderServed
<1> QED
  BY <1>3, <1>4, <1>6, <1>7, <1>9, <1>10, <1>11, <1>12, <1>13, <1>14, OrderRead
     DEF Next, CoreNext, ReaderNext

LEMMA OrderInit == Init => OrderInv
<1> SUFFICES ASSUME Init
             PROVE  NothingLostOrReordered
  BY TypeInit, PhasesInit DEF OrderInv
<1>1. Line = <<>>
  <2>1. <<>> \in Seq(Messages)
    BY EmptySeq
  <2> QED
    BY <2>1, ConcatEmptySeq DEF Init, Line
<1>2. ASSUME NEW c
      PROVE  Stops(c, Line) = {0}
  BY <1>1 DEF Stops
<1>3. ASSUME NEW c \in clients
      PROVE  Runs(c, Line, lastSeq[c], seq[c])
  <2>1. lastSeq[c] = 0 /\ seq[c] = 0
    BY DEF Init
  <2>2. ASSUME NEW i \in Stops(c, Line), NEW k \in Stops(c, Line)
        PROVE  ~Consecutive(Stops(c, Line), i, k)
    <3>1. i = 0 /\ k = 0
      BY ONLY <1>2, <2>2
    <3> QED
      BY ONLY <3>1 DEF Consecutive
  <2>3. ASSUME NEW i \in Stops(c, Line)
        PROVE  Num(Line, lastSeq[c], i) = seq[c]
    <3>1. i = 0
      BY ONLY <1>2, <2>3
    <3> QED
      BY ONLY <2>1, <3>1 DEF Num
  <2> QED
    BY ONLY <2>2, <2>3 DEF Runs
<1> QED
  BY <1>3, OrderIsRuns

\* A connected client's requests are neither lost, repeated nor reordered between
\* its reader and their handler, across deferral, disconnections and the wrap of the
\* numbers: for any number of clients, any budget and any width of the numbers.
THEOREM RequestsInOrder == Spec => []NothingLostOrReordered
BY OrderInit, OrderNext, PTL DEF Spec, OrderInv

-----------------------------------------------------------------------------
(* Reader and core agree on the framing.                                    *)

LEMMA EnablesAppended ==
  ASSUME NEW c, NEW q, NEW m, NEW r, Appended(q, m, r)
  PROVE  /\ ~(From(c, m) /\ m.kind = "enable") => Enables(c, r) = Enables(c, q)
         /\ Enables(c, q) = {} => OneEnable(c, r)
<1> DEFINE n == Len(q)
<1>1. /\ n \in Nat /\ DOMAIN q = 1..n /\ DOMAIN r = 1..(n + 1)
      /\ \A i \in 1..n : r[i] = q[i]
      /\ r[n + 1] = m
  BY DEF Appended
<1> HIDE DEF n
<1>2. 1..(n + 1) = (1..n) \cup {n + 1}
  BY ONLY <1>1
<1>3. Enables(c, r) = Enables(c, q) \cup {i \in {n + 1} : From(c, m) /\ m.kind = "enable"}
  BY ONLY <1>1, <1>2 DEF Enables
<1> QED
  BY ONLY <1>3 DEF OneEnable

LEMMA EnablesRemoved ==
  ASSUME NEW c, NEW q, NEW k, NEW r, Removed(q, k, r), OneEnable(c, q)
  PROVE  /\ OneEnable(c, r)
         /\ Enables(c, q) = {} => Enables(c, r) = {}
         /\ k \in Enables(c, q) => Enables(c, r) = {}
<1> DEFINE n == Len(q)
<1>1. /\ n \in Nat /\ k \in 1..n /\ DOMAIN q = 1..n /\ DOMAIN r = 1..(n - 1)
      /\ \A i \in 1..(k - 1) : r[i] = q[i]
      /\ \A i \in k..(n - 1) : r[i] = q[i + 1]
  BY DEF Removed
<1> HIDE DEF n
<1>2. ASSUME NEW i \in Enables(c, r)
      PROVE  \/ i \in 1..(k - 1) /\ i \in Enables(c, q)
             \/ i \in k..(n - 1) /\ i + 1 \in Enables(c, q)
  <2>1. i \in 1..(n - 1) /\ From(c, r[i]) /\ r[i].kind = "enable"
    BY ONLY <1>1, <1>2 DEF Enables
  <2>2. CASE i \in 1..(k - 1)
    <3>1. i \in 1..n /\ r[i] = q[i]
      BY ONLY <1>1, <2>2
    <3> QED
      BY ONLY <1>1, <2>1, <2>2, <3>1 DEF Enables
  <2>3. CASE i \in k..(n - 1)
    <3>1. i + 1 \in 1..n /\ r[i] = q[i + 1]
      BY ONLY <1>1, <2>3
    <3> QED
      BY ONLY <1>1, <2>1, <2>3, <3>1 DEF Enables
  <2> QED
    BY ONLY <1>1, <2>1, <2>2, <2>3
<1>3. ASSUME NEW i \in Enables(c, r), NEW j \in Enables(c, r)
      PROVE  i = j
  BY <1>1, <1>2 DEF OneEnable
<1>4. ASSUME NEW i \in Enables(c, r), k \in Enables(c, q)
      PROVE  FALSE
  BY <1>1, <1>2, <1>4 DEF OneEnable
<1>5. ASSUME NEW i \in Enables(c, r), Enables(c, q) = {}
      PROVE  FALSE
  BY ONLY <1>2, <1>5
<1> QED
  BY ONLY <1>3, <1>4, <1>5 DEF OneEnable

\* The reader takes the next word from its control channel.
LEMMA WordTaken ==
  ASSUME NEW c, ctl[c] \in Seq(Controls), ctl[c] # <<>>, ctl'[c] = Tail(ctl[c])
  PROVE  /\ \A a : Says(c, a)' => Says(c, a)
         /\ Says(c, Head(ctl[c]))
         /\ OneApply(c) => OneApply(c)'
         /\ OneApply(c) /\ Head(ctl[c]) = "apply" => ~Says(c, "apply")'
<1>1. PICK s : s = ctl[c]
  OBVIOUS
<1>2. PICK t : t = ctl'[c]
  OBVIOUS
<1>3. s \in Seq(Controls) /\ s # <<>> /\ t = Tail(s)
  BY <1>1, <1>2
<1>4. /\ Len(s) \in Nat \ {0} /\ DOMAIN s = 1..Len(s) /\ DOMAIN t = 1..(Len(s) - 1)
      /\ \A i \in 1..(Len(s) - 1) : t[i] = s[i + 1]
      /\ Head(s) = s[1]
  BY ONLY <1>3, HeadTailProperties, LenProperties
<1>5. \A i \in DOMAIN t : i + 1 \in DOMAIN s /\ t[i] = s[i + 1] /\ i \in Nat /\ i + 1 # 1
  BY ONLY <1>4
<1>6. 1 \in DOMAIN s /\ Head(s) = s[1]
  BY ONLY <1>4
<1>7. ASSUME NEW a, NEW i \in DOMAIN t, t[i] = a
      PROVE  \E k \in DOMAIN s : s[k] = a
  BY ONLY <1>5, <1>7
<1>8. ASSUME \A i, k \in DOMAIN s : s[i] = "apply" /\ s[k] = "apply" => i = k
      PROVE  /\ \A i, k \in DOMAIN t : t[i] = "apply" /\ t[k] = "apply" => i = k
             /\ Head(s) = "apply" => ~\E i \in DOMAIN t : t[i] = "apply"
  <2>1. ASSUME NEW i \in DOMAIN t, NEW k \in DOMAIN t, t[i] = "apply", t[k] = "apply"
        PROVE  i = k
    <3>1. i + 1 = k + 1
      BY ONLY <1>5, <1>8, <2>1
    <3> QED
      BY ONLY <1>5, <2>1, <3>1
  <2>2. ASSUME NEW i \in DOMAIN t, Head(s) = "apply", t[i] = "apply"
        PROVE  FALSE
    BY ONLY <1>5, <1>6, <1>8, <2>2
  <2> QED
    BY ONLY <2>1, <2>2
<1> QED
  BY ONLY <1>1, <1>2, <1>6, <1>7, <1>8 DEF Says, OneApply

\* The core answers with a word, and it is the first "apply" if it is one.
LEMMA WordAdded ==
  ASSUME NEW c, ctl[c] \in Seq(Controls), NEW w \in Controls, ctl'[c] = ctl[c] \o <<w>>
  PROVE  /\ \A a : Says(c, a)' => (Says(c, a) \/ a = w)
         /\ (OneApply(c) /\ (w = "apply" => ~Says(c, "apply"))) => OneApply(c)'
<1>1. PICK s : s = ctl[c]
  OBVIOUS
<1>2. PICK t : t = ctl'[c]
  OBVIOUS
<1>3. s \in Seq(Controls) /\ t = Append(s, w)
  BY <1>1, <1>2
<1>4. /\ Len(s) \in Nat /\ DOMAIN s = 1..Len(s) /\ DOMAIN t = 1..(Len(s) + 1)
      /\ \A i \in 1..Len(s) : t[i] = s[i]
      /\ t[Len(s) + 1] = w
  BY ONLY <1>3, AppendProperties, LenProperties
<1>5. \A i \in DOMAIN t : \/ /\ i \in DOMAIN s
                            /\ t[i] = s[i]
                         \/ /\ i = Len(s) + 1
                            /\ t[i] = w
  BY ONLY <1>4
<1>6. ASSUME NEW a, NEW i \in DOMAIN t, t[i] = a
      PROVE  (\E k \in DOMAIN s : s[k] = a) \/ a = w
  BY ONLY <1>5, <1>6
<1>7. ASSUME \A i, k \in DOMAIN s : s[i] = "apply" /\ s[k] = "apply" => i = k,
             w = "apply" => ~\E i \in DOMAIN s : s[i] = "apply",
             NEW i \in DOMAIN t, NEW k \in DOMAIN t, t[i] = "apply", t[k] = "apply"
      PROVE  i = k
  BY ONLY <1>5, <1>7
<1>8. \A a : Says(c, a)' => (Says(c, a) \/ a = w)
  BY ONLY <1>1, <1>2, <1>6 DEF Says
<1>9. (OneApply(c) /\ (w = "apply" => ~Says(c, "apply"))) => OneApply(c)'
  BY ONLY <1>1, <1>2, <1>7 DEF Says, OneApply
<1> QED
  BY ONLY <1>8, <1>9

\* A client whose reader, control channel and modes stand still stays behind its
\* barrier when others' messages join the line and any leave it.
LEMMA BehindStands ==
  ASSUME NEW c, Behind(c),
         reader'[c] = reader[c], ctl'[c] = ctl[c], coreBig'[c] = coreBig[c],
         big'[c] = big[c],
         \/ Line' = Line
         \/ \E m : ~From(c, m) /\ Appended(Line, m, Line')
         \/ \E k : Removed(Line, k, Line')
  PROVE  Behind(c)'
<1>1. /\ OneEnable(c, Line')
      /\ Enables(c, Line) = {} => Enables(c, Line') = {}
  <2>1. CASE Line' = Line
    BY ONLY <2>1, Behind(c) DEF Behind
  <2>2. ASSUME NEW m, ~From(c, m), Appended(Line, m, Line')
        PROVE  Enables(c, Line') = Enables(c, Line)
    BY ONLY <2>2, EnablesAppended
  <2>3. ASSUME NEW k, Removed(Line, k, Line')
        PROVE  /\ OneEnable(c, Line')
               /\ Enables(c, Line) = {} => Enables(c, Line') = {}
    <3>1. OneEnable(c, Line)
      BY DEF Behind
    <3> QED
      BY ONLY <2>3, <3>1, EnablesRemoved
  <2>4. OneEnable(c, Line)
    BY DEF Behind
  <2>5. ASSUME NEW m, ~From(c, m), Appended(Line, m, Line')
        PROVE  OneEnable(c, Line')
    BY ONLY <2>2, <2>4, <2>5 DEF OneEnable
  <2> QED
    BY <2>1, <2>2, <2>3, <2>5
<1>2. OneEnable(c, Line') <=> OneEnable(c, Line)'
  BY DEF OneEnable, Enables, From
<1>3. Enables(c, Line') = Enables(c, Line)'
  BY DEF Enables, From
<1>4. /\ \A a : Says(c, a)' <=> Says(c, a)
      /\ OneApply(c)' <=> OneApply(c)
  BY DEF Says, OneApply
<1> QED
  BY <1>1, <1>2, <1>3, <1>4 DEF Behind

\* A reader's own steps.
LEMMA BarrierReaders ==
  ASSUME FramingInv, NEW b \in Client,
         \/ ReaderTop(b) \/ ReaderEof(b) \/ ReaderWake(b) \/ ReaderUnpark(b)
         \/ \E k \in Kinds : ReaderFrame(b, k)
  PROVE  Barrier'
<1> USE DEF coreVars, stateVars, readerVars
<1>1. /\ TypeOK /\ clients \subseteq Client
      /\ reader \in [Client -> Places] /\ ctl \in [Client -> Seq(Controls)]
      /\ big \in [Client -> BOOLEAN] /\ coreBig \in [Client -> BOOLEAN]
      /\ seq \in [Client -> 0..(SeqWrap - 1)]
  BY DEF FramingInv, TypeOK, Places, Controls
<1>2. clients' = clients /\ coreBig' = coreBig /\ deferred' = deferred
  BY DEF ReaderTop, ReaderEof, ReaderWake, ReaderUnpark, ReaderFrame
<1>3. ASSUME NEW c \in clients \ misled
      PROVE  Behind(c) /\ c \in Client
  BY <1>1 DEF FramingInv, Barrier
<1>8. /\ misled \subseteq misled'
      /\ ReaderUnpark(b) /\ Head(ctl[b]) = "ignore" => b \in misled'
  BY DEF ReaderTop, ReaderEof, ReaderWake, ReaderUnpark, ReaderFrame
<1>4. \/ chan' = chan
      \/ \E m \in Messages : ((m.what = "request") => m.c = b) /\ chan' = Append(chan, m)
  <2>1. ASSUME NEW k \in Kinds, ReaderFrame(b, k)
        PROVE  /\ Request(b, seq'[b], k) \in Messages /\ Request(b, seq'[b], k).c = b
               /\ chan' = Append(chan, Request(b, seq'[b], k))
    <3>1. (seq[b] + 1) % SeqWrap \in 0..(SeqWrap - 1)
      BY <1>1, SeqWrapAssumption
    <3>2. seq'[b] \in 0..(SeqWrap - 1)
      BY <1>1, <2>1, <3>1 DEF ReaderFrame
    <3> QED
      BY <2>1, <3>2, MessagesAre DEF ReaderFrame
  <2>2. CASE ReaderEof(b)
    BY <2>2, MessagesAre DEF ReaderEof
  <2> QED
    BY <2>1, <2>2 DEF ReaderTop, ReaderWake, ReaderUnpark
<1>5. \/ Line' = Line
      \/ \E m \in Messages : ((m.what = "request") => m.c = b) /\ Appended(Line, m, Line')
  <2>1. CASE chan' = chan
    BY <1>2, <2>1 DEF Line
  <2>2. CASE chan' # chan
    BY <1>1, <1>2, <1>4, <2>2, LineGrows
  <2> QED
    BY <2>1, <2>2
<1>6. ASSUME NEW c \in clients \ misled, c # b
      PROVE  Behind(c)'
  <2>1. reader'[c] = reader[c] /\ ctl'[c] = ctl[c] /\ big'[c] = big[c]
    <3>1. CASE ReaderTop(b)
      <4>1. reader'[c] = reader[c] /\ big'[c] = big[c]
        BY <1>1, <1>3, <1>6, <3>1 DEF ReaderTop, Goto
      <4>2. ctl'[c] = ctl[c]
        <5>1. CASE ctl[b] = <<>>
          BY <3>1, <5>1 DEF ReaderTop
        <5>2. CASE ctl[b] # <<>>
          BY <1>1, <1>3, <1>6, <3>1, <5>2 DEF ReaderTop
        <5> QED
          BY <5>1, <5>2
      <4> QED
        BY <4>1, <4>2
    <3>2. CASE ReaderUnpark(b)
      BY <1>1, <1>3, <1>6, <3>2 DEF ReaderUnpark, Goto
    <3>3. CASE ReaderEof(b) \/ ReaderWake(b) \/ \E k \in Kinds : ReaderFrame(b, k)
      BY <1>1, <1>3, <1>6, <3>3 DEF ReaderEof, ReaderWake, ReaderFrame, Goto
    <3> QED
      BY <3>1, <3>2, <3>3
  <2>2. \A m : (m.what = "request" => m.c = b) => ~From(c, m)
    BY <1>6 DEF From
  <2> QED
    BY <1>2, <1>3, <1>5, <1>6, <2>1, <2>2, BehindStands
<1>7. ASSUME b \in clients, b \notin misled'
      PROVE  Behind(b)'
  <2>9. b \notin misled
    BY <1>7, <1>8
  <2>10. /\ ctl'[b] = ctl[b] => /\ \A a : Says(b, a)' <=> Says(b, a)
                                /\ OneApply(b)' <=> OneApply(b)
    BY DEF Says, OneApply
  <2>1. /\ Behind(b) /\ coreBig'[b] = coreBig[b] /\ reader[b] \in Places
        /\ OneEnable(b, Line)
    BY <1>1, <1>2, <1>3, <1>7, <2>9 DEF Behind
  <2>2. ASSUME Line' = Line \/ Enables(b, Line') = Enables(b, Line)
        PROVE  (OneEnable(b, Line) <=> OneEnable(b, Line)')
               /\ Enables(b, Line)' = Enables(b, Line)
    <3>1. Enables(b, Line') = Enables(b, Line)'
      BY DEF Enables, From
    <3>2. Enables(b, Line)' = Enables(b, Line)
      BY <2>2, <3>1
    <3> QED
      BY <3>2 DEF OneEnable
  <2>3. CASE ReaderTop(b)
    <3>1. /\ reader[b] = "top" /\ Enables(b, Line) = {}
          /\ ~Says(b, "apply") /\ ~Says(b, "shutdown") /\ OneApply(b)
      BY <2>1, <2>3 DEF ReaderTop, Behind
    <3>2. /\ big' = big /\ Line' = Line
          /\ ctl'[b] = ctl[b] \/ (ctl[b] # <<>> /\ ctl'[b] = Tail(ctl[b]))
      BY <1>1, <2>3 DEF ReaderTop, Goto, Line
    <3>3. reader'[b] \in {"reading", "exited"}
      BY <1>1, <2>3 DEF ReaderTop, Goto
    <3>4. ~Says(b, "apply")' /\ ~Says(b, "shutdown")' /\ OneApply(b)'
      BY <1>1, <2>10, <3>1, <3>2, WordTaken
    <3> QED
      BY <2>1, <2>2, <3>1, <3>2, <3>3, <3>4 DEF Behind
  <2>4. CASE ReaderWake(b)
    <3>1. ctl' = ctl /\ big' = big /\ Line' = Line
      BY <2>4 DEF ReaderWake, Line
    <3>2. \/ reader[b] = "sent" /\ reader'[b] = "top"
          \/ reader[b] = "sentEnable" /\ reader'[b] = "parked"
          \/ reader[b] = "sentGone" /\ reader'[b] = "exited"
      BY <1>1, <2>4 DEF ReaderWake, Goto
    <3>3. ctl'[b] = ctl[b]
      BY <3>1
    <3> QED
      BY <2>1, <2>2, <2>10, <3>1, <3>2, <3>3 DEF Behind
  <2>5. CASE ReaderUnpark(b)
    <3>1. /\ reader[b] = "parked" /\ ctl[b] # <<>> /\ Head(ctl[b]) # "ignore"
          /\ Line' = Line /\ OneApply(b) /\ ~Says(b, "shutdown")
          /\ Enables(b, Line) = {} \/ ~Says(b, "apply")
      BY <1>7, <1>8, <2>1, <2>5 DEF ReaderUnpark, Behind, Line
    <3>2. ctl'[b] = Tail(ctl[b]) /\ big'[b] = (big[b] \/ Head(ctl[b]) = "apply")
      BY <1>1, <2>5 DEF ReaderUnpark
    <3>3. Head(ctl[b]) = "apply" /\ Enables(b, Line) = {}
      <4>1. Head(ctl[b]) \in Controls
        BY <1>1, <3>1, HeadTailProperties
      <4>2. Says(b, Head(ctl[b]))
        BY <1>1, <3>1, <3>2, WordTaken
      <4> QED
        BY <3>1, <4>1, <4>2 DEF Controls
    <3>4. ~Says(b, "apply")' /\ ~Says(b, "shutdown")' /\ OneApply(b)'
      BY <1>1, <3>1, <3>2, <3>3, WordTaken
    <3>5. big'[b] = TRUE
      BY <1>1, <3>2, <3>3
    <3> QED
      BY <2>1, <2>2, <3>1, <3>3, <3>4, <3>5 DEF Behind
  <2>6. CASE ReaderEof(b)
    <3>1. /\ reader[b] = "reading" /\ ~Says(b, "apply") /\ Enables(b, Line) = {}
          /\ ~Says(b, "shutdown") /\ OneApply(b)
      BY <2>1, <2>6 DEF ReaderEof, Behind
    <3>2. ctl'[b] = ctl[b] /\ reader'[b] = "sentGone"
      BY <1>1, <2>6 DEF ReaderEof, Goto
    <3>3. Appended(Line, Gone(b), Line')
      BY <1>1, <1>2, <2>6, LineGrows, MessagesAre DEF ReaderEof
    <3>4. ~From(b, Gone(b))
      BY MessagesAre DEF From
    <3>5. Enables(b, Line') = Enables(b, Line)
      BY ONLY <3>3, <3>4, EnablesAppended
    <3> QED
      BY <2>1, <2>2, <2>10, <3>1, <3>2, <3>5 DEF Behind
  <2>7. ASSUME NEW k \in Kinds, ReaderFrame(b, k)
        PROVE  Behind(b)'
    <3> DEFINE m == Request(b, seq'[b], k)
    <3>1. /\ reader[b] = "reading" /\ ~Says(b, "apply") /\ Enables(b, Line) = {}
          /\ ~Says(b, "shutdown") /\ OneApply(b)
          /\ coreBig[b] => big[b]
      BY <2>1, <2>7 DEF ReaderFrame, Behind
    <3>2. /\ ctl'[b] = ctl[b] /\ big' = big
          /\ reader'[b] = IF k \in {"enable", "enableTooBig"} THEN "sentEnable" ELSE "sent"
      BY <1>1, <2>7 DEF ReaderFrame, Goto
    <3>3. m \in Messages /\ m.kind = k
      <4>1. (seq[b] + 1) % SeqWrap \in 0..(SeqWrap - 1)
        BY <1>1, SeqWrapAssumption
      <4>2. seq'[b] \in 0..(SeqWrap - 1)
        BY <1>1, <2>7, <4>1 DEF ReaderFrame
      <4> QED
        BY <4>2, MessagesAre
    <3>4. Appended(Line, m, Line')
      BY <1>1, <1>2, <2>7, <3>3, LineGrows DEF ReaderFrame
    <3> HIDE DEF m
    <3>5. CASE k # "enable"
      <4>1. Enables(b, Line') = Enables(b, Line)
        BY ONLY <3>3, <3>4, <3>5, EnablesAppended
      <4>2. \/ reader'[b] = "sentEnable"
            \/ reader'[b] = "sent"
        BY <3>2
      <4> QED
        BY <2>1, <2>2, <2>10, <3>1, <3>2, <4>1, <4>2 DEF Behind
    <3>6. CASE k = "enable"
      <4>1. OneEnable(b, Line')
        BY ONLY <3>1, <3>4, EnablesAppended
      <4>2. OneEnable(b, Line)'
        BY <4>1 DEF OneEnable, Enables, From
      <4>3. reader'[b] = "sentEnable" /\ ctl'[b] = ctl[b]
        BY <3>2, <3>6
      <4> QED
        BY <2>10, <3>1, <4>2, <4>3 DEF Behind
    <3> QED
      BY <3>5, <3>6
  <2> QED
    BY <2>3, <2>4, <2>5, <2>6, <2>7
<1> QED
  BY <1>2, <1>6, <1>7, <1>8 DEF Barrier

\* The head of the line is handled; the client stays, or is dropped with its reader.
LEMMA BarrierServed ==
  ASSUME FramingInv,
         NEW m \in Requests, Process(m), UNCHANGED <<reader, big, misled>>,
         Removed(Line, 1, Line'), Line[1] = m
  PROVE  Barrier'
<1>1. /\ clients \subseteq Client /\ ctl \in [Client -> Seq(Controls)]
      /\ coreBig \in [Client -> BOOLEAN] /\ big \in [Client -> BOOLEAN]
  BY DEF FramingInv, TypeOK, Controls
<1>2. m.what = "request" /\ m.c \in Client /\ m.kind \in Kinds
  BY MessagesAre
<1>3. ASSUME NEW c \in clients \ misled
      PROVE  Behind(c) /\ c \in Client
  BY <1>1 DEF FramingInv, Barrier
<1>4. clients' \subseteq clients
  <2>1. CASE m.c \notin clients
    BY <2>1 DEF Process, stateVars
  <2>2. CASE m.c \in clients
    BY <2>2 DEF Process
  <2> QED
    BY <2>1, <2>2
<1>5. ASSUME NEW c \in clients' \ misled, c # m.c
      PROVE  Behind(c)'
  <2>1. c \in clients /\ c \in Client /\ Behind(c)
    BY <1>3, <1>4, <1>5
  <2>2. ctl'[c] = ctl[c] /\ coreBig'[c] = coreBig[c]
    <3>1. CASE m.c \notin clients
      BY <3>1 DEF Process, stateVars
    <3>2. CASE m.c \in clients
      BY <1>1, <1>2, <1>5, <2>1, <3>2 DEF Process, Dispatched
    <3> QED
      BY <3>1, <3>2
  <2> QED
    BY <2>1, <2>2, BehindStands
<1>6. ASSUME m.c \in clients' \ misled
      PROVE  Behind(m.c)'
  <2> DEFINE c == m.c
  <2>1. c \in clients /\ c \in Client /\ Behind(c) /\ OneEnable(c, Line)
    BY <1>3, <1>4, <1>6 DEF Behind
  <2>2. /\ coreBig'[c] = (coreBig[c] \/ m.kind = "enable")
        /\ ctl'[c] = ctl[c] \o Answer(m.kind)
    BY <1>1, <1>2, <1>6, <2>1 DEF Process, Dispatched
  <2>3. CASE m.kind = "enable"
    <3>1. 1 \in Enables(c, Line)
      <4>1. 1 \in DOMAIN Line
        BY DEF Removed
      <4> QED
        BY <1>2, <2>3, <4>1 DEF Enables, From
    <3>2. /\ reader[c] \in {"sentEnable", "parked"} /\ ~Says(c, "apply")
          /\ OneApply(c) /\ ~Says(c, "shutdown")
      BY <2>1, <3>1 DEF Behind
    <3>3. Enables(c, Line') = {} /\ OneEnable(c, Line')
      BY ONLY <2>1, <3>1, Removed(Line, 1, Line'), EnablesRemoved
    <3>4. Enables(c, Line)' = {} /\ OneEnable(c, Line)'
      BY <3>3 DEF Enables, OneEnable, From
    <3>5. OneApply(c)' /\ ~Says(c, "shutdown")'
      <4>1. ctl'[c] = ctl[c] \o <<"apply">> /\ "apply" \in Controls
        BY <2>2, <2>3 DEF Answer, Controls
      <4>2. ctl[c] \in Seq(Controls)
        BY <1>1, <2>1
      <4> QED
        BY <3>2, <4>1, <4>2, WordAdded
    <3>6. reader'[c] = reader[c]
      OBVIOUS
    <3> HIDE DEF c
    <3> QED
      BY <3>2, <3>4, <3>5, <3>6 DEF Behind, c
  <2>4. CASE m.kind = "badMinor"
    <3>1. coreBig'[c] = coreBig[c]
      BY <1>1, <2>1, <2>2, <2>4
    <3>2. /\ \A a : Says(c, a)' => Says(c, a) \/ a = "ignore"
          /\ OneApply(c)'
      <4>1. ctl'[c] = ctl[c] \o <<"ignore">> /\ "ignore" \in Controls
        BY <2>2, <2>4 DEF Answer, Controls
      <4>2. ctl[c] \in Seq(Controls)
        BY <1>1, <2>1
      <4> QED
        BY <2>1, <4>1, <4>2, WordAdded DEF Behind
    <3>3. Enables(c, Line) = {} => Enables(c, Line') = {}
      BY ONLY <2>1, Removed(Line, 1, Line'), EnablesRemoved
    <3>4. OneEnable(c, Line')
      BY ONLY <2>1, Removed(Line, 1, Line'), EnablesRemoved
    <3>5. /\ Enables(c, Line) = {} => Enables(c, Line)' = {}
          /\ OneEnable(c, Line)'
      BY <3>3, <3>4 DEF Enables, OneEnable, From
    <3>6. reader'[c] = reader[c] /\ big'[c] = big[c]
      OBVIOUS
    <3>7. "apply" # "ignore" /\ "shutdown" # "ignore"
      OBVIOUS
    <3> HIDE DEF c
    <3> QED
      BY <2>1, <3>1, <3>2, <3>5, <3>6, <3>7 DEF Behind, c
  <2>5. CASE m.kind \notin {"enable", "badMinor"}
    <3>1. Answer(m.kind) = <<>>
      BY <1>2, <2>5 DEF Answer
    <3>2. ctl'[c] = ctl[c]
      <4>1. ctl[c] \in Seq(Controls)
        BY <1>1, <2>1
      <4>2. ctl[c] \o <<>> = ctl[c]
        BY ONLY <4>1, ConcatEmptySeq
      <4> QED
        BY <2>2, <3>1, <4>2
    <3>3. coreBig'[c] = coreBig[c]
      BY <1>1, <2>1, <2>2, <2>5
    <3> QED
      BY <2>1, <3>2, <3>3, BehindStands
  <2> QED
    BY <2>3, <2>4, <2>5
<1> QED
  BY <1>5, <1>6 DEF Barrier

LEMMA FramingNext == FramingInv /\ [Next]_vars => FramingInv'
<1> SUFFICES ASSUME FramingInv, [Next]_vars
             PROVE  Barrier'
  BY TypeNext, PhasesNext DEF FramingInv
<1> USE DEF coreVars, stateVars, readerVars
<1>1. /\ TypeOK /\ Phases /\ Barrier
      /\ clients \subseteq Client /\ ctl \in [Client -> Seq(Controls)]
  BY DEF FramingInv, TypeOK, Controls
<1>2. ASSUME UNCHANGED <<clients, reader, ctl, coreBig, big, misled>>,
             \/ Line' = Line
             \/ \E m : m.what # "request" /\ Appended(Line, m, Line')
             \/ \E k : Removed(Line, k, Line')
      PROVE  Barrier'
  BY <1>1, <1>2, BehindStands DEF Barrier, From
<1>3. ASSUME NEW b \in Client, Disconnect(b), UNCHANGED <<reader, coreBig, big, misled>>,
             \/ Line' = Line
             \/ \E k : Removed(Line, k, Line')
      PROVE  Barrier'
  <2>1. ASSUME NEW c \in clients' \ misled
        PROVE  c \in clients /\ ctl'[c] = ctl[c]
    <3>1. CASE b \notin clients
      BY <1>3, <2>1, <3>1 DEF Disconnect
    <3>2. CASE b \in clients
      BY <1>1, <1>3, <2>1, <3>2 DEF Disconnect
    <3> QED
      BY <3>1, <3>2
  <2>2. ASSUME NEW c \in clients' \ misled
        PROVE  Behind(c)'
    BY <1>1, <1>3, <2>1, <2>2, BehindStands DEF Barrier
  <2> QED
    BY <1>3, <2>2 DEF Barrier
<1>4. ASSUME NEW b \in Client, DropUnwritable(b)
      PROVE  Barrier'
  <2>1. Line' = Line
    BY <1>4 DEF DropUnwritable, Line
  <2> QED
    BY <1>3, <1>4, <2>1 DEF DropUnwritable
<1>5. CASE DrainDisconnected
  <2>1. Head(chan).c \in Client /\ Disconnect(Head(chan).c)
    BY <1>1, <1>5, HeadOfChan, MessagesAre DEF DrainDisconnected
  <2>2. Removed(Line, Len(deferred) + 1, Line')
    BY <1>1, <1>5, LineTaken DEF DrainDisconnected, HeadIs
  <2> QED
    BY <1>3, <1>5, <2>1, <2>2 DEF DrainDisconnected
<1>6. CASE DrainInput
  <2>1. Removed(Line, Len(deferred) + 1, Line')
    BY <1>1, <1>6, LineTaken DEF DrainInput, HeadIs
  <2> QED
    BY <1>2, <1>6, <2>1 DEF DrainInput
<1>7. CASE InputSend
  <2>1. Appended(Line, HostInput, Line') /\ HostInput.what # "request"
    BY <1>1, <1>7, LineGrows, MessagesAre DEF InputSend
  <2> QED
    BY <1>2, <1>7, <2>1 DEF InputSend
<1>8. CASE Defer
  <2>1. /\ chan # <<>> /\ chan' = Tail(chan) /\ deferred' = Append(deferred, Head(chan))
        /\ UNCHANGED <<clients, reader, ctl, coreBig, big, misled>>
    BY <1>8 DEF Defer, HeadIs
  <2>2. deferred \in Seq(Messages) /\ chan \in Seq(Messages)
    BY <1>1, LineIs
  <2>3. Append(deferred, Head(chan)) \o Tail(chan) = deferred \o chan
    BY ONLY <2>1, <2>2, JoinMoved
  <2>4. Line' = Line
    BY <2>1, <2>3 DEF Line
  <2> QED
    BY <1>2, <2>1, <2>4
<1>9. CASE \/ InputWake \/ Poll \/ BacklogDone \/ DrainDone \/ Rest \/ UNCHANGED vars
           \/ \E b \in Client : PeerClose(b)
  <2>1. UNCHANGED <<clients, reader, ctl, coreBig, big, misled>> /\ Line' = Line
    BY <1>9 DEF InputWake, Poll, BacklogDone, DrainDone, Rest, PeerClose, vars, Line
  <2> QED
    BY <1>2, <2>1
<1>10. CASE Backlog
  <2>1. /\ deferred # <<>> /\ deferred' = Tail(deferred) /\ chan' = chan
        /\ UNCHANGED <<reader, big, misled>> /\ Process(Head(deferred))
    BY <1>10 DEF Backlog
  <2>2. Head(deferred) \in Requests
    BY <1>1, <2>1, HeadTailProperties DEF TypeOK
  <2>3. Removed(Line, 1, Line') /\ Line[1] = Head(deferred)
    BY <1>1, <2>1, LineServed
  <2> QED
    BY <2>1, <2>2, <2>3, BarrierServed
<1>11. CASE DrainRequest
  <2>1. /\ chan # <<>> /\ chan' = Tail(chan) /\ deferred' = deferred
        /\ UNCHANGED <<reader, big, misled>>
        /\ Process(Head(chan)) /\ Head(chan) \in Requests
    BY <1>1, <1>11, HeadOfChan, MessagesAre DEF DrainRequest
  <2>2. deferred = <<>>
    BY <1>1, <1>11 DEF DrainRequest, HeadIs, Phases
  <2>3. Removed(Line, Len(deferred) + 1, Line') /\ Line[Len(deferred) + 1] = Head(chan)
    BY <1>1, <2>1, LineTaken
  <2>4. Len(deferred) + 1 = 1
    BY <2>2
  <2> QED
    BY <2>1, <2>3, <2>4, BarrierServed
<1> QED
  BY <1>4, <1>5, <1>6, <1>7, <1>8, <1>9, <1>10, <1>11, BarrierReaders
     DEF Next, CoreNext, ReaderNext

LEMMA FramingInit == Init => FramingInv
<1> SUFFICES ASSUME Init
             PROVE  Barrier
  BY TypeInit, PhasesInit DEF FramingInv
<1>1. Line = <<>>
  <2>1. <<>> \in Seq(Messages)
    BY EmptySeq
  <2> QED
    BY <2>1, ConcatEmptySeq DEF Init, Line
<1>2. ASSUME NEW c
      PROVE  Enables(c, Line) = {}
  BY <1>1 DEF Enables
<1>3. ASSUME NEW c \in Client
      PROVE  (\A a : ~Says(c, a)) /\ OneApply(c)
  BY DEF Init, Says, OneApply
<1> QED
  BY <1>2, <1>3 DEF Init, Barrier, Behind, OneEnable

\* Behind the barrier the reader frames as the core decided: once the core has
\* enabled BIG-REQUESTS for a client, its reader reads no further frame in the old
\* mode, unless an Ignore meant for another request released it too soon.
THEOREM FramingFollowsCore == Spec => []FramingAgrees
<1>1. FramingInv => FramingAgrees
  BY DEF FramingInv, Barrier, Behind, FramingAgrees
<1> QED
  BY <1>1, FramingInit, FramingNext, PTL DEF Spec

=============================================================================
