----------------------- MODULE ClientLifecycle_proofs -----------------------
(***************************************************************************)
(* Theorems about ClientLifecycle, for any set of connections and any      *)
(* number of bases: its safety invariants, from one inductive invariant,   *)
(* and that its allocator of bases is BaseLease.                           *)
(***************************************************************************)
EXTENDS ClientLifecycle, TLAPS

USE NumBasesAssumption, MaxPendingAssumption

-----------------------------------------------------------------------------
(* Facts about the two sequences. *)

\* Receiving from the channel keeps the remaining messages in their order.
LEMMA TailFacts ==
    ASSUME NEW S, NEW s \in Seq(S), s # <<>>
    PROVE  /\ Tail(s) \in Seq(S)
           /\ DOMAIN Tail(s) = 1..(Len(s) - 1)
           /\ DOMAIN s = 1..Len(s)
           /\ Len(s) \in Nat \ {0}
           /\ \A i \in DOMAIN Tail(s) : i + 1 \in DOMAIN s /\ Tail(s)[i] = s[i + 1]
           /\ Head(s) = s[1]
           /\ Head(s) \in S
  OBVIOUS

\* What is in a typed sequence is of that type.
LEMMA ElementFacts ==
    ASSUME NEW S, NEW s \in Seq(S)
    PROVE  \A i \in DOMAIN s : s[i] \in S
  OBVIOUS

\* Sending appends behind what is queued.
LEMMA AppendFacts ==
    ASSUME NEW S, NEW s \in Seq(S), NEW e \in S
    PROVE  /\ Append(s, e) \in Seq(S)
           /\ DOMAIN s = 1..Len(s)
           /\ Len(s) \in Nat
           /\ DOMAIN Append(s, e) = 1..(Len(s) + 1)
           /\ \A i \in DOMAIN s : Append(s, e)[i] = s[i]
           /\ Append(s, e)[Len(s) + 1] = e
  OBVIOUS

\* Popping the free list takes its last element and keeps the others.
LEMMA FrontFacts ==
    ASSUME NEW S, NEW s \in Seq(S), s # <<>>
    PROVE  /\ Front(s) \in Seq(S)
           /\ DOMAIN s = 1..Len(s)
           /\ Len(s) \in Nat \ {0}
           /\ DOMAIN Front(s) = 1..(Len(s) - 1)
           /\ \A i \in DOMAIN Front(s) : i \in DOMAIN s /\ Front(s)[i] = s[i]
           /\ Last(s) = s[Len(s)]
           /\ Last(s) \in S
  BY DEF Front, Last

-----------------------------------------------------------------------------
(* Type correctness. *)

\* A disconnect leaves the client table, the free list and the socket typed.
LEMMA DisconnectType ==
    ASSUME TypeOK, NEW c \in Conn, Disconnect(c), c \in clients => base[c] # NoBase
    PROVE  /\ clients' \in SUBSET Conn
           /\ closeMode' \in [Conn -> CloseModes]
           /\ zombies' \in [Conn -> CloseModes]
           /\ owns' \in [Conn -> SUBSET Resources]
           /\ freeBases' \in Seq(1..NumBases)
           /\ sock' \in [Conn -> {"open", "peerClosed", "shut"}]
  <1>1. CASE c \notin clients
    BY <1>1 DEF Disconnect, TypeOK
  <1>2. CASE c \in clients
    <2>1. base[c] \in 1..NumBases
      BY <1>2 DEF TypeOK, NoBase
    <2>2. Append(freeBases, base[c]) \in Seq(1..NumBases)
      BY <2>1, AppendFacts DEF TypeOK
    <2>3. owns[c] \ {"window"} \in SUBSET Resources
      BY DEF TypeOK
    <2>4. closeMode[c] \in CloseModes
      BY DEF TypeOK
    <2>5. CASE closeMode[c] \in {1, 2}
      BY <1>2, <2>3, <2>4, <2>5 DEF Disconnect, TypeOK, CloseModes
    <2>6. CASE closeMode[c] \notin {1, 2}
      BY <1>2, <2>2, <2>6 DEF Disconnect, Release, TypeOK, CloseModes
    <2> QED
      BY <2>5, <2>6
  <1> QED
    BY <1>1, <1>2

-----------------------------------------------------------------------------
(* How a step can disturb the exclusiveness of the bases. *)

\* Nothing new is held and the allocator is left alone.
LEMMA ExclusiveFrame ==
    ASSUME TypeOK, BasesExclusive,
           UNCHANGED <<nextBase, freeBases>>,
           \A d \in Conn : Holds(d)' => Holds(d) /\ base'[d] = base[d]
    PROVE  BasesExclusive'
  BY DEF BasesExclusive

\* A holder lets go of its base and the base is pushed on the free list.
LEMMA ExclusiveRelease ==
    ASSUME TypeOK, BasesExclusive, NEW c \in Conn,
           Holds(c), ~Holds(c)', Release(base[c]), UNCHANGED nextBase,
           \A d \in Conn : Holds(d)' => Holds(d) /\ base'[d] = base[d]
    PROVE  BasesExclusive'
  <1>1. /\ freeBases' = Append(freeBases, base[c])
        /\ freeBases \in Seq(1..NumBases)
        /\ base[c] \in 1..NumBases
    BY DEF Release, TypeOK, Holds, NoBase
  <1>2. /\ DOMAIN freeBases = 1..Len(freeBases)
        /\ Len(freeBases) \in Nat
        /\ DOMAIN freeBases' = 1..(Len(freeBases) + 1)
        /\ \A i \in DOMAIN freeBases : freeBases'[i] = freeBases[i]
        /\ freeBases'[Len(freeBases) + 1] = base[c]
    BY <1>1, AppendFacts
  <1>3. \A i \in DOMAIN freeBases' : i \in DOMAIN freeBases \/ i = Len(freeBases) + 1
    BY <1>2
  <1>4. \A d \in Conn : Holds(d)' => d # c /\ base[d] # base[c]
    BY DEF BasesExclusive
  <1>5. \A i \in DOMAIN freeBases : freeBases[i] # base[c] /\ freeBases[i] < nextBase
    BY DEF BasesExclusive
  <1>6. base[c] < nextBase
    BY DEF BasesExclusive
  <1>7. \A e, d \in Conn : Holds(e)' /\ Holds(d)' /\ base'[e] = base'[d] => e = d
    BY DEF BasesExclusive
  <1>8. \A d \in Conn : Holds(d)' => \A i \in DOMAIN freeBases' : freeBases'[i] # base'[d]
    BY <1>2, <1>3, <1>4 DEF BasesExclusive
  <1>9. \A i, j \in DOMAIN freeBases' : freeBases'[i] = freeBases'[j] => i = j
    BY <1>2, <1>3, <1>5 DEF BasesExclusive
  <1>10. \A i \in DOMAIN freeBases' : freeBases'[i] < nextBase'
    BY <1>2, <1>3, <1>5, <1>6
  <1>11. \A d \in Conn : Holds(d)' => base'[d] < nextBase'
    BY DEF BasesExclusive
  <1> QED
    BY <1>7, <1>8, <1>9, <1>10, <1>11 DEF BasesExclusive

\* A connection that held nothing is given a base nobody held, or none.
LEMMA ExclusiveAllocate ==
    ASSUME TypeOK, BasesExclusive, NEW c \in Conn, Allocate(c), ~Holds(c),
           \A d \in Conn \ {c} : Holds(d)' => Holds(d)
    PROVE  /\ BasesExclusive'
           /\ base' \in [Conn -> 0..NumBases]
           /\ nextBase' \in 1..(NumBases + 1)
           /\ freeBases' \in Seq(1..NumBases)
  <1>0. \A d \in Conn \ {c} : base'[d] = base[d]
    BY DEF Allocate, TypeOK
  <1>1. CASE freeBases # <<>>
    <2>1. /\ freeBases' = Front(freeBases)
          /\ base' = [base EXCEPT ![c] = Last(freeBases)]
          /\ nextBase' = nextBase
      BY <1>1 DEF Allocate
    <2>2. freeBases \in Seq(1..NumBases)
      BY DEF TypeOK
    <2>3. /\ freeBases' \in Seq(1..NumBases)
          /\ DOMAIN freeBases = 1..Len(freeBases)
          /\ Len(freeBases) \in Nat \ {0}
          /\ DOMAIN freeBases' = 1..(Len(freeBases) - 1)
          /\ \A i \in DOMAIN freeBases' : i \in DOMAIN freeBases /\ freeBases'[i] = freeBases[i]
          /\ Last(freeBases) = freeBases[Len(freeBases)]
          /\ Last(freeBases) \in 1..NumBases
      BY <1>1, <2>1, <2>2, FrontFacts, SMTT(30)
    <2>4. base'[c] = freeBases[Len(freeBases)] /\ Len(freeBases) \in DOMAIN freeBases
      BY <2>1, <2>3 DEF TypeOK
    <2>5. base' \in [Conn -> 0..NumBases]
      BY <2>1, <2>3 DEF TypeOK
    <2>6. \A d \in Conn \ {c} : Holds(d)' => Holds(d) /\ base'[d] = base[d] /\ base[d] # base'[c]
      BY <1>0, <2>4 DEF BasesExclusive
    <2>7. \A i \in DOMAIN freeBases' : freeBases'[i] # base'[c]
      <3> SUFFICES ASSUME NEW i \in DOMAIN freeBases', freeBases'[i] = base'[c] PROVE FALSE
        OBVIOUS
      <3>1. i = Len(freeBases)
        BY <2>3, <2>4 DEF BasesExclusive
      <3> QED
        BY <3>1, <2>3
    <2>8. \A d, e \in Conn : Holds(d)' /\ Holds(e)' /\ base'[d] = base'[e] => d = e
      BY <2>6 DEF BasesExclusive
    <2>9. \A d \in Conn : Holds(d)' => \A i \in DOMAIN freeBases' : freeBases'[i] # base'[d]
      BY <2>3, <2>6, <2>7 DEF BasesExclusive
    <2>10. \A i, j \in DOMAIN freeBases' : freeBases'[i] = freeBases'[j] => i = j
      BY <2>3 DEF BasesExclusive
    <2>11. \A i \in DOMAIN freeBases' : freeBases'[i] < nextBase'
      BY <2>1, <2>3 DEF BasesExclusive
    <2>12. \A d \in Conn : Holds(d)' => base'[d] < nextBase'
      BY <2>1, <2>4, <2>6 DEF BasesExclusive
    <2>13. BasesExclusive'
      BY <2>8, <2>9, <2>10, <2>11, <2>12 DEF BasesExclusive
    <2> QED
      BY <2>1, <2>3, <2>5, <2>13 DEF TypeOK
  <1>2. CASE freeBases = <<>> /\ nextBase <= NumBases
    <2>1. /\ freeBases' = freeBases /\ DOMAIN freeBases = {}
          /\ base' = [base EXCEPT ![c] = nextBase]
          /\ nextBase' = nextBase + 1
          /\ nextBase \in 1..NumBases
      BY <1>2 DEF Allocate, TypeOK
    <2>2. base' \in [Conn -> 0..NumBases] /\ base'[c] = nextBase
      BY <2>1 DEF TypeOK
    <2>3. \A d \in Conn \ {c} : Holds(d)' => Holds(d) /\ base'[d] = base[d] /\ base[d] < nextBase
      BY <1>0 DEF BasesExclusive
    <2>4. \A d \in Conn \ {c} : base[d] \in 0..NumBases
      BY DEF TypeOK
    <2>5. \A d \in Conn : Holds(d)' => base'[d] < nextBase'
      BY <2>1, <2>2, <2>3, <2>4
    <2>6. \A d, e \in Conn : Holds(d)' /\ Holds(e)' /\ base'[d] = base'[e] => d = e
      BY <2>1, <2>2, <2>3, <2>4 DEF BasesExclusive
    <2>7. BasesExclusive'
      BY <2>1, <2>5, <2>6 DEF BasesExclusive
    <2> QED
      BY <2>1, <2>2, <2>7 DEF TypeOK
  <1>3. CASE freeBases = <<>> /\ ~(nextBase <= NumBases)
    <2>1. /\ freeBases' = freeBases /\ nextBase' = nextBase
          /\ base' = [base EXCEPT ![c] = NoBase]
      BY <1>3 DEF Allocate
    <2>2. base' \in [Conn -> 0..NumBases] /\ base'[c] = NoBase
      BY <2>1 DEF TypeOK, NoBase
    <2>3. ~Holds(c)'
      BY <2>2 DEF Holds
    <2>4. \A d \in Conn : Holds(d)' => Holds(d) /\ base'[d] = base[d]
      BY <1>0, <2>3
    <2> QED
      BY <2>1, <2>2, <2>4, ExclusiveFrame DEF TypeOK
  <1> QED
    BY <1>1, <1>2, <1>3

-----------------------------------------------------------------------------
(* Initial states, and what a disconnect preserves. *)

LEMMA InitIndInv == Init => IndInv
  BY DEF Init, IndInv, TypeOK, Messages, Fits, Stages, BasesExclusive, NoOrphanResources,
         Registered, ShutdownReachesSetup, Holds, InFlight, NoBase, SetupPhases,
         ReaderPhases, CloseModes, Kinds, Resources, Running

\* The channel, or what is left of it, with nothing of its setup messages new.
ChanShrinks ==
    \/ chan' = chan
    \/ chan # <<>> /\ chan' = Tail(chan)
    \/ chan' = <<>>
    \/ \E c \in Conn : chan' = Append(chan, Msg("Disconnected", c))

LEMMA ChanShrinksFacts ==
    ASSUME TypeOK, Messages, ChanShrinks
    PROVE  /\ chan' \in Seq([kind : Kinds, c : Conn])
           /\ \A c \in Conn : InFlight(c)' => InFlight(c)
           /\ \A i \in DOMAIN chan' : \/ chan'[i].kind = "Disconnected"
                                      \/ \E j \in DOMAIN chan : chan[j] = chan'[i]
           /\ \A i, j \in DOMAIN chan' :
                 chan'[i] = chan'[j] /\ chan'[i].kind # "Disconnected" => i = j
  <1>0. chan \in Seq([kind : Kinds, c : Conn])
    BY DEF TypeOK
  <1>1. CASE chan' = chan
    BY <1>0, <1>1 DEF InFlight, Messages
  <1>2. CASE chan # <<>> /\ chan' = Tail(chan)
    <2>1. /\ chan' \in Seq([kind : Kinds, c : Conn])
          /\ DOMAIN chan' = 1..(Len(chan) - 1)
          /\ DOMAIN chan = 1..Len(chan)
          /\ Len(chan) \in Nat \ {0}
          /\ \A i \in DOMAIN chan' : i + 1 \in DOMAIN chan /\ chan'[i] = chan[i + 1]
      BY <1>0, <1>2, TailFacts
    <2>2. \A i, j \in DOMAIN chan' : i + 1 = j + 1 => i = j
      BY <2>1
    <2>3. \A i, j \in DOMAIN chan' :
             chan'[i] = chan'[j] /\ chan'[i].kind # "Disconnected" => i = j
      BY <2>1, <2>2 DEF Messages
    <2>4. \A i \in DOMAIN chan' : \E j \in DOMAIN chan : chan[j] = chan'[i]
      BY <2>1
    <2>5. \A c \in Conn : InFlight(c)' => InFlight(c)
      BY <2>4 DEF InFlight
    <2> QED
      BY <2>1, <2>3, <2>4, <2>5
  <1>3. CASE chan' = <<>>
    BY <1>3 DEF InFlight
  <1>4. CASE \E c \in Conn : chan' = Append(chan, Msg("Disconnected", c))
    <2>1. PICK c \in Conn : chan' = Append(chan, Msg("Disconnected", c))
      BY <1>4
    <2>2. Msg("Disconnected", c) \in [kind : Kinds, c : Conn]
      BY DEF Msg, Kinds
    <2>3. /\ chan' \in Seq([kind : Kinds, c : Conn])
          /\ DOMAIN chan = 1..Len(chan)
          /\ Len(chan) \in Nat
          /\ DOMAIN chan' = 1..(Len(chan) + 1)
          /\ \A i \in DOMAIN chan : chan'[i] = chan[i]
          /\ chan'[Len(chan) + 1] = Msg("Disconnected", c)
      BY <1>0, <2>1, <2>2, AppendFacts
    <2>4. \A i \in DOMAIN chan' : i \in DOMAIN chan \/ chan'[i].kind = "Disconnected"
      BY <2>3 DEF Msg
    <2>5. \A i, j \in DOMAIN chan' :
             chan'[i] = chan'[j] /\ chan'[i].kind # "Disconnected" => i = j
      BY <2>3, <2>4 DEF Messages
    <2>6. \A d \in Conn : InFlight(d)' => InFlight(d)
      BY <2>3, <2>4 DEF InFlight, Msg
    <2> QED
      BY <2>3, <2>4, <2>5, <2>6
  <1> QED
    BY <1>1, <1>2, <1>3, <1>4 DEF ChanShrinks

\* No new setup message, and what the old ones say still fits.
LEMMA MessagesFrame ==
    ASSUME TypeOK, Messages, ChanShrinks,
           \A m \in [kind : Kinds, c : Conn] :
               Fits(m) /\ (\E i \in DOMAIN chan' : chan'[i] = m) => Fits(m)'
    PROVE  Messages'
  <1>1. \A i \in DOMAIN chan' : chan'[i] \in [kind : Kinds, c : Conn]
    <2>1. chan' \in Seq([kind : Kinds, c : Conn])
      BY ChanShrinksFacts
    <2> QED
      BY <2>1, ElementFacts
  <1>2. \A i, j \in DOMAIN chan' :
           chan'[i] = chan'[j] /\ chan'[i].kind # "Disconnected" => i = j
    BY ChanShrinksFacts
  <1>3. SUFFICES (\A i \in DOMAIN chan : Fits(chan[i]))'
    BY <1>2 DEF Messages, Fits
  <1>. TAKE i \in DOMAIN chan'
  <1>4. PICK m \in [kind : Kinds, c : Conn] : m = chan'[i]
    BY <1>1
  <1>5. CASE m.kind = "Disconnected"
    BY <1>4, <1>5 DEF Fits
  <1>6. CASE \E j \in DOMAIN chan : chan[j] = m
    <2>1. Fits(m)
      BY <1>6 DEF Messages
    <2>2. Fits(m)'
      BY <1>4, <2>1
    <2> QED
      BY <1>4, <2>2 DEF Fits
  <1> QED
    BY <1>4, <1>5, <1>6, ChanShrinksFacts

\* process_disconnect of any connection keeps the table part of the invariant.
LEMMA DisconnectStep ==
    ASSUME IndInv, NEW c \in Conn, Disconnect(c), ChanShrinks,
           UNCHANGED <<setup, base, nextBase>>
    PROVE  /\ Messages' /\ Stages' /\ BasesExclusive' /\ NoOrphanResources'
           /\ clients' \in SUBSET Conn
           /\ closeMode' \in [Conn -> CloseModes]
           /\ zombies' \in [Conn -> CloseModes]
           /\ owns' \in [Conn -> SUBSET Resources]
           /\ freeBases' \in Seq(1..NumBases)
           /\ sock' \in [Conn -> {"open", "peerClosed", "shut"}]
           /\ \A d \in Conn : sock[d] = "shut" => sock'[d] = "shut"
  <1>1. TypeOK /\ Stages /\ BasesExclusive /\ Messages /\ NoOrphanResources
    BY DEF IndInv
  <1>2. c \in clients => base[c] # NoBase
    BY <1>1 DEF Stages
  <1>3. /\ clients' \in SUBSET Conn
        /\ closeMode' \in [Conn -> CloseModes]
        /\ zombies' \in [Conn -> CloseModes]
        /\ owns' \in [Conn -> SUBSET Resources]
        /\ freeBases' \in Seq(1..NumBases)
        /\ sock' \in [Conn -> {"open", "peerClosed", "shut"}]
    BY <1>1, <1>2, DisconnectType
  <1>4. /\ \A d \in Conn : InFlight(d)' => InFlight(d)
    BY <1>1, ChanShrinksFacts
  <1>5. CASE c \notin clients
    <2>1. UNCHANGED <<clients, closeMode, zombies, owns, freeBases, sock>>
      BY <1>5 DEF Disconnect
    <2>2. \A d \in Conn : Holds(d)' => Holds(d) /\ base'[d] = base[d]
      BY <2>1, <1>4 DEF Holds
    <2>3. BasesExclusive'
      BY <1>1, <2>1, <2>2, ExclusiveFrame
    <2>4. Stages' /\ NoOrphanResources'
      BY <1>1, <2>1 DEF Stages, NoOrphanResources
    <2>5. \A m \in [kind : Kinds, c : Conn] : Fits(m) => Fits(m)'
      BY <2>1 DEF Fits
    <2>6. Messages'
      BY <1>1, <2>5, MessagesFrame
    <2> QED
      BY <1>3, <2>1, <2>3, <2>4, <2>6
  <1>6. CASE c \in clients
    <2>1. /\ clients' = clients \ {c}
          /\ zombies \in [Conn -> CloseModes]
          /\ owns \in [Conn -> SUBSET Resources]
          /\ \A d \in Conn \ {c} : zombies'[d] = zombies[d] /\ owns'[d] = owns[d]
          /\ sock' = [sock EXCEPT ![c] = "shut"]
          /\ zombies[c] = 0
      BY <1>1, <1>6 DEF Disconnect, TypeOK, Stages
    <2>2. \A d \in Conn : InFlight(d) => d # c
      BY <1>1, <1>6 DEF Messages, Fits, InFlight, Msg
    <2>3. \A i \in DOMAIN chan : chan[i].kind = "SetupComplete" => chan[i].c # c
      BY <1>1, <1>6 DEF Messages, Fits
    <2>4. setup[c] \in {"handed", "exited"} /\ base[c] # NoBase
      BY <1>1, <1>6 DEF Stages
    <2>5. Messages'
      <3>1. \A m \in [kind : Kinds, c : Conn] : Fits(m) => Fits(m)'
        <4> SUFFICES ASSUME NEW m \in [kind : Kinds, c : Conn], Fits(m) PROVE Fits(m)'
          OBVIOUS
        <4>1. m.c \in Conn /\ (m.kind = "SetupComplete" => m.c # c)
          BY <1>6 DEF Fits
        <4> QED
          BY <2>1, <4>1 DEF Fits
      <3> QED
        BY <1>1, <3>1, MessagesFrame
    <2>6. Stages'
      BY <1>1, <2>1, <2>4 DEF Stages
    <2>7. \A d \in Conn : Holds(d)' => Holds(d) /\ base'[d] = base[d]
      BY <1>4, <1>6, <2>1, <2>4 DEF Holds
    <2>8. Holds(c)
      BY <1>6, <2>4 DEF Holds
    <2>9. CASE closeMode[c] \in {1, 2}
      <3>1. freeBases' = freeBases /\ zombies'[c] # 0
        BY <1>6, <2>1, <2>9 DEF Disconnect
      <3>2. BasesExclusive'
        BY <1>1, <2>7, <3>1, ExclusiveFrame
      <3>3. NoOrphanResources'
        BY <1>1, <2>1, <3>1 DEF NoOrphanResources
      <3> QED
        BY <1>3, <2>1, <2>5, <2>6, <3>2, <3>3 DEF TypeOK
    <2>10. CASE closeMode[c] \notin {1, 2}
      <3>1. Release(base[c]) /\ zombies'[c] = 0 /\ owns'[c] = {}
        BY <1>6, <2>1, <2>10 DEF Disconnect
      <3>2. ~InFlight(c)'
        BY <1>4, <2>2
      <3>3. ~Holds(c)'
        BY <2>1, <2>4, <3>1, <3>2 DEF Holds
      <3>4. BasesExclusive'
        BY <1>1, <2>7, <2>8, <3>1, <3>3, ExclusiveRelease
      <3>5. NoOrphanResources'
        BY <1>1, <2>1, <3>1 DEF NoOrphanResources
      <3> QED
        BY <1>1, <1>3, <2>1, <2>5, <2>6, <3>4, <3>5 DEF TypeOK
    <2> QED
      BY <2>9, <2>10
  <1> QED
    BY <1>5, <1>6

-----------------------------------------------------------------------------
(* Steps that hand out, give back and destroy nothing. *)

\* Where a setup thread can go without a word to or from the core.
QuietSetup ==
    \A c \in Conn : \/ setup'[c] = setup[c]
                    \/ /\ setup[c] \in {"none", "handshake", "answered", "handed"}
                       /\ setup'[c] \in {"handshake", "unspawned", "exited"}
                       /\ setup[c] = "handed" => setup'[c] = "exited"

LEMMA QuietStep ==
    ASSUME IndInv, ChanShrinks, QuietSetup,
           UNCHANGED <<lease, clients, zombies>>,
           \A c \in Conn : owns'[c] = owns[c] \/ owns'[c] = {} \/ c \in clients
    PROVE  Messages' /\ Stages' /\ BasesExclusive' /\ NoOrphanResources'
  <1>1. TypeOK /\ Stages /\ BasesExclusive /\ Messages /\ NoOrphanResources
    BY DEF IndInv
  <1>2. \A c \in Conn : InFlight(c)' => InFlight(c)
    BY <1>1, ChanShrinksFacts
  <1>3. UNCHANGED <<base, nextBase, freeBases, clients, zombies>>
    BY DEF lease
  <1>4. Stages'
    BY <1>1, <1>3 DEF Stages, QuietSetup
  <1>5. \A c \in Conn : Holds(c)' => Holds(c) /\ base'[c] = base[c]
    BY <1>2, <1>3 DEF Holds, QuietSetup
  <1>6. BasesExclusive'
    BY <1>1, <1>3, <1>5, ExclusiveFrame
  <1>7. NoOrphanResources'
    BY <1>1, <1>3 DEF NoOrphanResources
  <1>8. Messages'
    <2> SUFFICES ASSUME NEW m \in [kind : Kinds, c : Conn], Fits(m) PROVE Fits(m)'
      BY <1>1, MessagesFrame
    <2>1. m.c \in Conn
      OBVIOUS
    <2> QED
      BY <1>3, <2>1 DEF Fits, QuietSetup
  <1> QED
    BY <1>4, <1>6, <1>7, <1>8

\* The setup thread's messages: what is sent is new in the channel.
LEMMA SendSetup ==
    ASSUME TypeOK, Messages, NEW c \in Conn, NEW k \in {"SetupAllocate", "SetupComplete"},
           \A i \in DOMAIN chan : chan[i] # Msg(k, c),
           chan' = Append(chan, Msg(k, c)),
           \A m \in [kind : Kinds, c : Conn] :
               m = Msg(k, c) \/ (Fits(m) /\ \E i \in DOMAIN chan : chan[i] = m) => Fits(m)'
    PROVE  /\ Messages'
           /\ chan' \in Seq([kind : Kinds, c : Conn])
           /\ \A d \in Conn : InFlight(d)' => InFlight(d) \/ (k = "SetupComplete" /\ d = c)
  <1>1. Msg(k, c) \in [kind : Kinds, c : Conn] /\ chan \in Seq([kind : Kinds, c : Conn])
    BY DEF Msg, Kinds, TypeOK
  <1>2. /\ chan' \in Seq([kind : Kinds, c : Conn])
        /\ DOMAIN chan = 1..Len(chan)
        /\ Len(chan) \in Nat
        /\ DOMAIN chan' = 1..(Len(chan) + 1)
        /\ \A i \in DOMAIN chan : chan'[i] = chan[i]
        /\ chan'[Len(chan) + 1] = Msg(k, c)
    BY <1>1, AppendFacts
  <1>3. \A i \in DOMAIN chan' : i \in DOMAIN chan \/ i = Len(chan) + 1
    BY <1>2
  <1>4. \A i, j \in DOMAIN chan' :
           chan'[i] = chan'[j] /\ chan'[i].kind # "Disconnected" => i = j
    BY <1>2, <1>3 DEF Messages
  <1>5. (\A i \in DOMAIN chan : Fits(chan[i]))'
    <2> TAKE i \in DOMAIN chan'
    <2>1. PICK m \in [kind : Kinds, c : Conn] : m = chan'[i]
      BY <1>2, ElementFacts
    <2>2. Fits(m)'
      BY <1>2, <1>3, <2>1 DEF Messages
    <2> QED
      BY <2>1, <2>2 DEF Fits
  <1>6. \A d \in Conn : InFlight(d)' => InFlight(d) \/ (k = "SetupComplete" /\ d = c)
    BY <1>2, <1>3 DEF InFlight, Msg
  <1> QED
    BY <1>2, <1>4, <1>5, <1>6 DEF Messages, Fits

\* Taking a setup message leaves no second one like it, and every other fits.
LEMMA TakeSetup ==
    ASSUME TypeOK, Messages, NEW c \in Conn, NEW k \in {"SetupAllocate", "SetupComplete"},
           HeadIs(k, c), chan' = Tail(chan)
    PROVE  /\ ChanShrinks
           /\ Fits(Msg(k, c))
           /\ \A i \in DOMAIN chan' : chan'[i] # Msg(k, c)
           /\ k = "SetupComplete" => InFlight(c) /\ ~InFlight(c)'
  <1>1. chan \in Seq([kind : Kinds, c : Conn]) /\ chan # <<>> /\ Head(chan) = Msg(k, c)
    BY DEF TypeOK, HeadIs
  <1>2. /\ DOMAIN chan' = 1..(Len(chan) - 1)
        /\ DOMAIN chan = 1..Len(chan)
        /\ Len(chan) \in Nat \ {0}
        /\ \A i \in DOMAIN chan' : i + 1 \in DOMAIN chan /\ chan'[i] = chan[i + 1]
        /\ chan[1] = Msg(k, c)
    BY <1>1, TailFacts
  <1>3. 1 \in DOMAIN chan
    BY <1>2
  <1>4. \A i \in DOMAIN chan' : chan'[i] # Msg(k, c)
    <2> SUFFICES ASSUME NEW i \in DOMAIN chan', chan'[i] = Msg(k, c) PROVE FALSE
      OBVIOUS
    <2>1. i + 1 = 1
      BY <1>2, <1>3 DEF Messages, Msg
    <2> QED
      BY <1>2, <2>1
  <1>5. Fits(Msg(k, c))
    BY <1>2, <1>3 DEF Messages
  <1>6. k = "SetupComplete" => InFlight(c) /\ ~InFlight(c)'
    BY <1>2, <1>3, <1>4 DEF InFlight
  <1> QED
    BY <1>1, <1>4, <1>5, <1>6 DEF ChanShrinks

-----------------------------------------------------------------------------
(* The five steps that move a base. *)

LEMMA SetupReadStep ==
    ASSUME IndInv, NEW c \in Conn, SetupRead(c)
    PROVE  Messages' /\ Stages' /\ BasesExclusive' /\ NoOrphanResources'
           /\ chan' \in Seq([kind : Kinds, c : Conn])
  <1>1. TypeOK /\ Stages /\ BasesExclusive /\ Messages /\ NoOrphanResources
    BY DEF IndInv
  <1>2. CASE Running
    <2>1. /\ setup' = [setup EXCEPT ![c] = "awaiting"]
          /\ chan' = Append(chan, Msg("SetupAllocate", c))
          /\ UNCHANGED <<base, nextBase, freeBases, clients, zombies, owns>>
          /\ setup[c] = "handshake" /\ setup \in [Conn -> SetupPhases]
      BY <1>1, <1>2 DEF SetupRead, Send, lease, table, TypeOK
    <2>2. \A i \in DOMAIN chan : chan[i] # Msg("SetupAllocate", c)
      BY <1>1, <2>1 DEF Messages, Fits, Msg
    <2>3. \A m \in [kind : Kinds, c : Conn] :
             m = Msg("SetupAllocate", c) \/ (Fits(m) /\ \E i \in DOMAIN chan : chan[i] = m)
                 => Fits(m)'
      <3> SUFFICES ASSUME NEW m \in [kind : Kinds, c : Conn],
                          m = Msg("SetupAllocate", c) \/ Fits(m)
                   PROVE  Fits(m)'
        OBVIOUS
      <3>1. m.c \in Conn
        OBVIOUS
      <3> QED
        BY <2>1, <3>1 DEF Fits, Msg
    <2>4. /\ Messages' /\ chan' \in Seq([kind : Kinds, c : Conn])
          /\ \A d \in Conn : InFlight(d)' => InFlight(d)
      BY <1>1, <2>1, <2>2, <2>3, SendSetup
    <2>5. \A d \in Conn : Holds(d)' => Holds(d) /\ base'[d] = base[d]
      BY <2>1, <2>4 DEF Holds
    <2>6. BasesExclusive'
      BY <1>1, <2>1, <2>5, ExclusiveFrame
    <2>7. Stages' /\ NoOrphanResources'
      BY <1>1, <2>1 DEF Stages, NoOrphanResources
    <2> QED
      BY <2>4, <2>6, <2>7
  <1>3. CASE ~Running
    <2>1. ChanShrinks /\ QuietSetup /\ UNCHANGED <<lease, clients, zombies, owns>>
      BY <1>1, <1>3 DEF SetupRead, Send, SetupExit, ChanShrinks, QuietSetup, table, TypeOK
    <2> QED
      BY <1>1, <2>1, QuietStep, ChanShrinksFacts
  <1> QED
    BY <1>2, <1>3

LEMMA SetupSuccessStep ==
    ASSUME IndInv, NEW c \in Conn, SetupSuccess(c)
    PROVE  Messages' /\ Stages' /\ BasesExclusive' /\ NoOrphanResources'
           /\ chan' \in Seq([kind : Kinds, c : Conn])
  <1>1. TypeOK /\ Stages /\ BasesExclusive /\ Messages /\ NoOrphanResources
    BY DEF IndInv
  <1>2. CASE Running
    <2>1. /\ setup' = [setup EXCEPT ![c] = "handed"]
          /\ chan' = Append(chan, Msg("SetupComplete", c))
          /\ UNCHANGED <<base, nextBase, freeBases, clients, zombies, owns>>
          /\ setup[c] = "answered" /\ setup \in [Conn -> SetupPhases]
          /\ base[c] # NoBase
      BY <1>1, <1>2 DEF SetupSuccess, Send, lease, table, TypeOK
    <2>2. \A i \in DOMAIN chan : chan[i] # Msg("SetupComplete", c)
      BY <1>1, <2>1 DEF Messages, Fits, Msg
    <2>3. c \notin clients /\ zombies[c] = 0
      BY <1>1, <2>1 DEF Stages
    <2>4. \A m \in [kind : Kinds, c : Conn] :
             m = Msg("SetupComplete", c) \/ (Fits(m) /\ \E i \in DOMAIN chan : chan[i] = m)
                 => Fits(m)'
      <3> SUFFICES ASSUME NEW m \in [kind : Kinds, c : Conn],
                          m = Msg("SetupComplete", c) \/ Fits(m)
                   PROVE  Fits(m)'
        OBVIOUS
      <3>1. m.c \in Conn
        OBVIOUS
      <3> QED
        BY <2>1, <2>3, <3>1 DEF Fits, Msg
    <2>5. /\ Messages' /\ chan' \in Seq([kind : Kinds, c : Conn])
          /\ \A d \in Conn : InFlight(d)' => InFlight(d) \/ d = c
      BY <1>1, <2>1, <2>2, <2>4, SendSetup
    <2>6. \A d \in Conn : Holds(d)' => Holds(d) /\ base'[d] = base[d]
      BY <2>1, <2>5 DEF Holds
    <2>7. BasesExclusive'
      BY <1>1, <2>1, <2>6, ExclusiveFrame
    <2>8. Stages' /\ NoOrphanResources'
      BY <1>1, <2>1 DEF Stages, NoOrphanResources
    <2> QED
      BY <2>5, <2>7, <2>8
  <1>3. CASE ~Running
    <2>1. ChanShrinks /\ QuietSetup /\ UNCHANGED <<lease, clients, zombies, owns>>
      BY <1>1, <1>3 DEF SetupSuccess, Send, SetupExit, ChanShrinks, QuietSetup, table, TypeOK
    <2> QED
      BY <1>1, <2>1, QuietStep, ChanShrinksFacts
  <1> QED
    BY <1>2, <1>3

LEMMA HandleSetupAllocateStep ==
    ASSUME IndInv, NEW c \in Conn, HandleSetupAllocate(c)
    PROVE  Messages' /\ Stages' /\ BasesExclusive' /\ NoOrphanResources' /\ TypeOK'
  <1>1. TypeOK /\ Stages /\ BasesExclusive /\ Messages /\ NoOrphanResources
    BY DEF IndInv
  <1>2. /\ HeadIs("SetupAllocate", c) /\ chan' = Tail(chan) /\ Allocate(c)
        /\ setup' = [setup EXCEPT ![c] = "answered"]
        /\ UNCHANGED <<core, registry, clients, closeMode, zombies, owns, reader, pending, sock>>
    BY DEF HandleSetupAllocate, table
  <1>3. /\ ChanShrinks /\ Fits(Msg("SetupAllocate", c))
        /\ \A i \in DOMAIN chan' : chan'[i] # Msg("SetupAllocate", c)
    BY <1>1, <1>2, TakeSetup
  <1>4. /\ chan' \in Seq([kind : Kinds, c : Conn])
        /\ \A d \in Conn : InFlight(d)' => InFlight(d)
    BY <1>1, <1>3, ChanShrinksFacts
  <1>5. setup[c] = "awaiting" /\ setup \in [Conn -> SetupPhases]
    BY <1>1, <1>3 DEF Fits, Msg, TypeOK
  <1>6. ~InFlight(c) /\ c \notin clients /\ zombies[c] = 0
    BY <1>1, <1>5 DEF InFlight, Messages, Fits, Msg, Stages
  <1>7. ~Holds(c)
    BY <1>5, <1>6 DEF Holds
  <1>8. \A d \in Conn \ {c} : (Holds(d)' => Holds(d)) /\ base'[d] = base[d] /\ setup'[d] = setup[d]
    <2>1. \A d \in Conn \ {c} : base'[d] = base[d] /\ setup'[d] = setup[d]
      BY <1>1, <1>2, <1>5 DEF Allocate, TypeOK
    <2> QED
      BY <1>2, <1>4, <2>1 DEF Holds
  <1>9. /\ BasesExclusive'
        /\ base' \in [Conn -> 0..NumBases]
        /\ nextBase' \in 1..(NumBases + 1)
        /\ freeBases' \in Seq(1..NumBases)
    BY <1>1, <1>2, <1>7, <1>8, ExclusiveAllocate
  <1>10. TypeOK'
    BY <1>1, <1>2, <1>4, <1>9 DEF TypeOK, SetupPhases
  <1>11. Messages'
    <2> SUFFICES ASSUME NEW m \in [kind : Kinds, c : Conn], Fits(m),
                        \E i \in DOMAIN chan' : chan'[i] = m
                 PROVE  Fits(m)'
      BY <1>1, <1>3, MessagesFrame
    <2>1. m.c \in Conn /\ (m.c = c => m.kind \notin {"SetupAllocate", "SetupComplete"})
      BY <1>3, <1>5 DEF Fits, Msg
    <2> QED
      BY <1>2, <1>8, <2>1 DEF Fits
  <1>12. Stages' /\ NoOrphanResources'
    BY <1>1, <1>2, <1>6, <1>8 DEF Stages, NoOrphanResources
  <1> QED
    BY <1>9, <1>10, <1>11, <1>12

LEMMA HandleSetupCompleteStep ==
    ASSUME IndInv, NEW c \in Conn, HandleSetupComplete(c)
    PROVE  Messages' /\ Stages' /\ BasesExclusive' /\ NoOrphanResources'
           /\ chan' \in Seq([kind : Kinds, c : Conn])
  <1>1. TypeOK /\ Stages /\ BasesExclusive /\ Messages /\ NoOrphanResources
    BY DEF IndInv
  <1>2. /\ HeadIs("SetupComplete", c) /\ chan' = Tail(chan)
        /\ clients' = clients \cup {c}
        /\ UNCHANGED <<setup, base, nextBase, freeBases, zombies, owns>>
    BY DEF HandleSetupComplete, lease
  <1>3. /\ ChanShrinks /\ Fits(Msg("SetupComplete", c)) /\ InFlight(c)
        /\ \A i \in DOMAIN chan' : chan'[i] # Msg("SetupComplete", c)
    BY <1>1, <1>2, TakeSetup
  <1>4. /\ chan' \in Seq([kind : Kinds, c : Conn])
        /\ \A d \in Conn : InFlight(d)' => InFlight(d)
    BY <1>1, <1>3, ChanShrinksFacts
  <1>5. setup[c] \in {"handed", "exited"} /\ base[c] # NoBase /\ zombies[c] = 0
    BY <1>3 DEF Fits, Msg
  <1>6. \A d \in Conn : Holds(d)' => Holds(d) /\ base'[d] = base[d]
    BY <1>2, <1>3, <1>4, <1>5 DEF Holds
  <1>7. BasesExclusive'
    BY <1>1, <1>2, <1>6, ExclusiveFrame
  <1>8. Messages'
    <2> SUFFICES ASSUME NEW m \in [kind : Kinds, c : Conn], Fits(m),
                        \E i \in DOMAIN chan' : chan'[i] = m
                 PROVE  Fits(m)'
      BY <1>1, <1>3, MessagesFrame
    <2>1. m.c \in Conn /\ (m.c = c => m.kind # "SetupComplete")
      BY <1>3 DEF Msg
    <2> QED
      BY <1>2, <2>1 DEF Fits
  <1>9. Stages' /\ NoOrphanResources'
    BY <1>1, <1>2, <1>5 DEF Stages, NoOrphanResources
  <1> QED
    BY <1>4, <1>7, <1>8, <1>9

LEMMA RegisterFailsStep ==
    ASSUME IndInv, NEW c \in Conn, HandleSetupCompleteRegisterFails(c)
    PROVE  Messages' /\ Stages' /\ BasesExclusive' /\ NoOrphanResources'
           /\ chan' \in Seq([kind : Kinds, c : Conn])
           /\ freeBases' \in Seq(1..NumBases)
  <1>1. TypeOK /\ Stages /\ BasesExclusive /\ Messages /\ NoOrphanResources
    BY DEF IndInv
  <1>2. /\ HeadIs("SetupComplete", c) /\ chan' = Tail(chan) /\ Release(base[c])
        /\ UNCHANGED <<setup, base, nextBase, clients, zombies, owns>>
    BY DEF HandleSetupCompleteRegisterFails, table
  <1>3. /\ ChanShrinks /\ Fits(Msg("SetupComplete", c)) /\ InFlight(c) /\ ~InFlight(c)'
    BY <1>1, <1>2, TakeSetup
  <1>4. /\ chan' \in Seq([kind : Kinds, c : Conn])
        /\ \A d \in Conn : InFlight(d)' => InFlight(d)
    BY <1>1, <1>3, ChanShrinksFacts
  <1>5. /\ setup[c] \in {"handed", "exited"} /\ base[c] # NoBase
        /\ zombies[c] = 0 /\ c \notin clients
    BY <1>3 DEF Fits, Msg
  <1>6. Holds(c) /\ ~Holds(c)'
    BY <1>2, <1>3, <1>5 DEF Holds
  <1>7. \A d \in Conn : Holds(d)' => Holds(d) /\ base'[d] = base[d]
    BY <1>2, <1>4 DEF Holds
  <1>8. BasesExclusive'
    BY <1>1, <1>2, <1>6, <1>7, ExclusiveRelease
  <1>9. Messages'
    BY <1>1, <1>2, <1>3, MessagesFrame DEF Fits
  <1>10. Stages' /\ NoOrphanResources'
    BY <1>1, <1>2 DEF Stages, NoOrphanResources
  <1>11. freeBases' \in Seq(1..NumBases)
    <2>1. base[c] \in 1..NumBases /\ freeBases \in Seq(1..NumBases)
      BY <1>1, <1>5 DEF TypeOK, NoBase
    <2> QED
      BY <1>2, <2>1, AppendFacts DEF Release
  <1> QED
    BY <1>4, <1>8, <1>9, <1>10, <1>11

\* Burying zombies keeps everybody else's bases and resources.
LEMMA BuryStep ==
    ASSUME IndInv, NEW Z \in SUBSET Conn, Bury(Z), UNCHANGED <<chan, setup, base, nextBase>>
    PROVE  /\ Messages' /\ Stages' /\ BasesExclusive' /\ NoOrphanResources'
           /\ zombies' \in [Conn -> CloseModes]
           /\ owns' \in [Conn -> SUBSET Resources]
  <1>1. TypeOK /\ Stages /\ BasesExclusive /\ Messages /\ NoOrphanResources
    BY DEF IndInv
  <1>2. /\ \A c \in Conn : zombies'[c] \in {0, zombies[c]} /\ owns'[c] \in {{}, owns[c]}
        /\ \A c \in Conn : zombies'[c] = zombies[c] \/ owns'[c] = {}
        /\ UNCHANGED <<clients, freeBases>> /\ ChanShrinks
        /\ zombies' \in [Conn -> CloseModes]
        /\ owns' \in [Conn -> SUBSET Resources]
    BY <1>1 DEF Bury, TypeOK, CloseModes, ChanShrinks
  <1>3. \A c \in Conn : InFlight(c)' => InFlight(c)
    BY <1>1, <1>2, ChanShrinksFacts
  <1>4. \A d \in Conn : Holds(d)' => Holds(d) /\ base'[d] = base[d]
    BY <1>2, <1>3 DEF Holds
  <1>5. BasesExclusive'
    BY <1>1, <1>2, <1>4, ExclusiveFrame
  <1>6. Stages' /\ NoOrphanResources'
    BY <1>1, <1>2 DEF Stages, NoOrphanResources
  <1>7. Messages'
    <2> SUFFICES ASSUME NEW m \in [kind : Kinds, c : Conn], Fits(m) PROVE Fits(m)'
      BY <1>1, <1>2, MessagesFrame
    <2>1. m.c \in Conn
      OBVIOUS
    <2> QED
      BY <1>2, <2>1 DEF Fits
  <1> QED
    BY <1>2, <1>5, <1>6, <1>7

-----------------------------------------------------------------------------
(* Every step preserves the invariant. *)

\* The registry and socket part, for steps of the core that are not setup.
LEMMA CoreFrame ==
    ASSUME IndInv, UNCHANGED <<core, registry, setup>>, Running
    PROVE  Registered' /\ ShutdownReachesSetup'
  BY DEF IndInv, Registered, ShutdownReachesSetup, Running

LEMMA SetupStepInv ==
    ASSUME IndInv, NEW c \in Conn, Accept(c) \/ SetupStep(c)
    PROVE  IndInv'
  <1>1. TypeOK /\ Messages /\ Registered /\ ShutdownReachesSetup
    BY DEF IndInv
  <1>2. CASE Accept(c)
    <2>1. ChanShrinks /\ QuietSetup /\ UNCHANGED <<lease, clients, zombies, owns>>
      BY <1>1, <1>2 DEF Accept, ChanShrinks, QuietSetup, table, TypeOK
    <2>2. Messages' /\ Stages' /\ BasesExclusive' /\ NoOrphanResources'
      BY <2>1, QuietStep
    <2>3. TypeOK'
      BY <1>1, <1>2 DEF Accept, TypeOK, lease, table, SetupPhases
    <2>4. Registered' /\ ShutdownReachesSetup'
      BY <1>1, <1>2 DEF Accept, TypeOK, Registered, ShutdownReachesSetup, Running
    <2> QED
      BY <2>2, <2>3, <2>4 DEF IndInv
  <1>3. CASE SetupRead(c)
    <2>1. Messages' /\ Stages' /\ BasesExclusive' /\ NoOrphanResources'
          /\ chan' \in Seq([kind : Kinds, c : Conn])
      BY <1>3, SetupReadStep
    <2>2. TypeOK'
      BY <1>1, <1>3, <2>1 DEF SetupRead, SetupExit, TypeOK, lease, table, SetupPhases
    <2>3. Registered' /\ ShutdownReachesSetup'
      BY <1>1, <1>3 DEF SetupRead, SetupExit, TypeOK, Registered, ShutdownReachesSetup, Running
    <2> QED
      BY <2>1, <2>2, <2>3 DEF IndInv
  <1>4. CASE SetupSuccess(c)
    <2>1. Messages' /\ Stages' /\ BasesExclusive' /\ NoOrphanResources'
          /\ chan' \in Seq([kind : Kinds, c : Conn])
      BY <1>4, SetupSuccessStep
    <2>2. TypeOK'
      BY <1>1, <1>4, <2>1 DEF SetupSuccess, SetupExit, TypeOK, lease, table, SetupPhases
    <2>3. Registered' /\ ShutdownReachesSetup'
      BY <1>1, <1>4 DEF SetupSuccess, SetupExit, TypeOK, Registered, ShutdownReachesSetup, Running
    <2> QED
      BY <2>1, <2>2, <2>3 DEF IndInv
  <1>5. CASE SetupFail(c) \/ SetupRefused(c) \/ SetupReturn(c)
    <2>1. /\ SetupExit(c) /\ setup[c] \in {"handshake", "answered", "handed"}
          /\ UNCHANGED <<core, chan, lease, table, reader, pending, sock>>
      BY <1>5 DEF SetupFail, SetupRefused, SetupReturn
    <2>2. ChanShrinks /\ QuietSetup /\ UNCHANGED <<lease, clients, zombies, owns>>
      BY <1>1, <2>1 DEF SetupExit, ChanShrinks, QuietSetup, table, TypeOK
    <2>3. Messages' /\ Stages' /\ BasesExclusive' /\ NoOrphanResources'
      BY <2>2, QuietStep
    <2>4. TypeOK'
      BY <1>1, <2>1 DEF SetupExit, TypeOK, lease, table, SetupPhases
    <2>5. Registered' /\ ShutdownReachesSetup'
      BY <1>1, <2>1 DEF SetupExit, TypeOK, Registered, ShutdownReachesSetup, Running
    <2> QED
      BY <2>3, <2>4, <2>5 DEF IndInv
  <1> QED
    BY <1>2, <1>3, <1>4, <1>5 DEF SetupStep

LEMMA ControlStepInv ==
    ASSUME IndInv, NEW c \in Conn, ControlStep(c)
    PROVE  IndInv'
  <1>1. TypeOK /\ Messages /\ Registered /\ ShutdownReachesSetup
    BY DEF IndInv
  <1>2. CASE HandleSetupAllocate(c)
    <2>1. Messages' /\ Stages' /\ BasesExclusive' /\ NoOrphanResources' /\ TypeOK'
      BY <1>2, HandleSetupAllocateStep
    <2>2. HeadIs("SetupAllocate", c) /\ setup' = [setup EXCEPT ![c] = "answered"]
          /\ UNCHANGED <<core, registry, sock>>
      BY <1>2 DEF HandleSetupAllocate
    <2>3. setup[c] = "awaiting"
      BY <1>1, <1>2, TakeSetup DEF HandleSetupAllocate, Fits, Msg
    <2>4. Registered' /\ ShutdownReachesSetup'
      BY <1>1, <2>2, <2>3 DEF TypeOK, Registered, ShutdownReachesSetup, Running, HeadIs
    <2> QED
      BY <2>1, <2>4 DEF IndInv
  <1>3. CASE HandleSetupComplete(c)
    <2>1. Messages' /\ Stages' /\ BasesExclusive' /\ NoOrphanResources'
          /\ chan' \in Seq([kind : Kinds, c : Conn])
      BY <1>3, HandleSetupCompleteStep
    <2>2. setup[c] \in {"handed", "exited"}
      BY <1>1, <1>3, TakeSetup DEF HandleSetupComplete, Fits, Msg
    <2>3. TypeOK'
      BY <1>1, <1>3, <2>1 DEF HandleSetupComplete, TypeOK, lease, ReaderPhases
    <2>4. Registered' /\ ShutdownReachesSetup'
      BY <1>1, <1>3, <2>2 DEF HandleSetupComplete, HeadIs, TypeOK, Registered,
         ShutdownReachesSetup, Running
    <2> QED
      BY <2>1, <2>3, <2>4 DEF IndInv
  <1>4. CASE HandleSetupCompleteCloneFails(c)
    <2>1. ChanShrinks /\ QuietSetup /\ UNCHANGED <<lease, clients, zombies, owns>>
      BY <1>4 DEF HandleSetupCompleteCloneFails, HeadIs, ChanShrinks, QuietSetup, table
    <2>2. Messages' /\ Stages' /\ BasesExclusive' /\ NoOrphanResources'
      BY <2>1, QuietStep
    <2>3. chan' \in Seq([kind : Kinds, c : Conn])
      BY <1>1, <2>1, ChanShrinksFacts
    <2>4. TypeOK'
      BY <1>1, <1>4, <2>3 DEF HandleSetupCompleteCloneFails, TypeOK, lease, table
    <2>5. Registered' /\ ShutdownReachesSetup'
      BY <1>4, CoreFrame DEF HandleSetupCompleteCloneFails, HeadIs
    <2> QED
      BY <2>2, <2>4, <2>5 DEF IndInv
  <1>5. CASE HandleSetupCompleteRegisterFails(c)
    <2>1. /\ Messages' /\ Stages' /\ BasesExclusive' /\ NoOrphanResources'
          /\ chan' \in Seq([kind : Kinds, c : Conn])
          /\ freeBases' \in Seq(1..NumBases)
      BY <1>5, RegisterFailsStep
    <2>2. setup[c] \in {"handed", "exited"}
      BY <1>1, <1>5, TakeSetup DEF HandleSetupCompleteRegisterFails, Fits, Msg
    <2>3. TypeOK'
      BY <1>1, <1>5, <2>1 DEF HandleSetupCompleteRegisterFails, TypeOK, table
    <2>4. Registered' /\ ShutdownReachesSetup'
      BY <1>1, <1>5, <2>2 DEF HandleSetupCompleteRegisterFails, HeadIs, TypeOK, Registered,
         ShutdownReachesSetup, Running
    <2> QED
      BY <2>1, <2>3, <2>4 DEF IndInv
  <1>6. CASE HandleDisconnected(c)
    <2>1. /\ ChanShrinks /\ Disconnect(c) /\ Running
          /\ UNCHANGED <<core, registry, setup, base, nextBase, reader, pending>>
      BY <1>6 DEF HandleDisconnected, HeadIs, ChanShrinks
    <2>2. chan' \in Seq([kind : Kinds, c : Conn])
      BY <1>1, <2>1, ChanShrinksFacts
    <2>3. /\ Messages' /\ Stages' /\ BasesExclusive' /\ NoOrphanResources' /\ TypeOK'
      BY <1>1, <2>1, <2>2, DisconnectStep DEF TypeOK
    <2>4. Registered' /\ ShutdownReachesSetup'
      BY <2>1, CoreFrame
    <2> QED
      BY <2>3, <2>4 DEF IndInv
  <1> QED
    BY <1>2, <1>3, <1>4, <1>5, <1>6 DEF ControlStep

LEMMA RequestStepInv ==
    ASSUME IndInv, NEW c \in Conn, RequestStep(c) \/ DropUnwritable(c)
    PROVE  IndInv'
  <1>1. TypeOK /\ Messages
    BY DEF IndInv
  <1>2. TakeRequest(c) => pending' \in [Conn -> 0..MaxPending]
    BY <1>1 DEF TakeRequest, TypeOK
  <1>r. reader' = reader \/ reader' = [reader EXCEPT ![c] = "reading"]
    BY DEF RequestStep, DropRequest, HandleEnable, HandleCreate, HandleSetCloseDownMode,
       HandleKillAllTemporary, HandleKillClient, HandleRequestDisconnects, Handling,
       DropUnwritable
  <1>3. /\ Running
        /\ UNCHANGED <<core, chan, registry, setup, base, nextBase>>
        /\ ChanShrinks /\ QuietSetup
        /\ reader' \in [Conn -> ReaderPhases]
        /\ pending' \in [Conn -> 0..MaxPending]
    <2>1. TakeRequest(c) \/ DropUnwritable(c)
      BY DEF RequestStep, DropRequest, HandleEnable, HandleCreate, HandleSetCloseDownMode,
         HandleKillAllTemporary, HandleKillClient, HandleRequestDisconnects, Handling
    <2>2. reader' \in [Conn -> ReaderPhases]
      BY <1>1, <1>r DEF TypeOK, ReaderPhases
    <2> QED
      BY <1>1, <1>2, <2>1, <2>2 DEF TakeRequest, DropUnwritable, ChanShrinks, QuietSetup,
         TypeOK
  <1>4. Registered' /\ ShutdownReachesSetup'
    BY <1>3, CoreFrame
  <1>5. CASE DropRequest(c) \/ HandleEnable(c)
    <2>1. UNCHANGED <<lease, clients, closeMode, zombies, owns, sock>>
      BY <1>3, <1>5 DEF DropRequest, HandleEnable, lease, table
    <2>2. Messages' /\ Stages' /\ BasesExclusive' /\ NoOrphanResources'
      BY <1>3, <2>1, QuietStep
    <2>3. TypeOK'
      BY <1>1, <1>3, <2>1 DEF TypeOK, lease
    <2> QED
      BY <1>4, <2>2, <2>3 DEF IndInv
  <1>6. ASSUME NEW r \in Resources, HandleCreate(c, r) PROVE IndInv'
    <2>1. /\ UNCHANGED <<lease, clients, closeMode, zombies, sock>> /\ c \in clients
          /\ owns' = [owns EXCEPT ![c] = owns[c] \cup {r}]
      BY <1>3, <1>6 DEF HandleCreate, Handling, lease
    <2>2. \A d \in Conn : owns'[d] = owns[d] \/ d \in clients
      BY <1>1, <2>1 DEF TypeOK
    <2>3. Messages' /\ Stages' /\ BasesExclusive' /\ NoOrphanResources'
      BY <1>3, <2>1, <2>2, QuietStep
    <2>4. TypeOK'
      BY <1>1, <1>3, <2>1 DEF TypeOK, lease
    <2> QED
      BY <1>4, <2>3, <2>4 DEF IndInv
  <1>7. ASSUME NEW m \in CloseModes, HandleSetCloseDownMode(c, m) PROVE IndInv'
    <2>1. /\ UNCHANGED <<lease, clients, zombies, owns, sock>>
          /\ closeMode' = [closeMode EXCEPT ![c] = m]
      BY <1>3, <1>7 DEF HandleSetCloseDownMode, lease
    <2>2. Messages' /\ Stages' /\ BasesExclusive' /\ NoOrphanResources'
      BY <1>3, <2>1, QuietStep
    <2>3. TypeOK'
      BY <1>1, <1>3, <2>1 DEF TypeOK, lease
    <2> QED
      BY <1>4, <2>2, <2>3 DEF IndInv
  <1>8. ASSUME NEW Z \in SUBSET Conn, Bury(Z) PROVE IndInv'
    <2>1. /\ Messages' /\ Stages' /\ BasesExclusive' /\ NoOrphanResources'
          /\ zombies' \in [Conn -> CloseModes]
          /\ owns' \in [Conn -> SUBSET Resources]
      BY <1>3, <1>8, BuryStep
    <2>2. UNCHANGED <<clients, closeMode, freeBases, sock>>
      BY <1>8 DEF Bury
    <2>3. TypeOK'
      BY <1>1, <1>3, <2>1, <2>2 DEF TypeOK
    <2> QED
      BY <1>4, <2>1, <2>3 DEF IndInv
  <1>9. ASSUME NEW t \in Conn, Disconnect(t) PROVE IndInv'
    <2>1. chan' \in Seq([kind : Kinds, c : Conn])
      BY <1>1, <1>3, ChanShrinksFacts
    <2>2. Messages' /\ Stages' /\ BasesExclusive' /\ NoOrphanResources' /\ TypeOK'
      BY <1>1, <1>3, <1>9, <2>1, DisconnectStep DEF TypeOK
    <2> QED
      BY <1>4, <2>2 DEF IndInv
  <1>10. CASE HandleKillAllTemporary(c)
    BY <1>8, <1>10 DEF HandleKillAllTemporary
  <1>11. ASSUME NEW t \in Conn, HandleKillClient(c, t) PROVE IndInv'
    BY <1>8, <1>9, <1>11 DEF HandleKillClient
  <1>12. CASE HandleRequestDisconnects(c) \/ DropUnwritable(c)
    BY <1>9, <1>12 DEF HandleRequestDisconnects, DropUnwritable
  <1> QED
    BY <1>5, <1>6, <1>7, <1>10, <1>11, <1>12 DEF RequestStep

LEMMA OtherStepInv ==
    ASSUME IndInv, \/ \E c \in Conn : \/ ReaderForward(c) \/ ReaderEof(c)
                                      \/ ReaderShutdown(c) \/ PeerClose(c)
                   \/ Shutdown \/ HostEof
    PROVE  IndInv'
  <1>1. TypeOK /\ Messages /\ Registered /\ ShutdownReachesSetup
    BY DEF IndInv
  <1>2. ASSUME NEW c \in Conn, \/ ReaderForward(c) \/ ReaderEof(c)
                               \/ ReaderShutdown(c) \/ PeerClose(c)
        PROVE  IndInv'
    <2>1. /\ ChanShrinks /\ QuietSetup /\ UNCHANGED <<lease, clients, zombies, owns>>
          /\ UNCHANGED <<core, registry, setup, closeMode>>
      BY <1>2 DEF ReaderForward, ReaderEof, ReaderShutdown, PeerClose, Send, ChanShrinks,
         QuietSetup, table
    <2>2. Messages' /\ Stages' /\ BasesExclusive' /\ NoOrphanResources'
      BY <2>1, QuietStep
    <2>3. chan' \in Seq([kind : Kinds, c : Conn])
      BY <1>1, <2>1, ChanShrinksFacts
    <2>4. /\ reader' \in [Conn -> ReaderPhases]
          /\ pending' \in [Conn -> 0..MaxPending]
          /\ sock' \in [Conn -> {"open", "peerClosed", "shut"}]
          /\ \A d \in Conn : sock[d] = "shut" => sock'[d] = "shut"
      <3>1. CASE ReaderForward(c)
        <4>1. pending[c] \in 0..MaxPending
          BY <1>1 DEF TypeOK
        <4>2. CASE Running
          <5>1. /\ pending' = [pending EXCEPT ![c] = pending[c] + 1]
                /\ pending[c] + 1 \in 0..MaxPending
                /\ sock' = sock
                /\ reader' = reader \/ reader' = [reader EXCEPT ![c] = "parked"]
            BY <3>1, <4>1, <4>2 DEF ReaderForward
          <5> QED
            BY <1>1, <5>1 DEF TypeOK, ReaderPhases
        <4>3. CASE ~Running
          BY <1>1, <3>1, <4>3 DEF ReaderForward, TypeOK, ReaderPhases
        <4> QED
          BY <4>2, <4>3
      <3>2. CASE ReaderEof(c) \/ ReaderShutdown(c)
        BY <1>1, <3>2 DEF ReaderEof, ReaderShutdown, TypeOK, ReaderPhases
      <3>3. CASE PeerClose(c)
        BY <1>1, <3>3 DEF PeerClose, TypeOK
      <3> QED
        BY <1>2, <3>1, <3>2, <3>3
    <2>5. TypeOK'
      BY <1>1, <2>1, <2>3, <2>4 DEF TypeOK, lease
    <2>6. Registered' /\ ShutdownReachesSetup'
      BY <1>1, <2>1, <2>4 DEF Registered, ShutdownReachesSetup, Running
    <2> QED
      BY <2>2, <2>5, <2>6 DEF IndInv
  <1>3. CASE Shutdown \/ HostEof
    <2>1. ChanShrinks /\ QuietSetup /\ UNCHANGED <<lease, table, setup>>
      BY <1>3 DEF Shutdown, HostEof, ChanShrinks, QuietSetup
    <2>2. Messages' /\ Stages' /\ BasesExclusive' /\ NoOrphanResources'
      BY <2>1, QuietStep DEF table
    <2>3. chan' \in Seq([kind : Kinds, c : Conn])
      BY <1>1, <2>1, ChanShrinksFacts
    <2>4. TypeOK'
      BY <1>1, <1>3, <2>1, <2>3 DEF Shutdown, HostEof, TypeOK, lease, table
    <2>5. Registered' /\ ShutdownReachesSetup'
      BY <1>1, <1>3 DEF Shutdown, HostEof, Registered, ShutdownReachesSetup, Running
    <2> QED
      BY <2>2, <2>4, <2>5 DEF IndInv
  <1> QED
    BY <1>2, <1>3

LEMMA NextIndInv == IndInv /\ [Next]_vars => IndInv'
  <1> SUFFICES ASSUME IndInv, [Next]_vars PROVE IndInv'
    OBVIOUS
  <1>1. CASE UNCHANGED vars
    BY <1>1 DEF vars, lease, table, IndInv, TypeOK, Messages, Fits, Stages, BasesExclusive,
       NoOrphanResources, Registered, ShutdownReachesSetup, Holds, InFlight, Running
  <1>2. CASE Next
    BY <1>2, SetupStepInv, ControlStepInv, RequestStepInv, OtherStepInv DEF Next
  <1> QED
    BY <1>1, <1>2

-----------------------------------------------------------------------------
(* The theorems. *)

\* The inductive invariant holds in every reachable state, whatever the number
\* of connections and bases.
THEOREM LifecycleInvariant == Spec => []IndInv
  BY InitIndInv, NextIndInv, PTL DEF Spec

\* Every variable keeps its type: the rendezvous, the channel and the id
\* allocator's free list never carry anything but connections and bases.
THEOREM LifecycleTypeOK == Spec => []TypeOK
  <1>1. IndInv => TypeOK
    BY DEF IndInv
  <1> QED
    BY <1>1, LifecycleInvariant, PTL

\* IdAllocator never lets a resource-id base be in use twice: no two live
\* connections, zombies or setups share one, and none of theirs is free.
THEOREM LifecycleBasesExclusive == Spec => []BasesExclusive
  <1>1. IndInv => BasesExclusive
    BY DEF IndInv
  <1> QED
    BY <1>1, LifecycleInvariant, PTL

\* process_disconnect and destroy_zombie_resources leave no resource behind
\* whose owner is neither connected nor a zombie.
THEOREM LifecycleNoOrphans == Spec => []NoOrphanResources
  <1>1. IndInv => NoOrphanResources
    BY DEF IndInv
  <1> QED
    BY <1>1, LifecycleInvariant, PTL

\* shutdown_all reaches every stream a setup thread may be blocked on.
THEOREM LifecycleShutdownReaches == Spec => []ShutdownReachesSetup
  <1>1. IndInv => ShutdownReachesSetup
    BY DEF IndInv
  <1> QED
    BY <1>1, LifecycleInvariant, PTL

-----------------------------------------------------------------------------
(* The refinement of BaseLease.  A step either grants one base, when the   *)
(* core answers a setup thread, or ends the leases of those who no longer  *)
(* hold their base: none, one, or those of all temporary zombies.          *)

Leased == [c \in Conn |-> IF Holds(c) THEN base[c] ELSE NoBase]

\* Where no base is handed out, leases can only end.
LEMMA LeasesEnd ==
    ASSUME TypeOK, base' = base, \A c \in Conn : Holds(c)' => Holds(c)
    PROVE  [Leases!Next]_Leased
  <1>0. PICK S \in SUBSET Conn : S = {c \in Conn : Holds(c) /\ ~Holds(c)'}
    OBVIOUS
  <1>1. \A c \in S : Leased[c] # 0
    BY <1>0 DEF Leased, Holds, NoBase
  <1>2. Leased' = [c \in Conn |-> IF c \in S THEN 0 ELSE Leased[c]]
    <2>1. \A c \in Conn : (IF Holds(c)' THEN base[c] ELSE 0)
                              = IF c \in S THEN 0 ELSE IF Holds(c) THEN base[c] ELSE 0
      BY <1>0
    <2>2. Leased' = [c \in Conn |-> IF Holds(c)' THEN base[c] ELSE 0]
      BY DEF Leased, NoBase
    <2>3. \A c \in Conn : Leased[c] = IF Holds(c) THEN base[c] ELSE 0
      BY DEF Leased, NoBase
    <2> QED
      BY <2>1, <2>2, <2>3
  <1>3. CASE S = {}
    <2>1. Leased' = Leased
      BY <1>2, <1>3 DEF Leased
    <2> QED
      BY <2>1
  <1>4. CASE S # {}
    <2>1. Leases!DropAll(S)
      BY <1>1, <1>2, <1>4 DEF Leases!DropAll, Leased
    <2> QED
      BY <2>1 DEF Leases!Next
  <1> QED
    BY <1>3, <1>4

\* IdAllocator::allocate gives the connection a base nobody has, or none.
LEMMA LeaseGranted ==
    ASSUME IndInv, NEW c \in Conn, HandleSetupAllocate(c)
    PROVE  [Leases!Next]_Leased
  <1>1. TypeOK /\ Stages /\ Messages /\ BasesExclusive' /\ TypeOK'
    BY HandleSetupAllocateStep DEF IndInv
  <1>2. /\ HeadIs("SetupAllocate", c) /\ chan' = Tail(chan) /\ Allocate(c)
        /\ setup' = [setup EXCEPT ![c] = "answered"]
        /\ UNCHANGED <<clients, zombies>>
    BY DEF HandleSetupAllocate, table
  <1>3. ChanShrinks /\ Fits(Msg("SetupAllocate", c))
    BY <1>1, <1>2, TakeSetup
  <1>4. \A d \in Conn : InFlight(d)' => InFlight(d)
    BY <1>1, <1>3, ChanShrinksFacts
  <1>5. setup[c] = "awaiting" /\ setup \in [Conn -> SetupPhases]
    BY <1>1, <1>3 DEF Fits, Msg, TypeOK
  <1>6. ~InFlight(c) /\ c \notin clients /\ zombies[c] = 0
    BY <1>1, <1>5 DEF InFlight, Messages, Fits, Msg, Stages
  <1>7. ~Holds(c)
    BY <1>5, <1>6 DEF Holds
  <1>8. \A i \in DOMAIN chan : i # 1 => i - 1 \in DOMAIN chan' /\ chan'[i - 1] = chan[i]
    <2>1. chan \in Seq([kind : Kinds, c : Conn]) /\ chan # <<>>
      BY <1>1, <1>2 DEF TypeOK, HeadIs
    <2>2. /\ DOMAIN chan' = 1..(Len(chan) - 1)
          /\ DOMAIN chan = 1..Len(chan)
          /\ Len(chan) \in Nat \ {0}
          /\ \A i \in DOMAIN chan' : chan'[i] = chan[i + 1]
      BY <1>2, <2>1, TailFacts
    <2> QED
      BY <2>2
  <1>9. \A d \in Conn : InFlight(d) => InFlight(d)'
    <2> SUFFICES ASSUME NEW d \in Conn, NEW i \in DOMAIN chan, chan[i] = Msg("SetupComplete", d)
                 PROVE  InFlight(d)'
      BY DEF InFlight
    <2>1. chan[1] = Msg("SetupAllocate", c)
      BY <1>1, <1>2 DEF TypeOK, HeadIs
    <2>2. i # 1
      BY <2>1 DEF Msg
    <2> QED
      BY <1>8, <2>2 DEF InFlight
  <1>10. \A d \in Conn \ {c} : base'[d] = base[d] /\ setup'[d] = setup[d]
    BY <1>1, <1>2, <1>5 DEF Allocate, TypeOK
  <1>11. \A d \in Conn \ {c} : Holds(d)' <=> Holds(d)
    BY <1>2, <1>4, <1>9, <1>10 DEF Holds
  <1>12. \A d \in Conn \ {c} : Leased'[d] = Leased[d]
    BY <1>10, <1>11 DEF Leased
  <1>13. Leased[c] = 0
    BY <1>7 DEF Leased, NoBase
  <1>14. base'[c] \in 0..NumBases /\ setup'[c] = "answered"
    BY <1>1, <1>2, <1>5 DEF TypeOK
  <1>15. Leased'[c] = base'[c]
    BY <1>14 DEF Leased, Holds, NoBase
  <1>16. Leased' = [Leased EXCEPT ![c] = base'[c]]
    BY <1>12, <1>15 DEF Leased
  <1>17. CASE base'[c] = 0
    <2>1. Leased' = Leased
      BY <1>13, <1>16, <1>17 DEF Leased
    <2> QED
      BY <2>1
  <1>18. CASE base'[c] # 0
    <2>1. Holds(c)'
      BY <1>14, <1>18 DEF Holds, NoBase
    <2>2. \A d \in Conn \ {c} : Holds(d)' => base'[d] # base'[c]
      BY <1>1, <2>1 DEF BasesExclusive
    <2>3. \A d \in Conn \ {c} : Leased'[d] # base'[c]
      BY <1>18, <2>2 DEF Leased, NoBase
    <2>4. \A d \in Conn : Leased[d] # base'[c]
      BY <1>12, <1>13, <1>18, <2>3
    <2>5. PICK b \in 1..NumBases : b = base'[c]
      BY <1>14, <1>18
    <2>6. Leases!Grant(c, b)
      BY <1>13, <1>16, <2>4, <2>5 DEF Leases!Grant, Leased
    <2> QED
      BY <2>6 DEF Leases!Next
  <1> QED
    BY <1>17, <1>18

\* On every other way through setup the base stays with the connection, from
\* the thread to the message to the client entry, or is no longer in use.
LEMMA SetupKeepsLeases ==
    ASSUME IndInv, NEW c \in Conn,
           \/ Accept(c) \/ SetupStep(c)
           \/ HandleSetupComplete(c)
           \/ HandleSetupCompleteCloneFails(c)
           \/ HandleSetupCompleteRegisterFails(c)
    PROVE  base' = base /\ \A d \in Conn : Holds(d)' => Holds(d)
  <1>1. TypeOK /\ Stages /\ Messages
    BY DEF IndInv
  <1>2. setup \in [Conn -> SetupPhases] /\ chan \in Seq([kind : Kinds, c : Conn])
    BY <1>1 DEF TypeOK
  <1>3. ASSUME NEW k \in {"SetupAllocate", "SetupComplete"}, Send(Msg(k, c))
        PROVE  \A d \in Conn : InFlight(d)' => InFlight(d) \/ (k = "SetupComplete" /\ d = c)
    <2>1. CASE ~Running
      BY <1>3, <2>1 DEF Send, InFlight
    <2>2. CASE Running
      <3>1. chan' = Append(chan, Msg(k, c)) /\ Msg(k, c) \in [kind : Kinds, c : Conn]
        BY <1>3, <2>2 DEF Send, Msg, Kinds
      <3>2. \A i \in DOMAIN chan' : \/ i \in DOMAIN chan /\ chan'[i] = chan[i]
                                    \/ chan'[i] = Msg(k, c)
        BY <1>2, <3>1, AppendFacts
      <3> QED
        BY <3>2 DEF InFlight, Msg
    <2> QED
      BY <2>1, <2>2
  <1>4. CASE Accept(c) \/ SetupFail(c) \/ SetupRefused(c) \/ SetupReturn(c)
    <2>1. UNCHANGED <<base, chan, clients, zombies>>
      BY <1>4 DEF Accept, SetupFail, SetupRefused, SetupReturn, lease, table
    <2>2. \A d \in Conn : setup'[d] = "answered" => setup[d] = "answered"
      BY <1>2, <1>4 DEF Accept, SetupFail, SetupRefused, SetupReturn, SetupExit
    <2> QED
      BY <2>1, <2>2 DEF Holds, InFlight
  <1>5. CASE SetupRead(c)
    <2>1. UNCHANGED <<base, clients, zombies>>
      BY <1>5 DEF SetupRead, lease, table
    <2>2. \A d \in Conn : setup'[d] = "answered" => setup[d] = "answered"
      BY <1>2, <1>5 DEF SetupRead, SetupExit
    <2>3. \A d \in Conn : InFlight(d)' => InFlight(d)
      BY <1>3, <1>5 DEF SetupRead
    <2> QED
      BY <2>1, <2>2, <2>3 DEF Holds
  <1>6. CASE SetupSuccess(c)
    <2>1. UNCHANGED <<base, clients, zombies>> /\ setup[c] = "answered" /\ base[c] # NoBase
      BY <1>6 DEF SetupSuccess, lease, table
    <2>2. \A d \in Conn : setup'[d] = "answered" => setup[d] = "answered"
      BY <1>2, <1>6 DEF SetupSuccess, SetupExit
    <2>3. \A d \in Conn : InFlight(d)' => InFlight(d) \/ d = c
      BY <1>3, <1>6 DEF SetupSuccess
    <2> QED
      BY <2>1, <2>2, <2>3 DEF Holds
  <1>7. CASE \/ HandleSetupComplete(c) \/ HandleSetupCompleteCloneFails(c)
             \/ HandleSetupCompleteRegisterFails(c)
    <2>1. HeadIs("SetupComplete", c) /\ chan' = Tail(chan)
      BY <1>7 DEF HandleSetupComplete, HandleSetupCompleteCloneFails,
         HandleSetupCompleteRegisterFails
    <2>2. ChanShrinks /\ InFlight(c) /\ Fits(Msg("SetupComplete", c))
      BY <1>1, <2>1, TakeSetup
    <2>3. \A d \in Conn : InFlight(d)' => InFlight(d)
      BY <1>1, <2>2, ChanShrinksFacts
    <2>4. base[c] # NoBase
      BY <2>2 DEF Fits, Msg
    <2>5. UNCHANGED <<base, setup, zombies>> /\ clients' \subseteq clients \cup {c}
      BY <1>7 DEF HandleSetupComplete, HandleSetupCompleteCloneFails,
         HandleSetupCompleteRegisterFails, lease, table
    <2> QED
      BY <2>2, <2>3, <2>4, <2>5 DEF Holds
  <1> QED
    BY <1>4, <1>5, <1>6, <1>7 DEF SetupStep

\* A disconnect hands the base on to the zombie, or frees it.
LEMMA DisconnectKeepsLeases ==
    ASSUME IndInv, NEW c \in Conn, Disconnect(c), ChanShrinks, UNCHANGED <<setup, base>>
    PROVE  \A d \in Conn : Holds(d)' => Holds(d)
  <1>1. TypeOK /\ Messages
    BY DEF IndInv
  <1>2. \A d \in Conn : InFlight(d)' => InFlight(d)
    BY <1>1, ChanShrinksFacts
  <1>3. \A d \in Conn : (d \in clients' => d \in clients)
                           /\ (zombies'[d] # 0 => zombies[d] # 0 \/ d \in clients)
    BY <1>1 DEF Disconnect, TypeOK
  <1> QED
    BY <1>2, <1>3 DEF Holds

\* Requests, disconnects, readers and the end of the core grant nothing.
LEMMA OthersKeepLeases ==
    ASSUME IndInv,
           \/ \E c \in Conn : \/ HandleDisconnected(c) \/ RequestStep(c) \/ DropUnwritable(c)
                              \/ ReaderForward(c) \/ ReaderEof(c)
                              \/ ReaderShutdown(c) \/ PeerClose(c)
           \/ Shutdown \/ HostEof
    PROVE  base' = base /\ \A d \in Conn : Holds(d)' => Holds(d)
  <1>1. TypeOK /\ Messages
    BY DEF IndInv
  <1>2. ASSUME ChanShrinks, UNCHANGED <<setup, base, clients, zombies>>
        PROVE  base' = base /\ \A d \in Conn : Holds(d)' => Holds(d)
    <2>1. \A d \in Conn : InFlight(d)' => InFlight(d)
      BY <1>1, <1>2, ChanShrinksFacts
    <2> QED
      BY <1>2, <2>1 DEF Holds
  <1>3. ASSUME NEW Z \in SUBSET Conn, Bury(Z), UNCHANGED <<setup, base, chan>>
        PROVE  base' = base /\ \A d \in Conn : Holds(d)' => Holds(d)
    <2>1. clients' = clients /\ \A d \in Conn : zombies'[d] # 0 => zombies[d] # 0
      BY <1>3 DEF Bury
    <2> QED
      BY <1>3, <2>1 DEF Holds, InFlight
  <1>4. ASSUME NEW c \in Conn, HandleDisconnected(c)
        PROVE  base' = base /\ \A d \in Conn : Holds(d)' => Holds(d)
    BY <1>4, DisconnectKeepsLeases DEF HandleDisconnected, HeadIs, ChanShrinks
  <1>5. ASSUME NEW c \in Conn, RequestStep(c) \/ DropUnwritable(c)
        PROVE  base' = base /\ \A d \in Conn : Holds(d)' => Holds(d)
    <2>1. ChanShrinks /\ UNCHANGED <<chan, setup, base>>
      BY <1>5 DEF RequestStep, DropRequest, HandleEnable, HandleCreate,
         HandleSetCloseDownMode, HandleKillAllTemporary, HandleKillClient,
         HandleRequestDisconnects, Handling, TakeRequest, DropUnwritable, ChanShrinks
    <2>2. CASE \/ DropRequest(c) \/ HandleEnable(c)
               \/ \E r \in Resources : HandleCreate(c, r)
               \/ \E m \in CloseModes : HandleSetCloseDownMode(c, m)
      <3>1. UNCHANGED <<clients, zombies>>
        BY <2>2 DEF DropRequest, HandleEnable, HandleCreate, HandleSetCloseDownMode, table
      <3> QED
        BY <1>2, <2>1, <3>1
    <2>3. CASE HandleKillAllTemporary(c)
      BY <1>3, <2>1, <2>3 DEF HandleKillAllTemporary
    <2>4. ASSUME NEW t \in Conn, Disconnect(t)
          PROVE  base' = base /\ \A d \in Conn : Holds(d)' => Holds(d)
      BY <2>1, <2>4, DisconnectKeepsLeases
    <2>5. ASSUME NEW t \in Conn, HandleKillClient(c, t)
          PROVE  base' = base /\ \A d \in Conn : Holds(d)' => Holds(d)
      <3>1. CASE zombies[t] # 0
        BY <1>3, <2>1, <2>5, <3>1 DEF HandleKillClient
      <3>2. CASE zombies[t] = 0
        BY <2>4, <2>5, <3>2 DEF HandleKillClient
      <3> QED
        BY <3>1, <3>2
    <2>6. CASE HandleRequestDisconnects(c) \/ DropUnwritable(c)
      BY <2>4, <2>6 DEF HandleRequestDisconnects, DropUnwritable
    <2> QED
      BY <1>5, <2>2, <2>3, <2>5, <2>6 DEF RequestStep
  <1>6. ASSUME NEW c \in Conn, \/ ReaderForward(c) \/ ReaderEof(c)
                               \/ ReaderShutdown(c) \/ PeerClose(c)
        PROVE  base' = base /\ \A d \in Conn : Holds(d)' => Holds(d)
    BY <1>2, <1>6 DEF ReaderForward, ReaderEof, ReaderShutdown, PeerClose, Send, ChanShrinks,
         lease, table
  <1>7. CASE Shutdown \/ HostEof
    BY <1>2, <1>7 DEF Shutdown, HostEof, ChanShrinks, lease, table
  <1> QED
    BY <1>4, <1>5, <1>6, <1>7

LEMMA LeaseStep == IndInv /\ [Next]_vars => [Leases!Next]_Leased
  <1> SUFFICES ASSUME IndInv, [Next]_vars
               PROVE  [Leases!Next]_Leased
    OBVIOUS
  <1>1. TypeOK
    BY DEF IndInv
  <1>2. CASE UNCHANGED vars
    <2>1. base' = base /\ \A c \in Conn : Holds(c)' => Holds(c)
      BY <1>2 DEF vars, lease, table, Holds, InFlight
    <2> QED
      BY <1>1, <2>1, LeasesEnd
  <1>3. CASE \E c \in Conn : HandleSetupAllocate(c)
    BY <1>3, LeaseGranted
  <1>4. CASE \E c \in Conn :
               \/ Accept(c) \/ SetupStep(c) \/ HandleSetupComplete(c)
               \/ HandleSetupCompleteCloneFails(c) \/ HandleSetupCompleteRegisterFails(c)
    BY <1>1, <1>4, SetupKeepsLeases, LeasesEnd
  <1>5. CASE \/ \E c \in Conn : \/ HandleDisconnected(c) \/ RequestStep(c) \/ DropUnwritable(c)
                                \/ ReaderForward(c) \/ ReaderEof(c)
                                \/ ReaderShutdown(c) \/ PeerClose(c)
             \/ Shutdown \/ HostEof
    BY <1>1, <1>5, OthersKeepLeases, LeasesEnd
  <1> QED
    BY <1>2, <1>3, <1>4, <1>5 DEF Next, ControlStep

\* The lifecycle implements BaseLease: however setups fail, clients race their
\* disconnects and zombies are killed, a base goes from one connection to the
\* next only after the first has given it back.
THEOREM LifecycleLeases == Spec => LeaseSpec
  <1>1. Init => Leases!Init
    BY DEF Init, Leases!Init, Holds, InFlight, NoBase
  <1>2. IndInv /\ [Next]_vars => [Leases!Next]_Leased
    BY LeaseStep
  <1> QED
    BY <1>1, <1>2, LifecycleInvariant, PTL DEF Spec, LeaseSpec, Leases!Spec, Leased

=============================================================================
