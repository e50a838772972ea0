-------------------------- MODULE DeviceGrabs_proofs --------------------------
(***************************************************************************)
(* Proofs about DeviceGrabs.  A replay runs inside a replay, so what the   *)
(* loop of xi1_compute_freezes does is shown for all depths n at once      *)
(* (FlushGood): a loop that serves what is left after one event serves one *)
(* more.  From there on ComputeFreezes is an operation like any other, and *)
(* each handler is shown to keep the invariant IInv.                       *)
(***************************************************************************)
EXTENDS DeviceGrabs, WellFoundedInduction, FiniteSetTheorems, TLAPS

-----------------------------------------------------------------------------
(* Recursion on the naturals.                                              *)

\* The order of the naturals, as the library wants it.
Less == {p \in Nat \X Nat : p[1] < p[2]}

LEMMA LeastOf ==
    ASSUME NEW T \in SUBSET Nat, T # {}
    PROVE  \E n \in T : \A m \in T : n <= m
  <1>1. IsWellFoundedOn(Less, Nat)
    BY NatLessThanWellFounded, Zenon DEF OpToRel, Less
  <1>2. PICK n \in T : \A m \in T : ~(<<m, n>> \in Less)
    BY <1>1, WFMin
  <1>3. ASSUME NEW m \in T PROVE n <= m
    <2>1. <<m, n>> \notin Less /\ m \in Nat /\ n \in Nat
      BY <1>2
    <2>2. ~(m < n)
      BY <2>1 DEF Less
    <2> QED BY <2>1, <2>2
  <1> QED BY <1>3

\* Induction, for a set: the provers cannot instantiate an operator.
LEMMA AllNaturals ==
    ASSUME NEW T, 0 \in T, \A n \in Nat : n # 0 /\ n - 1 \in T => n \in T
    PROVE  \A n \in Nat : n \in T
  <1> DEFINE Bad == {n \in Nat : n \notin T}
  <1> SUFFICES ASSUME Bad # {} PROVE FALSE
    OBVIOUS
  <1>1. PICK n \in Bad : \A m \in Bad : n <= m
    <2>1. Bad \in SUBSET Nat
      OBVIOUS
    <2> HIDE DEF Bad
    <2> QED BY <2>1, LeastOf
  <1>2. n \in Nat /\ n # 0 /\ n - 1 \in Nat /\ ~(n <= n - 1)
    BY <1>1
  <1>3. n - 1 \in T
    BY <1>1, <1>2
  <1> QED BY <1>1, <1>2, <1>3

\* f[n] is what F[1], F[2]... F[n] make of a, one after the other.
Follows(f, a, F) == f[0] = a /\ \A n \in Nat : n # 0 => f[n] = F[n][f[n - 1]]

\* A function defined by recursion exists.
LEMMA Iterates ==
    ASSUME NEW S, NEW a \in S, NEW F \in [Nat -> [S -> S]]
    PROVE  \E f \in [Nat -> S] : Follows(f, a, F)
  <1> DEFINE Up(n, p) == /\ p \in [0..n -> S]
                         /\ p[0] = a
                         /\ \A i \in 0..n : i # 0 => p[i] = F[i][p[i - 1]]
             None_ == {n \in Nat : ~\E p : Up(n, p)}
  <1>1. None_ = {}
    <2> SUFFICES ASSUME None_ # {} PROVE FALSE
      OBVIOUS
    <2>1. PICK n \in None_ : \A m \in None_ : n <= m
      BY LeastOf
    <2>2. CASE n = 0
      <3>1. Up(0, [i \in 0..0 |-> a])
        OBVIOUS
      <3> QED BY <2>1, <2>2, <3>1
    <2>3. CASE n # 0
      <3>1. n - 1 \in Nat /\ n - 1 \notin None_
        <4>1. n \in Nat /\ n - 1 \in Nat /\ ~(n <= n - 1)
          BY <2>1, <2>3
        <4> HIDE DEF None_
        <4> QED BY <2>1, <4>1
      <3>2. PICK p : Up(n - 1, p)
        BY <3>1
      <3> DEFINE q == [i \in 0..n |-> IF i = n THEN F[n][p[n - 1]] ELSE p[i]]
      <3>3. n \in Nat
        BY <2>1
      <3>4. p[n - 1] \in S /\ \A i \in 0..n : i # n => i \in 0..(n - 1) /\ p[i] \in S
        BY <3>1, <3>2, <3>3
      <3>5. q \in [0..n -> S]
        BY <3>4
      <3>6. q[0] = a
        BY <2>3, <3>2, <3>3
      <3>7. ASSUME NEW i \in 0..n, i # 0 PROVE q[i] = F[i][q[i - 1]]
        <4>1. i - 1 \in 0..n /\ i - 1 # n /\ q[i - 1] = p[i - 1]
          BY <3>3, <3>7
        <4>2. CASE i = n
          BY <4>1, <4>2
        <4>3. CASE i # n
          BY <3>2, <3>4, <3>7, <4>1, <4>3
        <4> QED BY <4>2, <4>3
      <3>8. Up(n, q)
        BY <3>5, <3>6, <3>7
      <3> QED BY <2>1, <3>8
    <2> QED BY <2>2, <2>3
  <1>2. \A n \in Nat : \E p : Up(n, p)
    BY <1>1
  <1>3. ASSUME NEW n \in Nat, NEW m \in Nat, NEW p, NEW q, Up(n, p), Up(m, q), n <= m
        PROVE  p[n] = q[n]
    <2> DEFINE Differ == {i \in 0..n : p[i] # q[i]}
    <2>1. Differ = {}
      <3> SUFFICES ASSUME Differ # {} PROVE FALSE
        OBVIOUS
      <3>1. PICK i \in Differ : \A j \in Differ : i <= j
        <4>1. Differ \in SUBSET Nat
          OBVIOUS
        <4> QED BY <4>1, LeastOf
      <3>2. i # 0 /\ i \in 0..n /\ i \in 0..m
        BY <1>3, <3>1
      <3>3. i - 1 \notin Differ /\ i - 1 \in 0..n
        BY <3>1, <3>2
      <3>4. p[i - 1] = q[i - 1]
        BY <3>3
      <3> QED BY <1>3, <3>1, <3>2, <3>4
    <2> QED BY <2>1
  <1> DEFINE P(n) == CHOOSE p : Up(n, p)
             f == [n \in Nat |-> P(n)[n]]
  <1> HIDE DEF Up
  <1>4. \A n \in Nat : Up(n, P(n))
    BY <1>2
  <1> HIDE DEF P
  <1>5. ASSUME NEW n \in Nat PROVE f[n] \in S
    <2>1. P(n) \in [0..n -> S] /\ n \in 0..n
      BY <1>4 DEF Up
    <2> QED BY <2>1
  <1>6. f[0] = a
    BY <1>4 DEF Up
  <1>7. ASSUME NEW n \in Nat, n # 0 PROVE f[n] = F[n][f[n - 1]]
    <2>1. n - 1 \in Nat /\ n - 1 <= n /\ n \in 0..n
      BY <1>7
    <2>2. Up(n, P(n)) /\ Up(n - 1, P(n - 1))
      BY <1>4, <2>1
    <2>3. P(n - 1)[n - 1] = P(n)[n - 1]
      BY <1>3, <2>1, <2>2
    <2>4. P(n)[n] = F[n][P(n)[n - 1]]
      BY <1>7, <2>1, <2>2 DEF Up
    <2> QED BY <2>1, <2>3, <2>4
  <1> HIDE DEF f
  <1>8. f \in [Nat -> S]
    BY <1>5 DEF f
  <1> QED BY <1>6, <1>7, <1>8 DEF Follows

-----------------------------------------------------------------------------
(* Counting.                                                               *)

\* Where e is in a queue of keys, and among deliveries.
At(q, e) == {i \in DOMAIN q : q[i] = e}
Sends(q, e) == {i \in DOMAIN q : q[i].key = e}

LEMMA AtFinite ==
    ASSUME NEW S, NEW q \in Seq(S), NEW e
    PROVE  /\ IsFiniteSet(At(q, e)) /\ Cardinality(At(q, e)) \in Nat
           /\ IsFiniteSet(Sends(q, e)) /\ Cardinality(Sends(q, e)) \in Nat
  <1>1. DOMAIN q = 1..Len(q) /\ Len(q) \in Nat
    OBVIOUS
  <1>2. IsFiniteSet(DOMAIN q)
    BY <1>1, FS_Interval
  <1>3. At(q, e) \in SUBSET DOMAIN q /\ Sends(q, e) \in SUBSET DOMAIN q
    BY DEF At, Sends
  <1>4. IsFiniteSet(At(q, e)) /\ IsFiniteSet(Sends(q, e))
    BY <1>2, <1>3, FS_Subset
  <1> QED BY <1>4, FS_CardinalityType

\* An append adds one, a removal at the head takes one.
LEMMA CountAppend ==
    ASSUME NEW S, NEW q \in Seq(S), NEW x \in S, NEW e
    PROVE  Count(Append(q, x), e) = Count(q, e) + IF x = e THEN 1 ELSE 0
  <1> DEFINE r == Append(q, x)
             n == Len(q)
  <1>1. /\ n \in Nat /\ DOMAIN q = 1..n /\ DOMAIN r = 1..(n + 1)
        /\ r[n + 1] = x /\ \A i \in 1..n : r[i] = q[i]
    OBVIOUS
  <1>2. IsFiniteSet(At(q, e)) /\ Cardinality(At(q, e)) \in Nat
    BY AtFinite
  <1>3. At(r, e) = IF x = e THEN At(q, e) \cup {n + 1} ELSE At(q, e)
    <2> HIDE DEF r, n
    <2> QED BY <1>1 DEF At
  <1>4. n + 1 \notin At(q, e)
    BY <1>1 DEF At
  <1>5. Cardinality(At(r, e)) = Cardinality(At(q, e)) + IF x = e THEN 1 ELSE 0
    <2> HIDE DEF r, n
    <2>1. CASE x = e
      BY <1>2, <1>3, <1>4, <2>1, FS_AddElement
    <2>2. CASE x # e
      BY <1>2, <1>3, <2>2
    <2> QED BY <2>1, <2>2
  <1> QED BY <1>5 DEF Count, At

LEMMA CountTail ==
    ASSUME NEW S, NEW q \in Seq(S), q # <<>>, NEW e
    PROVE  Count(q, e) = Count(Tail(q), e) + IF Head(q) = e THEN 1 ELSE 0
  <1> DEFINE r == Tail(q)
             n == Len(q)
             A == At(q, e) \ {1}
             B == At(r, e)
             b == [i \in A |-> i - 1]
  <1>1. /\ n \in Nat /\ n > 0 /\ DOMAIN q = 1..n /\ DOMAIN r = 1..(n - 1) /\ Head(q) = q[1]
        /\ \A i \in 1..(n - 1) : r[i] = q[i + 1]
    OBVIOUS
  <1>2. IsFiniteSet(At(q, e)) /\ Cardinality(At(q, e)) \in Nat
    BY AtFinite
  <1> HIDE DEF r, n
  <1>3. \A i \in A : i \in Nat /\ i - 1 \in B
    BY <1>1 DEF At
  <1>4. \A i \in B : i \in Nat /\ i + 1 \in A
    BY <1>1 DEF At
  <1>5. b \in Bijection(A, B)
    <2> HIDE DEF A, B
    <2>1. b \in [A -> B]
      BY <1>3
    <2>2. ASSUME NEW i \in A, NEW j \in A, b[i] = b[j] PROVE i = j
      BY <1>3, <2>2
    <2>3. ASSUME NEW j \in B PROVE \E i \in A : b[i] = j
      <3>1. j + 1 \in A /\ j \in Nat
        BY <1>4
      <3>2. b[j + 1] = j
        BY <3>1
      <3> QED BY <3>1, <3>2
    <2> HIDE DEF b
    <2> QED BY <2>1, <2>2, <2>3 DEF Bijection, Injection, Surjection, IsInjective
  <1>6. IsFiniteSet(A) /\ Cardinality(A) = Cardinality(At(q, e)) - IF Head(q) = e THEN 1 ELSE 0
    <2>1. 1 \in At(q, e) <=> Head(q) = e
      BY <1>1 DEF At
    <2> QED BY <1>2, <2>1, FS_RemoveElement
  <1>7. Cardinality(B) = Cardinality(A)
    <2> HIDE DEF A, B, b
    <2> QED BY <1>5, <1>6, FS_Bijection DEF ExistsBijection
  <1>8. Cardinality(At(q, e)) = Cardinality(B) + IF Head(q) = e THEN 1 ELSE 0
    <2> HIDE DEF A, B
    <2> QED BY <1>2, <1>6, <1>7
  <1> QED BY <1>8 DEF Count, At, r

-----------------------------------------------------------------------------
(* Types.                                                                  *)

Replays == [Device -> [Server -> Server]]
Sent == [to : Client \cup {"focus"}, key : KeyEvent]

LEMMA PeerIs == \A d \in Device : Peer(d) \in Device /\ Peer(d) # d /\ Peer(Peer(d)) = d
  BY DEF Peer, Device

\* The fields the helpers change, one at a time.
LEMMA SyncTyped ==
    ASSUME NEW s \in Server, NEW d \in Device, NEW x \in 0..4
    PROVE  [s EXCEPT !.sync[d] = x] \in Server
  BY DEF Server

LEMMA OtherTyped ==
    ASSUME NEW s \in Server, NEW d \in Device, NEW x \in Owner
    PROVE  [s EXCEPT !.other[d] = x] \in Server
  BY DEF Server

LEMMA FormsTyped ==
    ASSUME NEW s \in Server, NEW d \in Device, NEW x \in Nat
    PROVE  [s EXCEPT !.forms[d] = x] \in Server
  BY DEF Server

\* What a helper leaves of the pointer's grab, the keyboard's and the queues.
PointerPart(s) == <<s.pgrab, s.passive, s.active, s.press>>
KeyboardPart(s) == <<s.kgrab, s.heldKey, s.keyGrabs>>
Queues(s) == <<s.pqueue, s.keys, s.out, s.request>>

\* The end and the beginning of a grab touch freezes only.
LEMMA ReleasedFacts ==
    ASSUME NEW s \in Server, NEW d \in Device, NEW o, NEW r, r = Released(s, d, o)
    PROVE  /\ r \in Server
           /\ \A x \in Device : r.sync[x] = IF x = d THEN Thawed ELSE s.sync[x]
           /\ \A x \in Device :
                 r.other[x] = IF x = Peer(d) /\ s.other[x] = o THEN None ELSE s.other[x]
           /\ r.forms = s.forms
           /\ PointerPart(r) = PointerPart(s) /\ KeyboardPart(r) = KeyboardPart(s)
           /\ Queues(r) = Queues(s)
  <1> DEFINE t == [s EXCEPT !.sync[d] = Thawed]
             x == IF t.other[Peer(d)] = o THEN None ELSE t.other[Peer(d)]
  <1>0. Thawed \in 0..4
    BY DEF Thawed
  <1>1. t \in Server
    BY <1>0, SyncTyped
  <1>2. x \in Owner
    BY <1>1, PeerIs DEF Server, Owner
  <1>3. r = [t EXCEPT !.other[Peer(d)] = x]
    BY DEF Released
  <1>4. r \in Server
    <2> HIDE DEF t, x
    <2> QED BY <1>1, <1>2, <1>3, OtherTyped, PeerIs
  <1>5. /\ r.sync = [s.sync EXCEPT ![d] = Thawed]
        /\ r.other = [s.other EXCEPT ![Peer(d)] = IF @ = o THEN None ELSE @]
        /\ r.forms = s.forms
        /\ PointerPart(r) = PointerPart(s) /\ KeyboardPart(r) = KeyboardPart(s)
        /\ Queues(r) = Queues(s)
    BY DEF Released, Server, PointerPart, KeyboardPart, Queues
  <1>6. s.sync \in [Device -> 0..4] /\ s.other \in [Device -> Owner]
    BY DEF Server
  <1>7. /\ \A z \in Device : r.sync[z] = IF z = d THEN Thawed ELSE s.sync[z]
        /\ \A z \in Device :
              r.other[z] = IF z = Peer(d) /\ s.other[z] = o THEN None ELSE s.other[z]
    BY <1>5, <1>6
  <1> QED BY <1>4, <1>5, <1>7

LEMMA CheckedFacts ==
    ASSUME NEW s \in Server, NEW d \in Device, NEW o \in Client,
           NEW this \in BOOLEAN, NEW paired \in BOOLEAN,
           NEW r, r = Checked(s, d, o, this, paired)
    PROVE  /\ r \in Server
           /\ \A x \in Device : x # d => r.sync[x] = s.sync[x]
           /\ r.sync[d] = IF this THEN FrozenNoEvent ELSE Thawed
           /\ \A x \in Device : r.other[x] \in {s.other[x], None, o}
           /\ r.forms = s.forms
           /\ PointerPart(r) = PointerPart(s) /\ KeyboardPart(r) = KeyboardPart(s)
           /\ Queues(r) = Queues(s)
  <1> DEFINE m == IF this THEN FrozenNoEvent ELSE Thawed
             t == [s EXCEPT !.sync[d] = m]
             x == IF ~this /\ t.other[d] = o THEN None ELSE t.other[d]
             u == [t EXCEPT !.other[d] = x]
             y == IF paired THEN o ELSE IF u.other[Peer(d)] = o THEN None ELSE u.other[Peer(d)]
  <1>0. m \in 0..4
    BY DEF Thawed, FrozenNoEvent
  <1>1. t \in Server
    <2> HIDE DEF m
    <2> QED BY <1>0, SyncTyped
  <1>2. x \in Owner
    <2> HIDE DEF t
    <2> QED BY <1>1 DEF Server, Owner
  <1>3. u \in Server
    <2> HIDE DEF t, x
    <2> QED BY <1>1, <1>2, OtherTyped
  <1>4. y \in Owner
    <2> HIDE DEF u
    <2> QED BY <1>3, PeerIs DEF Server, Owner
  <1>5. r = [u EXCEPT !.other[Peer(d)] = y]
    BY DEF Checked
  <1>6. r \in Server
    <2> HIDE DEF u, y
    <2> QED BY <1>3, <1>4, <1>5, OtherTyped, PeerIs
  <1>7. /\ r.sync = [s.sync EXCEPT ![d] = IF this THEN FrozenNoEvent ELSE Thawed]
        /\ r.forms = s.forms
        /\ PointerPart(r) = PointerPart(s) /\ KeyboardPart(r) = KeyboardPart(s)
        /\ Queues(r) = Queues(s)
    BY DEF Checked, Server, PointerPart, KeyboardPart, Queues
  <1>8. ASSUME NEW z \in Device PROVE r.other[z] \in {s.other[z], None, o}
    BY PeerIs DEF Checked, Server
  <1>9. s.sync \in [Device -> 0..4]
    BY DEF Server
  <1>10. /\ \A z \in Device : z # d => r.sync[z] = s.sync[z]
         /\ r.sync[d] = IF this THEN FrozenNoEvent ELSE Thawed
    BY <1>7, <1>9
  <1> QED BY <1>6, <1>7, <1>8, <1>10

\* What a freeze that trips changes: the device freezes, and with it the other
\* one, by its own grab if that is of the same client, or on the client's behalf.
LEMMA TripFacts ==
    ASSUME NEW s \in Server, NEW d \in Device, NEW o \in Client, NEW r, r = Trip(s, d, o)
    PROVE  /\ r \in Server
           /\ \A x \in Device : \/ r.sync[x] = s.sync[x]
                                \/ x = d /\ r.sync[x] = FrozenWithEvent
                                \/ x = Peer(d) /\ BridgedOwner(s, x) = o
           /\ \A x \in Device : r.other[x] \in {s.other[x], o}
           /\ \A x \in Device : Frozen(s, x) => Frozen(r, x)
           /\ s.sync[d] \notin {FreezeNextEvent, FreezeBothNextEvent} => r = s
           /\ r.forms = s.forms
           /\ PointerPart(r) = PointerPart(s) /\ KeyboardPart(r) = KeyboardPart(s)
           /\ Queues(r) = Queues(s)
  <1> DEFINE p == Peer(d)
             b1 == [s EXCEPT !.sync[p] = FrozenNoEvent]
             b2 == [s EXCEPT !.other[p] = o]
             r1 == [b1 EXCEPT !.sync[d] = FrozenWithEvent]
             r2 == [b2 EXCEPT !.sync[d] = FrozenWithEvent]
             r3 == [s EXCEPT !.sync[d] = FrozenWithEvent]
  <1>0. /\ FrozenNoEvent \in 0..4 /\ FrozenWithEvent \in 0..4 /\ o \in Owner /\ p \in Device
        /\ p # d
    BY PeerIs DEF FrozenNoEvent, FrozenWithEvent, Owner
  <1>1. b1 \in Server /\ b2 \in Server /\ r3 \in Server
    <2> HIDE DEF p
    <2> QED BY <1>0, SyncTyped, OtherTyped
  <1>2. r1 \in Server /\ r2 \in Server
    <2> HIDE DEF b1, b2
    <2> QED BY <1>0, <1>1, SyncTyped
  <1>3. \/ r = r1 /\ s.sync[p] = FreezeBothNextEvent /\ BridgedOwner(s, p) = o
        \/ r = r2
        \/ r = r3
        \/ r = s
    <2> HIDE DEF p
    <2>1. CASE s.sync[d] = FreezeBothNextEvent
      <3>1. r = [(IF s.sync[p] = FreezeBothNextEvent /\ BridgedOwner(s, p) = o
                  THEN b1 ELSE b2) EXCEPT !.sync[d] = FrozenWithEvent]
        BY <2>1 DEF Trip, FreezeBothNextEvent, FreezeNextEvent, p
      <3> QED BY <3>1
    <2>2. CASE s.sync[d] # FreezeBothNextEvent
      BY <2>2 DEF Trip, FreezeBothNextEvent, FreezeNextEvent
    <2> QED BY <2>1, <2>2
  <1>4. s.sync[d] \notin {FreezeNextEvent, FreezeBothNextEvent} => r = s
    BY DEF Trip
  <1>5. \A t : t \in {r1, r2, r3} =>
           /\ t.forms = s.forms
           /\ PointerPart(t) = PointerPart(s) /\ KeyboardPart(t) = KeyboardPart(s)
           /\ Queues(t) = Queues(s)
    BY ZenonT(60) DEF Server, PointerPart, KeyboardPart, Queues
  <1>6. /\ r1.sync = [[s.sync EXCEPT ![p] = FrozenNoEvent] EXCEPT ![d] = FrozenWithEvent]
        /\ r1.other = s.other
        /\ r2.sync = [s.sync EXCEPT ![d] = FrozenWithEvent]
        /\ r2.other = [s.other EXCEPT ![p] = o]
        /\ r3.sync = [s.sync EXCEPT ![d] = FrozenWithEvent]
        /\ r3.other = s.other
    <2> HIDE DEF p
    <2> QED BY DEF Server
  <1>7. s.sync \in [Device -> 0..4] /\ s.other \in [Device -> Owner] /\ o # None
    BY GrabAssumption DEF Server
  <1> HIDE DEF r1, r2, r3, p
  <1>8. ASSUME NEW x \in Device
        PROVE  /\ \/ r.sync[x] = s.sync[x]
                  \/ x = d /\ r.sync[x] = FrozenWithEvent
                  \/ x = p /\ BridgedOwner(s, x) = o
               /\ r.other[x] \in {s.other[x], o}
               /\ Frozen(s, x) => Frozen(r, x)
    <2>1. /\ \/ r.sync[x] = s.sync[x]
             \/ x = d /\ r.sync[x] = FrozenWithEvent
             \/ x = p /\ BridgedOwner(s, x) = o /\ r.sync[x] = FrozenNoEvent
          /\ r.other[x] \in {s.other[x], o}
      BY <1>0, <1>3, <1>6, <1>7
    <2> QED BY <1>7, <2>1 DEF Frozen, FrozenNoEvent, FrozenWithEvent
  <1>9. /\ r.forms = s.forms
        /\ PointerPart(r) = PointerPart(s) /\ KeyboardPart(r) = KeyboardPart(s)
        /\ Queues(r) = Queues(s)
    BY <1>3, <1>5
  <1>10. r \in Server
    BY <1>1, <1>2, <1>3
  <1> QED BY <1>4, <1>8, <1>9, <1>10 DEF p

LEMMA BridgedIs ==
    ASSUME NEW s \in Server, NEW d \in Device
    PROVE  BridgedOwner(s, d) \in Owner /\ GrabOwner(s, d) \in Owner
  <1>1. s.kgrab.owner \in Owner
    BY DEF Server, NoGrab, Owner
  <1>2. s.active \in Owner /\ s.pgrab \in Owner
    BY DEF Server
  <1> QED BY <1>1, <1>2 DEF BridgedOwner, GrabOwner

\* An event's XI 1.x form is withheld, trips an armed freeze or passes.
LEMMA DeviceFormFacts ==
    ASSUME NEW s \in Server, NEW d \in Device, NEW r, r = DeviceForm(s, d)
    PROVE  /\ r \in Server
           /\ \A x \in Device : r.sync[x] = s.sync[x] \/ BridgedOwner(s, x) # None
           /\ \A x \in Device : r.other[x] # s.other[x] =>
                 r.other[x] = BridgedOwner(s, d) /\ r.other[x] # None
           /\ \A x \in Device : Frozen(s, x) => Frozen(r, x)
           /\ s.sync[d] \notin {FreezeNextEvent, FreezeBothNextEvent} =>
                 r.sync = s.sync /\ r.other = s.other
           /\ \A x \in Device :
                 r.forms[x] = IF x = d /\ Frozen(s, d) THEN s.forms[x] + 1 ELSE s.forms[x]
           /\ PointerPart(r) = PointerPart(s) /\ KeyboardPart(r) = KeyboardPart(s)
           /\ Queues(r) = Queues(s)
  <1>1. CASE Frozen(s, d)
    <2>1. r = [s EXCEPT !.forms[d] = s.forms[d] + 1]
      BY <1>1 DEF DeviceForm
    <2>2. s.forms[d] + 1 \in Nat
      BY DEF Server
    <2>3. r \in Server
      BY <2>1, <2>2, FormsTyped
    <2>4. /\ r.sync = s.sync /\ r.other = s.other
          /\ r.forms = [s.forms EXCEPT ![d] = @ + 1]
          /\ PointerPart(r) = PointerPart(s) /\ KeyboardPart(r) = KeyboardPart(s)
          /\ Queues(r) = Queues(s)
      BY <2>1 DEF Server, PointerPart, KeyboardPart, Queues
    <2>5. s.forms \in [Device -> Nat]
      BY DEF Server
    <2>6. \A x \in Device : r.forms[x] = IF x = d THEN s.forms[x] + 1 ELSE s.forms[x]
      BY <2>4, <2>5
    <2> QED BY <1>1, <2>3, <2>4, <2>6 DEF Frozen
  <1>2. CASE ~Frozen(s, d) /\ BridgedOwner(s, d) # None
    <2>1. r = Trip(s, d, BridgedOwner(s, d))
      BY <1>2 DEF DeviceForm
    <2>2. BridgedOwner(s, d) \in Client
      BY <1>2, BridgedIs DEF Owner
    <2> QED BY <1>2, <2>1, <2>2, TripFacts, GrabAssumption
  <1>3. CASE ~Frozen(s, d) /\ BridgedOwner(s, d) = None
    BY <1>3 DEF DeviceForm
  <1> QED BY <1>1, <1>2, <1>3

LEMMA DeliveredFacts ==
    ASSUME NEW s \in Server, NEW to \in Client \cup {"focus"}, NEW e \in KeyEvent,
           NEW r, r = Delivered(s, to, e)
    PROVE  /\ r \in Server
           /\ r.sync = s.sync /\ r.other = s.other /\ r.forms = s.forms
           /\ PointerPart(r) = PointerPart(s) /\ KeyboardPart(r) = KeyboardPart(s)
           /\ r.pqueue = s.pqueue /\ r.keys = s.keys /\ r.request = s.request
           /\ Len(r.out) = Len(s.out) + 1 /\ r.out[Len(r.out)].key = e
           /\ \A i \in 1..Len(s.out) : r.out[i] = s.out[i]
  <1>1. Append(s.out, [to |-> to, key |-> e]) \in Seq(Sent)
    BY DEF Server, Sent
  <1>2. /\ r \in Server
        /\ r.sync = s.sync /\ r.other = s.other /\ r.forms = s.forms
        /\ PointerPart(r) = PointerPart(s) /\ KeyboardPart(r) = KeyboardPart(s)
        /\ r.pqueue = s.pqueue /\ r.keys = s.keys /\ r.request = s.request
    BY <1>1 DEF Delivered, Server, PointerPart, KeyboardPart, Sent
  <1>3. r.out = Append(s.out, [to |-> to, key |-> e])
    BY DEF Delivered, Server
  <1>4. s.out \in Seq(Sent)
    BY DEF Server, Sent
  <1>5. /\ Len(r.out) = Len(s.out) + 1 /\ r.out[Len(r.out)].key = e
        /\ \A i \in 1..Len(s.out) : r.out[i] = s.out[i]
    BY <1>3, <1>4
  <1> QED BY <1>2, <1>5

LEMMA KgrabTyped ==
    ASSUME NEW s \in Server, NEW g \in {NoGrab} \cup [owner : Client, key : Key \cup {None}]
    PROVE  [s EXCEPT !.kgrab = g] \in Server
  BY DEF Server

LEMMA HeldKeyTyped ==
    ASSUME NEW s \in Server, NEW e \in KeyEvent \cup {None}
    PROVE  [s EXCEPT !.heldKey = e] \in Server
  BY DEF Server

LEMMA KeysTyped ==
    ASSUME NEW s \in Server, NEW q \in Seq(KeyEvent)
    PROVE  [s EXCEPT !.keys = q] \in Server
  BY DEF Server

LEMMA PqueueTyped ==
    ASSUME NEW s \in Server, NEW q \in Seq(ButtonEvent)
    PROVE  [s EXCEPT !.pqueue = q] \in Server
  BY DEF Server

-----------------------------------------------------------------------------
(* What replays keep.                                                       *)

\* The records of a grab agree; a key grab has an owner.
Records(s) ==
    /\ s.active # None => s.pgrab = s.active /\ ~s.passive
    /\ s.passive => s.pgrab # None
    /\ s.press => s.pgrab # None
    /\ s.heldKey # None => s.kgrab # NoGrab

\* Devices frozen by a grab of their own have a grab, but for those of D.
Held(s, D) ==
    \A x \in Device \ D : s.sync[x] >= FrozenNoEvent => GrabOwner(s, x) # None

\* c has no grab, registered none, and no device is held on its behalf, but
\* for those of D.
Free(s, c, D) ==
    /\ c \notin {s.pgrab, s.active, s.kgrab.owner}
    /\ \A g \in s.keyGrabs : g.owner # c
    /\ \A x \in Device \ D : s.other[x] # c

\* What s promised of grabs and freezes, t promises, whoever is let go.
Sane(s, t) ==
    /\ t \in Server
    /\ PointerPart(t) = PointerPart(s) /\ t.keyGrabs = s.keyGrabs /\ t.request = s.request
    /\ Records(s) => Records(t)
    /\ \A D \in SUBSET Device : Held(s, D) => Held(t, D)
    /\ \A c \in Client, D \in SUBSET Device : Free(s, c, D) => Free(t, c, D)

LEMMA SaneRefl == ASSUME NEW s \in Server PROVE Sane(s, s)
  BY DEF Sane

LEMMA SaneTrans ==
    ASSUME NEW s, NEW t, NEW u, Sane(s, t), Sane(t, u)
    PROVE  Sane(s, u)
  BY DEF Sane

\* Where the grabs stay as they are.
LEMMA SameGrabsSane ==
    ASSUME NEW s \in Server, NEW t \in Server,
           PointerPart(t) = PointerPart(s), KeyboardPart(t) = KeyboardPart(s),
           t.request = s.request,
           \A x \in Device : \/ t.sync[x] = s.sync[x]
                             \/ t.sync[x] < FrozenNoEvent
                             \/ BridgedOwner(s, x) # None,
           \A x \in Device : \/ t.other[x] \in {s.other[x], None}
                             \/ t.other[x] \in {s.active, s.kgrab.owner}
    PROVE  Sane(s, t)
  <1>1. \A x \in Device : GrabOwner(t, x) = GrabOwner(s, x)
    BY DEF GrabOwner, BridgedOwner, PointerPart, KeyboardPart
  <1>2. Records(s) => Records(t)
    BY DEF Records, PointerPart, KeyboardPart
  <1>3. \A x \in Device : t.sync[x] \in 0..4 /\ s.sync[x] \in 0..4
    BY DEF Server
  <1>4. ASSUME NEW D \in SUBSET Device, Held(s, D) PROVE Held(t, D)
    <2> SUFFICES ASSUME NEW x \in Device \ D, t.sync[x] >= FrozenNoEvent
                 PROVE  GrabOwner(s, x) # None
      BY <1>1 DEF Held
    <2>1. CASE BridgedOwner(s, x) # None
      BY <2>1 DEF GrabOwner
    <2>2. CASE t.sync[x] = s.sync[x]
      BY <1>4, <2>2 DEF Held
    <2>3. ~(t.sync[x] < FrozenNoEvent)
      BY <1>3 DEF FrozenNoEvent
    <2> QED BY <2>1, <2>2, <2>3
  <1>5. ASSUME NEW c \in Client, NEW D \in SUBSET Device, Free(s, c, D) PROVE Free(t, c, D)
    BY <1>5, GrabAssumption DEF Free, PointerPart, KeyboardPart
  <1>6. t.keyGrabs = s.keyGrabs
    BY DEF KeyboardPart
  <1> QED BY <1>2, <1>4, <1>5, <1>6 DEF Sane

LEMMA DeviceFormSane ==
    ASSUME NEW s \in Server, NEW d \in Device
    PROVE  Sane(s, DeviceForm(s, d))
  <1>1. BridgedOwner(s, d) \in {s.active, s.kgrab.owner}
    BY DEF BridgedOwner
  <1>0. PICK r : r = DeviceForm(s, d)
    OBVIOUS
  <1>2. /\ r \in Server /\ r.request = s.request
        /\ PointerPart(r) = PointerPart(s) /\ KeyboardPart(r) = KeyboardPart(s)
        /\ \A x \in Device : r.sync[x] = s.sync[x] \/ BridgedOwner(s, x) # None
        /\ \A x \in Device : r.other[x] # s.other[x] => r.other[x] = BridgedOwner(s, d)
    <2>1. Queues(r) = Queues(s)
      BY <1>0, DeviceFormFacts
    <2>2. r.request = s.request
      BY <2>1 DEF Queues
    <2>3. r \in Server
      BY <1>0, DeviceFormFacts
    <2>4. PointerPart(r) = PointerPart(s) /\ KeyboardPart(r) = KeyboardPart(s)
      BY <1>0, DeviceFormFacts
    <2>5. \A x \in Device : r.sync[x] = s.sync[x] \/ BridgedOwner(s, x) # None
      BY <1>0, DeviceFormFacts
    <2>6. \A x \in Device : r.other[x] # s.other[x] => r.other[x] = BridgedOwner(s, d)
      BY <1>0, DeviceFormFacts
    <2> QED BY <2>2, <2>3, <2>4, <2>5, <2>6
  <1>3. Sane(s, r)
    BY <1>1, <1>2, SameGrabsSane
  <1> QED BY <1>0, <1>3

LEMMA DeliveredSane ==
    ASSUME NEW s \in Server, NEW to \in Client \cup {"focus"}, NEW e \in KeyEvent
    PROVE  Sane(s, Delivered(s, to, e))
  <1>0. PICK r : r = Delivered(s, to, e)
    OBVIOUS
  <1>1. /\ r \in Server /\ r.request = s.request
        /\ PointerPart(r) = PointerPart(s) /\ KeyboardPart(r) = KeyboardPart(s)
        /\ r.sync = s.sync /\ r.other = s.other
    BY <1>0, DeliveredFacts
  <1>2. Sane(s, r)
    BY <1>1, SameGrabsSane
  <1> QED BY <1>0, <1>2

\* The passive grab of a key ends with its release.
LEMMA EndedSane ==
    ASSUME NEW s \in Server, NEW o
    PROVE  Sane(s, Released([s EXCEPT !.kgrab = NoGrab, !.heldKey = None], "keyboard", o))
  <1> DEFINE k == [s EXCEPT !.kgrab = NoGrab]
             t == [k EXCEPT !.heldKey = None]
  <1>1. t \in Server
    <2>2. k \in Server
      BY KgrabTyped
    <2> HIDE DEF k
    <2> QED BY <2>2, HeldKeyTyped
  <1>2. /\ PointerPart(t) = PointerPart(s) /\ t.keyGrabs = s.keyGrabs
        /\ t.request = s.request /\ t.sync = s.sync /\ t.other = s.other
        /\ t.kgrab = NoGrab /\ t.heldKey = None
    BY DEF PointerPart, Server
  <1>0. PICK r : r = Released(t, "keyboard", o)
    OBVIOUS
  <1> HIDE DEF t
  <1>3. "keyboard" \in Device /\ Peer("keyboard") = "pointer" /\ Device = {"pointer", "keyboard"}
    BY DEF Device, Peer
  <1>4. /\ r \in Server
        /\ \A x \in Device : r.sync[x] = IF x = "keyboard" THEN Thawed ELSE t.sync[x]
        /\ \A x \in Device : r.other[x] = IF x = Peer("keyboard") /\ t.other[x] = o
                                          THEN None ELSE t.other[x]
        /\ PointerPart(r) = PointerPart(t) /\ KeyboardPart(r) = KeyboardPart(t)
        /\ Queues(r) = Queues(t)
    BY <1>0, <1>1, <1>3, ReleasedFacts
  <1>5. /\ PointerPart(r) = PointerPart(s) /\ r.keyGrabs = s.keyGrabs /\ r.request = s.request
        /\ r.kgrab = NoGrab /\ r.heldKey = None
    BY <1>2, <1>4 DEF KeyboardPart, Queues
  <1>6. Records(s) => Records(r)
    BY <1>5 DEF Records, PointerPart
  <1>7. /\ r.sync["keyboard"] = Thawed /\ r.sync["pointer"] = s.sync["pointer"]
        /\ \A x \in Device : r.other[x] \in {s.other[x], None}
    BY <1>2, <1>3, <1>4
  <1>8. ASSUME NEW D \in SUBSET Device, Held(s, D) PROVE Held(r, D)
    BY <1>3, <1>5, <1>7, <1>8
       DEF Held, GrabOwner, BridgedOwner, PointerPart, Thawed, FrozenNoEvent
  <1>9. ASSUME NEW c \in Client, NEW D \in SUBSET Device, Free(s, c, D) PROVE Free(r, c, D)
    BY <1>5, <1>7, <1>9, GrabAssumption DEF Free, PointerPart, NoGrab
  <1>10. r = Released([s EXCEPT !.kgrab = NoGrab, !.heldKey = None], "keyboard", o)
    BY <1>0 DEF t
  <1> QED BY <1>4, <1>5, <1>6, <1>8, <1>9, <1>10 DEF Sane

\* The passive grab of a key begins with its press.
LEMMA BegunSane ==
    ASSUME NEW s \in Server, NEW e \in KeyEvent, NEW g \in Activates(s, e)
    PROVE  Sane(s, Checked([s EXCEPT !.kgrab = [owner |-> g.owner, key |-> e.key]],
                           "keyboard", g.owner, g.this, g.paired))
  <1> DEFINE t == [s EXCEPT !.kgrab = [owner |-> g.owner, key |-> e.key]]
             r == Checked(t, "keyboard", g.owner, g.this, g.paired)
  <1>0. /\ g \in s.keyGrabs /\ g.owner \in Client /\ g.owner # None
        /\ g.this \in BOOLEAN /\ g.paired \in BOOLEAN /\ s.kgrab = NoGrab /\ e.key \in Key
    BY GrabAssumption DEF Activates, Server, KeyGrab, KeyEvent
  <1>1. t \in Server
    <2>1. [owner |-> g.owner, key |-> e.key] \in [owner : Client, key : Key \cup {None}]
      BY <1>0
    <2> QED BY <2>1, KgrabTyped
  <1>2. /\ PointerPart(t) = PointerPart(s) /\ t.keyGrabs = s.keyGrabs
        /\ t.request = s.request /\ t.sync = s.sync /\ t.other = s.other
        /\ t.kgrab.owner = g.owner /\ t.heldKey = s.heldKey
    BY DEF PointerPart, Server
  <1> HIDE DEF t
  <1>3. "keyboard" \in Device /\ Device = {"pointer", "keyboard"}
    BY DEF Device
  <1>4. /\ r \in Server
        /\ \A x \in Device : x # "keyboard" => r.sync[x] = t.sync[x]
        /\ \A x \in Device : r.other[x] \in {t.other[x], None, g.owner}
        /\ PointerPart(r) = PointerPart(t) /\ KeyboardPart(r) = KeyboardPart(t)
        /\ Queues(r) = Queues(t)
    BY <1>0, <1>1, <1>3, CheckedFacts
  <1> HIDE DEF r
  <1>5. /\ PointerPart(r) = PointerPart(s) /\ r.keyGrabs = s.keyGrabs /\ r.request = s.request
        /\ r.kgrab.owner = g.owner /\ r.heldKey = s.heldKey
    BY <1>2, <1>4 DEF KeyboardPart, Queues
  <1>6. Records(s) => Records(r)
    <2>1. r.kgrab # NoGrab
      BY <1>0, <1>5 DEF NoGrab
    <2> QED BY <1>0, <1>5, <2>1 DEF Records, PointerPart
  <1>7. /\ r.sync["pointer"] = s.sync["pointer"]
        /\ \A x \in Device : r.other[x] \in {s.other[x], None, g.owner}
    BY <1>2, <1>3, <1>4
  <1>8. ASSUME NEW D \in SUBSET Device, Held(s, D) PROVE Held(r, D)
    BY <1>0, <1>3, <1>5, <1>7, <1>8
       DEF Held, GrabOwner, BridgedOwner, PointerPart
  <1>9. ASSUME NEW c \in Client, NEW D \in SUBSET Device, Free(s, c, D) PROVE Free(r, c, D)
    BY <1>0, <1>5, <1>7, <1>9, GrabAssumption DEF Free, PointerPart
  <1>10. r = Checked([s EXCEPT !.kgrab = [owner |-> g.owner, key |-> e.key]],
                     "keyboard", g.owner, g.this, g.paired)
    BY DEF r, t
  <1> QED BY <1>4, <1>5, <1>6, <1>8, <1>9, <1>10 DEF Sane

-----------------------------------------------------------------------------
(* What replays keep besides the grabs.                                    *)

\* The keys withheld and those delivered.
Flow(s, e) == Count(s.keys, e) + Cardinality(Sends(s.out, e))

\* ... and no key is lost or doubled.
Kept(s, t) == Sane(s, t) /\ \A e \in KeyEvent : Flow(t, e) = Flow(s, e)

\* Nothing withheld for d is open to replay.
Settled(s, d) == Frozen(s, d) \/ (s.forms[d] = 0 /\ (d = "keyboard" => s.keys = <<>>))

LEMMA ServerFields ==
    ASSUME NEW s \in Server
    PROVE  /\ Withheld(s) \in Nat /\ Len(s.keys) \in Nat
           /\ \A x \in Device : s.forms[x] \in Nat /\ s.sync[x] \in 0..4 /\ s.other[x] \in Owner
           /\ s.keys \in Seq(KeyEvent) /\ s.pqueue \in Seq(ButtonEvent) /\ s.out \in Seq(Sent)
           /\ "pointer" \in Device /\ "keyboard" \in Device
  BY DEF Server, Withheld, Device, Sent

LEMMA FlowNat ==
    ASSUME NEW s \in Server, NEW e \in KeyEvent
    PROVE  /\ Flow(s, e) \in Nat /\ Count(s.keys, e) \in Nat
           /\ Cardinality(Sends(s.out, e)) \in Nat
  <1>1. Count(s.keys, e) = Cardinality(At(s.keys, e))
    BY DEF Count, At
  <1>2. Count(s.keys, e) \in Nat /\ Cardinality(Sends(s.out, e)) \in Nat
    BY <1>1, ServerFields, AtFinite
  <1> QED BY <1>2 DEF Flow

LEMMA KeptTrans ==
    ASSUME NEW s, NEW t, NEW u, Kept(s, t), Kept(t, u)
    PROVE  Kept(s, u)
  BY SaneTrans DEF Kept

LEMMA DeviceFormKeeps ==
    ASSUME NEW s \in Server, NEW d \in Device, NEW r, r = DeviceForm(s, d)
    PROVE  /\ Kept(s, r) /\ r \in Server
           /\ Withheld(r) <= Withheld(s) + 1
           /\ ~Frozen(s, d) => Withheld(r) = Withheld(s)
           /\ \A x \in Device : Settled(s, x) => Settled(r, x)
           /\ \A x \in Device : Frozen(s, x) => Frozen(r, x)
           /\ KeyboardPart(r) = KeyboardPart(s)
           /\ r.keys = s.keys
  <1>1. Sane(s, r)
    BY DeviceFormSane
  <1>2. r \in Server /\ Queues(r) = Queues(s) /\ KeyboardPart(r) = KeyboardPart(s)
    BY DeviceFormFacts
  <1>3. r.keys = s.keys /\ r.out = s.out
    BY <1>2 DEF Queues
  <1>4. \A x \in Device : r.forms[x] = IF x = d /\ Frozen(s, d) THEN s.forms[x] + 1 ELSE s.forms[x]
    BY DeviceFormFacts
  <1>5. \A x \in Device : Frozen(s, x) => Frozen(r, x)
    BY DeviceFormFacts
  <1>6. Withheld(r) <= Withheld(s) + 1 /\ (~Frozen(s, d) => Withheld(r) = Withheld(s))
    <2>1. Device = {"pointer", "keyboard"} /\ "pointer" # "keyboard"
      BY DEF Device
    <2>2. /\ Len(s.keys) \in Nat /\ s.forms["pointer"] \in Nat /\ s.forms["keyboard"] \in Nat
      BY ServerFields
    <2>3. CASE d = "pointer"
      <3>1. r.forms["keyboard"] = s.forms["keyboard"]
        BY <1>4, <2>1, <2>3
      <3>2. r.forms["pointer"] = IF Frozen(s, d) THEN s.forms["pointer"] + 1 ELSE s.forms["pointer"]
        BY <1>4, <2>1, <2>3
      <3> QED BY SMTT(30), <1>3, <2>2, <3>1, <3>2 DEF Withheld
    <2>4. CASE d = "keyboard"
      <3>1. r.forms["pointer"] = s.forms["pointer"]
        BY <1>4, <2>1, <2>4
      <3>2. r.forms["keyboard"] =
                IF Frozen(s, d) THEN s.forms["keyboard"] + 1 ELSE s.forms["keyboard"]
        BY <1>4, <2>1, <2>4
      <3> QED BY <1>3, <2>2, <3>1, <3>2 DEF Withheld
    <2> QED BY <2>1, <2>3, <2>4
  <1>7. \A x \in Device : Settled(s, x) => Settled(r, x)
    BY <1>3, <1>4, <1>5 DEF Settled
  <1>8. Kept(s, r)
    BY <1>1, <1>3 DEF Kept, Flow
  <1> QED BY <1>2, <1>3, <1>5, <1>6, <1>7, <1>8

LEMMA DeliveredKeeps ==
    ASSUME NEW s \in Server, NEW to \in Client \cup {"focus"}, NEW e \in KeyEvent,
           NEW r, r = Delivered(s, to, e)
    PROVE  /\ Sane(s, r) /\ r \in Server
           /\ Withheld(r) = Withheld(s)
           /\ \A x \in Device : Settled(s, x) => Settled(r, x)
           /\ KeyboardPart(r) = KeyboardPart(s)
           /\ r.keys = s.keys
           /\ \A x \in Device : Frozen(r, x) = Frozen(s, x)
  <1>1. Sane(s, r)
    BY DeliveredSane
  <1>2. /\ r \in Server /\ r.sync = s.sync /\ r.other = s.other /\ r.forms = s.forms
        /\ r.keys = s.keys /\ KeyboardPart(r) = KeyboardPart(s)
    BY DeliveredFacts
  <1>3. \A x \in Device : Frozen(r, x) = Frozen(s, x)
    BY <1>2 DEF Frozen
  <1> QED BY <1>1, <1>2, <1>3 DEF Withheld, Settled

LEMMA DeliveredFlows ==
    ASSUME NEW s \in Server, NEW to \in Client \cup {"focus"}, NEW e \in KeyEvent,
           NEW r, r = Delivered(s, to, e), NEW x \in KeyEvent
    PROVE  Flow(r, x) = Flow(s, x) + IF x = e THEN 1 ELSE 0
  <1> DEFINE n == Len(s.out)
  <1>1. r \in Server /\ r.keys = s.keys
    BY DeliveredFacts
  <1>2. /\ Len(r.out) = Len(s.out) + 1 /\ r.out[Len(r.out)].key = e
        /\ \A i \in 1..Len(s.out) : r.out[i] = s.out[i]
    BY DeliveredFacts
  <1>3. n \in Nat /\ DOMAIN s.out = 1..n /\ DOMAIN r.out = 1..(n + 1)
    BY <1>1, <1>2, ServerFields
  <1>4. IsFiniteSet(Sends(s.out, x)) /\ Cardinality(Sends(s.out, x)) \in Nat
    BY ServerFields, AtFinite
  <1> HIDE DEF n
  <1>5. n + 1 \notin Sends(s.out, x)
    BY <1>3 DEF Sends
  <1>6. Len(r.out) = n + 1 /\ \A i \in 1..n : r.out[i] = s.out[i]
    BY <1>2 DEF n
  <1>7. Sends(r.out, x) = IF x = e THEN Sends(s.out, x) \cup {n + 1} ELSE Sends(s.out, x)
    BY <1>2, <1>3, <1>6 DEF Sends
  <1>8. Cardinality(Sends(r.out, x)) = Cardinality(Sends(s.out, x)) + IF x = e THEN 1 ELSE 0
    <2>1. CASE x = e
      BY SMTT(30), <1>4, <1>5, <1>7, <2>1, FS_AddElement
    <2>2. CASE x # e
      BY <1>4, <1>7, <2>2
    <2> QED BY <2>1, <2>2
  <1> QED BY <1>1, <1>8, FlowNat DEF Flow

LEMMA EndedKeeps ==
    ASSUME NEW s \in Server, NEW o, NEW r,
           r = Released([s EXCEPT !.kgrab = NoGrab, !.heldKey = None], "keyboard", o)
    PROVE  Kept(s, r) /\ r \in Server /\ Withheld(r) = Withheld(s)
  <1> DEFINE t == [s EXCEPT !.kgrab = NoGrab, !.heldKey = None]
  <1>1. Sane(s, r)
    BY EndedSane
  <1>2. r.keys = s.keys /\ r.out = s.out /\ r.forms = s.forms
    BY DEF Released, Server
  <1> QED BY <1>1, <1>2 DEF Kept, Flow, Withheld, Sane

LEMMA BegunKeeps ==
    ASSUME NEW s \in Server, NEW e \in KeyEvent, NEW g \in Activates(s, e), NEW r,
           r = Checked([s EXCEPT !.kgrab = [owner |-> g.owner, key |-> e.key]],
                       "keyboard", g.owner, g.this, g.paired)
    PROVE  /\ Kept(s, r) /\ r \in Server /\ Withheld(r) = Withheld(s)
           /\ r.kgrab # NoGrab
           /\ g.this => Frozen(r, "keyboard")
  <1>1. Sane(s, r)
    BY BegunSane
  <1>2. r.keys = s.keys /\ r.out = s.out /\ r.forms = s.forms
    BY DEF Checked, Server
  <1>3. r.kgrab.owner = g.owner
    BY DEF Checked, Server
  <1>4. g.owner # None
    BY GrabAssumption DEF Activates, Server, KeyGrab
  <1>5. g.this => r.sync["keyboard"] = FrozenNoEvent
    BY DEF Checked, Server, Device
  <1>6. ASSUME g.this PROVE Frozen(r, "keyboard")
    <2>1. r.sync["keyboard"] = FrozenNoEvent
      BY <1>5, <1>6
    <2> QED BY <2>1 DEF Frozen, FrozenNoEvent
  <1>7. r.kgrab # NoGrab
    BY <1>3, <1>4 DEF NoGrab
  <1> QED BY <1>1, <1>2, <1>6, <1>7 DEF Kept, Flow, Withheld, Sane

-----------------------------------------------------------------------------
(* Replays.                                                                *)

\* What the loop over a device may do, when n bounds what is withheld.
GoodStep(n, d, s, t) ==
    /\ t \in Server /\ Kept(s, t) /\ Withheld(t) <= Withheld(s)
    /\ d = "pointer" => /\ KeyboardPart(t) = KeyboardPart(s)
                        /\ Frozen(s, "keyboard") => Frozen(t, "keyboard")
    /\ Settled(s, d) => t = s
    /\ Withheld(s) <= n =>
          /\ Settled(t, d)
          /\ d = "keyboard" /\ Settled(s, "pointer") => Settled(t, "pointer")

\* Only the pointer's own queue may differ.
Unmoved(s, t) ==
    /\ PointerPart(t) = PointerPart(s) /\ KeyboardPart(t) = KeyboardPart(s)
    /\ t.sync = s.sync /\ t.other = s.other /\ t.forms = s.forms /\ t.keys = s.keys

\* The loops that serve all states with at most n to replay.
Good(n) == {f \in Replays : \A d \in Device, s \in Server : GoodStep(n, d, s, f[d][s])}

\* xi1_compute_freezes with such a loop.
LEMMA ComputeKeeps ==
    ASSUME NEW n \in Nat, NEW f \in Good(n), NEW s \in Server, NEW r, r = Compute(f, s)
    PROVE  /\ Kept(s, r) /\ r \in Server /\ Withheld(r) <= Withheld(s)
           /\ Frozen(s, "keyboard") => KeyboardPart(r) = KeyboardPart(s)
           /\ Withheld(s) <= n => \A d \in Device : Settled(r, d)
           /\ Settled(s, "pointer") /\ Settled(s, "keyboard") => Unmoved(s, r)
  <1> DEFINE p == f["pointer"][s]
             t == f["keyboard"][p]
  <1>1. "pointer" \in Device /\ "keyboard" \in Device /\ Device = {"pointer", "keyboard"}
    BY DEF Device
  <1>2. GoodStep(n, "pointer", s, p)
    BY <1>1 DEF Good
  <1>3. p \in Server /\ Kept(s, p) /\ Withheld(p) <= Withheld(s)
    BY <1>2 DEF GoodStep
  <1>4. KeyboardPart(p) = KeyboardPart(s) /\ (Frozen(s, "keyboard") => Frozen(p, "keyboard"))
    BY <1>2 DEF GoodStep
  <1>5. Withheld(s) <= n => Settled(p, "pointer")
    BY <1>2 DEF GoodStep
  <1>51. Settled(s, "pointer") => p = s
    BY <1>2 DEF GoodStep
  <1> HIDE DEF p
  <1>6. GoodStep(n, "keyboard", p, t)
    BY <1>1, <1>3 DEF Good
  <1>7. t \in Server /\ Kept(p, t) /\ Withheld(t) <= Withheld(p) /\ (Settled(p, "keyboard") => t = p)
    BY <1>6 DEF GoodStep
  <1>8. Withheld(p) <= n /\ Settled(p, "pointer") => Settled(t, "keyboard") /\ Settled(t, "pointer")
    BY <1>6 DEF GoodStep
  <1>9. Kept(s, t)
    BY <1>3, <1>7, KeptTrans
  <1>10. Frozen(s, "keyboard") => t = p
    BY <1>4, <1>7 DEF Settled
  <1>11. r = IF ~Frozen(t, "pointer") /\ ~t.press THEN [t EXCEPT !.pqueue = <<>>] ELSE t
    BY DEF Compute, p
  <1> HIDE DEF t
  <1>12. /\ r \in Server /\ PointerPart(r) = PointerPart(t) /\ KeyboardPart(r) = KeyboardPart(t)
         /\ r.request = t.request /\ r.sync = t.sync /\ r.other = t.other
         /\ r.forms = t.forms /\ r.keys = t.keys /\ r.out = t.out
    <2>1. <<>> \in Seq(ButtonEvent)
      OBVIOUS
    <2>2. [t EXCEPT !.pqueue = <<>>] \in Server
      BY <1>7, <2>1, PqueueTyped
    <2> DEFINE u == [t EXCEPT !.pqueue = <<>>]
    <2>3. /\ PointerPart(u) = PointerPart(t) /\ KeyboardPart(u) = KeyboardPart(t)
          /\ u.request = t.request /\ u.sync = t.sync /\ u.other = t.other
          /\ u.forms = t.forms /\ u.keys = t.keys /\ u.out = t.out
      BY <1>7 DEF Server, PointerPart, KeyboardPart
    <2>4. r = u \/ r = t
      BY <1>11
    <2> HIDE DEF u
    <2> QED BY <1>7, <2>2, <2>3, <2>4 DEF u
  <1>13. Kept(t, r)
    <2>1. Sane(t, r)
      BY <1>7, <1>12, SameGrabsSane
    <2> QED BY <1>12, <2>1 DEF Kept, Flow
  <1>14. Kept(s, r)
    BY <1>9, <1>13, KeptTrans
  <1>15. Withheld(r) = Withheld(t) /\ \A d \in Device : Settled(t, d) => Settled(r, d)
    BY <1>12 DEF Withheld, Settled, Frozen
  <1>16. Withheld(r) <= Withheld(s)
    BY <1>3, <1>7, <1>15, ServerFields
  <1>17. Frozen(s, "keyboard") => KeyboardPart(r) = KeyboardPart(s)
    BY <1>4, <1>10, <1>12
  <1>18. ASSUME Withheld(s) <= n PROVE \A d \in Device : Settled(r, d)
    <2>1. Withheld(p) <= n
      BY <1>3, <1>18, ServerFields
    <2> QED BY <1>1, <1>5, <1>8, <1>15, <1>18, <2>1
  <1>19. Settled(s, "pointer") /\ Settled(s, "keyboard") => Unmoved(s, r)
    BY <1>51, <1>7, <1>12 DEF Unmoved
  <1> QED BY <1>12, <1>14, <1>16, <1>17, <1>18, <1>19

LEMMA KeyRoutedKeeps ==
    ASSUME NEW n \in Nat, NEW f \in Good(n), NEW s \in Server, NEW e \in KeyEvent,
           NEW r, r = KeyRouted(f, s, e)
    PROVE  /\ Kept(s, r) /\ r \in Server /\ Withheld(r) <= Withheld(s)
           /\ Withheld(s) <= n => \A d \in Device : Settled(s, d) => Settled(r, d)
           /\ ~Ends(s, e) /\ Activates(s, e) # {} =>
                 LET g == CHOOSE g \in Activates(s, e) : TRUE
                 IN  g.this => r.kgrab # NoGrab
  <1> DEFINE g == CHOOSE g \in Activates(s, e) : TRUE
  <1>1. CASE Ends(s, e)
    <2>1. PICK t : t = Released([s EXCEPT !.kgrab = NoGrab, !.heldKey = None],
                                "keyboard", s.kgrab.owner)
      OBVIOUS
    <2>2. r = Compute(f, t)
      BY <1>1, <2>1 DEF KeyRouted
    <2>3. Kept(s, t) /\ t \in Server /\ Withheld(t) = Withheld(s)
      BY <2>1, EndedKeeps
    <2>4. Kept(t, r) /\ r \in Server /\ Withheld(r) <= Withheld(t)
      BY <2>2, <2>3, ComputeKeeps
    <2>5. Withheld(t) <= n => \A d \in Device : Settled(r, d)
      BY <2>2, <2>3, ComputeKeeps
    <2>6. Kept(s, r)
      BY <2>3, <2>4, KeptTrans
    <2> QED BY <1>1, <2>3, <2>4, <2>5, <2>6
  <1>2. CASE ~Ends(s, e) /\ Activates(s, e) # {}
    <2>0. g \in Activates(s, e)
      BY <1>2
    <2>1. PICK t : t = Checked([s EXCEPT !.kgrab = [owner |-> g.owner, key |-> e.key]],
                               "keyboard", g.owner, g.this, g.paired)
      OBVIOUS
    <2>2. r = Compute(f, t)
      BY <1>2, <2>1 DEF KeyRouted
    <2> HIDE DEF g
    <2>3. Kept(s, t) /\ t \in Server /\ Withheld(t) = Withheld(s)
      BY <2>0, <2>1, BegunKeeps
    <2>4. t.kgrab # NoGrab /\ (g.this => Frozen(t, "keyboard"))
      BY <2>0, <2>1, BegunKeeps
    <2>5. Kept(t, r) /\ r \in Server /\ Withheld(r) <= Withheld(t)
      BY <2>2, <2>3, ComputeKeeps
    <2>6. Withheld(t) <= n => \A d \in Device : Settled(r, d)
      BY <2>2, <2>3, ComputeKeeps
    <2>7. Frozen(t, "keyboard") => KeyboardPart(r) = KeyboardPart(t)
      BY <2>2, <2>3, ComputeKeeps
    <2>8. Kept(s, r)
      BY <2>3, <2>5, KeptTrans
    <2>9. ASSUME g.this PROVE r.kgrab # NoGrab
      BY <2>4, <2>7, <2>9 DEF KeyboardPart
    <2>10. LET h == CHOOSE h \in Activates(s, e) : TRUE
           IN  h.this => r.kgrab # NoGrab
      BY <2>9 DEF g
    <2> QED BY <1>2, <2>3, <2>5, <2>6, <2>8, <2>10
  <1>3. CASE ~Ends(s, e) /\ Activates(s, e) = {}
    <2>1. r = s
      BY <1>3 DEF KeyRouted
    <2> QED BY <1>3, <2>1, SaneRefl, ServerFields DEF Kept
  <1> QED BY <1>1, <1>2, <1>3

LEMMA HoldsKeySane ==
    ASSUME NEW s \in Server, NEW e \in KeyEvent, s.kgrab # NoGrab, NEW r,
           r = [s EXCEPT !.heldKey = e]
    PROVE  Kept(s, r) /\ r \in Server /\ Withheld(r) = Withheld(s)
           /\ \A d \in Device : Settled(s, d) => Settled(r, d)
  <1>1. r \in Server
    BY HeldKeyTyped
  <1>2. /\ PointerPart(r) = PointerPart(s) /\ r.kgrab = s.kgrab /\ r.keyGrabs = s.keyGrabs
        /\ r.request = s.request /\ r.sync = s.sync /\ r.other = s.other
        /\ r.forms = s.forms /\ r.keys = s.keys /\ r.out = s.out
    BY DEF Server, PointerPart
  <1>3. Records(s) => Records(r)
    BY <1>2 DEF Records, PointerPart
  <1>4. \A D \in SUBSET Device : Held(s, D) => Held(r, D)
    BY <1>2 DEF Held, GrabOwner, BridgedOwner, PointerPart
  <1>5. \A c \in Client, D \in SUBSET Device : Free(s, c, D) => Free(r, c, D)
    BY <1>2 DEF Free, PointerPart
  <1>6. Sane(s, r)
    BY <1>1, <1>2, <1>3, <1>4, <1>5 DEF Sane
  <1>7. Withheld(r) = Withheld(s) /\ \A d \in Device : Settled(s, d) => Settled(r, d)
    BY <1>2 DEF Withheld, Settled, Frozen
  <1> QED BY <1>1, <1>2, <1>6, <1>7 DEF Kept, Flow

LEMMA DeliverRoutedKeyKeeps ==
    ASSUME NEW n \in Nat, NEW f \in Good(n), NEW s \in Server, NEW e \in KeyEvent,
           NEW r, r = DeliverRoutedKey(f, s, e)
    PROVE  /\ Sane(s, r) /\ r \in Server /\ Withheld(r) <= Withheld(s) + 1
           /\ \A x \in KeyEvent : Flow(r, x) = Flow(s, x) + IF x = e THEN 1 ELSE 0
           /\ Withheld(s) <= n => \A d \in Device : Settled(s, d) => Settled(r, d)
  <1> DEFINE g == CHOOSE g \in Activates(s, e) : TRUE
             to == IF s.kgrab # NoGrab THEN s.kgrab.owner
                   ELSE IF Activates(s, e) # {} THEN g.owner ELSE "focus"
  <1>1. PICK k : k = KeyRouted(f, s, e)
    OBVIOUS
  <1>2. PICK h : h = IF Activates(s, e) # {} /\ g.this THEN [k EXCEPT !.heldKey = e] ELSE k
    OBVIOUS
  <1>3. PICK t : t = Delivered(h, to, e)
    OBVIOUS
  <1>4. r = DeviceForm(t, "keyboard")
    BY <1>1, <1>2, <1>3 DEF DeliverRoutedKey
  <1>5. Kept(s, k) /\ k \in Server /\ Withheld(k) <= Withheld(s)
    BY <1>1, KeyRoutedKeeps
  <1>6. Withheld(s) <= n => \A d \in Device : Settled(s, d) => Settled(k, d)
    BY <1>1, KeyRoutedKeeps
  <1>7. ASSUME Activates(s, e) # {}, g.this PROVE k.kgrab # NoGrab
    <2>1. ~Ends(s, e)
      BY <1>7 DEF Activates, Ends
    <2>2. ~Ends(s, e) /\ Activates(s, e) # {} =>
             LET g1 == CHOOSE g1 \in Activates(s, e) : TRUE
             IN  g1.this => k.kgrab # NoGrab
      BY <1>1, KeyRoutedKeeps
    <2> QED BY <1>7, <2>1, <2>2
  <1>8. to \in Client \cup {"focus"}
    <2>1. CASE Activates(s, e) # {}
      <3>1. g \in Activates(s, e)
        BY <2>1
      <3>2. g.owner \in Client /\ s.kgrab = NoGrab
        BY <3>1 DEF Activates, Server, KeyGrab
      <3> QED BY <2>1, <3>2
    <2>2. CASE Activates(s, e) = {}
      <3>1. s.kgrab # NoGrab => s.kgrab.owner \in Client
        BY DEF Server
      <3> QED BY <2>2, <3>1
    <2> QED BY <2>1, <2>2
  <1>9. Kept(k, h) /\ h \in Server /\ Withheld(h) = Withheld(k)
        /\ \A d \in Device : Settled(k, d) => Settled(h, d)
    <2>1. CASE Activates(s, e) # {} /\ g.this
      <3>1. k.kgrab # NoGrab
        BY <1>7, <2>1
      <3>2. h = [k EXCEPT !.heldKey = e]
        BY <1>2, <2>1
      <3> QED BY <1>5, <3>1, <3>2, HoldsKeySane
    <2>2. CASE ~(Activates(s, e) # {} /\ g.this)
      BY <1>2, <1>5, <2>2, SaneRefl DEF Kept
    <2> QED BY <2>1, <2>2
  <1> HIDE DEF g, to
  <1>10. Sane(h, t) /\ t \in Server /\ Withheld(t) = Withheld(h)
    BY <1>3, <1>8, <1>9, DeliveredKeeps
  <1>11. \A x \in KeyEvent : Flow(t, x) = Flow(h, x) + IF x = e THEN 1 ELSE 0
    BY <1>3, <1>8, <1>9, DeliveredFlows
  <1>12. \A d \in Device : Settled(h, d) => Settled(t, d)
    BY <1>3, <1>8, <1>9, DeliveredKeeps
  <1>13. "keyboard" \in Device
    BY DEF Device
  <1>14. /\ Kept(t, r) /\ r \in Server /\ Withheld(r) <= Withheld(t) + 1
         /\ \A d \in Device : Settled(t, d) => Settled(r, d)
    BY <1>4, <1>10, <1>13, DeviceFormKeeps
  <1>15. Sane(s, r)
    BY <1>5, <1>9, <1>10, <1>14, SaneTrans DEF Kept
  <1>16. Withheld(r) <= Withheld(s) + 1
    BY <1>5, <1>9, <1>10, <1>14, ServerFields
  <1>17. \A x \in KeyEvent : Flow(r, x) = Flow(s, x) + IF x = e THEN 1 ELSE 0
    BY <1>5, <1>9, <1>11, <1>14 DEF Kept
  <1>18. Withheld(s) <= n => \A d \in Device : Settled(s, d) => Settled(r, d)
    BY <1>6, <1>9, <1>12, <1>14
  <1> QED BY <1>14, <1>15, <1>16, <1>17, <1>18

\* A key leaves the queue.
LEMMA KeyTakenKeeps ==
    ASSUME NEW s \in Server, s.keys # <<>>, NEW r, r = [s EXCEPT !.keys = Tail(@)]
    PROVE  /\ Sane(s, r) /\ r \in Server /\ Withheld(r) = Withheld(s) - 2
           /\ Head(s.keys) \in KeyEvent
           /\ \A x \in KeyEvent : Flow(s, x) = Flow(r, x) + IF x = Head(s.keys) THEN 1 ELSE 0
           /\ \A x \in Device : Frozen(r, x) = Frozen(s, x)
           /\ Settled(s, "pointer") => Settled(r, "pointer")
  <1>1. s.keys \in Seq(KeyEvent)
    BY ServerFields
  <1>2. Tail(s.keys) \in Seq(KeyEvent) /\ Head(s.keys) \in KeyEvent
        /\ Len(Tail(s.keys)) = Len(s.keys) - 1
    BY <1>1
  <1>3. r \in Server
    BY <1>2, KeysTyped
  <1>4. /\ PointerPart(r) = PointerPart(s) /\ KeyboardPart(r) = KeyboardPart(s)
        /\ r.request = s.request /\ r.sync = s.sync /\ r.other = s.other
        /\ r.forms = s.forms /\ r.keys = Tail(s.keys) /\ r.out = s.out
    BY DEF Server, PointerPart, KeyboardPart
  <1>5. Sane(s, r)
    BY <1>3, <1>4, SameGrabsSane
  <1>6. Withheld(r) = Withheld(s) - 2
    <2>1. /\ Len(s.keys) \in Nat /\ s.forms["pointer"] \in Nat /\ s.forms["keyboard"] \in Nat
      BY ServerFields
    <2>2. Len(r.keys) = Len(s.keys) - 1
      BY <1>2, <1>4
    <2> QED BY ONLY <1>4, <2>1, <2>2 DEF Withheld
  <1>7. ASSUME NEW x \in KeyEvent
        PROVE Flow(s, x) = Flow(r, x) + IF x = Head(s.keys) THEN 1 ELSE 0
    <2>1. Count(s.keys, x) = Count(r.keys, x) + IF Head(s.keys) = x THEN 1 ELSE 0
      BY <1>1, <1>4, CountTail
    <2>2. Cardinality(Sends(r.out, x)) = Cardinality(Sends(s.out, x))
      BY <1>4
    <2>3. /\ Count(r.keys, x) \in Nat /\ Count(s.keys, x) \in Nat
          /\ Cardinality(Sends(s.out, x)) \in Nat
      BY <1>3, FlowNat
    <2> QED BY ONLY <2>1, <2>2, <2>3 DEF Flow
  <1>8. \A x \in Device : Frozen(r, x) = Frozen(s, x)
    BY <1>4 DEF Frozen
  <1>9. Settled(s, "pointer") => Settled(r, "pointer")
    BY <1>4 DEF Frozen, Settled
  <1> QED BY <1>2, <1>3, <1>5, <1>6, <1>7, <1>8, <1>9

\* An XI 1.x form leaves the queue.
LEMMA FormTakenKeeps ==
    ASSUME NEW s \in Server, NEW d \in Device, s.forms[d] > 0,
           NEW r, r = [s EXCEPT !.forms[d] = @ - 1]
    PROVE  /\ Kept(s, r) /\ r \in Server /\ Withheld(r) = Withheld(s) - 1
           /\ KeyboardPart(r) = KeyboardPart(s) /\ r.keys = s.keys
           /\ \A x \in Device : Frozen(r, x) = Frozen(s, x)
           /\ Settled(s, "pointer") => Settled(r, "pointer")
  <1>1. s.forms \in [Device -> Nat] /\ s.forms[d] - 1 \in Nat
    BY DEF Server
  <1>2. r = [s EXCEPT !.forms[d] = s.forms[d] - 1]
    OBVIOUS
  <1>3. r \in Server
    BY <1>1, <1>2, FormsTyped
  <1>4. /\ PointerPart(r) = PointerPart(s) /\ KeyboardPart(r) = KeyboardPart(s)
        /\ r.request = s.request /\ r.sync = s.sync /\ r.other = s.other
        /\ r.keys = s.keys /\ r.out = s.out
        /\ r.forms = [s.forms EXCEPT ![d] = s.forms[d] - 1]
    BY <1>2 DEF Server, PointerPart, KeyboardPart
  <1>5. Sane(s, r)
    BY <1>3, <1>4, SameGrabsSane
  <1>6. Withheld(r) = Withheld(s) - 1
    <2>1. Device = {"pointer", "keyboard"} /\ "pointer" # "keyboard"
      BY DEF Device
    <2>2. /\ Len(s.keys) \in Nat /\ s.forms["pointer"] \in Nat /\ s.forms["keyboard"] \in Nat
      BY ServerFields
    <2>3. CASE d = "pointer"
      BY <1>1, <1>4, <2>1, <2>2, <2>3 DEF Withheld
    <2>4. CASE d = "keyboard"
      BY <1>1, <1>4, <2>1, <2>2, <2>4 DEF Withheld
    <2> QED BY <2>1, <2>3, <2>4
  <1>7. \A x \in Device : Frozen(r, x) = Frozen(s, x)
    BY <1>4 DEF Frozen
  <1>8. Settled(s, "pointer") => Settled(r, "pointer")
    <2>1. CASE d = "pointer"
      BY <1>7, <2>1 DEF Settled
    <2>2. CASE d # "pointer"
      <3>1. r.forms["pointer"] = s.forms["pointer"]
        BY <1>1, <1>4, <2>2 DEF Device
      <3> QED BY <1>4, <1>7, <3>1 DEF Settled, Device
    <2> QED BY <2>1, <2>2
  <1> QED BY <1>3, <1>4, <1>5, <1>6, <1>7, <1>8 DEF Kept, Flow

\* One turn of the loop more serves one event more.
LEMMA FlushedGood ==
    ASSUME NEW n \in Nat, NEW f \in Good(n), NEW d \in Device, NEW s \in Server,
           NEW r, r = Flushed(f, d, s)
    PROVE  GoodStep(n + 1, d, s, r)
  <1>0. /\ "keyboard" \in Device /\ \A x \in Device : x = "pointer" \/ x = "keyboard"
        /\ "pointer" # "keyboard"
    BY DEF Device
  <1>1. CASE Settled(s, d)
    <2>1. r = s
      BY <1>1, ServerFields DEF Flushed, Settled
    <2>2. Kept(s, s)
      BY SaneRefl DEF Kept
    <2> QED BY <1>1, <2>1, <2>2, ServerFields DEF GoodStep
  <1>2. CASE ~Settled(s, d) /\ d = "keyboard" /\ s.keys # <<>>
    <2> DEFINE e == Head(s.keys)
    <2>1. PICK t : t = [s EXCEPT !.keys = Tail(@)]
      OBVIOUS
    <2>2. PICK u : u = DeliverRoutedKey(f, t, e)
      OBVIOUS
    <2>3. r = f["keyboard"][u]
      BY <1>2, <2>1, <2>2 DEF Flushed, Settled
    <2>4. /\ Sane(s, t) /\ t \in Server /\ Withheld(t) = Withheld(s) - 2 /\ e \in KeyEvent
          /\ Settled(s, "pointer") => Settled(t, "pointer")
      BY <1>2, <2>1, KeyTakenKeeps
    <2>5. \A x \in KeyEvent : Flow(s, x) = Flow(t, x) + IF x = e THEN 1 ELSE 0
      BY <1>2, <2>1, KeyTakenKeeps
    <2> HIDE DEF e
    <2>6. /\ Sane(t, u) /\ u \in Server /\ Withheld(u) <= Withheld(t) + 1
          /\ Withheld(t) <= n => \A x \in Device : Settled(t, x) => Settled(u, x)
      BY <2>2, <2>4, DeliverRoutedKeyKeeps
    <2>7. \A x \in KeyEvent : Flow(u, x) = Flow(t, x) + IF x = e THEN 1 ELSE 0
      BY <2>2, <2>4, DeliverRoutedKeyKeeps
    <2>8. GoodStep(n, "keyboard", u, r)
      BY <1>0, <2>3, <2>6 DEF Good
    <2>9. Kept(s, u)
      <3>1. Sane(s, u)
        BY <2>4, <2>6, SaneTrans
      <3> QED BY <2>5, <2>7, <3>1 DEF Kept
    <2>10. r \in Server /\ Kept(u, r) /\ Withheld(r) <= Withheld(u)
      BY <2>8 DEF GoodStep
    <2>11. Kept(s, r)
      BY <2>9, <2>10, KeptTrans
    <2>12. /\ Withheld(s) \in Nat /\ Withheld(t) \in Nat /\ Withheld(u) \in Nat
           /\ Withheld(r) \in Nat
      BY <2>4, <2>6, <2>10, ServerFields
    <2>13. Withheld(r) <= Withheld(s)
      BY <2>4, <2>6, <2>10, <2>12
    <2>14. ASSUME Withheld(s) <= n + 1
           PROVE  Settled(r, "keyboard") /\ (Settled(s, "pointer") => Settled(r, "pointer"))
      <3>1. Withheld(t) <= n /\ Withheld(u) <= n
        BY <2>4, <2>6, <2>12, <2>14
      <3>2. Settled(s, "pointer") => Settled(u, "pointer")
        BY <2>4, <2>6, <3>1 DEF Device
      <3> QED BY <2>8, <3>1, <3>2 DEF GoodStep
    <2> QED BY <1>0, <1>2, <2>10, <2>11, <2>13, <2>14 DEF GoodStep
  <1>3. CASE ~Settled(s, d) /\ ~(d = "keyboard" /\ s.keys # <<>>)
    <2>1. PICK t : t = [s EXCEPT !.forms[d] = @ - 1]
      OBVIOUS
    <2>2. PICK u : u = DeviceForm(t, d)
      OBVIOUS
    <2>3. s.forms[d] > 0 /\ ~Frozen(s, d)
      BY <1>3, ServerFields DEF Settled
    <2>4. r = f[d][u]
      BY <1>3, <2>1, <2>2, <2>3 DEF Flushed
    <2>5. /\ Kept(s, t) /\ t \in Server /\ Withheld(t) = Withheld(s) - 1
          /\ KeyboardPart(t) = KeyboardPart(s)
          /\ Settled(s, "pointer") => Settled(t, "pointer")
      BY <2>1, <2>3, FormTakenKeeps
    <2>6. \A x \in Device : Frozen(t, x) = Frozen(s, x)
      BY <2>1, <2>3, FormTakenKeeps
    <2>7. /\ Kept(t, u) /\ u \in Server
          /\ ~Frozen(t, d) => Withheld(u) = Withheld(t)
          /\ KeyboardPart(u) = KeyboardPart(t)
      BY <2>2, <2>5, DeviceFormKeeps
    <2>8. \A x \in Device : (Settled(t, x) => Settled(u, x)) /\ (Frozen(t, x) => Frozen(u, x))
      BY <2>2, <2>5, DeviceFormKeeps
    <2>9. GoodStep(n, d, u, r)
      BY <2>4, <2>7 DEF Good
    <2>10. r \in Server /\ Kept(u, r) /\ Withheld(r) <= Withheld(u)
      BY <2>9 DEF GoodStep
    <2>11. Kept(s, r)
      <3>1. Kept(s, u)
        BY <2>5, <2>7, KeptTrans
      <3> QED BY <2>10, <3>1, KeptTrans
    <2>12. Withheld(u) = Withheld(s) - 1
      BY <2>3, <2>5, <2>6, <2>7
    <2>13. Withheld(s) \in Nat /\ Withheld(u) \in Nat /\ Withheld(r) \in Nat
      BY <2>7, <2>10, ServerFields
    <2>14. Withheld(r) <= Withheld(s)
      BY <2>10, <2>12, <2>13
    <2>15. ASSUME d = "pointer"
           PROVE  /\ KeyboardPart(r) = KeyboardPart(s)
                  /\ Frozen(s, "keyboard") => Frozen(r, "keyboard")
      BY <1>0, <2>5, <2>6, <2>7, <2>8, <2>9, <2>15 DEF GoodStep
    <2>16. ASSUME Withheld(s) <= n + 1
           PROVE  /\ Settled(r, d)
                  /\ d = "keyboard" /\ Settled(s, "pointer") => Settled(r, "pointer")
      <3>1. Withheld(u) <= n
        BY <2>12, <2>13, <2>16
      <3>2. Settled(s, "pointer") => Settled(u, "pointer")
        BY <2>5, <2>8 DEF Device
      <3> QED BY <2>9, <3>1, <3>2 DEF GoodStep
    <2> QED BY <1>3, <2>10, <2>11, <2>14, <2>15, <2>16 DEF GoodStep
  <1> QED BY <1>1, <1>2, <1>3

LEMMA StillGood == [d \in Device |-> [s \in Server |-> s]] \in Good(0)
  <1> DEFINE f == [d \in Device |-> [s \in Server |-> s]]
  <1>1. f \in Replays
    BY DEF Replays
  <1>2. ASSUME NEW d \in Device, NEW s \in Server PROVE GoodStep(0, d, s, f[d][s])
    <2>1. f[d][s] = s
      OBVIOUS
    <2>2. Kept(s, s)
      BY SaneRefl DEF Kept
    <2>3. Withheld(s) \in Nat
      BY ServerFields
    <2>4. ASSUME Withheld(s) <= 0 PROVE Settled(s, d)
      <3>1. /\ Len(s.keys) \in Nat /\ s.forms["pointer"] \in Nat /\ s.forms["keyboard"] \in Nat
            /\ s.keys \in Seq(KeyEvent)
        BY ServerFields
      <3>2. Len(s.keys) = 0 /\ s.forms["pointer"] = 0 /\ s.forms["keyboard"] = 0
        BY <2>4, <3>1 DEF Withheld
      <3>3. s.keys = <<>>
        BY <3>1, <3>2
      <3> QED BY <3>2, <3>3 DEF Settled, Device
    <2> QED BY <2>1, <2>2, <2>3, <2>4 DEF GoodStep
  <1> QED BY <1>1, <1>2 DEF Good

\* The loop without a turn, and one more turn around f.
Still == [d \in Device |-> [s \in Server |-> s]]

Loop(f) == [d \in Device |-> [s \in Server |-> Flushed(f, d, s)]]

LEMMA LoopGood ==
    ASSUME NEW n \in Nat, NEW f \in Good(n)
    PROVE  Loop(f) \in Good(n + 1)
  <1>1. ASSUME NEW d \in Device, NEW s \in Server
        PROVE  GoodStep(n + 1, d, s, Flushed(f, d, s)) /\ Flushed(f, d, s) \in Server
    BY FlushedGood DEF GoodStep
  <1>2. Loop(f) \in Replays
    BY <1>1 DEF Loop, Replays
  <1>3. ASSUME NEW d \in Device, NEW s \in Server PROVE GoodStep(n + 1, d, s, Loop(f)[d][s])
    <2>1. Loop(f)[d][s] = Flushed(f, d, s)
      BY DEF Loop
    <2> QED BY <1>1, <2>1
  <1> QED BY <1>2, <1>3 DEF Good

\* flush is the function its recursion says it is.
FlushOf(f, n) == [d \in Device |-> [s \in Server |-> IF n = 0 THEN s ELSE Flushed(f[n - 1], d, s)]]

LEMMA FlushOfIs ==
    ASSUME NEW f, NEW n \in Nat
    PROVE  FlushOf(f, n) = IF n = 0 THEN Still ELSE Loop(f[n - 1])
  <1>1. CASE n = 0
    BY <1>1 DEF FlushOf, Still
  <1>2. CASE n # 0
    BY <1>2 DEF FlushOf, Loop
  <1> QED BY <1>1, <1>2

LEMMA FlushUnfolds == flush = [n \in Nat |-> FlushOf(flush, n)]
  <1> DEFINE S == UNION {Good(n) : n \in Nat}
             F == [n \in Nat |-> [g \in S |-> Loop(g)]]
  <1>1. Still \in S
    BY StillGood DEF Still
  <1>2. \A n \in Nat, g \in S : F[n][g] \in S /\ F[n][g] = Loop(g)
    <2>1. ASSUME NEW g \in S PROVE Loop(g) \in S
      <3>1. PICK n \in Nat : g \in Good(n)
        OBVIOUS
      <3>2. Loop(g) \in Good(n + 1) /\ n + 1 \in Nat
        BY <3>1, LoopGood
      <3> QED BY <3>2
    <2> HIDE DEF S
    <2> QED BY <2>1
  <1> HIDE DEF S
  <1>3. PICK f \in [Nat -> S] : Follows(f, Still, F)
    <2> HIDE DEF F
    <2>1. F \in [Nat -> [S -> S]]
      BY <1>2 DEF F
    <2> QED BY <1>1, <2>1, Iterates
  <1>4. ASSUME NEW n \in Nat PROVE f[n] = FlushOf(f, n)
    <2>1. f[n] = IF n = 0 THEN Still ELSE F[n][f[n - 1]]
      BY <1>3 DEF Follows
    <2>2. n # 0 => F[n][f[n - 1]] = Loop(f[n - 1])
      <3> SUFFICES ASSUME n # 0 PROVE F[n][f[n - 1]] = Loop(f[n - 1])
        OBVIOUS
      <3>1. n - 1 \in Nat /\ f[n - 1] \in S
        BY <1>3
      <3> QED BY <1>2, <3>1
    <2> QED BY <2>1, <2>2, FlushOfIs
  <1>5. f = [n \in Nat |-> FlushOf(f, n)]
    BY <1>3, <1>4
  <1>6. f = [n \in Nat |-> [d \in Device |->
                [s \in Server |-> IF n = 0 THEN s ELSE Flushed(f[n - 1], d, s)]]]
    BY <1>5 DEF FlushOf
  <1> QED BY <1>6, Zenon DEF flush, FlushOf

\* Whatever is withheld, Replay serves it.
LEMMA FlushGood == \A n \in Nat : flush[n] \in Good(n)
  <1> DEFINE T == {n \in Nat : flush[n] \in Good(n)}
  <1>1. ASSUME NEW n \in Nat PROVE flush[n] = IF n = 0 THEN Still ELSE Loop(flush[n - 1])
    <2>1. flush[n] = FlushOf(flush, n)
      BY FlushUnfolds
    <2> QED BY <2>1, FlushOfIs
  <1>2. 0 \in T
    BY <1>1, StillGood DEF Still
  <1>3. ASSUME NEW n \in Nat, n # 0, n - 1 \in T PROVE n \in T
    <2>1. n - 1 \in Nat /\ (n - 1) + 1 = n /\ flush[n - 1] \in Good(n - 1)
      BY <1>3
    <2>2. Loop(flush[n - 1]) \in Good((n - 1) + 1)
      BY <2>1, LoopGood
    <2> QED BY <1>1, <1>3, <2>1, <2>2
  <1> HIDE DEF T
  <1>4. \A n \in Nat : n \in T
    BY <1>2, <1>3, AllNaturals
  <1> QED BY <1>4 DEF T

-----------------------------------------------------------------------------
(* The operations.                                                         *)

\* Nothing is open to replay.
Calm(s) == \A d \in Device : Settled(s, d)

\* What every operation of the server does besides its own work.
Does(s, t) ==
    /\ t \in Server /\ t.request = s.request
    /\ \A e \in KeyEvent : Flow(t, e) = Flow(s, e)
    /\ Records(s) => Records(t)
    /\ \A D \in SUBSET Device : Held(s, D) => Held(t, D)

LEMMA KeptDoes == ASSUME NEW s, NEW t, Kept(s, t) PROVE Does(s, t)
  BY DEF Kept, Sane, Does

LEMMA DoesRefl == ASSUME NEW s \in Server PROVE Does(s, s)
  BY DEF Does

LEMMA DoesTrans ==
    ASSUME NEW s, NEW t, NEW u, Does(s, t), Does(t, u)
    PROVE  Does(s, u)
  BY DEF Does

LEMMA DoesBy ==
    ASSUME NEW s, NEW t \in Server, t.request = s.request, t.keys = s.keys, t.out = s.out,
           Records(s) => Records(t),
           \A x \in Device : \/ t.sync[x] < FrozenNoEvent
                             \/ GrabOwner(t, x) # None
                             \/ t.sync[x] = s.sync[x] /\ GrabOwner(t, x) = GrabOwner(s, x)
    PROVE  Does(s, t)
  <1>1. \A x \in Device : t.sync[x] \in 0..4
    BY ServerFields
  <1>2. ASSUME NEW D \in SUBSET Device, Held(s, D) PROVE Held(t, D)
    BY <1>1, <1>2 DEF Held, FrozenNoEvent
  <1> QED BY <1>2 DEF Does, Flow

\* xi1_compute_freezes, from wherever it is entered.
LEMMA ComputeFreezesKeeps ==
    ASSUME NEW s \in Server, NEW r, r = ComputeFreezes(s)
    PROVE  /\ Kept(s, r) /\ Does(s, r) /\ r \in Server /\ Calm(r)
           /\ Calm(s) => Unmoved(s, r)
  <1> DEFINE n == Withheld(s)
             f == flush[n]
  <1>1. n \in Nat /\ f \in Good(n)
    BY FlushGood, ServerFields
  <1>2. r = Compute(f, s)
    BY DEF ComputeFreezes, Replay
  <1> HIDE DEF f
  <1>3. Kept(s, r) /\ r \in Server
    BY <1>1, <1>2, ComputeKeeps
  <1>4. Withheld(s) <= n => \A d \in Device : Settled(r, d)
    BY <1>1, <1>2, ComputeKeeps
  <1>5. Settled(s, "pointer") /\ Settled(s, "keyboard") => Unmoved(s, r)
    BY <1>1, <1>2, ComputeKeeps
  <1> QED BY <1>1, <1>3, <1>4, <1>5, KeptDoes DEF Calm, Device

LEMMA PlainDevice ==
    /\ "pointer" \in Device /\ "keyboard" \in Device /\ Device = {"pointer", "keyboard"}
    /\ Peer("pointer") = "keyboard" /\ Peer("keyboard") = "pointer"
  BY DEF Device, Peer

\* A grab of the pointer ends.
LEMMA PointerEndsDoes ==
    ASSUME NEW s \in Server, NEW t \in Server, NEW o, NEW r, r = BridgeRelease(t, "pointer", o),
           t.request = s.request, t.keys = s.keys, t.out = s.out, t.sync = s.sync,
           t.kgrab = s.kgrab, Records(s) => Records(t)
    PROVE  Does(s, r) /\ Calm(r)
  <1>1. PICK u : u = Released(t, "pointer", o)
    OBVIOUS
  <1>2. /\ u \in Server /\ u.forms = t.forms
        /\ PointerPart(u) = PointerPart(t) /\ KeyboardPart(u) = KeyboardPart(t)
        /\ Queues(u) = Queues(t)
    BY <1>1, PlainDevice, ReleasedFacts
  <1>3. \A x \in Device : u.sync[x] = IF x = "pointer" THEN Thawed ELSE t.sync[x]
    BY <1>1, PlainDevice, ReleasedFacts
  <1>4. Records(s) => Records(u)
    BY <1>2 DEF Records, PointerPart, KeyboardPart
  <1>5. \A x \in Device : \/ u.sync[x] < FrozenNoEvent
                          \/ u.sync[x] = s.sync[x] /\ GrabOwner(u, x) = GrabOwner(s, x)
    BY <1>2, <1>3, PlainDevice
       DEF GrabOwner, BridgedOwner, KeyboardPart, Thawed, FrozenNoEvent
  <1>6. Does(s, u)
    BY <1>2, <1>4, <1>5, DoesBy DEF Queues
  <1>7. r = ComputeFreezes(u)
    BY <1>1 DEF BridgeRelease
  <1>8. Does(u, r) /\ Calm(r)
    BY <1>2, <1>7, ComputeFreezesKeeps
  <1> QED BY <1>6, <1>8, DoesTrans

\* A grab of the keyboard ends.
LEMMA KeyboardEndsDoes ==
    ASSUME NEW s \in Server, NEW t \in Server, NEW o, NEW r, r = BridgeRelease(t, "keyboard", o),
           t.request = s.request, t.keys = s.keys, t.out = s.out, t.sync = s.sync,
           PointerPart(t) = PointerPart(s), Records(s) => Records(t)
    PROVE  Does(s, r) /\ Calm(r)
  <1>1. PICK u : u = Released(t, "keyboard", o)
    OBVIOUS
  <1>2. /\ u \in Server /\ u.forms = t.forms
        /\ PointerPart(u) = PointerPart(t) /\ KeyboardPart(u) = KeyboardPart(t)
        /\ Queues(u) = Queues(t)
    BY <1>1, PlainDevice, ReleasedFacts
  <1>3. \A x \in Device : u.sync[x] = IF x = "keyboard" THEN Thawed ELSE t.sync[x]
    BY <1>1, PlainDevice, ReleasedFacts
  <1>4. Records(s) => Records(u)
    BY <1>2 DEF Records, PointerPart, KeyboardPart
  <1>5. \A x \in Device : \/ u.sync[x] < FrozenNoEvent
                          \/ u.sync[x] = s.sync[x] /\ GrabOwner(u, x) = GrabOwner(s, x)
    BY <1>2, <1>3, PlainDevice
       DEF GrabOwner, BridgedOwner, PointerPart, Thawed, FrozenNoEvent
  <1>6. Does(s, u)
    BY <1>2, <1>4, <1>5, DoesBy DEF Queues
  <1>7. r = ComputeFreezes(u)
    BY <1>1 DEF BridgeRelease
  <1>8. Does(u, r) /\ Calm(r)
    BY <1>2, <1>7, ComputeFreezesKeeps
  <1> QED BY <1>6, <1>8, DoesTrans

\* A grab of a device begins.
LEMMA BeginsDoes ==
    ASSUME NEW s \in Server, NEW t \in Server, NEW d \in Device, NEW o \in Client,
           NEW this \in BOOLEAN, NEW paired \in BOOLEAN,
           NEW r, r = CheckGrabForSyncs(t, d, o, this, paired),
           t.request = s.request, t.keys = s.keys, t.out = s.out, t.sync = s.sync,
           GrabOwner(t, d) # None, GrabOwner(t, Peer(d)) = GrabOwner(s, Peer(d)),
           Records(s) => Records(t)
    PROVE  Does(s, r) /\ Calm(r)
  <1>1. PICK u : u = Checked(t, d, o, this, paired)
    OBVIOUS
  <1>2. /\ u \in Server /\ u.forms = t.forms
        /\ PointerPart(u) = PointerPart(t) /\ KeyboardPart(u) = KeyboardPart(t)
        /\ Queues(u) = Queues(t)
    BY <1>1, CheckedFacts
  <1>3. \A x \in Device : x # d => u.sync[x] = t.sync[x]
    BY <1>1, CheckedFacts
  <1>4. Records(s) => Records(u)
    BY <1>2 DEF Records, PointerPart, KeyboardPart
  <1>5. \A x \in Device : GrabOwner(u, x) = GrabOwner(t, x)
    BY <1>2 DEF GrabOwner, BridgedOwner, PointerPart, KeyboardPart
  <1>6. \A x \in Device : x = d \/ x = Peer(d)
    BY PlainDevice
  <1>7. \A x \in Device : \/ GrabOwner(u, x) # None
                          \/ u.sync[x] = s.sync[x] /\ GrabOwner(u, x) = GrabOwner(s, x)
    BY <1>3, <1>5, <1>6
  <1>8. Does(s, u)
    BY <1>2, <1>4, <1>7, DoesBy DEF Queues
  <1>9. r = ComputeFreezes(u)
    BY <1>1 DEF CheckGrabForSyncs
  <1>10. Does(u, r) /\ Calm(r)
    BY <1>2, <1>9, ComputeFreezesKeeps
  <1> QED BY <1>8, <1>10, DoesTrans

LEMMA ReleasePassiveDoes ==
    ASSUME NEW s \in Server, NEW e, NEW r, r = ReleasePassive(s, e)
    PROVE  Does(s, r) /\ (Calm(s) => Calm(r))
  <1>1. CASE e = "release" /\ s.passive
    <2>1. PICK t : t = [s EXCEPT !.pgrab = None, !.passive = FALSE, !.press = FALSE]
      OBVIOUS
    <2>2. t \in Server
      BY <2>1 DEF Server, Owner
    <2>3. /\ t.request = s.request /\ t.keys = s.keys /\ t.out = s.out /\ t.sync = s.sync
          /\ t.kgrab = s.kgrab /\ t.heldKey = s.heldKey /\ t.active = s.active
          /\ t.pgrab = None /\ t.passive = FALSE /\ t.press = FALSE
      BY <2>1 DEF Server
    <2>4. Records(s) => Records(t)
      BY <1>1, <2>3 DEF Records
    <2>5. r = BridgeRelease(t, "pointer", s.pgrab)
      BY <1>1, <2>1 DEF ReleasePassive
    <2> QED BY <2>2, <2>3, <2>4, <2>5, PointerEndsDoes
  <1>2. CASE ~(e = "release" /\ s.passive)
    BY <1>2, DoesRefl DEF ReleasePassive
  <1> QED BY <1>1, <1>2

LEMMA DeactivatePointerDoes ==
    ASSUME NEW s \in Server, NEW c, NEW r, r = DeactivatePointer(s, c)
    PROVE  Does(s, r) /\ Calm(r)
  <1>1. PICK t : t = [s EXCEPT !.pgrab = None, !.passive = FALSE, !.active = None,
                               !.press = FALSE, !.pqueue = <<>>]
    OBVIOUS
  <1>2. t \in Server
    <2>1. <<>> \in Seq(ButtonEvent)
      OBVIOUS
    <2> QED BY <1>1, <2>1 DEF Server, Owner
  <1>3. /\ t.request = s.request /\ t.keys = s.keys /\ t.out = s.out /\ t.sync = s.sync
        /\ t.kgrab = s.kgrab /\ t.heldKey = s.heldKey /\ t.active = None
        /\ t.pgrab = None /\ t.passive = FALSE /\ t.press = FALSE
    BY <1>1 DEF Server
  <1>4. Records(s) => Records(t)
    BY <1>3 DEF Records
  <1>5. r = BridgeRelease(t, "pointer", c)
    BY <1>1 DEF DeactivatePointer
  <1> QED BY <1>2, <1>3, <1>4, <1>5, PointerEndsDoes

LEMMA DeactivateKeyboardDoes ==
    ASSUME NEW s \in Server, NEW c, NEW r, r = DeactivateKeyboard(s, c)
    PROVE  Does(s, r) /\ (Calm(s) => Calm(r)) /\ (s.kgrab.owner = c => Calm(r))
  <1>1. CASE s.kgrab.owner = c
    <2>1. PICK t : t = [s EXCEPT !.kgrab = NoGrab, !.heldKey = None]
      OBVIOUS
    <2>2. t \in Server
      BY <2>1 DEF Server
    <2>3. /\ t.request = s.request /\ t.keys = s.keys /\ t.out = s.out /\ t.sync = s.sync
          /\ t.kgrab = NoGrab /\ t.heldKey = None /\ PointerPart(t) = PointerPart(s)
      BY <2>1 DEF Server, PointerPart
    <2>4. Records(s) => Records(t)
      BY <2>3 DEF Records, PointerPart
    <2>5. r = BridgeRelease(t, "keyboard", c)
      BY <1>1, <2>1 DEF DeactivateKeyboard
    <2> QED BY <2>2, <2>3, <2>4, <2>5, KeyboardEndsDoes
  <1>2. CASE s.kgrab.owner # c
    BY <1>2, DoesRefl DEF DeactivateKeyboard
  <1> QED BY <1>1, <1>2

LEMMA ActivateButtonGrabDoes ==
    ASSUME NEW s \in Server, NEW g \in ButtonGrab, s.pgrab = None, Records(s),
           NEW r, r = ActivateButtonGrab(s, g)
    PROVE  Does(s, r) /\ Calm(r)
  <1>1. PICK t : t = [s EXCEPT !.pgrab = g.owner, !.passive = TRUE, !.press = @ \/ g.wants]
    OBVIOUS
  <1>2. g.owner \in Client /\ g.this \in BOOLEAN /\ g.paired \in BOOLEAN /\ g.wants \in BOOLEAN
    BY DEF ButtonGrab
  <1>3. g.owner # None /\ g.owner \in Owner
    BY <1>2, GrabAssumption DEF Owner
  <1>4. t \in Server
    <2>1. (s.press \/ g.wants) \in BOOLEAN
      OBVIOUS
    <2> QED BY ZenonT(60), <1>1, <1>3, <2>1 DEF Server
  <1>5. /\ t.request = s.request /\ t.keys = s.keys /\ t.out = s.out /\ t.sync = s.sync
        /\ t.kgrab = s.kgrab /\ t.heldKey = s.heldKey /\ t.active = s.active
        /\ t.pgrab = g.owner
    BY <1>1 DEF Server
  <1>6. s.active = None
    BY DEF Records
  <1>7. Records(t)
    BY <1>3, <1>5, <1>6 DEF Records
  <1>8. GrabOwner(t, "pointer") # None /\ GrabOwner(t, "keyboard") = GrabOwner(s, "keyboard")
    BY <1>3, <1>5, <1>6 DEF GrabOwner, BridgedOwner
  <1>9. r = CheckGrabForSyncs(t, "pointer", g.owner, g.this, g.paired)
    BY <1>1 DEF ActivateButtonGrab
  <1> QED BY <1>2, <1>4, <1>5, <1>7, <1>8, <1>9, PlainDevice, BeginsDoes

LEMMA PointerGrabbedDoes ==
    ASSUME NEW s \in Server, NEW c \in Client, NEW this \in BOOLEAN, NEW paired \in BOOLEAN,
           NEW r, r = PointerGrabbed(s, c, this, paired)
    PROVE  Does(s, r) /\ Calm(r)
  <1>1. PICK t : t = [s EXCEPT !.pgrab = c, !.passive = FALSE, !.active = c]
    OBVIOUS
  <1>2. c \in Owner /\ c # None
    BY GrabAssumption DEF Owner
  <1>3. t \in Server
    BY <1>1, <1>2 DEF Server
  <1>4. /\ t.request = s.request /\ t.keys = s.keys /\ t.out = s.out /\ t.sync = s.sync
        /\ t.kgrab = s.kgrab /\ t.heldKey = s.heldKey /\ t.active = c
        /\ t.pgrab = c /\ t.passive = FALSE
    BY <1>1 DEF Server
  <1>5. Records(s) => Records(t)
    BY <1>2, <1>4 DEF Records
  <1>6. GrabOwner(t, "pointer") # None /\ GrabOwner(t, "keyboard") = GrabOwner(s, "keyboard")
    BY <1>2, <1>4 DEF GrabOwner, BridgedOwner
  <1>7. r = CheckGrabForSyncs(t, "pointer", c, this, paired)
    BY <1>1 DEF PointerGrabbed
  <1> QED BY <1>3, <1>4, <1>5, <1>6, <1>7, PlainDevice, BeginsDoes

LEMMA KeyboardGrabbedDoes ==
    ASSUME NEW s \in Server, NEW c \in Client, NEW this \in BOOLEAN, NEW paired \in BOOLEAN,
           NEW r, r = KeyboardGrabbed(s, c, this, paired)
    PROVE  Does(s, r) /\ Calm(r)
  <1>1. PICK t : t = [s EXCEPT !.kgrab = [owner |-> c, key |-> None]]
    OBVIOUS
  <1>2. c # None
    BY GrabAssumption
  <1>3. t \in Server
    BY <1>1, KgrabTyped
  <1>4. /\ t.request = s.request /\ t.keys = s.keys /\ t.out = s.out /\ t.sync = s.sync
        /\ t.kgrab.owner = c /\ t.heldKey = s.heldKey /\ PointerPart(t) = PointerPart(s)
    BY <1>1 DEF Server, PointerPart
  <1>5. t.kgrab # NoGrab
    BY <1>2, <1>4 DEF NoGrab
  <1>6. Records(s) => Records(t)
    BY <1>4, <1>5 DEF Records, PointerPart
  <1>7. GrabOwner(t, "keyboard") # None /\ GrabOwner(t, "pointer") = GrabOwner(s, "pointer")
    BY <1>2, <1>4 DEF GrabOwner, BridgedOwner, PointerPart
  <1>8. r = CheckGrabForSyncs(t, "keyboard", c, this, paired)
    BY <1>1 DEF KeyboardGrabbed
  <1> QED BY <1>3, <1>4, <1>6, <1>7, <1>8, PlainDevice, BeginsDoes

LEMMA PlayedOne ==
    ASSUME NEW s \in Server, NEW e, NEW r, r = DeviceForm(ReleasePassive(s, e), "pointer")
    PROVE  Does(s, r) /\ r \in Server
  <1>1. PICK t : t = ReleasePassive(s, e)
    OBVIOUS
  <1>2. Does(s, t) /\ t \in Server
    BY <1>1, ReleasePassiveDoes DEF Does
  <1>3. Kept(t, r)
    BY <1>1, <1>2, PlainDevice, DeviceFormKeeps
  <1>4. Does(s, r)
    BY <1>2, <1>3, KeptDoes, DoesTrans
  <1> QED BY <1>4 DEF Does

\* The state after the n-th event played.
PlayOf(s, queue, f, n) ==
    IF n = 0 THEN s ELSE DeviceForm(ReleasePassive(f[n - 1], queue[n]), "pointer")

LEMMA PlayUnfolds ==
    ASSUME NEW s \in Server, NEW queue
    PROVE  \E f : /\ Play(s, queue) = f[Len(queue)]
                  /\ \A n \in Nat : f[n] = PlayOf(s, queue, f, n)
  <1> DEFINE F == [n \in Nat |-> [t \in Server |->
                      DeviceForm(ReleasePassive(t, queue[n]), "pointer")]]
             p == CHOOSE f : f = [n \in Nat |-> IF n = 0 THEN s ELSE
                                DeviceForm(ReleasePassive(f[n - 1], queue[n]), "pointer")]
  <1>1. \A n \in Nat, t \in Server :
           /\ F[n][t] = DeviceForm(ReleasePassive(t, queue[n]), "pointer")
           /\ F[n][t] \in Server
    <2>1. \A n \in Nat, t \in Server :
             DeviceForm(ReleasePassive(t, queue[n]), "pointer") \in Server
      BY PlayedOne
    <2> QED BY <2>1
  <1>2. F \in [Nat -> [Server -> Server]]
    BY <1>1
  <1> HIDE DEF F
  <1>3. PICK f \in [Nat -> Server] : Follows(f, s, F)
    BY <1>2, Iterates
  <1>4. ASSUME NEW n \in Nat PROVE f[n] = PlayOf(s, queue, f, n)
    <2>1. CASE n = 0
      BY <1>3, <2>1 DEF Follows, PlayOf
    <2>2. CASE n # 0
      <3>1. n - 1 \in Nat /\ f[n - 1] \in Server
        BY <1>3, <2>2
      <3>2. f[n] = F[n][f[n - 1]]
        BY <1>3, <2>2 DEF Follows
      <3> QED BY <1>1, <2>2, <3>1, <3>2 DEF PlayOf
    <2> QED BY <2>1, <2>2
  <1>5. f = [n \in Nat |-> PlayOf(s, queue, f, n)]
    BY <1>3, <1>4
  <1>6. f = [n \in Nat |-> IF n = 0 THEN s ELSE
                DeviceForm(ReleasePassive(f[n - 1], queue[n]), "pointer")]
    BY <1>5, Zenon DEF PlayOf
  <1>7. p = [n \in Nat |-> IF n = 0 THEN s ELSE
                DeviceForm(ReleasePassive(p[n - 1], queue[n]), "pointer")]
    BY <1>6, Zenon
  <1>8. Play(s, queue) = p[Len(queue)]
    BY Zenon DEF Play
  <1> HIDE DEF p
  <1>9. \A n \in Nat : p[n] = PlayOf(s, queue, p, n)
    BY <1>7 DEF PlayOf
  <1> QED BY <1>8, <1>9

\* AllowEvents playing a queue of button events, by induction on its length.
LEMMA PlayDoes ==
    ASSUME NEW s \in Server, NEW queue \in Seq(ButtonEvent), NEW r, r = Play(s, queue)
    PROVE  Does(s, r) /\ r \in Server
  <1>1. PICK f : /\ Play(s, queue) = f[Len(queue)]
                 /\ \A n \in Nat : f[n] = PlayOf(s, queue, f, n)
    BY PlayUnfolds
  <1> DEFINE T == {n \in Nat : Does(s, f[n])}
  <1>2. 0 \in T
    BY <1>1, DoesRefl DEF PlayOf
  <1>3. ASSUME NEW n \in Nat, n # 0, n - 1 \in T PROVE n \in T
    <2>1. Does(s, f[n - 1]) /\ f[n - 1] \in Server
      BY <1>3 DEF Does
    <2>2. f[n] = DeviceForm(ReleasePassive(f[n - 1], queue[n]), "pointer")
      BY <1>1, <1>3 DEF PlayOf
    <2>3. Does(f[n - 1], f[n])
      BY <2>1, <2>2, PlayedOne
    <2>4. Does(s, f[n])
      BY <2>1, <2>3, DoesTrans
    <2> QED BY <2>4
  <1> HIDE DEF T
  <1>4. Len(queue) \in T
    BY <1>2, <1>3, AllNaturals
  <1> QED BY <1>1, <1>4 DEF T, Does

LEMMA PointerFanoutDoes ==
    ASSUME NEW s \in Server, NEW e \in ButtonEvent, NEW match \in SUBSET ButtonGrab,
           Records(s), NEW r, r = PointerFanout(s, e, match)
    PROVE  Does(s, r) /\ (Calm(s) => Calm(r))
  <1>1. CASE PointerHeld(s)
    <2>1. Append(s.pqueue, e) \in Seq(ButtonEvent)
      BY ServerFields
    <2>2. r = [s EXCEPT !.pqueue = Append(s.pqueue, e)]
      BY <1>1 DEF PointerFanout
    <2>3. r \in Server
      BY <2>1, <2>2, PqueueTyped
    <2>4. /\ PointerPart(r) = PointerPart(s) /\ KeyboardPart(r) = KeyboardPart(s)
          /\ r.request = s.request /\ r.sync = s.sync /\ r.other = s.other
          /\ r.forms = s.forms /\ r.keys = s.keys /\ r.out = s.out
      BY <2>2 DEF Server, PointerPart, KeyboardPart
    <2>5. Sane(s, r)
      BY <2>3, <2>4, SameGrabsSane
    <2> QED BY <2>4, <2>5, KeptDoes DEF Kept, Flow, Calm, Settled, Frozen
  <1>2. CASE ~PointerHeld(s)
    <2>1. PICK q : q = ReleasePassive(s, e)
      OBVIOUS
    <2>2. Does(s, q) /\ (Calm(s) => Calm(q)) /\ q \in Server /\ Records(q)
      BY <2>1, ReleasePassiveDoes DEF Does
    <2> DEFINE fits == IF e = "press" /\ q.pgrab = None THEN match ELSE {}
               g == CHOOSE g \in fits : TRUE
    <2>3. PICK t : t = IF fits = {} THEN q ELSE ActivateButtonGrab(q, g)
      OBVIOUS
    <2>4. r = DeviceForm(t, "pointer")
      BY <1>2, <2>1, <2>3 DEF PointerFanout
    <2>5. Does(q, t) /\ (Calm(q) => Calm(t))
      <3>1. CASE fits = {}
        BY <2>2, <2>3, <3>1, DoesRefl
      <3>2. CASE fits # {}
        <4>1. g \in ButtonGrab /\ q.pgrab = None
          BY <3>2
        <4>2. t = ActivateButtonGrab(q, g)
          BY <2>3, <3>2
        <4> HIDE DEF g, fits
        <4> QED BY <2>2, <4>1, <4>2, ActivateButtonGrabDoes
      <3> QED BY <3>1, <3>2
    <2> HIDE DEF fits, g
    <2>6. t \in Server
      BY <2>5 DEF Does
    <2>7. Kept(t, r) /\ \A x \in Device : Settled(t, x) => Settled(r, x)
      BY <2>4, <2>6, PlainDevice, DeviceFormKeeps
    <2>8. Does(s, r)
      BY <2>2, <2>5, <2>7, KeptDoes, DoesTrans
    <2> QED BY <2>2, <2>5, <2>7, <2>8 DEF Calm
  <1> QED BY <1>1, <1>2

LEMMA KeyFanoutKeeps ==
    ASSUME NEW s \in Server, NEW e \in KeyEvent, NEW r, r = KeyFanout(s, e)
    PROVE  /\ Sane(s, r) /\ (Calm(s) => Calm(r))
           /\ \A x \in KeyEvent : Flow(r, x) = Flow(s, x) + IF x = e THEN 1 ELSE 0
  <1>1. CASE Frozen(s, "keyboard")
    <2>1. s.keys \in Seq(KeyEvent)
      BY ServerFields
    <2>2. Append(s.keys, e) \in Seq(KeyEvent)
      BY <2>1
    <2>3. r = [s EXCEPT !.keys = Append(s.keys, e)]
      BY <1>1 DEF KeyFanout
    <2>4. r \in Server
      BY <2>2, <2>3, KeysTyped
    <2>5. /\ PointerPart(r) = PointerPart(s) /\ KeyboardPart(r) = KeyboardPart(s)
          /\ r.request = s.request /\ r.sync = s.sync /\ r.other = s.other
          /\ r.forms = s.forms /\ r.keys = Append(s.keys, e) /\ r.out = s.out
      BY <2>3 DEF Server, PointerPart, KeyboardPart
    <2>6. Sane(s, r)
      BY <2>4, <2>5, SameGrabsSane
    <2>7. ASSUME NEW x \in KeyEvent PROVE Flow(r, x) = Flow(s, x) + IF x = e THEN 1 ELSE 0
      <3>1. Count(r.keys, x) = Count(s.keys, x) + IF e = x THEN 1 ELSE 0
        BY <2>1, <2>5, CountAppend
      <3>2. Cardinality(Sends(r.out, x)) = Cardinality(Sends(s.out, x))
        BY <2>5
      <3>3. /\ Count(s.keys, x) \in Nat /\ Count(r.keys, x) \in Nat
            /\ Cardinality(Sends(s.out, x)) \in Nat
        BY <2>4, FlowNat
      <3> QED BY ONLY <3>1, <3>2, <3>3 DEF Flow
    <2>8. Calm(s) => Calm(r)
      <3>1. Settled(r, "keyboard")
        BY <1>1, <2>5 DEF Settled, Frozen
      <3>2. Settled(s, "pointer") => Settled(r, "pointer")
        BY <2>5 DEF Settled, Frozen
      <3> QED BY <3>1, <3>2, PlainDevice DEF Calm
    <2> QED BY <2>6, <2>7, <2>8
  <1>2. CASE ~Frozen(s, "keyboard")
    <2> DEFINE n == Withheld(s)
               f == flush[n]
    <2>1. n \in Nat /\ f \in Good(n)
      BY FlushGood, ServerFields
    <2>2. r = DeliverRoutedKey(f, s, e)
      BY <1>2 DEF KeyFanout, Replay
    <2> HIDE DEF f
    <2>3. /\ Sane(s, r)
          /\ \A x \in KeyEvent : Flow(r, x) = Flow(s, x) + IF x = e THEN 1 ELSE 0
      BY <2>1, <2>2, DeliverRoutedKeyKeeps
    <2>4. Withheld(s) <= n => \A d \in Device : Settled(s, d) => Settled(r, d)
      BY <2>1, <2>2, DeliverRoutedKeyKeeps
    <2> QED BY <2>1, <2>3, <2>4 DEF Calm
  <1> QED BY <1>1, <1>2

LEMMA ThawDeviceKeeps ==
    ASSUME NEW s \in Server, NEW d \in Device, NEW r, r = ThawDevice(s, d)
    PROVE  /\ r \in Server /\ r.request = s.request /\ Calm(r)
           /\ \A e \in KeyEvent : Flow(r, e) = Flow(s, e)
           /\ Records(s) => Records(r)
           /\ \A D \in SUBSET Device : Held(s, D) => Held(r, D \ {d})
           /\ \A c \in Client, D \in SUBSET Device : Free(s, c, D) => Free(r, c, D \ {d})
  <1>1. PICK t : t = [s EXCEPT !.sync[d] = Thawed, !.other[d] = None]
    OBVIOUS
  <1>2. t \in Server
    <2>1. PICK u : u = [s EXCEPT !.sync[d] = Thawed]
      OBVIOUS
    <2>2. Thawed \in 0..4 /\ None \in Owner
      BY DEF Thawed, Owner
    <2>3. u \in Server
      BY <2>1, <2>2, SyncTyped
    <2>4. t = [u EXCEPT !.other[d] = None]
      BY <1>1, <2>1
    <2> QED BY <2>2, <2>3, <2>4, OtherTyped
  <1>3. /\ PointerPart(t) = PointerPart(s) /\ KeyboardPart(t) = KeyboardPart(s)
        /\ t.request = s.request /\ t.keys = s.keys /\ t.out = s.out
        /\ \A x \in Device : t.sync[x] = IF x = d THEN Thawed ELSE s.sync[x]
        /\ \A x \in Device : t.other[x] = IF x = d THEN None ELSE s.other[x]
    BY <1>1 DEF Server, PointerPart, KeyboardPart
  <1>4. r = ComputeFreezes(t)
    BY <1>1 DEF ThawDevice
  <1>5. Kept(t, r) /\ r \in Server /\ Calm(r)
    BY <1>2, <1>4, ComputeFreezesKeeps
  <1>6. Records(s) => Records(t)
    BY <1>3 DEF Records, PointerPart, KeyboardPart
  <1>7. \A x \in Device : GrabOwner(t, x) = GrabOwner(s, x)
    BY <1>3 DEF GrabOwner, BridgedOwner, PointerPart, KeyboardPart
  <1>8. ASSUME NEW D \in SUBSET Device, Held(s, D) PROVE Held(t, D \ {d})
    BY <1>3, <1>7, <1>8 DEF Held, Thawed, FrozenNoEvent
  <1>9. ASSUME NEW c \in Client, NEW D \in SUBSET Device, Free(s, c, D)
        PROVE  Free(t, c, D \ {d})
    BY <1>3, <1>9, GrabAssumption DEF Free, PointerPart, KeyboardPart
  <1>10. \A D \in SUBSET Device : Held(s, D) => Held(r, D \ {d})
    <2>1. \A D \in SUBSET Device : Held(t, D) => Held(r, D)
      BY <1>5 DEF Kept, Sane
    <2> QED BY <1>8, <2>1
  <1>11. \A c \in Client, D \in SUBSET Device : Free(s, c, D) => Free(r, c, D \ {d})
    <2>1. \A c \in Client, D \in SUBSET Device : Free(t, c, D) => Free(r, c, D)
      BY <1>5 DEF Kept, Sane
    <2> QED BY <1>9, <2>1
  <1>12. /\ r.request = s.request /\ \A e \in KeyEvent : Flow(r, e) = Flow(s, e)
         /\ Records(s) => Records(r)
    BY <1>3, <1>5, <1>6 DEF Kept, Sane, Flow
  <1> QED BY <1>5, <1>10, <1>11, <1>12

\* A client's grabs go; what they froze is thawed after that.
LEMMA GrabsDroppedKeeps ==
    ASSUME NEW s \in Server, NEW c \in Client, Records(s), NEW r, r = GrabsDropped(s, c)
    PROVE  /\ r \in Server /\ r.request = s.request /\ Records(r)
           /\ \A e \in KeyEvent : Flow(r, e) = Flow(s, e)
           /\ \A x \in Device : Frozen(r, x) = Frozen(s, x) /\ r.sync[x] = s.sync[x]
           /\ r.other = s.other /\ r.forms = s.forms /\ r.keys = s.keys
           /\ c \notin {r.pgrab, r.active, r.kgrab.owner}
           /\ \A g \in r.keyGrabs : g.owner # c
  <1>1. PICK p : p = IF s.pgrab = c
                     THEN [s EXCEPT !.pgrab = None, !.passive = FALSE, !.press = FALSE,
                                    !.pqueue = <<>>]
                     ELSE s
    OBVIOUS
  <1>2. PICK k : k = IF p.kgrab.owner = c THEN [p EXCEPT !.kgrab = NoGrab, !.heldKey = None] ELSE p
    OBVIOUS
  <1>3. r = [k EXCEPT !.active = IF k.active = c THEN None ELSE k.active,
                      !.keyGrabs = {g \in k.keyGrabs : g.owner # c}]
    BY <1>1, <1>2 DEF GrabsDropped
  <1>4. c # None
    BY GrabAssumption
  <1>5. /\ p \in Server /\ p.request = s.request /\ p.sync = s.sync /\ p.other = s.other
        /\ p.forms = s.forms /\ p.keys = s.keys /\ p.out = s.out /\ p.active = s.active
        /\ p.kgrab = s.kgrab /\ p.heldKey = s.heldKey /\ p.pgrab # c
        /\ \/ p.pgrab = s.pgrab /\ p.passive = s.passive /\ p.press = s.press
           \/ s.pgrab = c /\ p.passive = FALSE /\ p.press = FALSE
    <2>1. CASE s.pgrab = c
      <3>1. <<>> \in Seq(ButtonEvent)
        OBVIOUS
      <3> QED BY <1>1, <1>4, <2>1, <3>1 DEF Server, Owner
    <2>2. CASE s.pgrab # c
      BY <1>1, <2>2
    <2> QED BY <2>1, <2>2
  <1>6. /\ k \in Server /\ k.request = p.request /\ k.sync = p.sync /\ k.other = p.other
        /\ k.forms = p.forms /\ k.keys = p.keys /\ k.out = p.out
        /\ PointerPart(k) = PointerPart(p) /\ k.kgrab.owner # c
        /\ \/ k.kgrab = p.kgrab /\ k.heldKey = p.heldKey
           \/ k.kgrab = NoGrab /\ k.heldKey = None
    <2>1. CASE p.kgrab.owner = c
      BY <1>2, <1>4, <1>5, <2>1 DEF Server, NoGrab, PointerPart
    <2>2. CASE p.kgrab.owner # c
      BY <1>2, <1>5, <2>2
    <2> QED BY <2>1, <2>2
  <1>7. /\ r \in Server /\ r.request = k.request /\ r.sync = k.sync /\ r.other = k.other
        /\ r.forms = k.forms /\ r.keys = k.keys /\ r.out = k.out
        /\ r.kgrab = k.kgrab /\ r.heldKey = k.heldKey
        /\ r.pgrab = k.pgrab /\ r.passive = k.passive /\ r.press = k.press
        /\ r.active = (IF k.active = c THEN None ELSE k.active)
        /\ \A g \in r.keyGrabs : g.owner # c
    <2>1. PICK a : a = IF k.active = c THEN None ELSE k.active
      OBVIOUS
    <2>2. PICK G : G = {g \in k.keyGrabs : g.owner # c}
      OBVIOUS
    <2>3. a \in Owner
      BY <1>6, <2>1 DEF Server, Owner
    <2>4. G \in SUBSET KeyGrab /\ \A g \in G : g.owner # c
      BY <1>6, <2>2 DEF Server
    <2>5. r = [k EXCEPT !.active = a, !.keyGrabs = G]
      BY <1>3, <2>1, <2>2
    <2>6. r \in Server
      BY <1>6, <2>3, <2>4, <2>5 DEF Server
    <2>7. /\ r.request = k.request /\ r.sync = k.sync /\ r.other = k.other
          /\ r.forms = k.forms /\ r.keys = k.keys /\ r.out = k.out
          /\ r.kgrab = k.kgrab /\ r.heldKey = k.heldKey
          /\ r.pgrab = k.pgrab /\ r.passive = k.passive /\ r.press = k.press
          /\ r.active = a /\ r.keyGrabs = G
      BY <1>6, <2>5 DEF Server
    <2> QED BY <2>1, <2>4, <2>6, <2>7
  <1>8. Records(r)
    BY <1>4, <1>5, <1>6, <1>7 DEF Records, PointerPart
  <1>9. c \notin {r.pgrab, r.active, r.kgrab.owner}
    BY <1>4, <1>5, <1>6, <1>7 DEF PointerPart
  <1> QED BY <1>5, <1>6, <1>7, <1>8, <1>9 DEF Flow, Frozen

-----------------------------------------------------------------------------
(* AllowEvents.                                                            *)

LEMMA NewStateIs ==
    ASSUME NEW m \in Mode
    PROVE  NewState(m) \in 0..4 /\ NewState(m) < FrozenNoEvent
           /\ (m \in {"ReplayPointer", "ReplayKeyboard"} => NewState(m) = Thawed)
           /\ (m \notin {"SyncPointer", "SyncKeyboard", "SyncBoth"} => NewState(m) = Thawed)
  BY DEF NewState, Mode, Thawed, FreezeNextEvent, FreezeBothNextEvent, FrozenNoEvent

\* Setting the states leaves a device open until the freezes are computed.
LEMMA AllowedKeeps ==
    ASSUME NEW s \in Server, NEW c \in Client, NEW m \in Mode, NEW r, r = Allowed(s, c, m)
    PROVE  /\ r \in Server /\ PointerPart(r) = PointerPart(s)
           /\ KeyboardPart(r) = KeyboardPart(s) /\ Queues(r) = Queues(s) /\ r.forms = s.forms
           /\ \A x \in Device : r.sync[x] \in {s.sync[x], NewState(m)}
           /\ \A x \in Device : r.other[x] \in {s.other[x], None}
           /\ m \notin BothModes => /\ r.sync[Subject(m)] = NewState(m)
                                    /\ r.other[Subject(m)] # c
  <1> DEFINE acted == IF m \notin BothModes THEN {Subject(m)}
                      ELSE IF GrabOwner(s, "pointer") = c /\ s.sync["pointer"] >= FrozenNoEvent
                      THEN {d \in Device : GrabOwner(s, d) = c \/ s.other[d] = c}
                      ELSE {}
  <1>1. PICK y : y = [d \in Device |-> IF d \in acted THEN NewState(m) ELSE s.sync[d]]
    OBVIOUS
  <1>2. PICK z : z = [d \in Device |-> IF d \in acted /\ s.other[d] = c THEN None ELSE s.other[d]]
    OBVIOUS
  <1>3. r = [s EXCEPT !.sync = y, !.other = z]
    BY <1>1, <1>2 DEF Allowed
  <1>4. m \notin BothModes => acted = {Subject(m)}
    OBVIOUS
  <1>5. Subject(m) \in Device
    BY PlainDevice DEF Subject
  <1> HIDE DEF acted
  <1>6. s.sync \in [Device -> 0..4] /\ s.other \in [Device -> Owner] /\ None \in Owner
    BY DEF Server, Owner
  <1>7. y \in [Device -> 0..4] /\ \A x \in Device : y[x] \in {s.sync[x], NewState(m)}
    BY <1>1, <1>6, NewStateIs
  <1>8. z \in [Device -> Owner] /\ \A x \in Device : z[x] \in {s.other[x], None}
    BY <1>2, <1>6
  <1>9. m \notin BothModes => y[Subject(m)] = NewState(m) /\ z[Subject(m)] # c
    BY <1>1, <1>2, <1>4, <1>5, GrabAssumption
  <1>10. r \in Server
    BY <1>3, <1>7, <1>8 DEF Server
  <1>11. /\ PointerPart(r) = PointerPart(s) /\ KeyboardPart(r) = KeyboardPart(s)
         /\ Queues(r) = Queues(s) /\ r.forms = s.forms /\ r.sync = y /\ r.other = z
    BY <1>3 DEF Server, PointerPart, KeyboardPart, Queues
  <1> QED BY <1>7, <1>8, <1>9, <1>10, <1>11

LEMMA AllowedDoes ==
    ASSUME NEW s \in Server, NEW c \in Client, NEW m \in Mode, NEW r, r = Allowed(s, c, m)
    PROVE  Does(s, r)
  <1>1. /\ r \in Server /\ PointerPart(r) = PointerPart(s)
        /\ KeyboardPart(r) = KeyboardPart(s) /\ Queues(r) = Queues(s)
        /\ \A x \in Device : r.sync[x] \in {s.sync[x], NewState(m)}
    BY AllowedKeeps
  <1>2. NewState(m) < FrozenNoEvent
    BY NewStateIs
  <1>3. \A x \in Device : GrabOwner(r, x) = GrabOwner(s, x)
    BY <1>1 DEF GrabOwner, BridgedOwner, PointerPart, KeyboardPart
  <1>4. Records(s) => Records(r)
    BY <1>1 DEF Records, PointerPart, KeyboardPart
  <1> QED BY <1>1, <1>2, <1>3, <1>4, DoesBy DEF Queues

LEMMA PointerTakenDoes ==
    ASSUME NEW s \in Server, NEW c \in Client, NEW m \in Mode,
           m = "ReplayPointer" => s.sync["pointer"] < FrozenNoEvent,
           NEW r, r = PointerTaken(s, c, m)
    PROVE  Does(s, r)
  <1>1. PICK t : t = [s EXCEPT !.press = FALSE, !.pqueue = <<>>]
    OBVIOUS
  <1>2. t \in Server
    <2>1. <<>> \in Seq(ButtonEvent)
      OBVIOUS
    <2> QED BY <1>1, <2>1 DEF Server
  <1>3. /\ t.request = s.request /\ t.keys = s.keys /\ t.out = s.out /\ t.sync = s.sync
        /\ t.kgrab = s.kgrab /\ t.heldKey = s.heldKey /\ t.active = s.active
        /\ t.pgrab = s.pgrab /\ t.passive = s.passive /\ t.press = FALSE
    BY <1>1 DEF Server
  <1>4. Records(s) => Records(t)
    BY <1>3 DEF Records
  <1>5. Does(s, t)
    <2>1. \A x \in Device : GrabOwner(t, x) = GrabOwner(s, x)
      BY <1>3 DEF GrabOwner, BridgedOwner
    <2> QED BY <1>2, <1>3, <1>4, <2>1, DoesBy
  <1>6. CASE m # "ReplayPointer"
    BY <1>1, <1>5, <1>6 DEF PointerTaken
  <1>7. CASE m = "ReplayPointer" /\ s.passive
    <2>1. r = [t EXCEPT !.pgrab = None, !.passive = FALSE]
      BY <1>1, <1>7 DEF PointerTaken
    <2>2. r \in Server
      BY <1>2, <2>1 DEF Server, Owner
    <2>3. /\ r.request = s.request /\ r.keys = s.keys /\ r.out = s.out /\ r.sync = s.sync
          /\ r.kgrab = s.kgrab /\ r.heldKey = s.heldKey /\ r.active = s.active
          /\ r.pgrab = None /\ r.passive = FALSE /\ r.press = FALSE
      BY <1>2, <1>3, <2>1 DEF Server
    <2>4. Records(s) => Records(r)
      BY <1>7, <2>3 DEF Records
    <2>5. \A x \in Device : \/ r.sync[x] < FrozenNoEvent
                            \/ r.sync[x] = s.sync[x] /\ GrabOwner(r, x) = GrabOwner(s, x)
      BY <1>7, <2>3, PlainDevice DEF GrabOwner, BridgedOwner
    <2> QED BY <2>2, <2>3, <2>4, <2>5, DoesBy
  <1>8. CASE m = "ReplayPointer" /\ ~s.passive
    <2>1. r = DeactivatePointer(t, c) \/ r = t
      BY <1>1, <1>8 DEF PointerTaken
    <2>2. r = DeactivatePointer(t, c) => Does(t, r)
      BY <1>2, DeactivatePointerDoes
    <2> QED BY <1>5, <2>1, <2>2, DoesTrans
  <1> QED BY <1>6, <1>7, <1>8

LEMMA KeyTakenDoes ==
    ASSUME NEW s \in Server, NEW c \in Client, NEW m \in Mode,
           m = "ReplayKeyboard" => s.sync["keyboard"] < FrozenNoEvent,
           NEW r, r = KeyTaken(s, c, m)
    PROVE  Does(s, r)
  <1>1. PICK t : t = [s EXCEPT !.heldKey = None]
    OBVIOUS
  <1>2. t \in Server
    BY <1>1, HeldKeyTyped
  <1>3. /\ t.request = s.request /\ t.keys = s.keys /\ t.out = s.out /\ t.sync = s.sync
        /\ t.kgrab = s.kgrab /\ t.heldKey = None /\ PointerPart(t) = PointerPart(s)
    BY <1>1 DEF Server, PointerPart
  <1>4. Records(s) => Records(t)
    BY <1>3 DEF Records, PointerPart
  <1>5. Does(s, t)
    <2>1. \A x \in Device : GrabOwner(t, x) = GrabOwner(s, x)
      BY <1>3 DEF GrabOwner, BridgedOwner, PointerPart
    <2> QED BY <1>2, <1>3, <1>4, <2>1, DoesBy
  <1>6. CASE m # "ReplayKeyboard" \/ s.kgrab.owner # c
    BY <1>1, <1>5, <1>6 DEF KeyTaken
  <1>7. CASE m = "ReplayKeyboard" /\ s.kgrab.owner = c /\ s.kgrab.key # None
    <2>1. r = [t EXCEPT !.kgrab = NoGrab]
      BY <1>1, <1>7 DEF KeyTaken
    <2>2. r \in Server
      BY <1>2, <2>1, KgrabTyped
    <2>3. /\ r.request = s.request /\ r.keys = s.keys /\ r.out = s.out /\ r.sync = s.sync
          /\ r.kgrab = NoGrab /\ r.heldKey = None /\ PointerPart(r) = PointerPart(s)
      BY <1>2, <1>3, <2>1 DEF Server, PointerPart
    <2>4. Records(s) => Records(r)
      BY <2>3 DEF Records, PointerPart
    <2>5. \A x \in Device : \/ r.sync[x] < FrozenNoEvent
                            \/ r.sync[x] = s.sync[x] /\ GrabOwner(r, x) = GrabOwner(s, x)
      BY <1>7, <2>3, PlainDevice DEF GrabOwner, BridgedOwner, PointerPart
    <2> QED BY <2>2, <2>3, <2>4, <2>5, DoesBy
  <1>8. CASE m = "ReplayKeyboard" /\ s.kgrab.owner = c /\ s.kgrab.key = None
    <2>1. r = DeactivateKeyboard(t, c) \/ r = t
      BY <1>1, <1>8 DEF KeyTaken
    <2>2. r = DeactivateKeyboard(t, c) => Does(t, r)
      BY <1>2, DeactivateKeyboardDoes
    <2> QED BY <1>5, <2>1, <2>2, DoesTrans
  <1> QED BY <1>6, <1>7, <1>8

\* The stages of Allow.
AllowStages(s, c, m, a, p, k, q, h) ==
    /\ a = Allowed(s, c, m)
    /\ p = IF m \in PointerModes \cup BothModes THEN PointerTaken(a, c, m) ELSE a
    /\ k = IF m \notin PointerModes THEN KeyTaken(p, c, m) ELSE p
    /\ q = IF m \in PointerModes \cup BothModes
           THEN PointerPlayed(k, m, s.press, s.pqueue) ELSE k
    /\ h = KeyReplayed(q, m, p.heldKey)

LEMMA AllowIs ==
    ASSUME NEW s, NEW c, NEW m
    PROVE  \E a, p, k, q, h : AllowStages(s, c, m, a, p, k, q, h) /\ Allow(s, c, m) = ComputeFreezes(h)
  BY DEF AllowStages, Allow

\* apply_allow_events as a whole.
LEMMA AllowDoes ==
    ASSUME NEW s \in Server, NEW c \in Client, NEW m \in Mode, NEW r, r = Allow(s, c, m)
    PROVE  /\ r \in Server /\ r.request = s.request /\ Calm(r)
           /\ Records(s) => Records(r)
           /\ \A D \in SUBSET Device : Held(s, D) => Held(r, D)
           /\ \A e \in KeyEvent :
                 Flow(r, e) - Flow(s, e) \in {0, IF s.heldKey = e THEN 1 ELSE 0}
  <1>1. PICK a, p, k, q, h :
           AllowStages(s, c, m, a, p, k, q, h) /\ Allow(s, c, m) = ComputeFreezes(h)
    BY AllowIs
  <1>2. a = Allowed(s, c, m)
    BY <1>1 DEF AllowStages
  <1>3. Does(s, a) /\ a \in Server
    BY <1>2, AllowedDoes DEF Does
  <1>4. /\ m = "ReplayPointer" => a.sync["pointer"] < FrozenNoEvent
        /\ m = "ReplayKeyboard" => a.sync["keyboard"] < FrozenNoEvent
    <2>1. m \notin BothModes => a.sync[Subject(m)] = NewState(m)
      BY <1>2, AllowedKeeps
    <2> QED BY <2>1, NewStateIs DEF BothModes, Subject, PointerModes
  <1>5. Does(a, p) /\ p \in Server
    <2>1. p = PointerTaken(a, c, m) \/ p = a
      BY <1>1 DEF AllowStages
    <2>2. p = PointerTaken(a, c, m) => Does(a, p)
      BY <1>3, <1>4, PointerTakenDoes
    <2>3. p = a => Does(a, p)
      BY <1>3, DoesRefl
    <2> QED BY <2>1, <2>2, <2>3 DEF Does
  <1>6. m = "ReplayKeyboard" => p = a /\ p.heldKey = s.heldKey
    <2>1. m = "ReplayKeyboard" => p = a
      BY <1>1 DEF AllowStages, PointerModes, BothModes
    <2>2. KeyboardPart(a) = KeyboardPart(s)
      BY <1>2, AllowedKeeps
    <2> QED BY <2>1, <2>2 DEF KeyboardPart
  <1>7. Does(p, k) /\ k \in Server
    <2>1. k = KeyTaken(p, c, m) \/ k = p
      BY <1>1 DEF AllowStages
    <2>2. k = KeyTaken(p, c, m) => Does(p, k)
      BY <1>4, <1>5, <1>6, KeyTakenDoes
    <2>3. k = p => Does(p, k)
      BY <1>5, DoesRefl
    <2> QED BY <2>1, <2>2, <2>3 DEF Does
  <1>8. Does(k, q) /\ q \in Server
    <2>1. s.pqueue \in Seq(ButtonEvent) /\ <<"press">> \o s.pqueue \in Seq(ButtonEvent)
      <3>1. s.pqueue \in Seq(ButtonEvent) /\ <<"press">> \in Seq(ButtonEvent)
        BY ServerFields DEF ButtonEvent
      <3> QED BY <3>1
    <2>2. \/ q = Play(k, s.pqueue)
          \/ q = Play(k, <<"press">> \o s.pqueue)
          \/ q = k
      BY <1>1 DEF AllowStages, PointerPlayed
    <2>3. q = Play(k, s.pqueue) => Does(k, q)
      BY <1>7, <2>1, PlayDoes
    <2>4. q = Play(k, <<"press">> \o s.pqueue) => Does(k, q)
      BY <1>7, <2>1, PlayDoes
    <2>5. q = k => Does(k, q)
      BY <1>7, DoesRefl
    <2> QED BY <2>2, <2>3, <2>4, <2>5 DEF Does
  <1>9. Does(s, q)
    BY <1>3, <1>5, <1>7, <1>8, DoesTrans
  <1>10. /\ h \in Server /\ h.request = q.request
         /\ Records(q) => Records(h)
         /\ \A D \in SUBSET Device : Held(q, D) => Held(h, D)
         /\ \A e \in KeyEvent :
               Flow(h, e) = Flow(q, e) + IF m = "ReplayKeyboard" /\ s.heldKey = e THEN 1 ELSE 0
    <2>1. h = KeyReplayed(q, m, p.heldKey)
      BY <1>1 DEF AllowStages
    <2>2. CASE m = "ReplayKeyboard" /\ p.heldKey # None
      <3>0. PICK x, to : x = p.heldKey /\ to = "focus"
        OBVIOUS
      <3>1. PICK t : t = Delivered(q, to, x)
        OBVIOUS
      <3>2. h = DeviceForm(t, "keyboard")
        BY <2>1, <2>2, <3>0, <3>1 DEF KeyReplayed
      <3>3. x \in KeyEvent /\ to \in Client \cup {"focus"}
        BY <1>5, <2>2, <3>0 DEF Server
      <3>4. Sane(q, t) /\ t \in Server
        BY ONLY <1>8, <3>1, <3>3, DeliveredKeeps
      <3>5. \A e \in KeyEvent : Flow(t, e) = Flow(q, e) + IF e = x THEN 1 ELSE 0
        BY <1>8, <3>1, <3>3, DeliveredFlows
      <3>6. Kept(t, h)
        BY <3>2, <3>4, PlainDevice, DeviceFormKeeps
      <3>7. Sane(q, h)
        BY <3>4, <3>6, SaneTrans DEF Kept
      <3>8. \A e \in KeyEvent : Flow(h, e) = Flow(q, e) + IF e = x THEN 1 ELSE 0
        BY <3>5, <3>6 DEF Kept
      <3> QED BY <1>6, <2>2, <3>0, <3>7, <3>8 DEF Sane
    <2>3. CASE ~(m = "ReplayKeyboard" /\ p.heldKey # None)
      <3>1. h = q
        BY <2>1, <2>3 DEF KeyReplayed
      <3>2. \A e \in KeyEvent : ~(m = "ReplayKeyboard" /\ s.heldKey = e)
        BY <1>6, <2>3, GrabAssumption
      <3> QED BY <1>8, <3>1, <3>2, FlowNat
    <2> QED BY <2>2, <2>3
  <1>11. r = ComputeFreezes(h)
    BY <1>1
  <1>12. Kept(h, r) /\ r \in Server /\ Calm(r)
    BY <1>10, <1>11, ComputeFreezesKeeps
  <1>13. ASSUME NEW e \in KeyEvent
         PROVE  Flow(r, e) - Flow(s, e) \in {0, IF s.heldKey = e THEN 1 ELSE 0}
    <2>1. /\ Flow(r, e) = Flow(h, e) /\ Flow(q, e) = Flow(s, e)
          /\ Flow(h, e) = Flow(q, e) + IF m = "ReplayKeyboard" /\ s.heldKey = e THEN 1 ELSE 0
      BY <1>9, <1>10, <1>12 DEF Kept, Does
    <2>2. Flow(s, e) \in Nat
      BY FlowNat
    <2> QED BY ONLY <2>1, <2>2
  <1> QED BY <1>9, <1>10, <1>12, <1>13 DEF Kept, Sane, Does

-----------------------------------------------------------------------------
(* The steps.                                                              *)

\* The inductive invariant.
IInv == TypeOK /\ Records(srv) /\ Held(srv, {}) /\ Calm(srv)

\* What a step starts from: the server with nothing delivered yet.
Starts(s, what) ==
    /\ s \in Server /\ s.request = what
    /\ Records(s) /\ Held(s, {}) /\ Calm(s)
    /\ PointerPart(s) = PointerPart(srv) /\ s.kgrab = srv.kgrab /\ s.heldKey = srv.heldKey
    /\ s.sync = srv.sync /\ s.other = srv.other /\ s.forms = srv.forms
    /\ s.keys = srv.keys /\ s.pqueue = srv.pqueue
    /\ \A e \in KeyEvent : Flow(s, e) = Count(srv.keys, e)

LEMMA StartsBy ==
    ASSUME IInv, NEW grabs \in SUBSET KeyGrab,
           NEW what \in (Mode \cup {"Disconnect", "none"}) \X Owner,
           NEW s, s = [srv EXCEPT !.out = <<>>, !.keyGrabs = grabs, !.request = what]
    PROVE  Starts(s, what)
  <1>1. srv \in Server /\ Records(srv) /\ Held(srv, {}) /\ Calm(srv)
    BY DEF IInv, TypeOK
  <1>2. s \in Server
    <2>1. PICK out : out = <<>>
      OBVIOUS
    <2>2. out \in Seq([to : Client \cup {"focus"}, key : KeyEvent])
      BY <2>1
    <2>3. s = [srv EXCEPT !.out = out, !.keyGrabs = grabs, !.request = what]
      BY <2>1
    <2> QED BY ZenonT(60), <1>1, <2>2, <2>3 DEF Server
  <1>3. /\ PointerPart(s) = PointerPart(srv) /\ s.kgrab = srv.kgrab /\ s.heldKey = srv.heldKey
        /\ s.sync = srv.sync /\ s.other = srv.other /\ s.forms = srv.forms
        /\ s.keys = srv.keys /\ s.pqueue = srv.pqueue /\ s.out = <<>> /\ s.request = what
    BY <1>1 DEF Server, PointerPart
  <1>4. Records(s) /\ Held(s, {}) /\ Calm(s)
    BY <1>1, <1>3
       DEF Records, Held, Calm, Settled, Frozen, GrabOwner, BridgedOwner, PointerPart
  <1>5. ASSUME NEW e \in KeyEvent PROVE Flow(s, e) = Count(srv.keys, e)
    <2>1. Sends(s.out, e) = {}
      BY <1>3 DEF Sends
    <2>2. Cardinality(Sends(s.out, e)) = 0
      BY <2>1, FS_EmptySet
    <2>3. Count(s.keys, e) \in Nat /\ Count(s.keys, e) = Count(srv.keys, e)
      BY <1>2, <1>3, FlowNat
    <2> QED BY <2>2, <2>3 DEF Flow
  <1> QED BY <1>2, <1>3, <1>4, <1>5 DEF Starts

LEMMA FoundStarts ==
    ASSUME IInv, NEW grabs \in SUBSET KeyGrab
    PROVE  Starts(Found(grabs), <<"none", None>>)
  <1>1. <<"none", None>> \in (Mode \cup {"Disconnect", "none"}) \X Owner
    BY DEF Owner
  <1>2. PICK s, what : s = Found(grabs) /\ what = <<"none", None>>
    OBVIOUS
  <1>3. s = [srv EXCEPT !.out = <<>>, !.keyGrabs = grabs, !.request = what]
    BY <1>2 DEF Found
  <1>4. Starts(s, what)
    BY <1>1, <1>2, <1>3, StartsBy
  <1> QED BY <1>2, <1>4

LEMMA ServingStarts ==
    ASSUME IInv, NEW grabs \in SUBSET KeyGrab, NEW w \in Mode \cup {"Disconnect"},
           NEW c \in Client
    PROVE  Starts(Serving(grabs, w, c), <<w, c>>)
  <1>1. <<w, c>> \in (Mode \cup {"Disconnect", "none"}) \X Owner
    BY DEF Owner
  <1>2. PICK s, what : s = Serving(grabs, w, c) /\ what = <<w, c>>
    OBVIOUS
  <1>3. s = [srv EXCEPT !.out = <<>>, !.keyGrabs = grabs, !.request = what]
    <2>1. srv \in Server
      BY DEF IInv, TypeOK
    <2> QED BY <1>2, <2>1 DEF Serving, Found, Server
  <1>4. Starts(s, what)
    BY <1>1, <1>2, <1>3, StartsBy
  <1> QED BY <1>2, <1>4

LEMMA RegisteredIs == \A grabs \in Registered : grabs \in SUBSET KeyGrab
  BY DEF Registered

\* A step that lets nobody go in particular.
Plain ==
    \E s : /\ Starts(s, <<"none", None>>) /\ Does(s, srv') /\ Calm(srv')
           /\ keysDown' = keysDown /\ buttonDown' \in BOOLEAN

LEMMA PlainBy ==
    ASSUME IInv, NEW grabs \in SUBSET KeyGrab, UNCHANGED Devices,
           Does(Found(grabs), srv'), Calm(srv')
    PROVE  Plain
  BY FoundStarts DEF Plain, Devices, IInv, TypeOK

\* Each step that lets no press of a new key in.
LEMMA ButtonInputPlain == ASSUME IInv, ButtonInput PROVE Plain
  <1>1. PICK grabs \in Registered, match \in Matching :
           srv' = PointerFanout(Found(grabs), IF buttonDown THEN "release" ELSE "press", match)
    BY DEF ButtonInput
  <1>2. PICK s, e : s = Found(grabs) /\ e = IF buttonDown THEN "release" ELSE "press"
    OBVIOUS
  <1>3. Starts(s, <<"none", None>>)
    BY <1>2, RegisteredIs, FoundStarts
  <1>4. s \in Server /\ Records(s) /\ Calm(s)
    BY <1>3 DEF Starts
  <1>5. e \in ButtonEvent /\ match \in SUBSET ButtonGrab
    BY <1>2 DEF ButtonEvent, Matching
  <1>6. srv' = PointerFanout(s, e, match)
    BY <1>1, <1>2
  <1>7. Does(s, srv') /\ Calm(srv')
    BY <1>4, <1>5, <1>6, PointerFanoutDoes
  <1>8. keysDown' = keysDown /\ buttonDown' \in BOOLEAN
    BY DEF ButtonInput
  <1> QED BY <1>3, <1>7, <1>8 DEF Plain

LEMMA WindowsGonePlain ==
    ASSUME IInv, NEW gone \in SUBSET Device, WindowsGone(gone)
    PROVE  Plain
  <1>1. PICK grabs \in Registered :
          LET s == Found(grabs)
              p == IF "pointer" \in gone /\ s.pgrab # None
                   THEN DeactivatePointer(s, s.pgrab) ELSE s
          IN  srv' = IF "keyboard" \in gone /\ p.kgrab # NoGrab
                     THEN DeactivateKeyboard(p, p.kgrab.owner) ELSE p
    BY DEF WindowsGone
  <1>2. PICK s : s = Found(grabs)
    OBVIOUS
  <1>3. PICK p : p = IF "pointer" \in gone /\ s.pgrab # None
                     THEN DeactivatePointer(s, s.pgrab) ELSE s
    OBVIOUS
  <1>4. srv' = DeactivateKeyboard(p, p.kgrab.owner) \/ srv' = p
    BY <1>1, <1>2, <1>3
  <1>5. s \in Server /\ Calm(s)
    BY <1>2, RegisteredIs, FoundStarts DEF Starts
  <1>6. Does(s, p) /\ Calm(p)
    <2>1. p = DeactivatePointer(s, s.pgrab) \/ p = s
      BY <1>3
    <2>2. p = DeactivatePointer(s, s.pgrab) => Does(s, p) /\ Calm(p)
      BY <1>5, DeactivatePointerDoes
    <2> QED BY <1>5, <2>1, <2>2, DoesRefl
  <1>7. Does(p, srv') /\ Calm(srv')
    <2>1. p \in Server
      BY <1>6 DEF Does
    <2>2. srv' = DeactivateKeyboard(p, p.kgrab.owner) => Does(p, srv') /\ Calm(srv')
      BY <1>6, <2>1, DeactivateKeyboardDoes
    <2> QED BY <1>4, <1>6, <2>1, <2>2, DoesRefl
  <1>8. Does(s, srv')
    BY <1>6, <1>7, DoesTrans
  <1>9. UNCHANGED Devices
    BY DEF WindowsGone
  <1> QED BY <1>2, <1>7, <1>8, <1>9, RegisteredIs, PlainBy

LEMMA GrabPlain ==
    ASSUME IInv, NEW c \in Client, NEW this \in BOOLEAN, NEW paired \in BOOLEAN,
           GrabPointer(c, this, paired) \/ GrabKeyboard(c, this, paired)
    PROVE  Plain
  <1>1. PICK grabs \in Registered :
           \/ srv' = PointerGrabbed(Found(grabs), c, this, paired)
           \/ srv' = KeyboardGrabbed(Found(grabs), c, this, paired)
    BY DEF GrabPointer, GrabKeyboard
  <1>2. PICK s : s = Found(grabs)
    OBVIOUS
  <1>3. s \in Server
    BY <1>2, RegisteredIs, FoundStarts DEF Starts
  <1>4. CASE srv' = PointerGrabbed(s, c, this, paired)
    <2>1. Does(s, srv') /\ Calm(srv')
      BY <1>3, <1>4, PointerGrabbedDoes
    <2>2. UNCHANGED Devices
      BY DEF GrabPointer, GrabKeyboard
    <2> QED BY <1>2, <2>1, <2>2, RegisteredIs, PlainBy
  <1>5. CASE srv' = KeyboardGrabbed(s, c, this, paired)
    <2>1. Does(s, srv') /\ Calm(srv')
      BY <1>3, <1>5, KeyboardGrabbedDoes
    <2>2. UNCHANGED Devices
      BY DEF GrabPointer, GrabKeyboard
    <2> QED BY <1>2, <2>1, <2>2, RegisteredIs, PlainBy
  <1> QED BY <1>1, <1>2, <1>4, <1>5

LEMMA ForgetsDoes ==
    ASSUME NEW s \in Server, NEW r, Calm(s),
           \/ \E x \in BOOLEAN : (x => s.press) /\ r = [s EXCEPT !.press = x]
           \/ \E x \in {s.heldKey, None} : r = [s EXCEPT !.heldKey = x]
    PROVE  Does(s, r) /\ Calm(r)
  <1>1. /\ r \in Server /\ r.request = s.request /\ r.keys = s.keys /\ r.out = s.out
        /\ r.sync = s.sync /\ r.other = s.other /\ r.forms = s.forms
        /\ r.pgrab = s.pgrab /\ r.active = s.active /\ r.kgrab = s.kgrab
        /\ r.passive = s.passive /\ (r.press => s.press) /\ r.heldKey \in {s.heldKey, None}
    BY ZenonT(60) DEF Server
  <1>2. Records(s) => Records(r)
    BY <1>1 DEF Records
  <1>3. \A x \in Device : GrabOwner(r, x) = GrabOwner(s, x)
    BY <1>1 DEF GrabOwner, BridgedOwner
  <1>4. Calm(r)
    BY <1>1 DEF Calm, Settled, Frozen
  <1> QED BY <1>1, <1>2, <1>3, <1>4, DoesBy

LEMMA XIGrabDevicePlain ==
    ASSUME IInv, NEW c \in Client, NEW d \in Device, NEW this \in BOOLEAN, NEW paired \in BOOLEAN,
           XIGrabDevice(c, d, this, paired)
    PROVE  Plain
  <1>1. PICK grabs \in Registered :
          srv' = IF d = "pointer"
                 THEN [PointerGrabbed(Found(grabs), c, this, paired) EXCEPT !.press = @ /\ this]
                 ELSE [KeyboardGrabbed(Found(grabs), c, this, paired)
                          EXCEPT !.heldKey = IF this THEN @ ELSE None]
    BY DEF XIGrabDevice
  <1>2. PICK s : s = Found(grabs)
    OBVIOUS
  <1>3. PICK t : t = IF d = "pointer" THEN PointerGrabbed(s, c, this, paired)
                     ELSE KeyboardGrabbed(s, c, this, paired)
    OBVIOUS
  <1>4. s \in Server
    BY <1>2, RegisteredIs, FoundStarts DEF Starts
  <1>5. Does(s, t) /\ Calm(t) /\ t \in Server
    BY <1>3, <1>4, PointerGrabbedDoes, KeyboardGrabbedDoes DEF Does
  <1>6. Does(t, srv') /\ Calm(srv')
    <2>1. CASE d = "pointer"
      <3>1. srv' = [t EXCEPT !.press = (t.press /\ this)]
        BY <1>1, <1>2, <1>3, <2>1
      <3>2. (t.press /\ this) \in BOOLEAN /\ ((t.press /\ this) => t.press)
        OBVIOUS
      <3> QED BY <1>5, <3>1, <3>2, ForgetsDoes
    <2>2. CASE d # "pointer"
      <3>1. srv' = [t EXCEPT !.heldKey = IF this THEN t.heldKey ELSE None]
        BY <1>1, <1>2, <1>3, <2>2
      <3>2. (IF this THEN t.heldKey ELSE None) \in {t.heldKey, None}
        OBVIOUS
      <3> QED BY <1>5, <3>1, <3>2, ForgetsDoes
    <2> QED BY <2>1, <2>2
  <1>7. Does(s, srv')
    BY <1>5, <1>6, DoesTrans
  <1>8. UNCHANGED Devices
    BY DEF XIGrabDevice
  <1> QED BY <1>2, <1>6, <1>7, <1>8, RegisteredIs, PlainBy

LEMMA UngrabPlain ==
    ASSUME IInv, NEW c \in Client,
           UngrabPointer(c) \/ UngrabKeyboard(c) \/ \E d \in Device : XIUngrabDevice(c, d)
    PROVE  Plain
  <1>1. PICK grabs \in Registered : \/ srv' = DeactivatePointer(Found(grabs), c)
                                    \/ srv' = DeactivateKeyboard(Found(grabs), c)
    BY DEF UngrabPointer, UngrabKeyboard, XIUngrabDevice
  <1>2. PICK s : s = Found(grabs)
    OBVIOUS
  <1>3. s \in Server /\ Calm(s)
    BY <1>2, RegisteredIs, FoundStarts DEF Starts
  <1>4. UNCHANGED Devices
    BY DEF UngrabPointer, UngrabKeyboard, XIUngrabDevice
  <1>5. srv' = DeactivatePointer(s, c) => Does(s, srv') /\ Calm(srv')
    BY <1>3, DeactivatePointerDoes
  <1>6. srv' = DeactivateKeyboard(s, c) => Does(s, srv') /\ Calm(srv')
    BY <1>3, DeactivateKeyboardDoes
  <1>7. Does(s, srv') /\ Calm(srv')
    BY <1>1, <1>2, <1>5, <1>6
  <1> QED BY <1>2, <1>4, <1>7, RegisteredIs, PlainBy

\* What each step comes to, for the invariant and for the keys.
Once(e) ==
    Flow(srv', e) - (Count(srv.keys, e) + IF Arrived(e) THEN 1 ELSE 0)
        \in {0, IF srv.heldKey = e THEN 1 ELSE 0}

LEMMA NothingArrived == ASSUME keysDown' = keysDown PROVE \A e : ~Arrived(e)
  BY DEF Arrived

LEMMA PlainKeeps ==
    ASSUME IInv, Plain
    PROVE  IInv' /\ (\A e \in KeyEvent : Once(e)) /\ srv'.request = <<"none", None>>
  <1>1. PICK s : /\ Starts(s, <<"none", None>>) /\ Does(s, srv') /\ Calm(srv')
                 /\ keysDown' = keysDown /\ buttonDown' \in BOOLEAN
    BY DEF Plain
  <1>2. IInv'
    BY <1>1 DEF IInv, TypeOK, Does, Starts
  <1>3. ASSUME NEW e \in KeyEvent PROVE Once(e)
    <2>1. Flow(srv', e) = Count(srv.keys, e)
      BY <1>1 DEF Does, Starts
    <2>2. Count(srv.keys, e) \in Nat
      BY FlowNat DEF IInv, TypeOK
    <2>3. ~Arrived(e)
      BY <1>1, NothingArrived
    <2> QED BY ONLY <2>1, <2>2, <2>3 DEF Once
  <1> QED BY <1>1, <1>2, <1>3 DEF Does, Starts

\* The step that does.
LEMMA KeyInputKeeps ==
    ASSUME IInv, NEW k \in Key, KeyInput(k)
    PROVE  IInv' /\ (\A e \in KeyEvent : Once(e)) /\ srv'.request = <<"none", None>>
  <1>1. PICK e : e = [key |-> k, down |-> k \notin keysDown]
    OBVIOUS
  <1>2. PICK grabs \in {{}} \cup {{g} : g \in KeyGrab} : srv' = KeyFanout(Found(grabs), e)
    BY <1>1 DEF KeyInput
  <1>3. grabs \in SUBSET KeyGrab /\ e \in KeyEvent /\ e.key = k /\ e.down = (k \notin keysDown)
    BY <1>1 DEF KeyEvent
  <1>4. PICK s : s = Found(grabs)
    OBVIOUS
  <1>5. Starts(s, <<"none", None>>) /\ s \in Server
    BY <1>3, <1>4, FoundStarts DEF Starts
  <1>6. /\ Sane(s, srv') /\ (Calm(s) => Calm(srv'))
        /\ \A x \in KeyEvent : Flow(srv', x) = Flow(s, x) + IF x = e THEN 1 ELSE 0
    BY <1>2, <1>3, <1>4, <1>5, KeyFanoutKeeps
  <1>7. keysDown' = (IF e.down THEN keysDown \cup {k} ELSE keysDown \ {k})
        /\ buttonDown' = buttonDown
    BY <1>1 DEF KeyInput
  <1>8. IInv'
    <2>1. keysDown' \in SUBSET Key
      BY <1>7 DEF IInv, TypeOK
    <2> QED BY <1>5, <1>6, <1>7, <2>1 DEF IInv, TypeOK, Sane, Starts
  <1>9. ASSUME NEW x \in KeyEvent PROVE Arrived(x) <=> x = e
    <2>1. Arrived(x) <=> x.key = k /\ x.down = (k \notin keysDown)
      BY <1>3, <1>7 DEF Arrived, KeyEvent
    <2>2. x = e <=> x.key = e.key /\ x.down = e.down
      BY <1>3 DEF KeyEvent
    <2> QED BY <1>3, <2>1, <2>2
  <1>10. ASSUME NEW x \in KeyEvent PROVE Once(x)
    <2>1. Flow(srv', x) = Count(srv.keys, x) + IF x = e THEN 1 ELSE 0
      BY <1>5, <1>6 DEF Starts
    <2>2. Count(srv.keys, x) \in Nat
      BY FlowNat DEF IInv, TypeOK
    <2>3. Arrived(x) <=> x = e
      BY <1>9
    <2> QED BY ONLY <2>1, <2>2, <2>3 DEF Once
  <1> QED BY <1>5, <1>6, <1>8, <1>10 DEF Sane, Starts

LEMMA FreeNotFrozenBy ==
    ASSUME NEW s \in Server, NEW c \in Client, Free(s, c, {}), NEW d \in Device
    PROVE  ~FrozenBy(s, c, d)
  BY DEF Free, FrozenBy, GrabOwner, BridgedOwner

\* process_disconnect: grabs go first, then both devices are thawed, in
\* either order.
LEMMA DisconnectKeeps ==
    ASSUME IInv, NEW c \in Client, Disconnect(c)
    PROVE  /\ IInv' /\ \A e \in KeyEvent : Once(e)
           /\ srv'.request = <<"Disconnect", c>>
           /\ \A d \in Device : ~FrozenBy(srv', c, d)
  <1>1. PICK grabs \in Registered, first \in Device :
          LET s == GrabsDropped(Serving(grabs, "Disconnect", c), c)
              t == IF Frozen(srv, first) THEN ThawDevice(s, first) ELSE s
          IN  srv' = IF Frozen(srv, Peer(first)) THEN ThawDevice(t, Peer(first)) ELSE t
    BY DEF Disconnect
  <1>2. PICK b : b = Serving(grabs, "Disconnect", c)
    OBVIOUS
  <1>3. PICK s : s = GrabsDropped(b, c)
    OBVIOUS
  <1>4. PICK t : t = IF Frozen(srv, first) THEN ThawDevice(s, first) ELSE s
    OBVIOUS
  <1>5. srv' = IF Frozen(srv, Peer(first)) THEN ThawDevice(t, Peer(first)) ELSE t
    BY <1>1, <1>2, <1>3, <1>4
  <1>6. Starts(b, <<"Disconnect", c>>)
    BY <1>2, RegisteredIs, ServingStarts
  <1>7. b \in Server /\ Records(b) /\ Calm(b)
    BY <1>6 DEF Starts
  <1>8. /\ s \in Server /\ s.request = b.request /\ Records(s)
        /\ \A e \in KeyEvent : Flow(s, e) = Flow(b, e)
        /\ \A x \in Device : Frozen(s, x) = Frozen(b, x) /\ s.sync[x] = b.sync[x]
        /\ s.other = b.other /\ s.forms = b.forms /\ s.keys = b.keys
        /\ c \notin {s.pgrab, s.active, s.kgrab.owner}
        /\ \A g \in s.keyGrabs : g.owner # c
    BY <1>3, <1>7, GrabsDroppedKeeps
  <1> DEFINE D == {x \in Device : Frozen(srv, x)}
  <1>9. \A x \in Device : Frozen(b, x) = Frozen(srv, x)
    BY <1>6 DEF Starts, Frozen
  <1>10. \A x \in Device \ D : s.other[x] = None /\ ~(s.sync[x] >= FrozenNoEvent)
    <2>1. \A x \in Device \ D : ~Frozen(srv, x)
      OBVIOUS
    <2> QED BY <1>6, <1>8, <2>1 DEF Frozen, Starts
  <1>11. D \in SUBSET Device
    OBVIOUS
  <1>12. Held(s, D) /\ Free(s, c, D) /\ Calm(s)
    <2> HIDE DEF D
    <2>1. Held(s, D)
      BY <1>10 DEF Held
    <2>2. Free(s, c, D)
      BY <1>8, <1>10, GrabAssumption DEF Free
    <2>3. Calm(s)
      BY <1>7, <1>8 DEF Calm, Settled
    <2> QED BY <2>1, <2>2, <2>3
  <1>13. /\ t \in Server /\ t.request = s.request /\ Calm(t)
         /\ \A e \in KeyEvent : Flow(t, e) = Flow(s, e)
         /\ Records(t) /\ Held(t, D \ {first}) /\ Free(t, c, D \ {first})
    <2>1. CASE Frozen(srv, first)
      <3>1. t = ThawDevice(s, first)
        BY <1>4, <2>1
      <3> HIDE DEF D
      <3>2. /\ t \in Server /\ t.request = s.request /\ Calm(t)
            /\ \A e \in KeyEvent : Flow(t, e) = Flow(s, e)
            /\ Records(s) => Records(t)
        BY <1>8, <3>1, ThawDeviceKeeps
      <3>3. /\ \A E \in SUBSET Device : Held(s, E) => Held(t, E \ {first})
            /\ \A x \in Client, E \in SUBSET Device : Free(s, x, E) => Free(t, x, E \ {first})
        BY <1>8, <3>1, ThawDeviceKeeps
      <3> QED BY <1>8, <1>11, <1>12, <3>2, <3>3
    <2>2. CASE ~Frozen(srv, first)
      <3>1. t = s /\ D \ {first} = D
        BY <1>4, <2>2
      <3> HIDE DEF D
      <3> QED BY <1>8, <1>12, <3>1
    <2> QED BY <2>1, <2>2
  <1> DEFINE E == D \ {first}
  <1>14. Peer(first) \in Device /\ E \ {Peer(first)} = {} /\ E \in SUBSET Device
    BY PlainDevice
  <1>15. /\ srv' \in Server /\ srv'.request = t.request /\ Calm(srv')
         /\ \A e \in KeyEvent : Flow(srv', e) = Flow(t, e)
         /\ Records(srv') /\ Held(srv', {}) /\ Free(srv', c, {})
    <2>1. CASE Frozen(srv, Peer(first))
      <3>1. PICK r : r = ThawDevice(t, Peer(first))
        OBVIOUS
      <3>2. PICK d : d = Peer(first)
        OBVIOUS
      <3>3. srv' = r /\ d \in Device /\ r = ThawDevice(t, d)
        BY <1>5, <1>14, <2>1, <3>1, <3>2
      <3>4. t \in Server /\ Held(t, E) /\ Free(t, c, E) /\ Records(t)
        BY <1>13
      <3>5. E \ {d} = {} /\ E \in SUBSET Device
        BY <1>14, <3>2
      <3> HIDE DEF D, E
      <3>6. /\ r \in Server /\ r.request = t.request /\ Calm(r)
            /\ \A e \in KeyEvent : Flow(r, e) = Flow(t, e)
            /\ Records(t) => Records(r)
        BY <3>3, <3>4, ThawDeviceKeeps
      <3>7. /\ \A F \in SUBSET Device : Held(t, F) => Held(r, F \ {d})
            /\ \A x \in Client, F \in SUBSET Device : Free(t, x, F) => Free(r, x, F \ {d})
        BY <3>3, <3>4, ThawDeviceKeeps
      <3>8. Held(r, E \ {d}) /\ Free(r, c, E \ {d})
        BY <3>4, <3>5, <3>7
      <3> QED BY <3>3, <3>4, <3>5, <3>6, <3>8
    <2>2. CASE ~Frozen(srv, Peer(first))
      <3>1. srv' = t /\ E = {}
        BY <1>5, <2>2, PlainDevice
      <3> QED BY <1>13, <3>1
    <2> QED BY <2>1, <2>2
  <1> HIDE DEF D, E
  <1>16. UNCHANGED Devices
    BY DEF Disconnect
  <1>17. IInv'
    BY <1>15, <1>16 DEF IInv, TypeOK, Devices
  <1>18. ASSUME NEW e \in KeyEvent PROVE Once(e)
    <2>1. Flow(srv', e) = Count(srv.keys, e)
      BY <1>6, <1>8, <1>13, <1>15 DEF Starts
    <2>2. Count(srv.keys, e) \in Nat
      BY FlowNat DEF IInv, TypeOK
    <2>3. ~Arrived(e)
      BY <1>16, NothingArrived DEF Devices
    <2> QED BY ONLY <2>1, <2>2, <2>3 DEF Once
  <1>19. srv'.request = <<"Disconnect", c>>
    BY <1>6, <1>8, <1>13, <1>15 DEF Starts
  <1>20. \A d \in Device : ~FrozenBy(srv', c, d)
    BY <1>15, FreeNotFrozenBy
  <1> QED BY <1>17, <1>18, <1>19, <1>20

LEMMA AllowEventsKeeps ==
    ASSUME IInv, NEW c \in Client, NEW m \in Mode, AllowEvents(c, m)
    PROVE  /\ IInv' /\ \A e \in KeyEvent : Once(e)
           /\ srv'.request = <<m, c>>
           /\ \E s : Starts(s, <<m, c>>) /\ srv' = Allow(s, c, m)
  <1>1. PICK grabs \in Registered : srv' = Allow(Serving(grabs, m, c), c, m)
    BY DEF AllowEvents
  <1>2. PICK s : s = Serving(grabs, m, c)
    OBVIOUS
  <1>3. Starts(s, <<m, c>>) /\ s \in Server
    <2>1. m \in Mode \cup {"Disconnect"}
      OBVIOUS
    <2> QED BY <1>2, <2>1, RegisteredIs, ServingStarts DEF Starts
  <1>4. srv' = Allow(s, c, m)
    BY <1>1, <1>2
  <1>5. /\ srv' \in Server /\ srv'.request = s.request /\ Calm(srv')
        /\ Records(s) => Records(srv')
        /\ \A D \in SUBSET Device : Held(s, D) => Held(srv', D)
    BY <1>3, <1>4, AllowDoes
  <1>6. \A e \in KeyEvent :
           Flow(srv', e) - Flow(s, e) \in {0, IF s.heldKey = e THEN 1 ELSE 0}
    BY <1>3, <1>4, AllowDoes
  <1>7. UNCHANGED Devices
    BY DEF AllowEvents
  <1>8. IInv'
    BY <1>3, <1>5, <1>7 DEF IInv, TypeOK, Devices, Starts
  <1>9. ASSUME NEW e \in KeyEvent PROVE Once(e)
    <2>1. Flow(s, e) = Count(srv.keys, e) /\ s.heldKey = srv.heldKey
      BY <1>3 DEF Starts
    <2>2. Count(srv.keys, e) \in Nat
      BY FlowNat DEF IInv, TypeOK
    <2>3. ~Arrived(e)
      BY <1>7, NothingArrived DEF Devices
    <2>4. Flow(srv', e) - Flow(s, e) \in {0, IF s.heldKey = e THEN 1 ELSE 0}
      BY <1>6
    <2> QED BY ONLY <2>1, <2>2, <2>3, <2>4 DEF Once
  <1> QED BY <1>3, <1>4, <1>5, <1>8, <1>9 DEF Starts

-----------------------------------------------------------------------------
(* Who lets go, lets go.                                                   *)

\* c does not hold d, and nothing withheld is open to replay.
Quiet(s, c, d, n) ==
    /\ s \in Server /\ Calm(s)
    /\ s.sync[d] = n /\ n < FrozenNoEvent
    /\ s.other[d] # c
    /\ d = "pointer" => ~s.press
    /\ d = "keyboard" => s.heldKey = None

LEMMA QuietNotFrozenBy ==
    ASSUME NEW s, NEW c, NEW d \in Device, NEW n \in 0..4, Quiet(s, c, d, n)
    PROVE  ~FrozenBy(s, c, d)
  BY PlainDevice DEF Quiet, FrozenBy, FrozenNoEvent

LEMMA EmptyCalm ==
    ASSUME NEW s, s.keys = <<>>, \A d \in Device : s.forms[d] = 0
    PROVE  Calm(s)
  BY DEF Calm, Settled

LEMMA QuietComputed ==
    ASSUME NEW s, NEW c, NEW d \in Device, NEW n, Quiet(s, c, d, n),
           NEW r, r = ComputeFreezes(s)
    PROVE  Quiet(r, c, d, n)
  <1>1. s \in Server /\ Calm(s)
    BY DEF Quiet
  <1>2. Unmoved(s, r) /\ r \in Server /\ Calm(r)
    BY <1>1, ComputeFreezesKeeps
  <1> QED BY <1>2 DEF Quiet, Unmoved, PointerPart, KeyboardPart

LEMMA QuietFormed ==
    ASSUME NEW s, NEW c, NEW d \in Device, Quiet(s, c, d, Thawed), NEW r, r = DeviceForm(s, d)
    PROVE  Quiet(r, c, d, Thawed)
  <1>1. s \in Server /\ Calm(s) /\ s.sync[d] = Thawed
    BY DEF Quiet
  <1>2. /\ r \in Server
        /\ s.sync[d] \notin {FreezeNextEvent, FreezeBothNextEvent} =>
              r.sync = s.sync /\ r.other = s.other
        /\ PointerPart(r) = PointerPart(s) /\ KeyboardPart(r) = KeyboardPart(s)
    BY <1>1, DeviceFormFacts
  <1>3. s.sync[d] \notin {FreezeNextEvent, FreezeBothNextEvent}
    BY <1>1 DEF Thawed, FreezeNextEvent, FreezeBothNextEvent
  <1>4. \A x \in Device : Settled(s, x) => Settled(r, x)
    BY <1>1, DeviceFormKeeps
  <1>5. Calm(r)
    BY <1>1, <1>4 DEF Calm
  <1> QED BY <1>2, <1>3, <1>5 DEF Quiet, PointerPart, KeyboardPart

LEMMA QuietDelivered ==
    ASSUME NEW s, NEW c, NEW d \in Device, NEW n, Quiet(s, c, d, n),
           NEW to \in Client \cup {"focus"}, NEW e \in KeyEvent, NEW r, r = Delivered(s, to, e)
    PROVE  Quiet(r, c, d, n)
  <1>1. s \in Server /\ Calm(s)
    BY DEF Quiet
  <1>2. /\ r \in Server /\ r.sync = s.sync /\ r.other = s.other
        /\ PointerPart(r) = PointerPart(s) /\ KeyboardPart(r) = KeyboardPart(s)
    BY <1>1, DeliveredFacts
  <1>3. \A x \in Device : Settled(s, x) => Settled(r, x)
    BY <1>1, DeliveredKeeps
  <1> QED BY <1>1, <1>2, <1>3 DEF Quiet, PointerPart, KeyboardPart, Calm

LEMMA QuietReleased ==
    ASSUME NEW s \in Server, s.keys = <<>>, \A x \in Device : s.forms[x] = 0,
           NEW d \in Device, NEW c \in Client, s.other[d] # c,
           d = "pointer" => ~s.press, d = "keyboard" => s.heldKey = None,
           NEW r, r = BridgeRelease(s, d, c)
    PROVE  Quiet(r, c, d, Thawed)
  <1>1. PICK t : t = Released(s, d, c)
    OBVIOUS
  <1>2. /\ t \in Server /\ t.forms = s.forms
        /\ PointerPart(t) = PointerPart(s) /\ KeyboardPart(t) = KeyboardPart(s)
        /\ Queues(t) = Queues(s)
    BY <1>1, ReleasedFacts
  <1>3. /\ \A x \in Device : t.sync[x] = IF x = d THEN Thawed ELSE s.sync[x]
        /\ \A x \in Device : t.other[x] = IF x = Peer(d) /\ s.other[x] = c THEN None ELSE s.other[x]
    BY <1>1, ReleasedFacts
  <1>4. Calm(t)
    BY <1>2, EmptyCalm DEF Queues
  <1>5. Thawed < FrozenNoEvent
    BY DEF Thawed, FrozenNoEvent
  <1>6. t.sync[d] = Thawed /\ t.other[d] # c
    BY <1>3, PeerIs
  <1>7. Quiet(t, c, d, Thawed)
    BY <1>2, <1>4, <1>5, <1>6 DEF Quiet, PointerPart, KeyboardPart
  <1>8. r = ComputeFreezes(t)
    BY <1>1 DEF BridgeRelease
  <1> QED BY <1>7, <1>8, QuietComputed

\* The pointer's grab, the held press and the queue, taken.
LEMMA QuietPointerTaken ==
    ASSUME NEW s \in Server, NEW c \in Client, NEW m \in PointerModes,
           s.keys = <<>>, s.pqueue = <<>>, \A x \in Device : s.forms[x] = 0,
           s.sync["pointer"] = NewState(m), s.other["pointer"] # c,
           NEW r, r = PointerTaken(s, c, m)
    PROVE  Quiet(r, c, "pointer", NewState(m))
  <1>1. PICK t : t = [s EXCEPT !.press = FALSE, !.pqueue = <<>>]
    OBVIOUS
  <1>2. t \in Server
    <2>1. <<>> \in Seq(ButtonEvent)
      OBVIOUS
    <2> QED BY <1>1, <2>1 DEF Server
  <1>3. /\ t.keys = <<>> /\ t.forms = s.forms /\ t.sync = s.sync /\ t.other = s.other
        /\ t.press = FALSE
    BY <1>1 DEF Server
  <1>4. NewState(m) < FrozenNoEvent /\ "pointer" \in Device /\ "pointer" # "keyboard"
    BY NewStateIs, PlainDevice DEF PointerModes, Mode
  <1>5. ASSUME NEW u \in Server, u.keys = <<>>, u.forms = s.forms, u.sync = s.sync,
               u.other = s.other, u.press = FALSE
        PROVE  Quiet(u, c, "pointer", NewState(m))
    BY <1>4, <1>5, EmptyCalm DEF Quiet
  <1>6. CASE r = t
    BY <1>2, <1>3, <1>5, <1>6
  <1>7. CASE m = "ReplayPointer" /\ s.passive
    <2>1. r = [t EXCEPT !.pgrab = None, !.passive = FALSE]
      BY <1>1, <1>7 DEF PointerTaken
    <2>2. r \in Server
      BY <1>2, <2>1 DEF Server, Owner
    <2>3. /\ r.keys = <<>> /\ r.forms = s.forms /\ r.sync = s.sync /\ r.other = s.other
          /\ r.press = FALSE
      BY <1>2, <1>3, <2>1 DEF Server
    <2> QED BY <1>5, <2>2, <2>3
  <1>8. CASE m = "ReplayPointer" /\ r = DeactivatePointer(t, c)
    <2>1. PICK u : u = [t EXCEPT !.pgrab = None, !.passive = FALSE, !.active = None,
                                 !.press = FALSE, !.pqueue = <<>>]
      OBVIOUS
    <2>2. u \in Server
      <3>1. <<>> \in Seq(ButtonEvent)
        OBVIOUS
      <3> QED BY ZenonT(60), <1>2, <2>1, <3>1 DEF Server, Owner
    <2>3. /\ u.keys = <<>> /\ u.forms = s.forms /\ u.other = s.other /\ u.press = FALSE
      BY <1>2, <1>3, <2>1 DEF Server
    <2>4. r = BridgeRelease(u, "pointer", c)
      BY <1>8, <2>1 DEF DeactivatePointer
    <2>5. Quiet(r, c, "pointer", Thawed)
      BY <1>4, <2>2, <2>3, <2>4, QuietReleased
    <2>6. NewState(m) = Thawed
      BY <1>8, NewStateIs DEF Mode
    <2> QED BY <2>5, <2>6
  <1>9. \/ r = t
        \/ m = "ReplayPointer" /\ s.passive
        \/ m = "ReplayPointer" /\ r = DeactivatePointer(t, c)
    BY <1>1 DEF PointerTaken
  <1> QED BY <1>6, <1>7, <1>8, <1>9

LEMMA QuietKeyTaken ==
    ASSUME NEW s \in Server, NEW c \in Client, NEW m \in Mode \ (PointerModes \cup BothModes),
           s.keys = <<>>, \A x \in Device : s.forms[x] = 0,
           s.sync["keyboard"] = NewState(m), s.other["keyboard"] # c,
           NEW r, r = KeyTaken(s, c, m)
    PROVE  Quiet(r, c, "keyboard", NewState(m))
  <1>1. PICK t : t = [s EXCEPT !.heldKey = None]
    OBVIOUS
  <1>2. t \in Server
    BY <1>1, HeldKeyTyped
  <1>3. /\ t.keys = <<>> /\ t.forms = s.forms /\ t.sync = s.sync /\ t.other = s.other
        /\ t.heldKey = None /\ t.kgrab = s.kgrab
    BY <1>1 DEF Server
  <1>4. NewState(m) < FrozenNoEvent /\ "keyboard" \in Device /\ "pointer" # "keyboard"
    BY NewStateIs, PlainDevice
  <1>5. ASSUME NEW u \in Server, u.keys = <<>>, u.forms = s.forms, u.sync = s.sync,
               u.other = s.other, u.heldKey = None
        PROVE  Quiet(u, c, "keyboard", NewState(m))
    BY <1>4, <1>5, EmptyCalm DEF Quiet
  <1>6. CASE r = t
    BY <1>2, <1>3, <1>5, <1>6
  <1>7. CASE r = [t EXCEPT !.kgrab = NoGrab]
    <2>1. r \in Server
      BY <1>2, <1>7, KgrabTyped
    <2>2. /\ r.keys = <<>> /\ r.forms = s.forms /\ r.sync = s.sync /\ r.other = s.other
          /\ r.heldKey = None
      BY <1>2, <1>3, <1>7 DEF Server
    <2> QED BY <1>5, <2>1, <2>2
  <1>8. CASE m = "ReplayKeyboard" /\ s.kgrab.owner = c /\ r = DeactivateKeyboard(t, c)
    <2>1. PICK u : u = [t EXCEPT !.kgrab = NoGrab, !.heldKey = None]
      OBVIOUS
    <2>2. u \in Server
      BY <1>2, <2>1 DEF Server
    <2>3. /\ u.keys = <<>> /\ u.forms = s.forms /\ u.other = s.other /\ u.heldKey = None
      BY <1>2, <1>3, <2>1 DEF Server
    <2>4. r = BridgeRelease(u, "keyboard", c)
      BY <1>3, <1>8, <2>1 DEF DeactivateKeyboard
    <2>5. Quiet(r, c, "keyboard", Thawed)
      BY <1>4, <2>2, <2>3, <2>4, QuietReleased
    <2>6. NewState(m) = Thawed
      BY <1>8, NewStateIs
    <2> QED BY <2>5, <2>6
  <1>9. \/ r = t
        \/ r = [t EXCEPT !.kgrab = NoGrab]
        \/ m = "ReplayKeyboard" /\ s.kgrab.owner = c /\ r = DeactivateKeyboard(t, c)
    BY <1>1 DEF KeyTaken
  <1> QED BY <1>6, <1>7, <1>8, <1>9

\* With nothing withheld, apply_allow_events leaves c nothing it holds d by.
LEMMA AllowLetsGo ==
    ASSUME NEW s \in Server, NEW c \in Client, NEW m \in Mode \ BothModes,
           s.keys = <<>>, s.pqueue = <<>>, \A x \in Device : s.forms[x] = 0,
           NEW r, r = Allow(s, c, m)
    PROVE  ~FrozenBy(r, c, Subject(m))
  <1>1. PICK a, p, k, q, h :
           AllowStages(s, c, m, a, p, k, q, h) /\ Allow(s, c, m) = ComputeFreezes(h)
    BY AllowIs
  <1>2. a = Allowed(s, c, m)
    BY <1>1 DEF AllowStages
  <1>3. /\ a \in Server /\ KeyboardPart(a) = KeyboardPart(s) /\ Queues(a) = Queues(s)
        /\ a.forms = s.forms
        /\ a.sync[Subject(m)] = NewState(m) /\ a.other[Subject(m)] # c
    BY <1>2, AllowedKeeps
  <1>4. a.keys = <<>> /\ a.pqueue = <<>> /\ \A x \in Device : a.forms[x] = 0
    BY <1>3 DEF Queues
  <1>5. NewState(m) \in 0..4 /\ Subject(m) \in Device
    BY NewStateIs, PlainDevice DEF Subject
  <1>6. CASE m \in PointerModes
    <2>1. Subject(m) = "pointer"
      BY <1>6 DEF Subject
    <2>2. p = PointerTaken(a, c, m) /\ k = p /\ q = PointerPlayed(k, m, s.press, s.pqueue)
      BY <1>1, <1>6 DEF AllowStages
    <2>3. Quiet(p, c, "pointer", NewState(m)) /\ p \in Server
      BY <1>3, <1>4, <1>6, <2>1, <2>2, QuietPointerTaken DEF Quiet
    <2>4. Quiet(q, c, "pointer", NewState(m))
      <3>1. CASE m # "ReplayPointer"
        <4>1. q = Play(p, s.pqueue)
          BY <2>2, <3>1 DEF PointerPlayed
        <4>2. PICK f : /\ Play(p, s.pqueue) = f[Len(s.pqueue)]
                       /\ \A n \in Nat : f[n] = PlayOf(p, s.pqueue, f, n)
          BY <2>3, PlayUnfolds
        <4>3. Len(s.pqueue) = 0
          OBVIOUS
        <4>4. f[0] = p
          BY <4>2 DEF PlayOf
        <4> QED BY <2>3, <4>1, <4>2, <4>3, <4>4
      <3>2. CASE m = "ReplayPointer" /\ s.press
        <4>0. PICK queue : queue = <<"press">> \o s.pqueue
          OBVIOUS
        <4>1. q = Play(p, queue)
          BY <2>2, <3>2, <4>0 DEF PointerPlayed
        <4>2. PICK f : /\ Play(p, queue) = f[Len(queue)]
                       /\ \A n \in Nat : f[n] = PlayOf(p, queue, f, n)
          BY <2>3, PlayUnfolds
        <4>3. Len(queue) = 1 /\ queue[1] = "press"
          BY <4>0
        <4>4. f[0] = p
          BY <4>2 DEF PlayOf
        <4>5. f[1] = DeviceForm(ReleasePassive(f[0], queue[1]), "pointer")
          BY <4>2 DEF PlayOf
        <4>6. ReleasePassive(p, "press") = p
          BY DEF ReleasePassive
        <4>7. q = DeviceForm(p, "pointer")
          BY <4>1, <4>2, <4>3, <4>4, <4>5, <4>6
        <4>8. NewState(m) = Thawed
          BY <3>2, NewStateIs
        <4> QED BY <2>3, <4>7, <4>8, PlainDevice, QuietFormed
      <3>3. CASE m = "ReplayPointer" /\ ~s.press
        BY <2>2, <2>3, <3>3 DEF PointerPlayed
      <3> QED BY <3>1, <3>2, <3>3
    <2>5. h = q
      BY <1>1, <1>6 DEF AllowStages, KeyReplayed, PointerModes
    <2>6. Quiet(r, c, "pointer", NewState(m))
      BY <1>1, <2>4, <2>5, PlainDevice, QuietComputed
    <2> QED BY <1>5, <2>1, <2>6, PlainDevice, QuietNotFrozenBy
  <1>7. CASE m \notin PointerModes
    <2>1. Subject(m) = "keyboard" /\ m \in Mode \ (PointerModes \cup BothModes)
      BY <1>7 DEF Subject
    <2>2. p = a /\ k = KeyTaken(a, c, m) /\ q = k
      BY <1>1, <2>1 DEF AllowStages
    <2>3. Quiet(q, c, "keyboard", NewState(m)) /\ q \in Server
      BY <1>3, <1>4, <2>1, <2>2, QuietKeyTaken DEF Quiet
    <2>4. h = KeyReplayed(q, m, a.heldKey)
      BY <1>1, <2>2 DEF AllowStages
    <2>5. Quiet(h, c, "keyboard", NewState(m))
      <3>1. CASE m = "ReplayKeyboard" /\ a.heldKey # None
        <4>1. PICK e, to : e = a.heldKey /\ to = "focus"
          OBVIOUS
        <4>2. PICK t : t = Delivered(q, to, e)
          OBVIOUS
        <4>3. h = DeviceForm(t, "keyboard")
          BY <2>4, <3>1, <4>1, <4>2 DEF KeyReplayed
        <4>4. e \in KeyEvent /\ to \in Client \cup {"focus"}
          BY <1>3, <3>1, <4>1 DEF Server
        <4>5. NewState(m) = Thawed
          BY <3>1, NewStateIs
        <4>6. Quiet(t, c, "keyboard", Thawed)
          BY <2>3, <4>2, <4>4, <4>5, PlainDevice, QuietDelivered
        <4> QED BY <4>3, <4>5, <4>6, PlainDevice, QuietFormed
      <3>2. CASE ~(m = "ReplayKeyboard" /\ a.heldKey # None)
        BY <2>3, <2>4, <3>2 DEF KeyReplayed
      <3> QED BY <3>1, <3>2
    <2>6. Quiet(r, c, "keyboard", NewState(m))
      BY <1>1, <2>5, PlainDevice, QuietComputed
    <2> QED BY <1>5, <2>1, <2>6, PlainDevice, QuietNotFrozenBy
  <1> QED BY <1>6, <1>7

-----------------------------------------------------------------------------
(* The theorems.                                                           *)

\* What a step promises about those who let go.
LetGo ==
    \A c \in Client : srv'.request[2] = c =>
       /\ srv'.request = <<"Disconnect", c>> => \A d \in Device : ~FrozenBy(srv', c, d)
       /\ \A m \in Mode \ BothModes :
             /\ srv'.request = <<m, c>>
             /\ srv.keys = <<>> /\ srv.pqueue = <<>>
             /\ \A d \in Device : srv.forms[d] = 0
             => ~FrozenBy(srv', c, Subject(m))

LEMMA InitHolds == ASSUME Init PROVE IInv
  <1>1. srv \in Server
    <2>1. PICK b, k, o : b = <<>> /\ k = <<>> /\ o = <<>>
      OBVIOUS
    <2>2. /\ b \in Seq(ButtonEvent) /\ k \in Seq(KeyEvent)
          /\ o \in Seq([to : Client \cup {"focus"}, key : KeyEvent])
      BY <2>1
    <2>3. PICK w : w = <<"none", None>>
      OBVIOUS
    <2>4. w \in (Mode \cup {"Disconnect", "none"}) \X Owner
      BY <2>3 DEF Owner
    <2>5. PICK y, z, f : /\ y = [d \in Device |-> Thawed] /\ z = [d \in Device |-> None]
                         /\ f = [d \in Device |-> 0]
      OBVIOUS
    <2>6. y \in [Device -> 0..4] /\ z \in [Device -> Owner] /\ f \in [Device -> Nat]
      BY <2>5 DEF Thawed, Owner
    <2>7. srv = [pgrab |-> None, passive |-> FALSE, active |-> None, kgrab |-> NoGrab,
                 keyGrabs |-> {}, request |-> w, sync |-> y, other |-> z, forms |-> f,
                 press |-> FALSE, pqueue |-> b, heldKey |-> None, keys |-> k, out |-> o]
      BY <2>1, <2>3, <2>5 DEF Init
    <2> QED BY <2>2, <2>4, <2>6, <2>7 DEF Server, Owner
  <1>2. /\ srv.active = None /\ ~srv.passive /\ ~srv.press /\ srv.heldKey = None
        /\ srv.keys = <<>> /\ srv.forms = [d \in Device |-> 0]
        /\ srv.sync = [d \in Device |-> Thawed]
    BY DEF Init
  <1>3. Records(srv)
    BY <1>2 DEF Records
  <1>4. Held(srv, {})
    BY <1>2 DEF Held, Thawed, FrozenNoEvent
  <1>5. Calm(srv)
    BY <1>2, EmptyCalm
  <1> QED BY <1>1, <1>3, <1>4, <1>5 DEF IInv, TypeOK, Init

\* Every step keeps the invariant and has the two action properties.
LEMMA NextKeeps == ASSUME IInv, Next PROVE IInv' /\ (\A e \in KeyEvent : Once(e)) /\ LetGo
  <1>0. ASSUME srv'.request = <<"none", None>> PROVE LetGo
    BY <1>0 DEF LetGo, Mode
  <1>1. ASSUME NEW k \in Key, KeyInput(k) PROVE IInv' /\ (\A e \in KeyEvent : Once(e)) /\ LetGo
    BY <1>0, <1>1, KeyInputKeeps
  <1>2. ASSUME Plain PROVE IInv' /\ (\A e \in KeyEvent : Once(e)) /\ LetGo
    BY <1>0, <1>2, PlainKeeps
  <1>3. ASSUME NEW c \in Client, NEW m \in Mode, AllowEvents(c, m)
        PROVE  IInv' /\ (\A e \in KeyEvent : Once(e)) /\ LetGo
    <2>1. IInv' /\ (\A e \in KeyEvent : Once(e)) /\ srv'.request = <<m, c>>
      BY <1>3, AllowEventsKeeps
    <2>2. PICK s : Starts(s, <<m, c>>) /\ srv' = Allow(s, c, m)
      BY <1>3, AllowEventsKeeps
    <2>3. ASSUME m \notin BothModes, srv.keys = <<>>, srv.pqueue = <<>>,
                 \A d \in Device : srv.forms[d] = 0
          PROVE  ~FrozenBy(srv', c, Subject(m))
      <3>1. /\ s \in Server /\ s.keys = <<>> /\ s.pqueue = <<>>
            /\ \A d \in Device : s.forms[d] = 0
        BY <2>2, <2>3 DEF Starts
      <3>2. m \in Mode \ BothModes
        BY <2>3
      <3> QED BY <2>2, <3>1, <3>2, AllowLetsGo
    <2>4. m # "Disconnect"
      BY DEF Mode
    <2>5. LetGo
      <3>1. ASSUME NEW x \in Client PROVE srv'.request # <<"Disconnect", x>>
        BY <2>1, <2>4
      <3>2. ASSUME NEW x \in Client, NEW n \in Mode \ BothModes, srv'.request = <<n, x>>
            PROVE  n = m /\ x = c
        BY <2>1, <3>2
      <3> QED BY <2>3, <3>1, <3>2 DEF LetGo
    <2> QED BY <2>1, <2>5
  <1>4. ASSUME NEW c \in Client, Disconnect(c)
        PROVE  IInv' /\ (\A e \in KeyEvent : Once(e)) /\ LetGo
    <2>1. /\ IInv' /\ \A e \in KeyEvent : Once(e)
          /\ srv'.request = <<"Disconnect", c>>
          /\ \A d \in Device : ~FrozenBy(srv', c, d)
      BY <1>4, DisconnectKeeps
    <2>2. LetGo
      <3>1. ASSUME NEW x \in Client, NEW n \in Mode PROVE srv'.request # <<n, x>>
        <4>1. n # "Disconnect"
          BY DEF Mode
        <4> QED BY <2>1, <4>1
      <3>2. ASSUME NEW x \in Client, srv'.request = <<"Disconnect", x>> PROVE x = c
        BY <2>1, <3>2
      <3> QED BY <2>1, <3>1, <3>2 DEF LetGo
    <2> QED BY <2>1, <2>2
  <1>5. \/ \E k \in Key : KeyInput(k)
        \/ \E c \in Client, m \in Mode : AllowEvents(c, m)
        \/ \E c \in Client : Disconnect(c)
        \/ Plain
    BY ButtonInputPlain, WindowsGonePlain, GrabPlain, XIGrabDevicePlain, UngrabPlain DEF Next
  <1> QED BY <1>1, <1>2, <1>3, <1>4, <1>5

LEMMA InvAlways == Spec => []IInv
  <1>1. Init => IInv
    BY InitHolds
  <1>2. IInv /\ [Next]_vars => IInv'
    <2>1. ASSUME IInv, UNCHANGED vars PROVE IInv'
      <3>1. srv' = srv /\ keysDown' = keysDown /\ buttonDown' = buttonDown
        BY <2>1 DEF vars
      <3> QED BY <2>1, <3>1 DEF IInv, TypeOK
    <2> QED BY <2>1, NextKeeps
  <1> QED BY <1>1, <1>2, PTL DEF Spec

\* pointer_grab, active_pointer_grab, pointer_grab_is_passive and the two held
\* events agree after every operation, whatever the replays inside it started
\* or ended.
THEOREM RecordsOfGrabsAgree == Spec => []GrabsAgree
  <1>1. IInv => GrabsAgree
    BY DEF IInv, Records, GrabsAgree
  <1> QED BY <1>1, InvAlways, PTL

\* A frozen device always has a client whose AllowEvents apply_allow_events
\* honours for it.
THEOREM FrozenIsThawable == Spec => []Thawable
  <1>1. ASSUME IInv PROVE Thawable
    <2>1. srv \in Server /\ Held(srv, {})
      BY <1>1 DEF IInv, TypeOK
    <2>2. ASSUME NEW d \in Device, Frozen(srv, d) PROVE \E c \in Client : FrozenBy(srv, c, d)
      <3>1. CASE srv.other[d] # None
        <4>1. srv.other[d] \in Client
          BY <2>1, <3>1, ServerFields DEF Owner
        <4> QED BY <4>1 DEF FrozenBy
      <3>2. CASE srv.other[d] = None
        <4>1. srv.sync[d] >= FrozenNoEvent
          BY <2>2, <3>2 DEF Frozen
        <4>2. GrabOwner(srv, d) # None
          BY <2>1, <4>1 DEF Held
        <4>3. GrabOwner(srv, d) \in Client
          BY <2>1, <4>2, BridgedIs DEF Owner
        <4> QED BY <4>1, <4>3 DEF FrozenBy
      <3> QED BY <3>1, <3>2
    <2> QED BY <2>2 DEF Thawable
  <1> QED BY <1>1, InvAlways, PTL

\* What is withheld stays behind a freeze: xi1_compute_freezes leaves nothing
\* behind that a later event could overtake, however deep its replays nest.
THEOREM NothingIsStranded == Spec => []NothingStranded
  <1>1. ASSUME IInv PROVE NothingStranded
    <2>1. srv \in Server /\ Calm(srv)
      BY <1>1 DEF IInv, TypeOK
    <2>2. \A d \in Device : srv.forms[d] > 0 => Frozen(srv, d)
      BY <2>1, ServerFields DEF Calm, Settled
    <2>3. srv.keys # <<>> => Frozen(srv, "keyboard")
      BY <2>1, PlainDevice DEF Calm, Settled
    <2> QED BY <2>2, <2>3 DEF NothingStranded
  <1> QED BY <1>1, InvAlways, PTL

\* What one step does with every key, the body of KeysOnce.
EachOnce ==
    \A e \in KeyEvent :
       LET before == Count(srv.keys, e) + IF Arrived(e) THEN 1 ELSE 0
           after == Count(srv'.keys, e)
                      + Cardinality({i \in DOMAIN srv'.out : srv'.out[i].key = e})
       IN  after - before \in {0, IF srv.heldKey = e THEN 1 ELSE 0}

\* Every key that comes in goes out once or stays withheld, and only the key
\* a synchronous grab held may go out again.
THEOREM KeysAreDeliveredOnce == Spec => KeysOnce
  <1>1. IInv /\ [Next]_vars => [EachOnce]_vars
    <2> SUFFICES ASSUME IInv, Next PROVE EachOnce
      OBVIOUS
    <2>1. \A e \in KeyEvent : Once(e)
      BY NextKeeps
    <2> QED BY <2>1 DEF Once, Flow, Sends, EachOnce
  <1>2. Spec => [][EachOnce]_vars
    BY <1>1, InvAlways, PTL DEF Spec
  <1> QED BY <1>2, PTL DEF KeysOnce, EachOnce

\* A client that is gone holds no device, and one whose AllowEvents is
\* honoured with nothing withheld no longer holds the device it named.
THEOREM WhoeverLetsGo == Spec => LetsGo
  <1>1. IInv /\ [Next]_vars => [LetGo]_vars
    BY NextKeeps
  <1>2. Spec => [][LetGo]_vars
    BY <1>1, InvAlways, PTL DEF Spec
  <1> QED BY <1>2 DEF LetsGo, LetGo

=============================================================================
