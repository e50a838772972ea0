------------------------ MODULE ClientOutbound_proofs ------------------------
(***************************************************************************)
(* Proofs about ClientOutbound: accepted messages stay whole and in order  *)
(* on their way to the peer, the backlog is bounded, and to the client the *)
(* connection is a ByteStream until a refused message is skipped.          *)
(***************************************************************************)
EXTENDS ClientOutbound, SequenceTheorems, WellFoundedInduction, TLAPS

-----------------------------------------------------------------------------
(* The inductive invariant.                                                  *)

\* Whatever is on its way is made of units produced.
Produced == \A q \in {outbound, kernel, wire, accepted} : q \in Seq(1..made)

\* Until a refusal is ignored, a client that is served was sent everything
\* produced, and what has left the server for any client has no gap.
GapFree ==
    ~skipped => /\ client => accepted = [i \in 1..made |-> i]
                /\ \A i \in 1..Len(wire \o kernel) : (wire \o kernel)[i] = i

OutboundInv == BacklogBounded /\ Produced /\ WholeInOrder /\ GapFree

\* One of the sizes is the largest.
LEMMA MaxSizeIs == MaxSize \in Sizes /\ \A m \in Sizes : m <= MaxSize
BY LargestAssumption DEF MaxSize

-----------------------------------------------------------------------------
(* Sequences cut in two.                                                    *)

LEMMA Cut ==
  ASSUME NEW S, NEW s \in Seq(S), NEW n \in 0..Len(s)
  PROVE  /\ SubSeq(s, 1, n) \in Seq(S) /\ Len(SubSeq(s, 1, n)) = n
         /\ SubSeq(s, n + 1, Len(s)) \in Seq(S)
         /\ Len(SubSeq(s, n + 1, Len(s))) = Len(s) - n
         /\ \A i \in 1..n : SubSeq(s, 1, n)[i] = s[i]
         /\ \A i \in 1..(Len(s) - n) : SubSeq(s, n + 1, Len(s))[i] = s[n + i]
         /\ SubSeq(s, 1, n) \o SubSeq(s, n + 1, Len(s)) = s
<1>1. Len(s) \in Nat /\ \A i \in 1..Len(s) : s[i] \in S
  BY ElementOfSeq, LenProperties
<1>2. /\ SubSeq(s, 1, n) \in Seq(S) /\ Len(SubSeq(s, 1, n)) = n
      /\ \A i \in 1..n : SubSeq(s, 1, n)[i] = s[i]
  BY <1>1
<1>3. /\ SubSeq(s, n + 1, Len(s)) \in Seq(S)
      /\ Len(SubSeq(s, n + 1, Len(s))) = Len(s) - n
      /\ \A i \in 1..(Len(s) - n) : SubSeq(s, n + 1, Len(s))[i] = s[n + i]
  BY <1>1
<1>4. SubSeq(s, 1, n) \o SubSeq(s, n + 1, Len(s)) = s
  <2> DEFINE f == SubSeq(s, 1, n)
             g == SubSeq(s, n + 1, Len(s))
  <2>1. /\ f \in Seq(S) /\ Len(f) = n /\ \A i \in 1..n : f[i] = s[i]
        /\ g \in Seq(S) /\ Len(g) = Len(s) - n
        /\ \A i \in 1..(Len(s) - n) : g[i] = s[n + i]
    BY <1>2, <1>3
  <2> HIDE DEF f, g
  <2>2. /\ f \o g \in Seq(S) /\ Len(f \o g) = Len(s)
        /\ \A i \in 1..Len(s) : (f \o g)[i] = s[i]
    BY <1>1, <2>1
  <2>3. f \o g = s
    BY <2>2, SeqEqual
  <2> QED
    BY <2>3 DEF f, g
<1> QED
  BY <1>2, <1>3, <1>4

\* Concatenation over S is associative: one fact to cite, for S alone.
IsAssoc(S) == \A a, b, c \in Seq(S) : (a \o b) \o c = a \o (b \o c)

LEMMA Assoc == ASSUME NEW S PROVE IsAssoc(S)
<1>1. ASSUME NEW a \in Seq(S), NEW b \in Seq(S), NEW c \in Seq(S)
      PROVE  (a \o b) \o c = a \o (b \o c)
  BY ONLY ConcatAssociative
<1> QED
  BY ONLY <1>1, ZenonT(60) DEF IsAssoc

\* Moving the front of the second of three to the end of the first.
LEMMA Move ==
  ASSUME NEW S, NEW r \in Seq(S), NEW s \in Seq(S), NEW n \in 0..Len(s)
  PROVE  (r \o SubSeq(s, 1, n)) \o SubSeq(s, n + 1, Len(s)) = r \o s
<1>1. /\ SubSeq(s, 1, n) \in Seq(S) /\ SubSeq(s, n + 1, Len(s)) \in Seq(S)
      /\ SubSeq(s, 1, n) \o SubSeq(s, n + 1, Len(s)) = s
  BY Cut
<1> DEFINE f == SubSeq(s, 1, n)
           g == SubSeq(s, n + 1, Len(s))
<1> HIDE DEF f, g
<1>2. (r \o f) \o g = r \o (f \o g)
  <2>1. f \in Seq(S) /\ g \in Seq(S)
    BY <1>1 DEF f, g
  <2>2. IsAssoc(S)
    BY Assoc
  <2> QED
    BY ONLY <2>1, <2>2, r \in Seq(S), ZenonT(60) DEF IsAssoc
<1> QED
  BY <1>1, <1>2 DEF f, g

\* A message written behind a backlog: either the backlog is gone or the message
\* has not begun.
Behind(S) ==
    \A r, p, q, u, v \in Seq(S) :
        q = <<>> \/ u = <<>> =>
            (r \o p \o u) \o (q \o v) = (r \o (p \o q)) \o (u \o v)

LEMMA BehindBacklog == ASSUME NEW S PROVE Behind(S)
<1> SUFFICES ASSUME NEW r \in Seq(S), NEW p \in Seq(S), NEW q \in Seq(S),
                    NEW u \in Seq(S), NEW v \in Seq(S), q = <<>> \/ u = <<>>
             PROVE  (r \o p \o u) \o (q \o v) = (r \o (p \o q)) \o (u \o v)
  BY Zenon DEF Behind
<1>1. ASSUME NEW e \in Seq(S)
      PROVE  e \o <<>> = e /\ <<>> \o e = e
  BY ConcatEmptySeq
<1>7. IsAssoc(S)
  BY Assoc
<1>2. r \o p \in Seq(S)
  BY ONLY ConcatProperties, r \in Seq(S), p \in Seq(S)
<1>3. (r \o p \o u) \o v = (r \o p) \o (u \o v)
  BY ONLY <1>2, <1>7, u \in Seq(S), v \in Seq(S), ZenonT(60) DEF IsAssoc
<1>4. (r \o p) \o (q \o v) = (r \o (p \o q)) \o v
  <2>1. ((r \o p) \o q) \o v = (r \o p) \o (q \o v)
    BY ONLY <1>2, <1>7, q \in Seq(S), v \in Seq(S), ZenonT(60) DEF IsAssoc
  <2>2. (r \o p) \o q = r \o (p \o q)
    BY ONLY <1>7, r \in Seq(S), p \in Seq(S), q \in Seq(S), ZenonT(60) DEF IsAssoc
  <2> QED
    BY ONLY <2>1, <2>2, Zenon
<1>5. CASE q = <<>>
  <2>1. q \o v = v /\ p \o q = p
    BY <1>1, <1>5
  <2> QED
    BY ONLY <2>1, <1>3
<1>6. CASE u = <<>>
  <2>1. (r \o p) \o u = r \o p /\ u \o v = v
    BY <1>1, <1>2, <1>6
  <2> QED
    BY ONLY <2>1, <1>4
<1> QED
  BY <1>5, <1>6

-----------------------------------------------------------------------------
(* What a write and a drain do to the two buffers.                          *)

LEMMA DrainEffect ==
  ASSUME TypeOK, Produced, DrainOutbound
  PROVE  /\ kernel' \in Seq(1..made) /\ outbound' \in Seq(1..made)
         /\ Len(kernel') <= KernelCap
         /\ Len(outbound') <= Len(outbound)
         /\ wire \o kernel' \o outbound' = wire \o kernel \o outbound
<1> DEFINE n == Least(Free, Len(outbound))
           f == SubSeq(outbound, 1, n)
           g == SubSeq(outbound, n + 1, Len(outbound))
<1>1. /\ made \in Nat /\ outbound \in Seq(1..made) /\ kernel \in Seq(1..made)
      /\ wire \in Seq(1..made) /\ Len(kernel) <= KernelCap /\ KernelCap \in Nat
  BY KernelAssumption, MaxUnitsAssumption DEF TypeOK, Produced
<1>2. /\ n \in 0..Len(outbound) /\ n <= KernelCap - Len(kernel)
      /\ Len(kernel) \in Nat /\ Len(outbound) \in Nat
  BY <1>1, LenProperties DEF Least, Free
<1>3. kernel' = kernel \o f /\ outbound' = g
  BY DEF DrainOutbound
<1>4. /\ f \in Seq(1..made) /\ Len(f) = n
      /\ g \in Seq(1..made) /\ Len(g) = Len(outbound) - n
  BY <1>1, <1>2, Cut
<1>5. kernel' \in Seq(1..made) /\ Len(kernel') = Len(kernel) + n
  BY <1>1, <1>3, <1>4, ConcatProperties
<1>6. wire \o kernel' \o outbound' = wire \o kernel \o outbound
  <2> DEFINE r == wire \o kernel
  <2>1. r \in Seq(1..made)
    BY <1>1, ConcatProperties
  <2> HIDE DEF r, n
  <2>2. (r \o f) \o g = r \o outbound
    BY ONLY <1>1, <1>2, <2>1, Move
  <2>4. f \in Seq(1..made)
    BY <1>4
  <2>5. IsAssoc(1..made)
    BY Assoc
  <2> HIDE DEF f, g
  <2>3. (wire \o kernel) \o f = wire \o (kernel \o f)
    BY ONLY <1>1, <2>4, <2>5, ZenonT(60) DEF IsAssoc
  <2> QED
    BY <1>3, <2>2, <2>3 DEF r
<1>7. Len(outbound') <= Len(outbound)
  BY <1>2, <1>3, <1>4
<1>8. Len(kernel') <= KernelCap
  BY <1>1, <1>2, <1>5
<1> QED
  BY ONLY <1>3, <1>4, <1>5, <1>6, <1>7, <1>8

LEMMA UnitsAre ==
  ASSUME NEW m \in Nat, made \in Nat
  PROVE  /\ Units(m) \in Seq(1..(made + m)) /\ Len(Units(m)) = m
         /\ \A i \in 1..m : Units(m)[i] = made + i
BY DEF Units

\* How much of the backlog goes, and how much of the message behind it.
LEMMA AcceptSplits ==
  ASSUME TypeOK, Produced, NEW m \in Sizes
  PROVE  LET n == Least(Free, Len(outbound))
             t == Taken(m)
         IN  /\ n \in 0..Len(outbound) /\ t \in 0..m
             /\ n = Len(outbound) \/ t = 0
             /\ Len(kernel) + n + t <= KernelCap
             /\ Len(outbound) > Free => n = Free /\ t = 0
<1>1. /\ m \in Nat /\ Len(outbound) \in Nat /\ Len(kernel) \in Nat
      /\ KernelCap \in Nat /\ Len(kernel) <= KernelCap
  BY SizesAssumption, KernelAssumption, LenProperties DEF TypeOK, Produced
<1>2. Free \in Nat /\ Len(kernel) + Free = KernelCap
  BY ONLY <1>1 DEF Free
<1>3. CASE Len(outbound) > Free
  <2>1. Least(Free, Len(outbound)) = Free /\ Taken(m) = 0
    BY ONLY <1>1, <1>2, <1>3 DEF Least, Taken
  <2> QED
    BY ONLY <1>1, <1>2, <1>3, <2>1
<1>4. CASE Len(outbound) <= Free
  <2>1. Least(Free, Len(outbound)) = Len(outbound)
    BY ONLY <1>1, <1>2, <1>4 DEF Least
  <2>2. Taken(m) \in 0..m /\ Len(outbound) + Taken(m) <= Free
    BY ONLY <1>1, <1>2, <1>4 DEF Least, Taken
  <2> QED
    BY ONLY <1>1, <1>2, <1>4, <2>1, <2>2
<1> QED
  BY <1>1, <1>2, <1>3, <1>4

LEMMA AcceptEffect ==
  ASSUME TypeOK, Produced, NEW m \in Sizes, Accept(m), ~Overflow(m)
  PROVE  /\ kernel' \in Seq(1..(made + m)) /\ outbound' \in Seq(1..(made + m))
         /\ accepted' \in Seq(1..(made + m))
         /\ accepted' = accepted \o Units(m)
         /\ Len(kernel') <= KernelCap
         /\ Len(outbound') <= MaxSize \/ Len(outbound') <= OutboundCap
         /\ wire \o kernel' \o outbound' = (wire \o kernel \o outbound) \o Units(m)
<1> DEFINE S == 1..(made + m)
           n == Least(Free, Len(outbound))
           t == Taken(m)
           f == SubSeq(outbound, 1, n)
           g == SubSeq(outbound, n + 1, Len(outbound))
           u == SubSeq(Units(m), 1, t)
           v == SubSeq(Units(m), t + 1, m)
<1>1. /\ m \in Nat /\ made \in Nat /\ 1..made \subseteq S
  BY SizesAssumption, MaxUnitsAssumption DEF TypeOK
<1>2. /\ outbound \in Seq(S) /\ kernel \in Seq(S) /\ wire \in Seq(S)
      /\ accepted \in Seq(S)
  BY <1>1, SeqMonotonic DEF Produced
<1>3. /\ n \in 0..Len(outbound) /\ t \in 0..m
      /\ n = Len(outbound) \/ t = 0
      /\ Len(kernel) + n + t <= KernelCap
      /\ Len(outbound) > Free => n = Free /\ t = 0
  BY AcceptSplits
<1>4. Units(m) \in Seq(S) /\ Len(Units(m)) = m
  BY <1>1, UnitsAre
<1>5. kernel' = kernel \o f \o u /\ outbound' = g \o v /\ accepted' = accepted \o Units(m)
  BY DEF Accept
<1> HIDE DEF S, n, t
<1>6. /\ f \in Seq(S) /\ Len(f) = n /\ g \in Seq(S) /\ Len(g) = Len(outbound) - n
      /\ f \o g = outbound
  BY <1>2, <1>3, Cut
<1>7. /\ u \in Seq(S) /\ Len(u) = t /\ v \in Seq(S) /\ Len(v) = m - t
      /\ u \o v = Units(m)
  <2>1. v = SubSeq(Units(m), t + 1, Len(Units(m)))
    BY ONLY <1>4
  <2>2. t \in 0..Len(Units(m))
    <3>1. t \in 0..m
      BY ONLY <1>3
    <3>2. Len(Units(m)) = m
      BY ONLY <1>4
    <3> QED
      BY ONLY <3>1, <3>2, Zenon
  <2>3. /\ u \in Seq(S) /\ Len(u) = t
        /\ v \in Seq(S) /\ Len(v) = Len(Units(m)) - t
        /\ u \o v = Units(m)
    <3> DEFINE w == Units(m)
    <3>1. w \in Seq(S) /\ t \in 0..Len(w) /\ v = SubSeq(w, t + 1, Len(w)) /\ u = SubSeq(w, 1, t)
      BY ONLY <1>4, <2>1, <2>2
    <3> HIDE DEF w, u, v
    <3>2. /\ u \in Seq(S) /\ Len(u) = t
          /\ v \in Seq(S) /\ Len(v) = Len(w) - t
          /\ u \o v = w
      BY ONLY <3>1, Cut
    <3> QED
      BY ONLY <3>2 DEF w
  <2> QED
    BY ONLY <1>4, <2>3
<1> HIDE DEF f, g, u, v
<1>8. g = <<>> \/ u = <<>>
  <2>1. Len(outbound) \in Nat
    BY <1>2, LenProperties
  <2>2. Len(g) = 0 \/ Len(u) = 0
    BY ONLY <1>3, <1>6, <1>7, <2>1
  <2> QED
    BY ONLY <1>6, <1>7, <2>2, EmptySeq
<1>9. /\ kernel \o f \in Seq(S) /\ Len(kernel \o f) = Len(kernel) + n
  BY <1>2, <1>6, ConcatProperties
<1>10. /\ kernel' \in Seq(S) /\ Len(kernel') = Len(kernel) + n + t
       /\ outbound' \in Seq(S) /\ Len(outbound') = Len(outbound) - n + (m - t)
       /\ accepted' \in Seq(S)
  <2>1. kernel' \in Seq(S) /\ Len(kernel') = Len(kernel) + n + t
    BY ONLY <1>5, <1>7, <1>9, ConcatProperties
  <2>2. outbound' \in Seq(S) /\ Len(outbound') = Len(outbound) - n + (m - t)
    <3>1. g \o v \in Seq(S) /\ Len(g \o v) = Len(g) + Len(v)
      BY ONLY <1>6, <1>7, ConcatProperties
    <3> QED
      BY ONLY <1>5, <1>6, <1>7, <3>1
  <2>3. accepted' \in Seq(S)
    BY ONLY <1>2, <1>4, <1>5, ConcatProperties
  <2> QED
    BY ONLY <2>1, <2>2, <2>3
<1>11. Len(kernel') <= KernelCap
  BY <1>3, <1>10
<1>12. Len(outbound') <= MaxSize \/ Len(outbound') <= OutboundCap
  <2>1. /\ Len(outbound) \in Nat /\ Len(kernel) \in Nat /\ KernelCap \in Nat
        /\ OutboundCap \in Nat /\ m <= MaxSize /\ MaxSize \in Nat
    BY <1>2, LenProperties, KernelAssumption, MaxSizeIs, SizesAssumption
  <2>2. CASE Len(outbound) > Free
    BY <1>1, <1>3, <1>10, <2>1, <2>2 DEF Overflow, Free
  <2>3. CASE ~(Len(outbound) > Free)
    <3>1. n = Len(outbound)
      BY <2>1, <2>3 DEF n, Least, Free
    <3> QED
      BY <1>1, <1>3, <1>10, <2>1, <3>1
  <2> QED
    BY <2>2, <2>3
<1>13. wire \o kernel' \o outbound' = (wire \o kernel \o outbound) \o Units(m)
  <2>1. IsAssoc(S)
    BY Assoc
  <2>2. (wire \o (kernel \o f)) \o u = wire \o ((kernel \o f) \o u)
    BY ONLY <1>2, <1>7, <1>9, <2>1, ZenonT(60) DEF IsAssoc
  <2>3. (wire \o kernel) \o f = wire \o (kernel \o f)
    BY ONLY <1>2, <1>6, <2>1, ZenonT(60) DEF IsAssoc
  <2> DEFINE r == wire \o kernel
  <2>4. r \in Seq(S)
    BY <1>2, ConcatProperties
  <2> HIDE DEF r
  <2>5. (r \o f \o u) \o (g \o v) = (r \o (f \o g)) \o (u \o v)
    <3>1. Behind(S)
      BY BehindBacklog
    <3>2. /\ f \in Seq(S) /\ g \in Seq(S) /\ u \in Seq(S) /\ v \in Seq(S)
          /\ g = <<>> \/ u = <<>>
      BY ONLY <1>6, <1>7, <1>8
    <3> QED
      <4>1. \A q, a, b \in Seq(S) :
                q = <<>> \/ a = <<>> =>
                    (r \o f \o a) \o (q \o b) = (r \o (f \o q)) \o (a \o b)
        BY ONLY <2>4, <3>1, <3>2, Zenon DEF Behind
      <4> QED
        BY ONLY <3>2, <4>1, Zenon
  <2> QED
    BY ONLY <1>5, <1>6, <1>7, <2>2, <2>3, <2>5, Zenon DEF r
<1> QED
  BY ONLY <1>5, <1>10, <1>11, <1>12, <1>13 DEF S

-----------------------------------------------------------------------------
(* The invariant is inductive.                                              *)

\* What comes before the rest of 1, 2, .., n counts from 1.
LEMMA FrontCounts ==
  ASSUME NEW S, NEW a \in Seq(S), NEW b \in Seq(S), NEW n \in Nat,
         a \o b = [i \in 1..n |-> i]
  PROVE  \A i \in 1..Len(a) : a[i] = i
<1>1. /\ Len(a) \in Nat /\ Len(b) \in Nat /\ Len(a \o b) = Len(a) + Len(b)
      /\ \A i \in 1..Len(a) : (a \o b)[i] = a[i]
  BY ONLY ConcatProperties, LenProperties, a \in Seq(S), b \in Seq(S)
<1> DEFINE c == a \o b
<1>2. c = [i \in 1..n |-> i]
  OBVIOUS
<1> HIDE DEF c
<1>3. Len(c) = n /\ \A i \in 1..n : c[i] = i
  BY ONLY <1>2, n \in Nat
<1>4. Len(c) = Len(a) + Len(b) /\ \A i \in 1..Len(a) : c[i] = a[i]
  BY ONLY <1>1 DEF c
<1> QED
  BY ONLY <1>1, <1>3, <1>4, n \in Nat

\* The parts of the invariant after a step.
LEMMA Assemble ==
  ASSUME made' \in 0..MaxUnits,
         phase' \in {"poll", "handling", "drained"},
         {client', watching', ready', gone', skipped'} \subseteq BOOLEAN,
         outbound' \in Seq(1..made'), kernel' \in Seq(1..made'),
         wire' \in Seq(1..made'), accepted' \in Seq(1..made'),
         Len(kernel') <= KernelCap,
         Len(outbound') <= MaxSize \/ Len(outbound') <= OutboundCap,
         client' => wire' \o kernel' \o outbound' = accepted',
         ~skipped' /\ client' => accepted' = [i \in 1..made' |-> i],
         ~skipped' /\ ~client' =>
             \A i \in 1..Len(wire' \o kernel') : (wire' \o kernel')[i] = i
  PROVE  OutboundInv'
<1>1. made' \in Nat /\ 1..made' \subseteq 1..MaxUnits
  BY MaxUnitsAssumption
<1>2. /\ outbound' \in Seq(1..MaxUnits) /\ kernel' \in Seq(1..MaxUnits)
      /\ wire' \in Seq(1..MaxUnits) /\ accepted' \in Seq(1..MaxUnits)
  BY <1>1, SeqMonotonic
<1>3. TypeOK'
  BY <1>2 DEF TypeOK
<1>4. Produced' /\ BacklogBounded' /\ WholeInOrder'
  BY <1>3 DEF Produced, BacklogBounded, WholeInOrder
<1>5. GapFree'
  <2>1. CASE client' /\ ~skipped'
    <3> DEFINE a == wire' \o kernel'
    <3>1. a \in Seq(1..made')
      BY ConcatProperties
    <3> HIDE DEF a
    <3>2. a \o outbound' = [i \in 1..made' |-> i]
      BY <2>1, Zenon DEF a
    <3>3. \A i \in 1..Len(a) : a[i] = i
      BY ONLY <1>1, <3>1, <3>2, outbound' \in Seq(1..made'), FrontCounts
    <3> QED
      BY <2>1, <3>3 DEF GapFree, a
  <2> QED
    BY <2>1 DEF GapFree
<1> QED
  BY <1>4, <1>5 DEF OutboundInv

LEMMA InvInit == Init => OutboundInv
<1> SUFFICES ASSUME Init
             PROVE  OutboundInv
  OBVIOUS
<1>1. TypeOK
  <2>1. \A q \in {outbound, kernel, wire, accepted} : q \in Seq(1..MaxUnits)
    BY EmptySeq DEF Init
  <2>2. made \in 0..MaxUnits /\ Len(kernel) <= KernelCap
    BY KernelAssumption, MaxUnitsAssumption DEF Init
  <2> QED
    BY <2>1, <2>2 DEF Init, TypeOK
<1>2. BacklogBounded
  BY <1>1, KernelAssumption DEF Init, BacklogBounded
<1>3. wire \o kernel = <<>> /\ wire \o kernel \o outbound = <<>>
  BY DEF Init
<1>4. WholeInOrder /\ Produced
  BY <1>3 DEF Init, WholeInOrder, Produced
<1>5. GapFree
  BY <1>3 DEF Init, GapFree
<1> QED
  BY <1>2, <1>4, <1>5 DEF OutboundInv

\* What the invariant says of the state, part by part.
LEMMA InvSays ==
  ASSUME OutboundInv
  PROVE  /\ TypeOK /\ Produced
         /\ made \in 0..MaxUnits /\ made \in Nat /\ MaxUnits \in Nat
         /\ phase \in {"poll", "handling", "drained"}
         /\ {client, watching, ready, gone, skipped} \subseteq BOOLEAN
         /\ outbound \in Seq(1..made) /\ kernel \in Seq(1..made)
         /\ wire \in Seq(1..made) /\ accepted \in Seq(1..made)
         /\ Len(kernel) <= KernelCap
         /\ Len(outbound) <= MaxSize \/ Len(outbound) <= OutboundCap
         /\ client => wire \o kernel \o outbound = accepted
         /\ ~skipped /\ client => accepted = [i \in 1..made |-> i]
         /\ ~skipped => \A i \in 1..Len(wire \o kernel) : (wire \o kernel)[i] = i
<1>1. TypeOK /\ Produced
  BY DEF OutboundInv, BacklogBounded
<1>2. /\ made \in 0..MaxUnits /\ made \in Nat /\ MaxUnits \in Nat
      /\ phase \in {"poll", "handling", "drained"}
      /\ {client, watching, ready, gone, skipped} \subseteq BOOLEAN
      /\ Len(kernel) <= KernelCap
  BY <1>1, MaxUnitsAssumption DEF TypeOK
<1>3. /\ outbound \in Seq(1..made) /\ kernel \in Seq(1..made)
      /\ wire \in Seq(1..made) /\ accepted \in Seq(1..made)
  BY <1>1 DEF Produced
<1> QED
  BY <1>1, <1>2, <1>3, Zenon
     DEF OutboundInv, BacklogBounded, WholeInOrder, GapFree

\* Steps that leave the units where they are and take no client back.
LEMMA StandingStill ==
  ASSUME OutboundInv,
         UNCHANGED <<outbound, kernel, wire, made, accepted, skipped>>,
         phase' \in {"poll", "handling", "drained"},
         {client', watching', ready', gone'} \subseteq BOOLEAN,
         client' => client
  PROVE  OutboundInv'
<1>1. {client', watching', ready', gone', skipped'} \subseteq BOOLEAN
  BY InvSays
<1> QED
  BY <1>1, InvSays, Assemble

\* A drain to a peer that is there.
LEMMA DrainKeeps ==
  ASSUME OutboundInv, client, DrainOutbound, UNCHANGED <<client, wire, made, accepted, skipped>>,
         phase' \in {"poll", "handling", "drained"},
         {watching', ready', gone'} \subseteq BOOLEAN
  PROVE  OutboundInv'
<1>1. /\ kernel' \in Seq(1..made) /\ outbound' \in Seq(1..made)
      /\ Len(kernel') <= KernelCap
      /\ Len(outbound') <= Len(outbound)
      /\ wire \o kernel' \o outbound' = wire \o kernel \o outbound
  BY InvSays, DrainEffect
<1>2. Len(outbound') <= MaxSize \/ Len(outbound') <= OutboundCap
  <2>1. /\ Len(outbound') \in Nat /\ Len(outbound) \in Nat
        /\ MaxSize \in Nat /\ OutboundCap \in Nat
    BY <1>1, InvSays, LenProperties, MaxSizeIs, SizesAssumption, KernelAssumption
  <2>2. Len(outbound) <= MaxSize \/ Len(outbound) <= OutboundCap
    BY InvSays
  <2> QED
    BY ONLY <1>1, <2>1, <2>2
<1>3. {client', watching', ready', gone', skipped'} \subseteq BOOLEAN
  BY InvSays
<1>4. wire' \o kernel' \o outbound' = accepted'
  BY <1>1, InvSays
<1> QED
  BY <1>1, <1>2, <1>3, <1>4, InvSays, Assemble

LEMMA AcceptKeeps ==
  ASSUME OutboundInv, client, NEW m \in Sizes, made + m <= MaxUnits, made' = made + m,
         Accept(m), ~Overflow(m),
         UNCHANGED <<phase, client, skipped, watching, ready, wire, gone>>
  PROVE  OutboundInv'
<1>1. /\ kernel' \in Seq(1..made') /\ outbound' \in Seq(1..made')
      /\ accepted' \in Seq(1..made')
      /\ accepted' = accepted \o Units(m)
      /\ Len(kernel') <= KernelCap
      /\ Len(outbound') <= MaxSize \/ Len(outbound') <= OutboundCap
      /\ wire \o kernel' \o outbound' = (wire \o kernel \o outbound) \o Units(m)
  BY InvSays, AcceptEffect
<1>2. /\ m \in Nat /\ made \in Nat /\ made' \in 0..MaxUnits
      /\ 1..made \subseteq 1..made'
  BY InvSays, SizesAssumption
<1>3. wire' \in Seq(1..made')
  BY <1>2, InvSays, SeqMonotonic
<1>4. wire' \o kernel' \o outbound' = accepted'
  BY <1>1, InvSays
<1>5. ASSUME ~skipped'
      PROVE  accepted' = [i \in 1..made' |-> i]
  <2>1. accepted \in Seq(1..made) /\ accepted = [i \in 1..made |-> i]
    BY <1>5, InvSays
  <2>2. Len(accepted) = made /\ \A i \in 1..made : accepted[i] = i
    BY ONLY <1>2, <2>1
  <2>3. /\ Units(m) \in Seq(1..made') /\ Len(Units(m)) = m
        /\ \A i \in 1..m : Units(m)[i] = made + i
    BY <1>2, UnitsAre
  <2>4. accepted \in Seq(1..made')
    BY <1>2, <2>1, SeqMonotonic
  <2>5. /\ Len(accepted') = made'
        /\ \A i \in 1..made' : accepted'[i] =
               IF i <= Len(accepted) THEN accepted[i] ELSE Units(m)[i - Len(accepted)]
    <3>1. /\ Len(accepted \o Units(m)) = Len(accepted) + Len(Units(m))
          /\ \A i \in 1..(Len(accepted) + Len(Units(m))) : (accepted \o Units(m))[i] =
               IF i <= Len(accepted) THEN accepted[i] ELSE Units(m)[i - Len(accepted)]
      BY ONLY <2>3, <2>4, ConcatProperties
    <3>2. Len(accepted) + Len(Units(m)) = made'
      BY ONLY <2>2, <2>3, made' = made + m
    <3> QED
      BY ONLY <1>1, <3>1, <3>2
  <2>6. \A i \in 1..made' : accepted'[i] = i
    BY ONLY <1>2, <2>2, <2>3, <2>5, made' = made + m
  <2> DEFINE q == [i \in 1..made' |-> i]
  <2>7. q \in Seq(1..made') /\ Len(q) = made' /\ \A i \in 1..made' : q[i] = i
    BY ONLY <1>2, made' = made + m
  <2> HIDE DEF q
  <2>8. accepted' = q
    BY ONLY <1>1, <2>5, <2>6, <2>7, SeqEqual
  <2> QED
    BY <2>8 DEF q
<1> QED
  BY <1>1, <1>2, <1>3, <1>4, <1>5, InvSays, Assemble

\* A refused message counts as produced and is not sent.  Its caller either ends
\* the client or the gap is on record.
LEMMA RefuseKeeps ==
  ASSUME OutboundInv, client, NEW m \in Sizes, NEW ignore \in BOOLEAN,
         made + m <= MaxUnits, made' = made + m,
         Refused(ignore), UNCHANGED accepted,
         \/ UNCHANGED <<kernel, outbound>>
         \/ DrainOutbound,
         UNCHANGED <<phase, watching, ready, wire, gone>>
  PROVE  OutboundInv'
<1>1. /\ m \in Nat /\ made \in Nat /\ made' \in 0..MaxUnits
      /\ 1..made \subseteq 1..made'
  BY InvSays, SizesAssumption
<1>2. /\ kernel' \in Seq(1..made) /\ outbound' \in Seq(1..made)
      /\ Len(kernel') <= KernelCap
      /\ Len(outbound') <= Len(outbound)
      /\ wire \o kernel' \o outbound' = wire \o kernel \o outbound
  <2>1. CASE DrainOutbound
    BY <2>1, InvSays, DrainEffect
  <2>2. CASE UNCHANGED <<kernel, outbound>>
    BY <2>2, InvSays, LenProperties
  <2> QED
    BY <2>1, <2>2
<1>3. Len(outbound') <= MaxSize \/ Len(outbound') <= OutboundCap
  <2>1. /\ Len(outbound') \in Nat /\ Len(outbound) \in Nat
        /\ MaxSize \in Nat /\ OutboundCap \in Nat
    BY <1>2, InvSays, LenProperties, MaxSizeIs, SizesAssumption, KernelAssumption
  <2>2. Len(outbound) <= MaxSize \/ Len(outbound) <= OutboundCap
    BY InvSays
  <2> QED
    BY ONLY <1>2, <2>1, <2>2
<1>4. /\ kernel' \in Seq(1..made') /\ outbound' \in Seq(1..made')
      /\ wire' \in Seq(1..made') /\ accepted' \in Seq(1..made')
  BY <1>1, <1>2, InvSays, SeqMonotonic
<1>5. wire' \o kernel' \o outbound' = accepted'
  BY <1>2, InvSays
<1>6. {client', watching', ready', gone', skipped'} \subseteq BOOLEAN
  BY InvSays DEF Refused
<1>7. phase' \in {"poll", "handling", "drained"}
  BY InvSays
<1>8. ~skipped' => ~client' /\ ~skipped
  BY DEF Refused
<1>9. ASSUME ~skipped'
      PROVE  \A i \in 1..Len(wire' \o kernel') : (wire' \o kernel')[i] = i
  <2> DEFINE a == wire' \o kernel'
  <2>1. a \in Seq(1..made) /\ outbound' \in Seq(1..made)
    <3>1. wire' \in Seq(1..made)
      BY InvSays
    <3> QED
      BY <1>2, <3>1, ConcatProperties
  <2>2. a \o outbound' = [i \in 1..made |-> i]
    <3>1. accepted = [i \in 1..made |-> i]
      BY <1>8, <1>9, InvSays
    <3> QED
      BY <1>5, <3>1, Zenon
  <2> HIDE DEF a
  <2>3. \A i \in 1..Len(a) : a[i] = i
    BY ONLY <1>1, <2>1, <2>2, FrontCounts
  <2> QED
    BY <2>3 DEF a
<1> QED
  BY <1>1, <1>2, <1>3, <1>4, <1>5, <1>6, <1>7, <1>8, <1>9, Assemble

LEMMA WriteKeeps ==
  ASSUME OutboundInv, NEW m \in Sizes, NEW ignore \in BOOLEAN, Write(m, ignore)
  PROVE  OutboundInv'
<1>1. /\ client /\ made + m <= MaxUnits /\ made' = made + m
      /\ UNCHANGED <<phase, watching, ready, wire, gone>>
  BY DEF Write
<1>2. CASE gone
  <2>1. Refused(ignore) /\ UNCHANGED <<kernel, outbound, accepted>>
    BY <1>2 DEF Write
  <2> QED
    BY <1>1, <2>1, RefuseKeeps
<1>3. CASE ~gone /\ Overflow(m)
  <2>1. /\ Refused(ignore) /\ UNCHANGED accepted
        /\ kernel' = kernel \o SubSeq(outbound, 1, Free)
        /\ outbound' = SubSeq(outbound, Free + 1, Len(outbound))
    BY <1>3 DEF Write
  <2>2. Least(Free, Len(outbound)) = Free
    <3>1. Len(outbound) \in Nat /\ Len(kernel) \in Nat /\ KernelCap \in Nat
      BY InvSays, LenProperties, KernelAssumption
    <3> QED
      BY <1>3, <3>1 DEF Overflow, Least, Free
  <2>3. DrainOutbound
    BY <2>1, <2>2, Zenon DEF DrainOutbound
  <2> QED
    BY <1>1, <2>1, <2>3, RefuseKeeps
<1>4. CASE ~gone /\ ~Overflow(m)
  <2>1. Accept(m) /\ UNCHANGED <<client, skipped>>
    BY <1>4 DEF Write
  <2> QED
    BY <1>1, <1>4, <2>1, AcceptKeeps
<1> QED
  BY <1>2, <1>3, <1>4

LEMMA PeerReadKeeps ==
  ASSUME OutboundInv, PeerRead
  PROVE  OutboundInv'
<1>1. PICK n \in 1..Len(kernel) :
         /\ wire' = wire \o SubSeq(kernel, 1, n)
         /\ kernel' = SubSeq(kernel, n + 1, Len(kernel))
         /\ ready' = (ready \/ (watching /\ client /\ Free = 0))
         /\ UNCHANGED <<phase, client, outbound, watching, gone, made, accepted, skipped>>
  BY DEF PeerRead
<1>2. /\ wire \in Seq(1..made) /\ kernel \in Seq(1..made) /\ Len(kernel) \in Nat
      /\ n \in 0..Len(kernel)
  BY InvSays, LenProperties
<1>3. /\ SubSeq(kernel, 1, n) \in Seq(1..made)
      /\ kernel' \in Seq(1..made) /\ Len(kernel') = Len(kernel) - n
  BY <1>1, <1>2, Cut
<1>4. wire' \o kernel' = wire \o kernel
  BY <1>1, <1>2, Move
<1>5. wire' \in Seq(1..made)
  BY <1>1, <1>2, <1>3, ConcatProperties
<1>6. {client', watching', ready', gone', skipped'} \subseteq BOOLEAN
  BY <1>1, InvSays
<1>7. Len(kernel') <= KernelCap
  BY <1>2, <1>3, InvSays, KernelAssumption
<1>8. client' => wire' \o kernel' \o outbound' = accepted'
  BY <1>1, <1>4, InvSays
<1> QED
  BY <1>1, <1>3, <1>4, <1>5, <1>6, <1>7, <1>8, InvSays, Assemble

LEMMA InvNext == OutboundInv /\ [Next]_vars => OutboundInv'
<1> SUFFICES ASSUME OutboundInv, [Next]_vars
             PROVE  OutboundInv'
  OBVIOUS
<1>0. {client, watching, ready, gone, skipped} \subseteq BOOLEAN
  BY InvSays
<1>1. ASSUME NEW m \in Sizes, NEW ignore \in BOOLEAN, Write(m, ignore)
      PROVE  OutboundInv'
  BY <1>1, WriteKeeps
<1>2. CASE ReconcileDrain
  <2>1. CASE client /\ outbound # <<>> /\ ~gone
    BY <1>0, <1>2, <2>1, DrainKeeps DEF ReconcileDrain
  <2>2. CASE ~(client /\ outbound # <<>> /\ ~gone)
    BY <1>0, <1>2, <2>2, StandingStill DEF ReconcileDrain, ProcessDisconnect
  <2> QED
    BY <2>1, <2>2
<1>3. CASE ReconcileRegister
  <2>1. watching' \in BOOLEAN /\ ready' \in BOOLEAN
    BY <1>0, <1>3 DEF ReconcileRegister
  <2> QED
    BY <1>0, <1>3, <2>1, StandingStill DEF ReconcileRegister
<1>4. CASE Writable
  <2>1. CASE client /\ ~(gone /\ outbound # <<>>)
    BY <1>0, <1>4, <2>1, DrainKeeps DEF Writable
  <2>2. CASE ~(client /\ ~(gone /\ outbound # <<>>))
    BY <1>0, <1>4, <2>2, StandingStill DEF Writable, ProcessDisconnect
  <2> QED
    BY <2>1, <2>2
<1>5. CASE OtherWake
  BY <1>0, <1>5, StandingStill DEF OtherWake
<1>6. CASE ReaderSawEof
  BY <1>0, <1>6, InvSays, StandingStill DEF ReaderSawEof
<1>7. CASE PeerRead
  BY <1>7, PeerReadKeeps
<1>8. CASE PeerClose
  <2>1. ready' \in BOOLEAN /\ gone' \in BOOLEAN
    BY <1>0, <1>8 DEF PeerClose
  <2> QED
    BY <1>0, <1>8, <2>1, InvSays, StandingStill DEF PeerClose
<1>9. CASE UNCHANGED vars
  BY <1>0, <1>9, InvSays, StandingStill DEF vars
<1> QED
  BY <1>1, <1>2, <1>3, <1>4, <1>5, <1>6, <1>7, <1>8, <1>9 DEF Next

LEMMA InvAlways == Spec => []OutboundInv
BY InvInit, InvNext, PTL DEF Spec

\* What the peer has read, what the socket holds and what is buffered are the
\* accepted messages, whole, once and in order, for messages of any sizes
\* (write_or_buffer, drain_outbound, the reconciliation and writable events).
THEOREM OutboundInOrder == Spec => []WholeInOrder
<1>1. OutboundInv => WholeInOrder
  BY DEF OutboundInv
<1> QED
  BY <1>1, InvAlways, PTL

\* A peer that does not read makes the server hold no more than the cap, or one
\* message behind an empty backlog; the types are right (buffer_or_disconnect).
THEOREM OutboundBounded == Spec => []BacklogBounded
<1>1. OutboundInv => BacklogBounded
  BY DEF OutboundInv
<1> QED
  BY <1>1, InvAlways, PTL

-----------------------------------------------------------------------------
(* To the client, a ByteStream.  What it has received is the gapless front   *)
(* of the wire, before a refusal is ignored and after.                       *)

Before == {p \in Nat \X Nat : p[1] < p[2]}

LEMMA BeforeWellFounded == IsWellFoundedOn(Before, Nat)
BY NatLessThanWellFounded, Zenon DEF OpToRel, Before

LEMMA HasLeast ==
  ASSUME NEW S \in SUBSET Nat, S # {}
  PROVE  \E x \in S : \A y \in S : x <= y
<1>1. PICK x \in S : \A y \in S : ~(<<y, x>> \in Before)
  BY WFMin, BeforeWellFounded
<1>2. ASSUME NEW y \in S
      PROVE  x <= y
  <2>1. <<y, x>> \notin Before /\ y \in Nat /\ x \in Nat
    BY <1>1
  <2> QED
    BY <2>1 DEF Before
<1> QED
  BY <1>2

\* s counts from 1 up to n and no further.
CountsTo(s, n) == /\ \A i \in 1..n : s[i] = i
                  /\ n < Len(s) => s[n + 1] # n + 1

LEMMA CountsOnce ==
  ASSUME NEW s, Len(s) \in Nat, NEW n \in 0..Len(s), NEW k \in 0..Len(s),
         CountsTo(s, n), CountsTo(s, k)
  PROVE  n = k
BY DEF CountsTo

LEMMA CountsSomewhere ==
  ASSUME NEW s, Len(s) \in Nat
  PROVE  \E n \in 0..Len(s) : CountsTo(s, n)
<1> DEFINE Stops == {n \in 0..Len(s) : n < Len(s) => s[n + 1] # n + 1}
<1>1. Stops \in SUBSET Nat /\ Len(s) \in Stops
  OBVIOUS
<1>2. PICK n \in Stops : \A k \in Stops : n <= k
  BY <1>1, HasLeast
<1>3. ASSUME NEW i \in 1..n
      PROVE  s[i] = i
  <2>1. i - 1 \in 0..Len(s) /\ i - 1 < n /\ i \in Nat /\ i - 1 < Len(s)
    BY <1>2
  <2>2. i - 1 \notin Stops
    BY <1>1, <1>2, <2>1
  <2> QED
    BY <2>1, <2>2
<1> QED
  BY <1>2, <1>3 DEF CountsTo

LEMMA GaplessCounts ==
  ASSUME NEW S, NEW s \in Seq(S), NEW n \in 0..Len(s), CountsTo(s, n)
  PROVE  Gapless(s) = [i \in 1..n |-> i]
<1>1. Len(s) \in Nat
  BY LenProperties
<1> DEFINE c == CHOOSE k \in 0..Len(s) : CountsTo(s, k)
<1>2. c \in 0..Len(s) /\ CountsTo(s, c)
  OBVIOUS
<1>3. c = n
  BY <1>1, <1>2, CountsOnce
<1>4. Gapless(s) = SubSeq(s, 1, c)
  BY DEF Gapless, CountsTo
<1>5. \A i \in 1..n : SubSeq(s, 1, n)[i] = i
  BY Cut DEF CountsTo
<1>6. SubSeq(s, 1, n) = [i \in 1..n |-> i]
  <2>1. SubSeq(s, 1, n) \in Seq(S) /\ Len(SubSeq(s, 1, n)) = n
    BY Cut
  <2>2. SubSeq(s, 1, n) = [i \in 1..n |-> SubSeq(s, 1, n)[i]]
    BY ONLY <2>1, LenProperties
  <2> QED
    BY <1>5, <2>2
<1> QED
  BY <1>3, <1>4, <1>6

LEMMA CountOn ==
  ASSUME NEW n \in Nat, NEW k \in Nat
  PROVE  [i \in 1..n |-> i] \o [i \in 1..k |-> n + i] = [i \in 1..(n + k) |-> i]
<1> DEFINE g == [i \in 1..n |-> i]
           h == [i \in 1..k |-> n + i]
           z == [i \in 1..(n + k) |-> i]
<1>1. /\ g \in Seq(Nat) /\ Len(g) = n /\ \A i \in 1..n : g[i] = i
      /\ h \in Seq(Nat) /\ Len(h) = k /\ \A i \in 1..k : h[i] = n + i
      /\ z \in Seq(Nat) /\ Len(z) = n + k /\ \A i \in 1..(n + k) : z[i] = i
  OBVIOUS
<1> HIDE DEF g, h, z
<1>2. /\ g \o h \in Seq(Nat) /\ Len(g \o h) = Len(g) + Len(h)
      /\ \A i \in 1..(Len(g) + Len(h)) :
            (g \o h)[i] = IF i <= Len(g) THEN g[i] ELSE h[i - Len(g)]
  BY ONLY <1>1, ConcatProperties
<1>3. \A i \in 1..(n + k) : (g \o h)[i] = z[i]
  BY ONLY <1>1, <1>2, n \in Nat, k \in Nat
<1>4. g \o h = z
  BY ONLY <1>1, <1>2, <1>3, n \in Nat, k \in Nat, SeqEqual
<1> QED
  BY <1>4 DEF g, h, z

\* More behind s makes the gapless front longer, by no more than what was added,
\* and never past the largest unit there is.
LEMMA GaplessGrows ==
  ASSUME NEW M \in Nat, NEW s \in Seq(1..M), NEW t \in Seq(1..M)
  PROVE  \E k \in 0..Len(t) :
            /\ Len(Gapless(s)) \in Nat
            /\ Gapless(s \o t) = Gapless(s) \o [i \in 1..k |-> Len(Gapless(s)) + i]
            /\ Len(Gapless(s)) + k <= M
            /\ k = 0 => Gapless(s \o t) = Gapless(s)
<1> DEFINE st == s \o t
<1>1. /\ Len(s) \in Nat /\ Len(t) \in Nat
      /\ st \in Seq(1..M) /\ Len(st) = Len(s) + Len(t)
      /\ \A i \in 1..Len(s) : st[i] = s[i]
  BY LenProperties, ConcatProperties
<1> HIDE DEF st
<1>2. PICK n \in 0..Len(s) : CountsTo(s, n)
  BY ONLY <1>1, CountsSomewhere
<1>3. PICK m \in 0..Len(st) : CountsTo(st, m)
  <2>1. Len(st) \in Nat
    BY ONLY <1>1
  <2> QED
    BY ONLY <2>1, CountsSomewhere
<1>4. Gapless(s) = [i \in 1..n |-> i] /\ Gapless(st) = [i \in 1..m |-> i]
  BY <1>1, <1>2, <1>3, GaplessCounts
<1>5. n \in Nat /\ m \in Nat /\ n <= m /\ m - n <= Len(t)
  <2>1. n \in Nat /\ m \in Nat /\ m <= Len(s) + Len(t) /\ n <= Len(s)
    BY ONLY <1>1, <1>2, <1>3
  <2>2. ASSUME m < n
        PROVE  FALSE
    <3>1. m + 1 \in 1..n /\ m + 1 \in 1..Len(s) /\ m < Len(st)
      BY ONLY <1>1, <2>1, <2>2
    <3>2. st[m + 1] = s[m + 1] /\ s[m + 1] = m + 1 /\ st[m + 1] # m + 1
      BY ONLY <1>1, <1>2, <1>3, <3>1 DEF CountsTo
    <3> QED
      BY ONLY <3>2
  <2>3. ASSUME n < Len(s), n < m
        PROVE  FALSE
    <3>1. n + 1 \in 1..m /\ n + 1 \in 1..Len(s)
      BY ONLY <1>1, <2>1, <2>3
    <3>2. st[n + 1] = s[n + 1] /\ s[n + 1] # n + 1 /\ st[n + 1] = n + 1
      BY ONLY <1>1, <1>2, <1>3, <2>3, <3>1 DEF CountsTo
    <3> QED
      BY ONLY <3>2
  <2> QED
    BY ONLY <1>1, <2>1, <2>2, <2>3
<1>6. m <= M
  <2>1. CASE m = 0
    BY <2>1
  <2>2. CASE m > 0
    <3>1. m \in 1..Len(st) /\ st[m] = m
      BY ONLY <1>1, <1>3, <1>5, <2>2 DEF CountsTo
    <3>2. st[m] \in 1..M
      BY ONLY <1>1, <3>1, ElementOfSeq
    <3> QED
      BY ONLY <3>1, <3>2
  <2> QED
    BY <1>5, <2>1, <2>2
<1>7. PICK k \in 0..Len(t) : m = n + k
  <2>1. m - n \in 0..Len(t) /\ m = n + (m - n)
    BY ONLY <1>1, <1>5
  <2> QED
    BY ONLY <2>1
<1>8. [i \in 1..n |-> i] \o [i \in 1..k |-> n + i] = [i \in 1..m |-> i]
  BY <1>1, <1>5, <1>7, CountOn
<1>9. Len([i \in 1..n |-> i]) = n
  BY ONLY <1>5
<1>10. k = 0 => Gapless(st) = Gapless(s)
  BY ONLY <1>4, <1>5, <1>7
<1>11. Len(Gapless(s)) = n
  BY ONLY <1>4, <1>9
<1>12. Gapless(st) = Gapless(s) \o [i \in 1..k |-> Len(Gapless(s)) + i]
  <2>1. [i \in 1..k |-> Len(Gapless(s)) + i] = [i \in 1..k |-> n + i]
    BY ONLY <1>11
  <2> QED
    BY ONLY <1>4, <1>8, <2>1, Zenon
<1>13. Len(Gapless(s)) \in Nat /\ Len(Gapless(s)) + k <= M
  BY ONLY <1>5, <1>6, <1>7, <1>11
<1> QED
  BY ONLY <1>7, <1>10, <1>12, <1>13, Zenon DEF st

\* The client's stream: the refinement's value of received.
Received == IF skipped THEN Gapless(wire) ELSE wire

LEMMA FrontGapless ==
  ASSUME NEW S, NEW w \in Seq(S), NEW r \in Seq(S),
         \A i \in 1..Len(w \o r) : (w \o r)[i] = i
  PROVE  Gapless(w) = w
<1>1. /\ Len(w) \in Nat /\ Len(r) \in Nat
      /\ Len(w \o r) = Len(w) + Len(r)
      /\ \A i \in 1..Len(w) : (w \o r)[i] = w[i]
  BY ONLY w \in Seq(S), r \in Seq(S), LenProperties, ConcatProperties
<1>2. CountsTo(w, Len(w))
  BY <1>1 DEF CountsTo
<1>3. Gapless(w) = [i \in 1..Len(w) |-> i]
  BY <1>1, <1>2, GaplessCounts
<1>4. w = [i \in 1..Len(w) |-> w[i]]
  BY LenProperties
<1>5. \A i \in 1..Len(w) : w[i] = i
  BY ONLY <1>2 DEF CountsTo
<1> QED
  BY ONLY <1>3, <1>4, <1>5

LEMMA ReceivedGapless ==
  ASSUME OutboundInv
  PROVE  Received = Gapless(wire)
<1>1. CASE ~skipped
  <2>1. /\ wire \in Seq(1..made) /\ kernel \in Seq(1..made)
        /\ \A i \in 1..Len(wire \o kernel) : (wire \o kernel)[i] = i
    BY <1>1, InvSays
  <2> QED
    BY <1>1, <2>1, FrontGapless DEF Received
<1> QED
  BY <1>1 DEF Received

LEMMA ReceivedGaplessNext ==
  ASSUME OutboundInv'
  PROVE  Received' = Gapless(wire')
<1>1. CASE ~skipped'
  <2>1. /\ wire' \in Seq(1..made') /\ kernel' \in Seq(1..made')
        /\ \A i \in 1..Len(wire' \o kernel') : (wire' \o kernel')[i] = i
    BY <1>1 DEF OutboundInv, Produced, GapFree
  <2> QED
    BY <1>1, <2>1, FrontGapless DEF Received
<1> QED
  BY <1>1 DEF Received

LEMMA StepBound ==
  /\ Largest(KernelCap, MaxSize) \in Nat
  /\ KernelCap <= Largest(KernelCap, MaxSize)
  /\ \A m \in Sizes : m \in 1..Largest(KernelCap, MaxSize)
BY KernelAssumption, SizesAssumption, MaxSizeIs DEF Largest

\* A message produced: the stream goes on, or the client is given up.
LEMMA WriteEmits ==
  ASSUME OutboundInv, NEW m \in Sizes, NEW ignore \in BOOLEAN, Write(m, ignore)
  PROVE  Stream!SNext
<1>1. /\ client /\ made' = made + m /\ wire' = wire
      /\ m \in 1..Largest(KernelCap, MaxSize)
      /\ made \in Nat /\ Largest(KernelCap, MaxSize) \in Nat
  BY InvSays, StepBound DEF Write
<1>2. \/ UNCHANGED <<client, skipped>>
      \/ Refused(ignore)
  BY DEF Write
<1>3. CASE skipped' = skipped /\ client'
  <2>1. (client' /\ ~skipped') = (client /\ ~skipped)
    BY <1>1, <1>2, <1>3, InvSays DEF Refused
  <2>2. Received' = Received
    BY <1>1, <1>3 DEF Received
  <2>3. Stream!Emit
    BY <1>1, <2>1, <2>2 DEF Stream!Emit, Received
  <2> QED
    BY <2>3 DEF Stream!SNext
<1>4. CASE skipped /\ ~client'
  <2>1. skipped' /\ (client' /\ ~skipped') = (client /\ ~skipped)
    BY <1>2, <1>4 DEF Refused
  <2>2. Received' = Received
    BY <1>1, <1>4, <2>1 DEF Received
  <2>3. Stream!Emit
    BY <1>1, <2>1, <2>2 DEF Stream!Emit, Received
  <2> QED
    BY <2>3 DEF Stream!SNext
<1>5. CASE ~skipped /\ (skipped' \/ ~client')
  <2>1. OutboundInv'
    BY WriteKeeps
  <2>2. Received = Gapless(wire) /\ Received' = Gapless(wire')
    BY <2>1, ReceivedGapless, ReceivedGaplessNext
  <2>3. (client /\ ~skipped) /\ ~(client' /\ ~skipped')
    BY <1>1, <1>5
  <2>4. made' - made \in 0..Largest(KernelCap, MaxSize)
    BY ONLY <1>1
  <2>5. Stream!GiveUp
    BY <1>1, <2>2, <2>3, <2>4 DEF Stream!GiveUp, Received
  <2> QED
    BY <2>5 DEF Stream!SNext
<1> QED
  BY <1>1, <1>2, <1>3, <1>4, <1>5, InvSays DEF Refused

\* A read by the peer: the stream's next units, or what lies behind a gap.
LEMMA PeerReadReceives ==
  ASSUME OutboundInv, PeerRead
  PROVE  [Stream!SNext]_(Stream!svars)
<1>1. PICK n \in 1..Len(kernel) :
         /\ wire' = wire \o SubSeq(kernel, 1, n)
         /\ UNCHANGED <<client, made, skipped>>
  BY DEF PeerRead
<1>2. /\ wire \in Seq(1..made) /\ made \in Nat /\ kernel \in Seq(1..made)
      /\ Len(kernel) \in Nat /\ n \in 0..Len(kernel) /\ Len(kernel) <= KernelCap
      /\ KernelCap \in Nat
  BY InvSays, LenProperties, KernelAssumption
<1>3. SubSeq(kernel, 1, n) \in Seq(1..made) /\ Len(SubSeq(kernel, 1, n)) = n
  BY <1>2, Cut
<1>4. PICK k \in 0..n :
         /\ Len(Gapless(wire)) \in Nat
         /\ Gapless(wire') = Gapless(wire) \o [i \in 1..k |-> Len(Gapless(wire)) + i]
         /\ Len(Gapless(wire)) + k <= made
         /\ k = 0 => Gapless(wire') = Gapless(wire)
  <2> DEFINE t == SubSeq(kernel, 1, n)
  <2>1. t \in Seq(1..made) /\ Len(t) = n /\ wire' = wire \o t
    BY <1>1, <1>3
  <2> HIDE DEF t
  <2>2. \E k \in 0..Len(t) :
            /\ Len(Gapless(wire)) \in Nat
            /\ Gapless(wire \o t) = Gapless(wire) \o [i \in 1..k |-> Len(Gapless(wire)) + i]
            /\ Len(Gapless(wire)) + k <= made
            /\ k = 0 => Gapless(wire \o t) = Gapless(wire)
    BY ONLY <1>2, <2>1, GaplessGrows
  <2> QED
    BY ONLY <2>1, <2>2, Zenon
<1>5. Received = Gapless(wire) /\ Received' = Gapless(wire')
  BY PeerReadKeeps, ReceivedGapless, ReceivedGaplessNext
<1>6. (client' /\ ~skipped') = (client /\ ~skipped) /\ made' = made
  BY <1>1
<1>7. CASE k = 0
  <2>1. Received' = Received
    BY <1>4, <1>5, <1>7
  <2> QED
    BY <1>6, <2>1 DEF Stream!svars, Received
<1>8. CASE k # 0
  <2>1. k \in 1..Largest(KernelCap, MaxSize)
    BY ONLY <1>2, <1>8, StepBound
  <2>2. Received' = Received \o [i \in 1..k |-> Len(Received) + i]
    BY ONLY <1>4, <1>5, Zenon
  <2>3. Len(Received) + k <= made
    BY ONLY <1>4, <1>5
  <2>4. Stream!Receive
    BY ONLY <1>6, <2>1, <2>2, <2>3, Zenon DEF Stream!Receive, Received
  <2> QED
    BY <2>4 DEF Stream!SNext
<1> QED
  BY <1>7, <1>8

\* Steps the stream does not see, unless they give the client up.
LEMMA QuietStep ==
  ASSUME UNCHANGED <<made, wire, skipped>>, client' => client,
         client \in BOOLEAN, client' \in BOOLEAN, skipped \in BOOLEAN, made \in Nat
  PROVE  [Stream!SNext]_(Stream!svars)
<1>1. Received' = Received
  BY DEF Received
<1>2. CASE client' = client \/ skipped
  <2>1. (client' /\ ~skipped') = (client /\ ~skipped)
    BY <1>2
  <2> QED
    BY <1>1, <2>1 DEF Stream!svars, Received
<1>3. CASE client' # client /\ ~skipped
  <2>1. (client /\ ~skipped) /\ (client' /\ ~skipped') = FALSE
    BY <1>3
  <2>2. made' - made \in 0..Largest(KernelCap, MaxSize)
    BY StepBound
  <2>3. Stream!GiveUp
    BY <1>1, <2>1, <2>2 DEF Stream!GiveUp, Received
  <2> QED
    BY <2>3 DEF Stream!SNext
<1> QED
  BY <1>2, <1>3

LEMMA StreamStep ==
  ASSUME OutboundInv, [Next]_vars
  PROVE  [Stream!SNext]_(Stream!svars)
<1>0. client \in BOOLEAN /\ skipped \in BOOLEAN /\ made \in Nat
  BY InvSays
<1>1. ASSUME NEW m \in Sizes, NEW ignore \in BOOLEAN, Write(m, ignore)
      PROVE  [Stream!SNext]_(Stream!svars)
  BY <1>1, WriteEmits
<1>2. CASE ReconcileDrain
  BY <1>0, <1>2, QuietStep DEF ReconcileDrain, ProcessDisconnect
<1>3. CASE ReconcileRegister
  BY <1>0, <1>3, QuietStep DEF ReconcileRegister
<1>4. CASE Writable
  BY <1>0, <1>4, QuietStep DEF Writable, ProcessDisconnect
<1>5. CASE OtherWake
  BY <1>0, <1>5, QuietStep DEF OtherWake
<1>6. CASE ReaderSawEof
  BY <1>0, <1>6, QuietStep DEF ReaderSawEof
<1>7. CASE PeerRead
  BY <1>7, PeerReadReceives
<1>8. CASE PeerClose
  BY <1>0, <1>8, QuietStep DEF PeerClose
<1>9. CASE UNCHANGED vars
  BY <1>0, <1>9, QuietStep DEF vars
<1> QED
  BY <1>1, <1>2, <1>3, <1>4, <1>5, <1>6, <1>7, <1>8, <1>9 DEF Next

\* The outbound path implements the byte stream: up to the first refusal that a
\* caller ignores, what the peer reads is what was produced, in order and without
\* a gap, and nothing but the end of the client takes that back.
THEOREM OutboundIsStream == Spec => StreamSpec
<1>1. Init => Stream!SInit
  <2> SUFFICES ASSUME Init
               PROVE  Stream!SInit
    OBVIOUS
  <2> QED
    BY DEF Init, Stream!SInit
<1>2. OutboundInv /\ [Next]_vars => [Stream!SNext]_(Stream!svars)
  BY StreamStep
<1> QED
  BY <1>1, <1>2, InvAlways, PTL DEF Spec, StreamSpec, Stream!SSpec

=============================================================================
