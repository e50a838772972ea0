-------------------------- MODULE WindowTree_proofs --------------------------
(***************************************************************************)
(* The tree invariant of WindowTree, for any number of windows, clients    *)
(* and claims, and for whatever clients request of the COW too: lists and  *)
(* parents agree and no window is its own ancestor.  The release of the    *)
(* last claim looks at the root's list only; TreeInv holds through it      *)
(* because it allows the COW, and nothing else, in a list it does not      *)
(* belong to once that has happened while it hung elsewhere.  From the     *)
(* invariant follow what single requests may do: at most one window        *)
(* moves, mapping reveals what hangs together, the end of a client leaves  *)
(* none of its windows, and the COW stays above its siblings.              *)
(***************************************************************************)
EXTENDS WindowTree, TLAPS

TreeInv ==
    /\ TreeTypeOK
    /\ ListsAgree
    /\ NoCycle
    /\ ServerWindows

-----------------------------------------------------------------------------
(* Walks.                                                                  *)

\* A walk reaches its start, goes on along `next` from what it reaches, and
\* stays inside every closed set that holds its start.
LEMMA ReachableFacts ==
    ASSUME NEW w \in All, NEW next \in [All -> SUBSET All]
    PROVE  /\ Reachable(w, next) \subseteq All
           /\ w \in Reachable(w, next)
           /\ \A y \in Reachable(w, next) : next[y] \subseteq Reachable(w, next)
           /\ \A S \in SUBSET All :
                 w \in S /\ (\A y \in S : next[y] \subseteq S) => Reachable(w, next) \subseteq S
  BY DEF Reachable

\* A subtree is closed under the lists and never holds the root, unless it
\* is the root's.
LEMMA SubtreeFacts ==
    ASSUME TreeTypeOK, ServerWindows, NEW w \in All
    PROVE  /\ Subtree(w) \subseteq All
           /\ \A y \in Subtree(w) : children[y] \cap exists \subseteq Subtree(w)
           /\ w # Root => Root \notin Subtree(w)
  <1> DEFINE next == [y \in All |-> children[y] \cap exists]
  <1>1. next \in [All -> SUBSET All]
    BY DEF TreeTypeOK
  <1>2. Subtree(w) = Reachable(w, next)
    BY DEF Subtree
  <1>3. /\ Reachable(w, next) \subseteq All
        /\ \A y \in Reachable(w, next) : next[y] \subseteq Reachable(w, next)
        /\ \A S \in SUBSET All :
              w \in S /\ (\A y \in S : next[y] \subseteq S) => Reachable(w, next) \subseteq S
    BY <1>1, ReachableFacts
  <1>4. \A y \in Subtree(w) : children[y] \cap exists \subseteq Subtree(w)
    BY <1>2, <1>3
  <1>5. w # Root => Root \notin Subtree(w)
    <2> SUFFICES ASSUME w # Root PROVE Root \notin Subtree(w)
      OBVIOUS
    <2>1. All \ {Root} \in SUBSET All /\ w \in All \ {Root}
      OBVIOUS
    <2>2. \A y \in All \ {Root} : next[y] \subseteq All \ {Root}
      BY DEF TreeTypeOK, ServerWindows
    <2> QED BY <1>2, <1>3, <2>1, <2>2
  <1> QED BY <1>2, <1>3, <1>4, <1>5

-----------------------------------------------------------------------------
(* Placing a window in a list keeps the types.                             *)

LEMMA PlacedType ==
    ASSUME NEW C \in SUBSET All, NEW R \in SUBSET (All \X All), NEW w \in All,
           NEW upper \in SUBSET All
    PROVE  Placed(C, R, w, upper) \in SUBSET (All \X All)
  BY DEF Placed

LEMMA LiftedType ==
    ASSUME NEW R \in SUBSET (All \X All), NEW w
    PROVE  Lifted(R, w) \in SUBSET (All \X All)
  BY DEF Lifted

LEMMA RestackedType ==
    ASSUME TreeTypeOK, NEW p \in All, NEW w \in All, NEW upper \in SUBSET All
    PROVE  Restacked(p, w, upper) \in SUBSET (All \X All)
  <1>1. children[p] \ {w} \in SUBSET All /\ stack[p] \in SUBSET (All \X All)
    BY DEF TreeTypeOK
  <1>2. Lifted(stack[p], w) \in SUBSET (All \X All)
    BY <1>1, LiftedType
  <1> QED BY <1>1, <1>2, PlacedType DEF Restacked

LEMMA TopSlotType ==
    ASSUME NEW p, NEW w
    PROVE  TopSlot(p, w) \in SUBSET All
  BY DEF TopSlot, AboveTop, All

\* An update of one list's order keeps the type of `stack`.
LEMMA StackUpdate ==
    ASSUME TreeTypeOK, NEW p \in All, NEW R \in SUBSET (All \X All)
    PROVE  [stack EXCEPT ![p] = R] \in [All -> SUBSET (All \X All)]
  BY DEF TreeTypeOK

-----------------------------------------------------------------------------
(* One lemma per request.                                                  *)

LEMMA InitTree == ASSUME TreeInit PROVE TreeInv
  <1> USE IdsAssumption DEF TreeInit
  <1>1. TreeTypeOK
    <2>1. /\ exists \subseteq All
          /\ parent \in [All -> All]
          /\ children \in [All -> SUBSET All]
          /\ stack \in [All -> SUBSET (All \X All)]
          /\ mapState \in [All -> MapStates]
      BY DEF All, MapStates
    <2>2. cowRefs \in 0..MaxClaims
      BY DEF IdsAssumption
    <2>3. torn \in BOOLEAN
      BY Zenon
    <2> QED BY <2>1, <2>2, <2>3 DEF TreeTypeOK
  <1>2. ListsAgree
    BY DEF ListsAgree
  <1>3. NoCycle
    BY DEF NoCycle
  <1>4. ServerWindows
    BY DEF ServerWindows
  <1> QED BY <1>1, <1>2, <1>3, <1>4 DEF TreeInv

LEMMA CreateWindowTree ==
    ASSUME TreeInv, NEW w \in Window, NEW p \in All, CreateWindow(w, p)
    PROVE  TreeInv'
  <1> USE IdsAssumption DEF TreeInv
  <1>1. /\ w \in All /\ w # Root /\ w # Cow /\ w \notin exists
        /\ p \in exists /\ p # w
    BY DEF CreateWindow, All
  <1>2. /\ exists' = exists \cup {w}
        /\ parent' = [parent EXCEPT ![w] = p]
        /\ children' = [children EXCEPT ![p] = @ \cup {w}]
        /\ mapState' = mapState /\ cowRefs' = cowRefs /\ torn' = torn
    BY DEF CreateWindow
  <1>3. TreeTypeOK'
    <2>1. Restacked(p, w, TopSlot(p, w)) \in SUBSET (All \X All)
      BY <1>1, RestackedType, TopSlotType
    <2>2. stack' \in [All -> SUBSET (All \X All)]
      BY <2>1, StackUpdate DEF CreateWindow
    <2> QED BY <1>1, <1>2, <2>2 DEF TreeTypeOK
  <1>4. ListsAgree'
    <2>1. \A q \in All : \A x \in children'[q] :
              q \in exists' /\ ((x = Cow => ~torn') => x \in exists' /\ parent'[x] = q)
      BY <1>1, <1>2 DEF ListsAgree, TreeTypeOK
    <2>2. \A x \in exists' \ {Root} : parent'[x] # Cow =>
              parent'[x] \in exists' /\ x \in children'[parent'[x]]
      BY <1>1, <1>2 DEF ListsAgree, TreeTypeOK, Listed
    <2> QED BY <2>1, <2>2 DEF ListsAgree, Listed
  <1>5. NoCycle'
    <2> SUFFICES ASSUME NEW S \in SUBSET (exists' \ {Root}), S # {}
                 PROVE  \E x \in S : parent'[x] \notin S
      BY DEF NoCycle
    <2>1. CASE S = {w}
      BY <1>1, <1>2, <2>1 DEF TreeTypeOK
    <2>2. CASE S # {w}
      <3>1. S \ {w} # {} /\ S \ {w} \in SUBSET (exists \ {Root})
        BY <1>2, <2>2
      <3>2. PICK x \in S \ {w} : parent[x] \notin S \ {w}
        BY <3>1 DEF NoCycle
      <3>3. parent[x] # w
        BY <1>1, <3>1, <3>2 DEF ListsAgree, Listed
      <3> QED BY <1>1, <1>2, <3>1, <3>2, <3>3 DEF TreeTypeOK
    <2> QED BY <2>1, <2>2
  <1>6. ServerWindows'
    BY <1>1, <1>2 DEF ServerWindows, TreeTypeOK
  <1> QED BY <1>3, <1>4, <1>5, <1>6

\* What the three destroying requests share: a set of windows goes that does
\* not hold the root and is closed under the lists.
LEMMA DestroyedTree ==
    ASSUME TreeInv, NEW Dead \in SUBSET All, Root \notin Dead,
           \A y \in Dead : children[y] \cap exists \subseteq Dead,
           Destroyed(Dead)
    PROVE  TreeInv'
  <1> USE DEF TreeInv
  <1>1. /\ exists' = exists \ Dead
        /\ \A w \in All \ Dead : parent'[w] = parent[w]
        /\ \A w \in All \ Dead :
              children'[w] = children[w] \ {x \in Dead : parent[x] = w}
        /\ \A w \in Dead : children'[w] = {}
        /\ cowRefs' = cowRefs /\ torn' = torn
    BY DEF Destroyed
  <1>2. exists \subseteq All /\ Root \in All
    BY DEF TreeTypeOK, All
  <1>3. TreeTypeOK'
    <2>1. exists' \subseteq All /\ cowRefs' \in 0..MaxClaims /\ torn' \in BOOLEAN
      BY <1>1 DEF TreeTypeOK
    <2>2. parent' \in [All -> All]
      BY <1>2 DEF TreeTypeOK, Destroyed
    <2>3. children' \in [All -> SUBSET All]
      BY DEF TreeTypeOK, Destroyed
    <2>4. stack' \in [All -> SUBSET (All \X All)]
      BY DEF TreeTypeOK, Destroyed
    <2>5. mapState' \in [All -> MapStates]
      BY DEF TreeTypeOK, Destroyed, MapStates
    <2> QED BY <2>1, <2>2, <2>3, <2>4, <2>5 DEF TreeTypeOK
  <1>4. ListsAgree'
    <2>1. ASSUME NEW q \in All, NEW x \in children'[q]
          PROVE  q \in exists' /\ ((x = Cow => ~torn') => x \in exists' /\ parent'[x] = q)
      <3>1. q \notin Dead /\ x \in children[q] /\ ~(x \in Dead /\ parent[x] = q)
        BY <1>1
      <3>2. q \in exists /\ ((x = Cow => ~torn) => x \in exists /\ parent[x] = q)
        BY <3>1 DEF ListsAgree
      <3> QED BY <1>1, <1>2, <3>1, <3>2
    <2>2. ASSUME NEW x \in exists' \ {Root}, parent'[x] # Cow
          PROVE  parent'[x] \in exists' /\ x \in children'[parent'[x]]
      <3>1. x \in exists \ {Root} /\ x \notin Dead /\ parent'[x] = parent[x]
        BY <1>1, <1>2
      <3>2. parent[x] \in exists /\ x \in children[parent[x]]
        BY <2>2, <3>1 DEF ListsAgree, Listed
      <3>3. parent[x] \notin Dead
        BY <3>1, <3>2
      <3> QED BY <1>1, <1>2, <3>1, <3>2, <3>3
    <2> QED BY <2>1, <2>2 DEF ListsAgree, Listed
  <1>5. NoCycle'
    <2> SUFFICES ASSUME NEW S \in SUBSET (exists' \ {Root}), S # {}
                 PROVE  \E x \in S : parent'[x] \notin S
      BY DEF NoCycle
    <2>1. S \in SUBSET (exists \ {Root}) /\ \A x \in S : parent'[x] = parent[x]
      BY <1>1, <1>2
    <2> QED BY <2>1 DEF NoCycle
  <1>6. ServerWindows'
    <2>1. ASSUME NEW q \in All PROVE Root \notin children'[q]
      <3>1. Root \notin children[q]
        BY DEF ServerWindows
      <3> QED BY <1>1, <3>1
    <2> QED BY <1>1, <2>1 DEF ServerWindows
  <1> QED BY <1>3, <1>4, <1>5, <1>6

\* The subtrees of a set of windows other than the root are such a set.
LEMMA SubtreesClosed ==
    ASSUME TreeInv, NEW M \in SUBSET (All \ {Root})
    PROVE  LET Dead == UNION {Subtree(w) : w \in M}
           IN  /\ Dead \in SUBSET All
               /\ Root \notin Dead
               /\ \A y \in Dead : children[y] \cap exists \subseteq Dead
  <1>1. \A w \in M : /\ Subtree(w) \subseteq All
                     /\ \A y \in Subtree(w) : children[y] \cap exists \subseteq Subtree(w)
                     /\ Root \notin Subtree(w)
    BY SubtreeFacts DEF TreeInv
  <1> QED BY <1>1

\* What a destroying request takes away.
Doomed(Dead) ==
    /\ Dead \in SUBSET All
    /\ Root \notin Dead
    /\ \A y \in Dead : children[y] \cap exists \subseteq Dead
    /\ Destroyed(Dead)

LEMMA DestroysDoomed ==
    ASSUME TreeInv, NEW w \in All,
           \/ DestroyWindow(w)
           \/ DestroySubwindows(w)
           \/ \E c \in Client : DestroyOwned(c)
    PROVE  \E Dead : Doomed(Dead)
  <1> USE IdsAssumption
  <1>1. CASE DestroyWindow(w)
    <2>1. CASE w = Root
      <3>1. Destroyed({})
        BY <1>1, <2>1 DEF DestroyWindow, DestroyedBy
      <3> QED BY <3>1 DEF Doomed
    <2>2. CASE w # Root
      <3>1. Destroyed(Subtree(w))
        BY <1>1, <2>2 DEF DestroyWindow, DestroyedBy
      <3> QED BY <2>2, <3>1, SubtreeFacts DEF TreeInv, Doomed
    <2> QED BY <2>1, <2>2
  <1>2. CASE DestroySubwindows(w)
    <2> DEFINE M == children[w] \cap exists
    <2>1. M \in SUBSET (All \ {Root})
      BY DEF TreeInv, TreeTypeOK, ServerWindows
    <2>2. Destroyed(UNION {Subtree(x) : x \in M})
      BY <1>2 DEF DestroySubwindows
    <2> HIDE DEF M
    <2> QED BY <2>1, <2>2, SubtreesClosed DEF Doomed
  <1>3. CASE \E c \in Client : DestroyOwned(c)
    <2>1. PICK c \in Client : DestroyOwned(c)
      BY <1>3
    <2> DEFINE M == OwnedRoots(c)
    <2>2. M \in SUBSET (All \ {Root})
      BY DEF OwnedRoots, Owned, All
    <2>3. Destroyed(UNION {Subtree(x) : x \in M})
      BY <2>1 DEF DestroyOwned
    <2> HIDE DEF M
    <2> QED BY <2>2, <2>3, SubtreesClosed DEF Doomed
  <1> QED BY <1>1, <1>2, <1>3

LEMMA DestroyTree ==
    ASSUME TreeInv, NEW w \in All,
           \/ DestroyWindow(w)
           \/ DestroySubwindows(w)
           \/ \E c \in Client : DestroyOwned(c)
    PROVE  TreeInv'
  <1>1. PICK Dead : Doomed(Dead)
    BY DestroysDoomed
  <1> QED BY <1>1, DestroyedTree DEF Doomed

\* No cycle arises because the new parent's ancestors, which a set T closed
\* under parents holds, do not include the window.
LEMMA ReparentWindowTree ==
    ASSUME TreeInv, NEW w \in All, NEW p \in All, ReparentWindow(w, p)
    PROVE  TreeInv'
  <1> USE IdsAssumption DEF TreeInv
  <1>1. /\ w \in exists /\ w # Root
        /\ p \in exists /\ p # w
        /\ ~IsDescendantOf(p, w)
    BY DEF ReparentWindow
  <1>2. /\ exists' = exists /\ cowRefs' = cowRefs /\ mapState' = mapState /\ torn' = torn
        /\ parent' = [parent EXCEPT ![w] = p]
    BY DEF ReparentWindow
  <1>3. /\ parent'[w] = p
        /\ \A x \in All \ {w} : parent'[x] = parent[x]
    BY <1>2 DEF TreeTypeOK
  <1> DEFINE old == parent[w]
             kids == [children EXCEPT ![old] = @ \ {w}]
             order == [stack EXCEPT ![old] = Lifted(@, w)]
  <1>4. /\ stack' = [order EXCEPT ![p] = Placed(kids[p], @, w, AboveTop(kids[p], @))]
        /\ children' = [kids EXCEPT ![p] = @ \cup {w}]
    BY DEF ReparentWindow
  <1>5. old \in All
    BY DEF TreeTypeOK
  <1>6. kids \in [All -> SUBSET All]
    BY <1>5 DEF TreeTypeOK
  <1>7. order \in [All -> SUBSET (All \X All)]
    <2>1. stack[old] \in SUBSET (All \X All)
      BY <1>5 DEF TreeTypeOK
    <2>2. Lifted(stack[old], w) \in SUBSET (All \X All)
      BY <2>1, LiftedType
    <2> QED BY <2>2, <1>5 DEF TreeTypeOK
  <1>8. \A q \in All : w \in children[q] /\ (w = Cow => ~torn) => q = old
    BY DEF ListsAgree
  <1>9. /\ w \in children'[p]
        /\ \A q \in All : \A x \in All \ {w} : x \in children'[q] <=> x \in children[q]
        /\ \A q \in All : w \in children'[q] => q = p \/ (w = Cow /\ torn /\ w \in children[q])
    <2>1. children'[p] = kids[p] \cup {w}
      BY <1>4, <1>6
    <2>2. \A q \in All \ {p} : children'[q] = kids[q]
      BY <1>4, <1>6
    <2>3. /\ kids[old] = children[old] \ {w}
          /\ \A q \in All \ {old} : kids[q] = children[q]
      BY <1>5 DEF TreeTypeOK
    <2> HIDE DEF kids, order, old
    <2> QED BY <1>8, <2>1, <2>2, <2>3
  <1>10. TreeTypeOK'
    <2>1. children' \in [All -> SUBSET All]
      BY <1>4, <1>6
    <2>2. stack' \in [All -> SUBSET (All \X All)]
      <3> HIDE DEF kids, order
      <3>1. kids[p] \in SUBSET All /\ order[p] \in SUBSET (All \X All)
        BY <1>6, <1>7
      <3>2. AboveTop(kids[p], order[p]) \in SUBSET All
        BY DEF AboveTop, All
      <3>3. Placed(kids[p], order[p], w, AboveTop(kids[p], order[p])) \in SUBSET (All \X All)
        BY <3>1, <3>2, PlacedType
      <3> QED BY <1>4, <1>7, <3>3
    <2>3. parent' \in [All -> All]
      BY <1>2 DEF TreeTypeOK
    <2> QED BY <1>2, <2>1, <2>2, <2>3 DEF TreeTypeOK
  <1> HIDE DEF kids, order, old
  <1>11. ListsAgree'
    <2>1. ASSUME NEW q \in All, NEW x \in children'[q]
          PROVE  q \in exists' /\ ((x = Cow => ~torn') => x \in exists' /\ parent'[x] = q)
      <3>1. CASE x = w
        <4>1. CASE q = p
          BY <1>1, <1>2, <1>3, <3>1, <4>1
        <4>2. CASE q # p
          <5>1. x = Cow /\ torn /\ x \in children[q]
            BY <1>9, <2>1, <3>1, <4>2
          <5> QED BY <1>2, <5>1 DEF ListsAgree
        <4> QED BY <4>1, <4>2
      <3>2. CASE x # w
        <4>0. x \in All
          BY <1>10, <2>1 DEF TreeTypeOK
        <4>1. x \in children[q]
          BY <1>9, <2>1, <3>2, <4>0
        <4>2. q \in exists /\ ((x = Cow => ~torn) => x \in exists /\ parent[x] = q)
          BY <4>1 DEF ListsAgree
        <4> QED BY <1>2, <1>3, <3>2, <4>2 DEF TreeTypeOK
      <3> QED BY <3>1, <3>2
    <2>2. ASSUME NEW x \in exists' \ {Root}, parent'[x] # Cow
          PROVE  parent'[x] \in exists' /\ x \in children'[parent'[x]]
      <3>1. CASE x = w
        BY <1>1, <1>2, <1>3, <1>9, <3>1
      <3>2. CASE x # w
        <4>1. parent'[x] = parent[x] /\ x \in exists \ {Root}
          BY <1>2, <1>3, <3>2 DEF TreeTypeOK
        <4>2. /\ parent[x] \in exists /\ x \in children[parent[x]]
              /\ parent[x] \in All /\ x \in All
          BY <2>2, <4>1 DEF ListsAgree, Listed, TreeTypeOK
        <4> QED BY <1>2, <1>9, <3>2, <4>1, <4>2
      <3> QED BY <3>1, <3>2
    <2> QED BY <2>1, <2>2 DEF ListsAgree, Listed
  <1>12. NoCycle'
    <2> SUFFICES ASSUME NEW S \in SUBSET (exists \ {Root}), S # {},
                        \A x \in S : parent'[x] \in S
                 PROVE  FALSE
      BY <1>2 DEF NoCycle
    <2>1. \A x \in S : x \in All
      BY DEF TreeTypeOK
    <2>2. CASE w \notin S
      <3>1. \A x \in S : parent[x] \in S
        BY <1>3, <2>1, <2>2
      <3> QED BY <3>1 DEF NoCycle
    <2>3. CASE w \in S
      <3>1. p \in S
        BY <1>3, <2>3
      <3> DEFINE up == [y \in All |-> IF y \in exists \ {Root} THEN {parent[y]} ELSE {}]
      <3>2. w \notin Reachable(parent[p], up)
        BY <1>1, <3>1 DEF IsDescendantOf, Ancestors
      <3>3. PICK T \in SUBSET All : /\ parent[p] \in T
                                    /\ \A y \in T : up[y] \subseteq T
                                    /\ w \notin T
        <4> HIDE DEF up
        <4> QED BY <3>2 DEF Reachable
      <3>4. \A y \in T : y \in exists \ {Root} => parent[y] \in T
        BY <3>3
      <3> DEFINE U == S \cap (T \cup {p})
      <3>5. U \in SUBSET (exists \ {Root}) /\ U # {} /\ w \notin U
        BY <1>1, <3>1, <3>3
      <3>6. ASSUME NEW x \in U PROVE parent[x] \in U
        <4>1. x \in S /\ x # w /\ x \in All
          BY <2>1, <3>5
        <4>2. parent[x] \in S
          BY <1>3, <4>1
        <4>3. parent[x] \in T
          BY <3>3, <3>4, <4>1
        <4> QED BY <4>2, <4>3
      <3> QED BY <3>5, <3>6 DEF NoCycle
    <2> QED BY <2>2, <2>3
  <1>13. ServerWindows'
    <2>1. ASSUME NEW q \in All PROVE Root \notin children'[q]
      <3>1. Root \notin children[q] /\ Root \in All
        BY DEF ServerWindows, All
      <3> QED BY <1>1, <1>9, <3>1
    <2> QED BY <1>2, <2>1 DEF ServerWindows
  <1> QED BY <1>10, <1>11, <1>12, <1>13

\* The requests that only restack or only map.
LEMMA SameTree ==
    ASSUME TreeInv, UNCHANGED <<exists, parent, children, cowRefs, torn>>,
           stack' \in [All -> SUBSET (All \X All)],
           mapState' \in [All -> MapStates]
    PROVE  TreeInv'
  <1>1. /\ exists' = exists /\ parent' = parent
        /\ children' = children /\ cowRefs' = cowRefs /\ torn' = torn
    OBVIOUS
  <1> QED BY <1>1 DEF TreeInv, TreeTypeOK, ListsAgree, Listed, NoCycle, ServerWindows

LEMMA RestackTree ==
    ASSUME TreeInv, NEW w \in All, NEW upper \in SUBSET All, Restack(w, upper)
    PROVE  TreeInv'
  <1>1. parent[w] \in All
    BY DEF TreeInv, TreeTypeOK
  <1>2. Restacked(parent[w], w, upper) \in SUBSET (All \X All)
    BY <1>1, RestackedType DEF TreeInv
  <1>3. stack' \in [All -> SUBSET (All \X All)]
    BY <1>1, <1>2, StackUpdate DEF TreeInv, Restack
  <1>4. mapState' \in [All -> MapStates]
    BY DEF TreeInv, TreeTypeOK, Restack
  <1> QED BY <1>3, <1>4, SameTree DEF Restack

LEMMA ConfigureWindowTree ==
    ASSUME TreeInv, NEW w \in All, ConfigureWindow(w)
    PROVE  TreeInv'
  <1>1. parent[w] \in All /\ Siblings(w) \in SUBSET All
    BY DEF TreeInv, TreeTypeOK, Siblings
  <1>2. \A x : Above(x) \in SUBSET (Siblings(x))
    BY DEF Above
  <1>3. PICK upper \in SUBSET All : Restack(w, upper)
    <2>1. CASE RaiseWindow(w)
      BY <2>1, TopSlotType DEF RaiseWindow
    <2>2. CASE LowerWindow(w)
      BY <1>1, <2>2 DEF LowerWindow
    <2>3. ASSUME NEW s \in All, StackAbove(w, s) \/ StackBelow(w, s)
          PROVE  \E upper \in SUBSET All : Restack(w, upper)
      <3>1. parent[s] \in All
        BY DEF TreeInv, TreeTypeOK
      <3>2. Siblings(s) \in SUBSET All
        BY <3>1 DEF TreeInv, TreeTypeOK, Siblings
      <3>3. Above(s) \in SUBSET All
        BY <1>2, <3>2
      <3>4. TopSlot(parent[w], w) \in SUBSET All
        BY TopSlotType
      <3>5. Above(s) \ {w} \in SUBSET All /\ {s} \cup (Above(s) \ {w}) \in SUBSET All
        BY <3>3
      <3>6. CASE StackAbove(w, s)
        BY <3>4, <3>5, <3>6 DEF StackAbove
      <3>7. CASE StackBelow(w, s)
        BY <3>5, <3>7 DEF StackBelow
      <3> QED BY <2>3, <3>6, <3>7
    <2> QED BY <2>1, <2>2, <2>3 DEF ConfigureWindow
  <1> QED BY <1>3, RestackTree

LEMMA CirculateWindowTree ==
    ASSUME TreeInv, NEW p \in All, NEW d \in {0, 1}, CirculateWindow(p, d)
    PROVE  TreeInv'
  <1>1. children[p] \in SUBSET All
    BY DEF TreeInv, TreeTypeOK
  <1>2. PICK w \in Circulating(p), upper \in SUBSET All :
            stack' = [stack EXCEPT ![p] = Restacked(p, w, upper)]
    BY <1>1 DEF CirculateWindow
  <1>3. w \in All
    BY <1>1 DEF Circulating
  <1>4. Restacked(p, w, upper) \in SUBSET (All \X All)
    BY <1>3, RestackedType DEF TreeInv
  <1>5. stack' \in [All -> SUBSET (All \X All)]
    BY <1>2, <1>4, StackUpdate DEF TreeInv
  <1>6. mapState' \in [All -> MapStates] /\ UNCHANGED <<exists, parent, children, cowRefs, torn>>
    BY DEF TreeInv, TreeTypeOK, CirculateWindow
  <1> QED BY <1>5, <1>6, SameTree

LEMMA MappingTree ==
    ASSUME TreeInv, NEW w \in All,
           MapWindow(w) \/ UnmapWindow(w) \/ MapSubwindows(w) \/ UnmapSubwindows(w)
    PROVE  TreeInv'
  <1>1. \/ \E M, v : Mapped(M, v)
        \/ \E M : Unmapped(M)
    BY DEF MapWindow, UnmapWindow, MapSubwindows, UnmapSubwindows
  <1>2. UNCHANGED <<exists, parent, children, stack, cowRefs, torn>>
    BY <1>1 DEF Mapped, Unmapped
  <1>3. mapState' \in [All -> MapStates]
    <2>1. CASE \E M, v : Mapped(M, v)
      BY <2>1 DEF Mapped, MapStates, TreeInv, TreeTypeOK
    <2>2. CASE \E M : Unmapped(M)
      BY <2>2 DEF Unmapped, MapStates, TreeInv, TreeTypeOK
    <2> QED BY <1>1, <2>1, <2>2
  <1>4. stack' \in [All -> SUBSET (All \X All)]
    BY <1>2 DEF TreeInv, TreeTypeOK
  <1> QED BY <1>2, <1>3, <1>4, SameTree

\* The first claim adds a leaf to the root; nothing that exists is below it.
LEMMA GetOverlayWindowTree ==
    ASSUME TreeInv, GetOverlayWindow
    PROVE  TreeInv'
  <1> USE IdsAssumption DEF TreeInv
  <1>1. /\ cowRefs \in Nat /\ cowRefs' = cowRefs + 1 /\ cowRefs' \in 0..MaxClaims
        /\ torn' = torn
    BY DEF GetOverlayWindow, TreeTypeOK
  <1>2. CASE cowRefs # 0
    <2>1. UNCHANGED <<exists, parent, children, stack, mapState>>
      BY <1>2 DEF GetOverlayWindow
    <2>2. TreeTypeOK'
      BY <1>1, <2>1 DEF TreeTypeOK
    <2>3. ListsAgree' /\ NoCycle'
      BY <1>1, <2>1 DEF ListsAgree, Listed, NoCycle
    <2>4. ServerWindows'
      BY <1>1, <2>1 DEF ServerWindows
    <2> QED BY <2>2, <2>3, <2>4
  <1>3. CASE cowRefs = 0
    <2>1. /\ exists' = exists \cup {Cow}
          /\ parent' = [parent EXCEPT ![Cow] = Root]
          /\ stack' = [stack EXCEPT ![Root] = Restacked(Root, Cow, {})]
          /\ children' = [children EXCEPT ![Root] = @ \cup {Cow}, ![Cow] = {}]
          /\ mapState' = [mapState EXCEPT ![Cow] = "Viewable"]
      BY <1>3 DEF GetOverlayWindow
    <2>2. Cow \notin exists /\ Cow \in All /\ Root \in All /\ Root \in exists
      BY <1>3 DEF ServerWindows, All
    <2>3. /\ parent'[Cow] = Root
          /\ \A x \in All \ {Cow} : parent'[x] = parent[x]
      BY <2>1, <2>2 DEF TreeTypeOK
    <2>4. /\ children'[Root] = children[Root] \cup {Cow}
          /\ children'[Cow] = {}
          /\ \A q \in All \ {Root, Cow} : children'[q] = children[q]
      BY <2>1, <2>2 DEF TreeTypeOK
    <2>5. TreeTypeOK'
      <3>1. stack' \in [All -> SUBSET (All \X All)]
        BY <2>1, <2>2, RestackedType, StackUpdate
      <3>2. children' \in [All -> SUBSET All] /\ parent' \in [All -> All]
        BY <2>1, <2>2 DEF TreeTypeOK
      <3>3. mapState' \in [All -> MapStates] /\ exists' \subseteq All
        BY <2>1, <2>2 DEF TreeTypeOK, MapStates
      <3> QED BY <1>1, <3>1, <3>2, <3>3 DEF TreeTypeOK
    <2>6. ListsAgree'
      <3>1. ASSUME NEW q \in All, NEW x \in children'[q]
            PROVE  q \in exists' /\ ((x = Cow => ~torn') => x \in exists' /\ parent'[x] = q)
        <4>1. CASE x = Cow
          <5>1. CASE q = Root
            BY <2>1, <2>2, <2>3, <4>1, <5>1
          <5>2. CASE q # Root
            <6>1. x \in children[q]
              BY <2>4, <3>1, <5>2
            <6>2. q \in exists /\ torn
              BY <2>2, <4>1, <6>1 DEF ListsAgree
            <6> QED BY <1>1, <2>1, <4>1, <6>2
          <5> QED BY <5>1, <5>2
        <4>2. CASE x # Cow
          <5>1. x \in children[q]
            BY <2>4, <3>1, <4>2
          <5>2. q \in exists /\ x \in exists /\ parent[x] = q
            BY <4>2, <5>1 DEF ListsAgree
          <5> QED BY <2>1, <2>3, <4>2, <5>2 DEF TreeTypeOK
        <4> QED BY <4>1, <4>2
      <3>2. ASSUME NEW x \in exists' \ {Root}, parent'[x] # Cow
            PROVE  parent'[x] \in exists' /\ x \in children'[parent'[x]]
        <4>1. CASE x = Cow
          <5>1. Root \in exists' /\ Cow \in children'[Root]
            BY <2>1, <2>2, <2>4
          <5> QED BY <2>3, <4>1, <5>1
        <4>2. CASE x # Cow
          <5>1. x \in exists \ {Root} /\ parent'[x] = parent[x]
            BY <2>1, <2>3, <4>2 DEF TreeTypeOK
          <5>2. PICK q \in All \ {Cow} : parent[x] = q /\ q \in exists /\ x \in children[q]
            BY <3>2, <5>1 DEF ListsAgree, Listed, TreeTypeOK
          <5>3. q \in exists' /\ x \in children'[q]
            BY <2>1, <2>4, <5>2
          <5> QED BY <5>1, <5>2, <5>3
        <4> QED BY <4>1, <4>2
      <3> QED BY <3>1, <3>2 DEF ListsAgree, Listed
    <2>7. NoCycle'
      <3> SUFFICES ASSUME NEW S \in SUBSET (exists' \ {Root}), S # {},
                          \A x \in S : parent'[x] \in S
                   PROVE  FALSE
        BY DEF NoCycle
      <3>1. Cow \notin S
        BY <2>3
      <3>2. S \in SUBSET (exists \ {Root}) /\ \A x \in S : x \in All \ {Cow}
        BY <2>1, <3>1 DEF TreeTypeOK
      <3>3. \A x \in S : parent[x] \in S
        BY <2>3, <3>2
      <3> QED BY <3>2, <3>3 DEF NoCycle
    <2>8. ServerWindows'
      <3>1. ASSUME NEW q \in All PROVE Root \notin children'[q]
        <4>1. Root \notin children[q]
          BY DEF ServerWindows
        <4> QED BY <2>4, <4>1
      <3>2. cowRefs' > 0
        BY <1>1
      <3> QED BY <2>1, <2>2, <3>1, <3>2 DEF ServerWindows
    <2> QED BY <2>5, <2>6, <2>7, <2>8
  <1> QED BY <1>2, <1>3

\* The last release takes the COW out of the root's list; if another one holds
\* it, that is noted, and only the COW is in a wrong list.
LEMMA ReleaseOverlayWindowTree ==
    ASSUME TreeInv, ReleaseOverlayWindow
    PROVE  TreeInv'
  <1> USE IdsAssumption DEF TreeInv
  <1>1. cowRefs \in Nat \ {0} /\ cowRefs' = cowRefs - 1 /\ cowRefs' \in 0..MaxClaims
    BY DEF ReleaseOverlayWindow, TreeTypeOK
  <1>2. CASE cowRefs # 1
    <2>1. UNCHANGED <<exists, parent, children, stack, mapState, torn>>
      BY <1>2 DEF ReleaseOverlayWindow
    <2>2. TreeTypeOK'
      BY <1>1, <2>1 DEF TreeTypeOK
    <2>3. ListsAgree' /\ NoCycle'
      BY <2>1 DEF ListsAgree, Listed, NoCycle
    <2>4. ServerWindows'
      BY <1>1, <1>2, <2>1 DEF ServerWindows
    <2> QED BY <2>2, <2>3, <2>4
  <1>3. CASE cowRefs = 1
    <2>1. /\ exists' = exists \ {Cow}
          /\ children' = [children EXCEPT ![Root] = @ \ {Cow}, ![Cow] = {}]
          /\ stack' = [stack EXCEPT ![Root] = Lifted(@, Cow), ![Cow] = {}]
          /\ parent' = [parent EXCEPT ![Cow] = Root]
          /\ mapState' = [mapState EXCEPT ![Cow] = "Unmapped"]
          /\ torn' = (torn \/ CowElsewhere)
      BY <1>3 DEF ReleaseOverlayWindow
    <2>2. Cow \in All /\ Root \in All /\ Root \in exists
      BY DEF ServerWindows, All
    <2>3. \A x \in All \ {Cow} : parent'[x] = parent[x]
      BY <2>1, <2>2 DEF TreeTypeOK
    <2>4. /\ children'[Root] = children[Root] \ {Cow}
          /\ children'[Cow] = {}
          /\ \A q \in All \ {Root, Cow} : children'[q] = children[q]
      BY <2>1, <2>2 DEF TreeTypeOK
    <2>5. TreeTypeOK'
      <3>1. stack[Root] \in SUBSET (All \X All)
        BY <2>2 DEF TreeTypeOK
      <3>2. Lifted(stack[Root], Cow) \in SUBSET (All \X All)
        BY <3>1, LiftedType
      <3>3. stack' \in [All -> SUBSET (All \X All)]
        BY <2>1, <2>2, <3>2 DEF TreeTypeOK
      <3>4. children' \in [All -> SUBSET All] /\ parent' \in [All -> All]
        BY <2>1, <2>2 DEF TreeTypeOK
      <3>5. mapState' \in [All -> MapStates] /\ exists' \subseteq All
        BY <2>1, <2>2 DEF TreeTypeOK, MapStates
      <3>6. torn' \in BOOLEAN
        BY <2>1 DEF TreeTypeOK
      <3> QED BY <1>1, <3>3, <3>4, <3>5, <3>6 DEF TreeTypeOK
    <2>6. ListsAgree'
      <3>1. ASSUME NEW q \in All, NEW x \in children'[q]
            PROVE  q \in exists' /\ ((x = Cow => ~torn') => x \in exists' /\ parent'[x] = q)
        <4>1. q # Cow /\ x \in children[q]
          BY <2>4, <3>1
        <4>2. q \in exists /\ ((x = Cow => ~torn) => x \in exists /\ parent[x] = q)
          BY <4>1 DEF ListsAgree
        <4>3. x = Cow => torn'
          <5>1. x = Cow => q # Root
            BY <2>4, <3>1
          <5> QED BY <2>1, <4>1, <5>1 DEF CowElsewhere
        <4>4. x # Cow => x \in exists' /\ parent'[x] = q
          BY <2>1, <2>3, <4>2 DEF TreeTypeOK
        <4> QED BY <2>1, <4>1, <4>2, <4>3, <4>4
      <3>2. ASSUME NEW x \in exists' \ {Root}, parent'[x] # Cow
            PROVE  parent'[x] \in exists' /\ x \in children'[parent'[x]]
        <4>1. x \in exists \ {Root} /\ x # Cow /\ parent'[x] = parent[x]
          BY <2>1, <2>3 DEF TreeTypeOK
        <4>2. PICK q \in All \ {Cow} : parent[x] = q /\ q \in exists /\ x \in children[q]
          BY <3>2, <4>1 DEF ListsAgree, Listed, TreeTypeOK
        <4>3. q \in exists' /\ x \in children'[q]
          BY <2>1, <2>4, <4>1, <4>2
        <4> QED BY <4>1, <4>2, <4>3
      <3> QED BY <3>1, <3>2 DEF ListsAgree, Listed
    <2>7. NoCycle'
      <3> SUFFICES ASSUME NEW S \in SUBSET (exists' \ {Root}), S # {},
                          \A x \in S : parent'[x] \in S
                   PROVE  FALSE
        BY DEF NoCycle
      <3>1. S \in SUBSET (exists \ {Root}) /\ \A x \in S : x \in All \ {Cow}
        BY <2>1 DEF TreeTypeOK
      <3>2. \A x \in S : parent[x] \in S
        BY <2>3, <3>1
      <3> QED BY <3>1, <3>2 DEF NoCycle
    <2>8. ServerWindows'
      <3>1. ASSUME NEW q \in All PROVE Root \notin children'[q]
        <4>1. Root \notin children[q]
          BY DEF ServerWindows
        <4> QED BY <2>4, <4>1
      <3> QED BY <2>1, <2>2, <3>1 DEF ServerWindows
    <2> QED BY <2>5, <2>6, <2>7, <2>8
  <1> QED BY <1>2, <1>3

LEMMA TreeStep ==
    ASSUME TreeInv, [TreeNext]_treeVars
    PROVE  TreeInv'
  <1>1. CASE TreeNext
    <2>1. ASSUME NEW w \in Window, NEW p \in All, CreateWindow(w, p)
          PROVE  TreeInv'
      BY <2>1, CreateWindowTree
    <2>2. ASSUME NEW w \in All, NEW p \in All, ReparentWindow(w, p)
          PROVE  TreeInv'
      BY <2>2, ReparentWindowTree
    <2>3. ASSUME NEW w \in All, ConfigureWindow(w)
          PROVE  TreeInv'
      BY <2>3, ConfigureWindowTree
    <2>4. ASSUME NEW p \in All, NEW d \in {0, 1}, CirculateWindow(p, d)
          PROVE  TreeInv'
      BY <2>4, CirculateWindowTree
    <2>5. ASSUME NEW w \in All,
                 MapWindow(w) \/ UnmapWindow(w) \/ MapSubwindows(w) \/ UnmapSubwindows(w)
          PROVE  TreeInv'
      BY <2>5, MappingTree
    <2>6. ASSUME NEW w \in All, DestroyWindow(w) \/ DestroySubwindows(w)
          PROVE  TreeInv'
      BY <2>6, DestroyTree
    <2>7. ASSUME NEW c \in Client, DestroyOwned(c)
          PROVE  TreeInv'
      BY <2>7, DestroyTree DEF All
    <2> QED BY <1>1, <2>1, <2>2, <2>3, <2>4, <2>5, <2>6, <2>7,
               GetOverlayWindowTree, ReleaseOverlayWindowTree DEF TreeNext
  <1>2. CASE UNCHANGED treeVars
    BY <1>2, SameTree DEF treeVars, TreeInv, TreeTypeOK
  <1> QED BY <1>1, <1>2

-----------------------------------------------------------------------------
(* Sibling lists stay strictly ordered.                                    *)

Stacked == \A p \in All : StrictlyOrders(stack[p], children[p])

\* A window comes in below a set that holds, with a member, all above it.
UpClosed(upper, C, R) ==
    /\ upper \subseteq C
    /\ \A x \in upper, y \in C : <<x, y>> \in R => y \in upper

LEMMA ThinnedOrder ==
    ASSUME NEW C, NEW R, NEW Gone, StrictlyOrders(R, C)
    PROVE  StrictlyOrders({e \in R : e[1] \notin Gone /\ e[2] \notin Gone}, C \ Gone)
  <1> DEFINE T == {e \in R : e[1] \notin Gone /\ e[2] \notin Gone}
  <1>1. \A e \in R : e \in C \X C
    BY DEF StrictlyOrders
  <1>2. T \subseteq (C \ Gone) \X (C \ Gone)
    BY <1>1
  <1>3. \A x, y \in C \ Gone : <<x, y>> \in T <=> <<x, y>> \in R
    OBVIOUS
  <1> HIDE DEF T
  <1>4. \A x \in C \ Gone : <<x, x>> \notin T
    BY <1>3 DEF StrictlyOrders
  <1>5. \A x, y \in C \ Gone : x # y => <<x, y>> \in T \/ <<y, x>> \in T
    BY <1>3 DEF StrictlyOrders
  <1>6. \A x, y, z \in C \ Gone : <<x, y>> \in T /\ <<y, z>> \in T => <<x, z>> \in T
    BY <1>3 DEF StrictlyOrders
  <1>7. StrictlyOrders(T, C \ Gone)
    BY <1>2, <1>4, <1>5, <1>6 DEF StrictlyOrders
  <1> QED BY <1>7 DEF T

LEMMA LiftedOrder ==
    ASSUME NEW C, NEW R, NEW w, StrictlyOrders(R, C)
    PROVE  StrictlyOrders(Lifted(R, w), C \ {w})
  <1>1. Lifted(R, w) = {e \in R : e[1] \notin {w} /\ e[2] \notin {w}}
    BY DEF Lifted
  <1>2. StrictlyOrders({e \in R : e[1] \notin {w} /\ e[2] \notin {w}}, C \ {w})
    BY ThinnedOrder
  <1> QED BY <1>1, <1>2

LEMMA PlacedOrder ==
    ASSUME NEW C, NEW R, NEW w, NEW upper, StrictlyOrders(R, C), w \notin C,
           UpClosed(upper, C, R)
    PROVE  StrictlyOrders(Placed(C, R, w, upper), C \cup {w})
  <1> DEFINE T == Placed(C, R, w, upper)
             D == C \cup {w}
  <1>1. upper \subseteq C /\ R \subseteq C \X C
    BY DEF UpClosed, StrictlyOrders
  <1>2. T \subseteq D \X D
    BY <1>1 DEF Placed
  <1>3. \A x, y \in C : <<x, y>> \in T <=> <<x, y>> \in R
    BY <1>1 DEF Placed
  <1>4. \A x \in C : /\ <<x, w>> \in T <=> x \notin upper
                     /\ <<w, x>> \in T <=> x \in upper
    BY <1>1 DEF Placed
  <1>5. <<w, w>> \notin T
    BY <1>1 DEF Placed
  <1> HIDE DEF T
  <1>6. \A x \in D : <<x, x>> \notin T
    BY <1>3, <1>5 DEF StrictlyOrders
  <1>7. \A x, y \in D : x # y => <<x, y>> \in T \/ <<y, x>> \in T
    BY <1>3, <1>4 DEF StrictlyOrders
  <1>8. ASSUME NEW x \in D, NEW y \in D, NEW z \in D, <<x, y>> \in T, <<y, z>> \in T
        PROVE  <<x, z>> \in T
    <2>1. CASE x = w
      BY <1>3, <1>4, <1>5, <1>8, <2>1 DEF UpClosed
    <2>2. CASE y = w
      <3>1. x \in C /\ z \in C /\ x \notin upper /\ z \in upper
        BY <1>4, <1>5, <1>8, <2>2
      <3>2. x # z /\ <<z, x>> \notin R
        BY <3>1 DEF UpClosed
      <3> QED BY <1>3, <3>1, <3>2 DEF StrictlyOrders
    <2>3. CASE z = w
      BY <1>3, <1>4, <1>5, <1>8, <2>3 DEF UpClosed
    <2>4. CASE x # w /\ y # w /\ z # w
      BY <1>3, <1>8, <2>4 DEF StrictlyOrders
    <2> QED BY <2>1, <2>2, <2>3, <2>4
  <1>9. StrictlyOrders(T, D)
    BY <1>2, <1>6, <1>7, <1>8 DEF StrictlyOrders
  <1> QED BY <1>9 DEF T

\* What is above a place: nothing, everything, the COW on top, or what is
\* above a sibling, with it or without.
LEMMA UpClosedSets ==
    ASSUME NEW C, NEW R, StrictlyOrders(R, C)
    PROVE  /\ UpClosed({}, C, R)
           /\ UpClosed(C, C, R)
           /\ UpClosed(AboveTop(C, R), C, R)
           /\ \A s \in C : /\ UpClosed({x \in C : <<s, x>> \in R}, C, R)
                           /\ UpClosed({s} \cup {x \in C : <<s, x>> \in R}, C, R)
  <1>1. UpClosed({}, C, R) /\ UpClosed(C, C, R)
    BY DEF UpClosed
  <1>2. UpClosed(AboveTop(C, R), C, R)
    <2>1. CASE CowIsTop(C, R)
      <3>1. \A y \in C : <<Cow, y>> \notin R
        BY <2>1 DEF CowIsTop, StrictlyOrders
      <3> QED BY <2>1, <3>1 DEF AboveTop, UpClosed, CowIsTop
    <2>2. CASE ~CowIsTop(C, R)
      BY <1>1, <2>2 DEF AboveTop
    <2> QED BY <2>1, <2>2
  <1>3. ASSUME NEW s \in C
        PROVE  /\ UpClosed({x \in C : <<s, x>> \in R}, C, R)
               /\ UpClosed({s} \cup {x \in C : <<s, x>> \in R}, C, R)
    BY DEF UpClosed, StrictlyOrders
  <1> QED BY <1>1, <1>2, <1>3

\* restack_window and create_window, where the place is up-closed.
LEMMA RestackedOrder ==
    ASSUME Stacked, NEW p \in All, NEW w, NEW upper,
           UpClosed(upper, children[p] \ {w}, Lifted(stack[p], w))
    PROVE  StrictlyOrders(Restacked(p, w, upper), children[p] \cup {w})
  <1> DEFINE C == children[p] \ {w}
             R == Lifted(stack[p], w)
  <1>1. StrictlyOrders(R, C)
    BY LiftedOrder DEF Stacked
  <1>2. w \notin C /\ UpClosed(upper, C, R)
    OBVIOUS
  <1>3. Restacked(p, w, upper) = Placed(C, R, w, upper)
    BY DEF Restacked
  <1>4. C \cup {w} = children[p] \cup {w}
    OBVIOUS
  <1> HIDE DEF C, R
  <1>5. StrictlyOrders(Placed(C, R, w, upper), C \cup {w})
    BY <1>1, <1>2, PlacedOrder
  <1> QED BY <1>3, <1>4, <1>5

LEMMA TopSlotUp ==
    ASSUME Stacked, NEW p \in All, NEW w
    PROVE  UpClosed(TopSlot(p, w), children[p] \ {w}, Lifted(stack[p], w))
  <1>1. StrictlyOrders(Lifted(stack[p], w), children[p] \ {w})
    BY LiftedOrder DEF Stacked
  <1> QED BY <1>1, UpClosedSets DEF TopSlot

\* Only the list of p changes, and to a strictly ordered one.
LEMMA OneListStacked ==
    ASSUME Stacked, NEW p \in All,
           StrictlyOrders(stack'[p], children'[p]),
           \A q \in All \ {p} : stack'[q] = stack[q] /\ children'[q] = children[q]
    PROVE  Stacked'
  <1> SUFFICES ASSUME NEW q \in All PROVE StrictlyOrders(stack'[q], children'[q])
    BY DEF Stacked
  <1>1. CASE q # p
    <2>1. stack'[q] = stack[q] /\ children'[q] = children[q]
      BY <1>1
    <2> QED BY <2>1 DEF Stacked
  <1> QED BY <1>1

LEMMA CreateWindowStacked ==
    ASSUME TreeInv, Stacked, NEW w \in Window, NEW p \in All, CreateWindow(w, p)
    PROVE  Stacked'
  <1> USE DEF TreeInv, TreeTypeOK
  <1>1. /\ stack' = [stack EXCEPT ![p] = Restacked(p, w, TopSlot(p, w))]
        /\ children' = [children EXCEPT ![p] = @ \cup {w}]
    BY DEF CreateWindow
  <1>2. /\ stack'[p] = Restacked(p, w, TopSlot(p, w))
        /\ children'[p] = children[p] \cup {w}
        /\ \A q \in All \ {p} : stack'[q] = stack[q] /\ children'[q] = children[q]
    BY <1>1
  <1>3. StrictlyOrders(Restacked(p, w, TopSlot(p, w)), children[p] \cup {w})
    BY TopSlotUp, RestackedOrder
  <1> QED BY <1>2, <1>3, OneListStacked

LEMMA EmptyOrder == StrictlyOrders({}, {})
  BY DEF StrictlyOrders

LEMMA DestroyedStacked ==
    ASSUME Stacked, NEW Dead, Destroyed(Dead)
    PROVE  Stacked'
  <1> SUFFICES ASSUME NEW q \in All PROVE StrictlyOrders(stack'[q], children'[q])
    BY DEF Stacked
  <1>1. CASE q \in Dead
    <2>1. stack'[q] = {} /\ children'[q] = {}
      BY <1>1 DEF Destroyed
    <2> QED BY <2>1, EmptyOrder
  <1>2. CASE q \notin Dead
    <2> DEFINE gone == {x \in Dead : parent[x] = q}
    <2>1. /\ stack'[q] = {e \in stack[q] : e[1] \notin gone /\ e[2] \notin gone}
          /\ children'[q] = children[q] \ gone
      BY <1>2 DEF Destroyed
    <2> HIDE DEF gone
    <2>2. StrictlyOrders({e \in stack[q] : e[1] \notin gone /\ e[2] \notin gone},
                         children[q] \ gone)
      BY ThinnedOrder DEF Stacked
    <2> QED BY <2>1, <2>2
  <1> QED BY <1>1, <1>2

\* The old list loses the window, the new one gets it on top.
LEMMA ReparentWindowStacked ==
    ASSUME TreeInv, ~torn, Stacked, NEW w \in All, NEW p \in All, ReparentWindow(w, p)
    PROVE  Stacked'
  <1> USE DEF TreeInv, TreeTypeOK
  <1> DEFINE old == parent[w]
             kids == [children EXCEPT ![old] = @ \ {w}]
             order == [stack EXCEPT ![old] = Lifted(@, w)]
  <1>1. /\ stack' = [order EXCEPT ![p] = Placed(kids[p], @, w, AboveTop(kids[p], @))]
        /\ children' = [kids EXCEPT ![p] = @ \cup {w}]
    BY DEF ReparentWindow
  <1>2. old \in All
    OBVIOUS
  <1>3. /\ kids[old] = children[old] \ {w}
        /\ order[old] = Lifted(stack[old], w)
        /\ \A q \in All \ {old} : kids[q] = children[q] /\ order[q] = stack[q]
    BY <1>2
  <1>4. DOMAIN kids = All /\ DOMAIN order = All
    BY <1>2
  <1>5. \A q \in All : w \in children[q] => q = old
    BY DEF ListsAgree
  <1> HIDE DEF kids, order, old
  <1>6. ASSUME NEW q \in All PROVE StrictlyOrders(order[q], kids[q]) /\ w \notin kids[q]
    <2>1. CASE q = old
      <3>1. StrictlyOrders(Lifted(stack[old], w), children[old] \ {w})
        BY <1>2, LiftedOrder DEF Stacked
      <3> QED BY <1>3, <2>1, <3>1
    <2>2. CASE q # old
      <3>1. StrictlyOrders(stack[q], children[q])
        BY DEF Stacked
      <3> QED BY <1>3, <1>5, <2>2, <3>1
    <2> QED BY <2>1, <2>2
  <1>7. /\ stack'[p] = Placed(kids[p], order[p], w, AboveTop(kids[p], order[p]))
        /\ children'[p] = kids[p] \cup {w}
        /\ \A q \in All \ {p} : stack'[q] = order[q] /\ children'[q] = kids[q]
    BY <1>1, <1>4
  <1>8. StrictlyOrders(stack'[p], children'[p])
    <2>1. StrictlyOrders(order[p], kids[p]) /\ w \notin kids[p]
      BY <1>6
    <2>2. UpClosed(AboveTop(kids[p], order[p]), kids[p], order[p])
      BY <2>1, UpClosedSets
    <2>3. StrictlyOrders(Placed(kids[p], order[p], w, AboveTop(kids[p], order[p])),
                         kids[p] \cup {w})
      BY <2>1, <2>2, PlacedOrder
    <2> QED BY <1>7, <2>3
  <1>9. ASSUME NEW q \in All PROVE StrictlyOrders(stack'[q], children'[q])
    <2>1. CASE q = p
      BY <1>8, <2>1
    <2>2. CASE q # p
      <3>1. stack'[q] = order[q] /\ children'[q] = kids[q]
        BY <1>7, <2>2
      <3> QED BY <1>6, <3>1
    <2> QED BY <2>1, <2>2
  <1> QED BY <1>9 DEF Stacked

LEMMA RestackStacked ==
    ASSUME TreeInv, Stacked, NEW w \in All, Listed(w), NEW upper,
           UpClosed(upper, children[parent[w]] \ {w}, Lifted(stack[parent[w]], w)),
           Restack(w, upper)
    PROVE  Stacked'
  <1> DEFINE p == parent[w]
  <1>1. p \in All /\ children[p] \cup {w} = children[p]
    BY DEF TreeInv, TreeTypeOK, Listed
  <1>2. StrictlyOrders(Restacked(p, w, upper), children[p] \cup {w})
    BY <1>1, RestackedOrder
  <1>3. /\ stack'[p] = Restacked(p, w, upper) /\ children' = children
        /\ \A q \in All \ {p} : stack'[q] = stack[q]
    BY <1>1 DEF Restack, TreeInv, TreeTypeOK
  <1> HIDE DEF p
  <1> QED BY <1>1, <1>2, <1>3, OneListStacked

\* Every place that handle_configure_window names is up-closed.
LEMMA ConfigureWindowStacked ==
    ASSUME TreeInv, Stacked, NEW w \in All, ConfigureWindow(w)
    PROVE  Stacked'
  <1> DEFINE p == parent[w]
             C == children[p] \ {w}
             R == Lifted(stack[p], w)
  <1>1. p \in All
    BY DEF TreeInv, TreeTypeOK
  <1>2. StrictlyOrders(R, C)
    BY <1>1, LiftedOrder DEF Stacked
  <1>3. ASSUME NEW s \in All, s \in Siblings(w), parent[s] = parent[w]
        PROVE  s \in C /\ Above(s) \ {w} = {x \in C : <<s, x>> \in R}
    <2>1. s \in C
      BY <1>3 DEF Siblings
    <2>2. Above(s) = {x \in children[p] \ {s} : <<s, x>> \in stack[p]}
      BY <1>3 DEF Above, Siblings
    <2>3. \A x \in C : <<s, x>> \in R <=> <<s, x>> \in stack[p]
      BY <2>1 DEF Lifted
    <2>4. <<s, s>> \notin R
      BY <1>2, <2>1 DEF StrictlyOrders
    <2> HIDE DEF p, R
    <2> QED BY <2>1, <2>2, <2>3, <2>4
  <1>4. PICK upper : Listed(w) /\ UpClosed(upper, C, R) /\ Restack(w, upper)
    <2>1. CASE RaiseWindow(w)
      BY <1>1, <2>1, TopSlotUp DEF RaiseWindow
    <2>2. CASE LowerWindow(w)
      <3>1. Listed(w) /\ Restack(w, C)
        BY <2>2 DEF LowerWindow, Siblings
      <3> HIDE DEF C, R
      <3> QED BY <1>2, <3>1, UpClosedSets
    <2>3. ASSUME NEW s \in All, StackAbove(w, s) \/ StackBelow(w, s)
          PROVE  \E upper : Listed(w) /\ UpClosed(upper, C, R) /\ Restack(w, upper)
      <3>1. Listed(w) /\ s \in Siblings(w) /\ parent[s] = parent[w]
        BY <2>3 DEF StackAbove, StackBelow
      <3>2. UpClosed(TopSlot(p, w), C, R)
        BY <1>1, TopSlotUp
      <3>3. s \in C /\ Above(s) \ {w} = {x \in C : <<s, x>> \in R}
        BY <1>3, <3>1
      <3>4. CASE StackAbove(w, s)
        <4>1. Restack(w, IF s = Cow THEN TopSlot(p, w) ELSE Above(s) \ {w})
          BY <3>4 DEF StackAbove
        <4> HIDE DEF C, R, p
        <4>2. UpClosed({x \in C : <<s, x>> \in R}, C, R)
          BY <1>2, <3>3, UpClosedSets
        <4>3. UpClosed(Above(s) \ {w}, C, R)
          BY <3>3, <4>2
        <4> QED BY <3>1, <3>2, <4>1, <4>3
      <3>5. CASE StackBelow(w, s)
        <4>1. Restack(w, {s} \cup (Above(s) \ {w}))
          BY <3>5 DEF StackBelow
        <4> HIDE DEF C, R, p
        <4>2. UpClosed({s} \cup {x \in C : <<s, x>> \in R}, C, R)
          BY <1>2, <3>3, UpClosedSets
        <4>3. UpClosed({s} \cup (Above(s) \ {w}), C, R)
          BY <3>3, <4>2
        <4> QED BY <3>1, <4>1, <4>3
      <3> QED BY <2>3, <3>4, <3>5
    <2> HIDE DEF C, R
    <2> QED BY <2>1, <2>2, <2>3 DEF ConfigureWindow
  <1>5. UpClosed(upper, children[parent[w]] \ {w}, Lifted(stack[parent[w]], w))
    BY <1>4
  <1> HIDE DEF p, C, R
  <1> QED BY <1>4, <1>5, RestackStacked

LEMMA CirculateWindowStacked ==
    ASSUME TreeInv, Stacked, NEW p \in All, NEW d \in {0, 1}, CirculateWindow(p, d)
    PROVE  Stacked'
  <1> USE DEF TreeInv, TreeTypeOK
  <1>1. StrictlyOrders(stack[p], children[p])
    BY DEF Stacked
  <1>2. PICK w \in Circulating(p) :
            \E upper \in {children[p] \ {w}, children[p] \ Circulating(p)} :
               stack' = [stack EXCEPT ![p] = Restacked(p, w, upper)]
    BY DEF CirculateWindow
  <1>8. PICK upper \in {children[p] \ {w}, children[p] \ Circulating(p)} :
            stack' = [stack EXCEPT ![p] = Restacked(p, w, upper)]
    BY <1>2
  <1> DEFINE C == children[p] \ {w}
             R == Lifted(stack[p], w)
  <1>3. StrictlyOrders(R, C)
    BY <1>1, LiftedOrder
  <1>4. w \in children[p] /\ children[p] \cup {w} = children[p]
    BY DEF Circulating
  <1>5. UpClosed(upper, C, R)
    <2>1. UpClosed(C, C, R) /\ UpClosed({}, C, R)
      <3> HIDE DEF C, R
      <3> QED BY <1>3, UpClosedSets
    <2>2. CASE upper = children[p] \ {w}
      BY <2>1, <2>2
    <2>3. CASE upper = children[p] \ Circulating(p)
      <3>1. CASE p = Root /\ CowIsTop(children[p], stack[p])
        <4>1. upper = {Cow} /\ w # Cow /\ Cow \in children[p]
          BY <1>4, <2>3, <3>1 DEF Circulating, AboveTop, CowIsTop
        <4>2. \A y \in children[p] : <<Cow, y>> \notin stack[p]
          BY <1>1, <3>1 DEF CowIsTop, StrictlyOrders
        <4> QED BY <4>1, <4>2 DEF UpClosed, Lifted
      <3>2. CASE ~(p = Root /\ CowIsTop(children[p], stack[p]))
        <4>1. upper = {}
          BY <2>3, <3>2 DEF Circulating, AboveTop
        <4> QED BY <2>1, <4>1
      <3> QED BY <3>1, <3>2
    <2> QED BY <1>8, <2>2, <2>3
  <1>6. StrictlyOrders(Restacked(p, w, upper), children[p] \cup {w})
    BY <1>5, RestackedOrder
  <1>7. /\ stack'[p] = Restacked(p, w, upper) /\ children' = children
        /\ \A q \in All \ {p} : stack'[q] = stack[q]
    BY <1>8 DEF CirculateWindow
  <1> QED BY <1>4, <1>6, <1>7, OneListStacked

\* Before the first claim the COW has no list.
LEMMA GetOverlayWindowStacked ==
    ASSUME TreeInv, Stacked, GetOverlayWindow
    PROVE  Stacked'
  <1> USE IdsAssumption DEF TreeInv, TreeTypeOK
  <1>1. CASE cowRefs # 0
    BY <1>1 DEF GetOverlayWindow, Stacked
  <1>2. CASE cowRefs = 0
    <2>1. /\ stack' = [stack EXCEPT ![Root] = Restacked(Root, Cow, {})]
          /\ children' = [children EXCEPT ![Root] = @ \cup {Cow}, ![Cow] = {}]
      BY <1>2 DEF GetOverlayWindow
    <2>2. Cow \notin exists /\ Cow \in All /\ Root \in All
      BY <1>2 DEF ServerWindows, All
    <2>3. children[Cow] = {}
      BY <2>2 DEF ListsAgree
    <2>4. StrictlyOrders(Lifted(stack[Root], Cow), children[Root] \ {Cow})
      BY <2>2, LiftedOrder DEF Stacked
    <2>5. UpClosed({}, children[Root] \ {Cow}, Lifted(stack[Root], Cow))
      BY <2>4, UpClosedSets
    <2>6. StrictlyOrders(Restacked(Root, Cow, {}), children[Root] \cup {Cow})
      BY <2>2, <2>5, RestackedOrder
    <2>7. /\ stack'[Root] = Restacked(Root, Cow, {})
          /\ children'[Root] = children[Root] \cup {Cow}
          /\ \A q \in All \ {Root} : stack'[q] = stack[q] /\ children'[q] = children[q]
      BY <2>1, <2>2, <2>3
    <2>8. StrictlyOrders(stack'[Root], children'[Root])
      BY <2>6, <2>7
    <2> QED BY <2>2, <2>7, <2>8, OneListStacked
  <1> QED BY <1>1, <1>2

LEMMA ReleaseOverlayWindowStacked ==
    ASSUME TreeInv, Stacked, ReleaseOverlayWindow
    PROVE  Stacked'
  <1> USE IdsAssumption DEF TreeInv, TreeTypeOK
  <1>1. CASE cowRefs # 1
    BY <1>1 DEF ReleaseOverlayWindow, Stacked
  <1>2. CASE cowRefs = 1
    <2>1. /\ children' = [children EXCEPT ![Root] = @ \ {Cow}, ![Cow] = {}]
          /\ stack' = [stack EXCEPT ![Root] = Lifted(@, Cow), ![Cow] = {}]
      BY <1>2 DEF ReleaseOverlayWindow
    <2>2. Cow \in All /\ Root \in All
      BY DEF All
    <2>3. /\ stack'[Root] = Lifted(stack[Root], Cow) /\ stack'[Cow] = {}
          /\ children'[Root] = children[Root] \ {Cow} /\ children'[Cow] = {}
          /\ \A q \in All \ {Root, Cow} : stack'[q] = stack[q] /\ children'[q] = children[q]
      BY <2>1, <2>2
    <2>4. ASSUME NEW q \in All PROVE StrictlyOrders(stack'[q], children'[q])
      <3>1. CASE q = Root
        <4>1. StrictlyOrders(Lifted(stack[Root], Cow), children[Root] \ {Cow})
          BY <2>2, LiftedOrder DEF Stacked
        <4> QED BY <2>3, <3>1, <4>1
      <3>2. CASE q = Cow
        BY <2>3, <3>2, EmptyOrder
      <3>3. CASE q # Root /\ q # Cow
        <4>1. stack'[q] = stack[q] /\ children'[q] = children[q]
          BY <2>3, <3>3
        <4> QED BY <4>1 DEF Stacked
      <3> QED BY <3>1, <3>2, <3>3
    <2> QED BY <2>4 DEF Stacked
  <1> QED BY <1>1, <1>2

LEMMA ListsStackedStep ==
    ASSUME TreeInv, ~torn, Stacked, [TreeNext]_treeVars
    PROVE  Stacked'
  <1>1. ASSUME NEW w \in Window, NEW p \in All, CreateWindow(w, p)
        PROVE  Stacked'
    BY <1>1, CreateWindowStacked
  <1>2. ASSUME NEW w \in All, NEW p \in All, ReparentWindow(w, p)
        PROVE  Stacked'
    BY <1>2, ReparentWindowStacked
  <1>3. ASSUME NEW w \in All, ConfigureWindow(w)
        PROVE  Stacked'
    BY <1>3, ConfigureWindowStacked
  <1>4. ASSUME NEW p \in All, NEW d \in {0, 1}, CirculateWindow(p, d)
        PROVE  Stacked'
    BY <1>4, CirculateWindowStacked
  <1>5. ASSUME NEW w \in All,
               MapWindow(w) \/ UnmapWindow(w) \/ MapSubwindows(w) \/ UnmapSubwindows(w)
        PROVE  Stacked'
    <2>1. UNCHANGED <<stack, children>>
      BY <1>5 DEF MapWindow, UnmapWindow, MapSubwindows, UnmapSubwindows, Mapped, Unmapped
    <2> QED BY <2>1 DEF Stacked
  <1>6. ASSUME NEW w \in All, DestroyWindow(w) \/ DestroySubwindows(w)
        PROVE  Stacked'
    BY <1>6, DestroyedStacked DEF DestroyWindow, DestroySubwindows
  <1>7. ASSUME NEW c \in Client, DestroyOwned(c)
        PROVE  Stacked'
    BY <1>7, DestroyedStacked DEF DestroyOwned
  <1>8. CASE UNCHANGED treeVars
    BY <1>8 DEF treeVars, Stacked
  <1> QED BY <1>1, <1>2, <1>3, <1>4, <1>5, <1>6, <1>7, <1>8,
             GetOverlayWindowStacked, ReleaseOverlayWindowStacked DEF TreeNext

\* Once torn, for ever.
LEMMA TornStays ==
    ASSUME [TreeNext]_treeVars, torn PROVE torn'
  <1>1. ASSUME NEW w \in All, ConfigureWindow(w) PROVE torn'
    <2>1. \E upper : Restack(w, upper)
      BY <1>1 DEF ConfigureWindow, RaiseWindow, LowerWindow, StackAbove, StackBelow
    <2> QED BY <2>1 DEF Restack
  <1>2. ASSUME NEW w \in All,
               MapWindow(w) \/ UnmapWindow(w) \/ MapSubwindows(w) \/ UnmapSubwindows(w)
        PROVE  torn'
    BY <1>2 DEF MapWindow, UnmapWindow, MapSubwindows, UnmapSubwindows, Mapped, Unmapped
  <1>3. ASSUME NEW w \in All, DestroyWindow(w) \/ DestroySubwindows(w) PROVE torn'
    BY <1>3 DEF DestroyWindow, DestroySubwindows, Destroyed
  <1>4. ASSUME NEW c \in Client, DestroyOwned(c) PROVE torn'
    BY <1>4 DEF DestroyOwned, Destroyed
  <1> QED BY <1>1, <1>2, <1>3, <1>4 DEF TreeNext, treeVars, CreateWindow, ReparentWindow,
             CirculateWindow, GetOverlayWindow, ReleaseOverlayWindow

LEMMA StackedStep ==
    ASSUME TreeInv, StrictlyStacked, [TreeNext]_treeVars
    PROVE  StrictlyStacked'
  <1> SUFFICES ASSUME ~torn' PROVE Stacked'
    BY DEF StrictlyStacked, Stacked
  <1>1. ~torn
    BY TornStays
  <1>2. Stacked
    BY <1>1 DEF StrictlyStacked, Stacked
  <1> QED BY <1>1, <1>2, ListsStackedStep

LEMMA InitStacked == ASSUME TreeInit PROVE StrictlyStacked
  BY EmptyOrder DEF TreeInit, StrictlyStacked

-----------------------------------------------------------------------------
(* Theorems.                                                               *)

TreeIInv == TreeInv /\ StrictlyStacked

LEMMA TreeInductive == TreeSpec => []TreeIInv
  <1>1. TreeInit => TreeIInv
    BY InitTree, InitStacked DEF TreeIInv
  <1>2. TreeIInv /\ [TreeNext]_treeVars => TreeIInv'
    BY TreeStep, StackedStep DEF TreeIInv
  <1> QED BY <1>1, <1>2, PTL DEF TreeSpec

\* Whatever clients request of the windows, in any order, and whenever they
\* end, the windows and their lists keep their types (ResourceTable).
THEOREM TreeTyped == TreeSpec => []TreeTypeOK
  <1>1. TreeIInv => TreeTypeOK
    BY DEF TreeIInv, TreeInv
  <1> QED BY <1>1, TreeInductive, PTL

\* The window tree stays one: lists and parents agree, each list is strictly
\* ordered, no window is its own ancestor (so that every walk over the tree
\* ends), the root stays and the COW exists only while it is claimed
\* (create_window, reparent_window, restack_window, circulate_window,
\* destroy_window_inner, materialize_cow_resource, destroy_cow_resource).
THEOREM TreeStaysConsistent == TreeSpec => []TreeConsistent
  <1>1. TreeIInv => TreeConsistent
    BY DEF TreeIInv, TreeInv, TreeConsistent
  <1> QED BY <1>1, TreeInductive, PTL

-----------------------------------------------------------------------------
(* What a step may do to the lists: the action properties.                 *)

\* Between two windows other than w, moving w changes nothing.
LEMMA OthersKeepOrder ==
    ASSUME NEW C, NEW R, NEW w, NEW upper, NEW x, NEW y, x # w, y # w
    PROVE  /\ <<x, y>> \in Placed(C, R, w, upper) <=> <<x, y>> \in R
           /\ <<x, y>> \in Lifted(R, w) <=> <<x, y>> \in R
  BY DEF Placed, Lifted

\* Each request about the order of siblings moves one window in one list.
LEMMA ConfigureRestacks ==
    ASSUME NEW w \in All, ConfigureWindow(w)
    PROVE  Listed(w) /\ \E upper : Restack(w, upper)
  BY DEF ConfigureWindow, RaiseWindow, LowerWindow, StackAbove, StackBelow

LEMMA CirculateRestacks ==
    ASSUME NEW p \in All, NEW d \in {0, 1}, CirculateWindow(p, d)
    PROVE  /\ UNCHANGED <<exists, parent, children, mapState>>
           /\ \E w \in Circulating(p) :
                 \E upper \in {children[p] \ {w}, children[p] \ Circulating(p)} :
                    stack' = [stack EXCEPT ![p] = Restacked(p, w, upper)]
  BY DEF CirculateWindow

\* Where the pairs of one list keep their order, but for those of one window.
KeepsOrder(p, moved) ==
    \A x, y \in (children[p] \cap children'[p]) \ {moved} :
        <<x, y>> \in stack[p] <=> <<x, y>> \in stack'[p]

LEMMA OneListMoves ==
    ASSUME TreeTypeOK, NEW p \in All, NEW w, NEW upper,
           stack' = [stack EXCEPT ![p] = Restacked(p, w, upper)]
    PROVE  \A q \in All : KeepsOrder(q, w)
  <1> SUFFICES ASSUME NEW q \in All, NEW x, NEW y, x # w, y # w
               PROVE  <<x, y>> \in stack[q] <=> <<x, y>> \in stack'[q]
    BY DEF KeepsOrder
  <1>1. CASE q # p
    BY <1>1 DEF TreeTypeOK
  <1>2. CASE q = p
    <2>1. stack'[q] = Placed(children[p] \ {w}, Lifted(stack[p], w), w, upper)
      BY <1>2 DEF TreeTypeOK, Restacked
    <2> QED BY <1>2, <2>1, OthersKeepOrder
  <1> QED BY <1>1, <1>2

\* reparent_window takes the window from one list and puts it into another.
LEMMA ReparentMoves ==
    ASSUME TreeTypeOK, NEW w \in All, NEW p \in All, ReparentWindow(w, p)
    PROVE  \A q \in All : KeepsOrder(q, w)
  <1> DEFINE old == parent[w]
             kids == [children EXCEPT ![old] = @ \ {w}]
             order == [stack EXCEPT ![old] = Lifted(@, w)]
             upper == AboveTop(kids[p], order[p])
  <1>1. stack' = [order EXCEPT ![p] = Placed(kids[p], @, w, AboveTop(kids[p], @))]
    BY DEF ReparentWindow
  <1>2. /\ old \in All /\ DOMAIN order = All
        /\ order[old] = Lifted(stack[old], w)
        /\ \A q \in All \ {old} : order[q] = stack[q]
    BY DEF TreeTypeOK
  <1>3. /\ stack'[p] = Placed(kids[p], order[p], w, upper)
        /\ \A q \in All \ {p} : stack'[q] = order[q]
    BY <1>1, <1>2
  <1> HIDE DEF old, kids, order, upper
  <1> SUFFICES ASSUME NEW q \in All, NEW x, NEW y, x # w, y # w
               PROVE  <<x, y>> \in stack[q] <=> <<x, y>> \in stack'[q]
    BY DEF KeepsOrder
  <1>4. <<x, y>> \in stack[q] <=> <<x, y>> \in order[q]
    BY <1>2, OthersKeepOrder
  <1>5. <<x, y>> \in order[q] <=> <<x, y>> \in stack'[q]
    BY <1>3, OthersKeepOrder
  <1> QED BY <1>4, <1>5

\* What is destroyed leaves the lists and nothing else moves.
LEMMA DestroyedKeepsOrder ==
    ASSUME NEW Dead, Destroyed(Dead), NEW q \in All, NEW w
    PROVE  KeepsOrder(q, w)
  <1>1. CASE q \in Dead
    <2>1. children'[q] = {}
      BY <1>1 DEF Destroyed
    <2> QED BY <2>1 DEF KeepsOrder
  <1>2. CASE q \notin Dead
    <2> DEFINE gone == {x \in Dead : parent[x] = q}
    <2>1. /\ stack'[q] = {e \in stack[q] : e[1] \notin gone /\ e[2] \notin gone}
          /\ children'[q] = children[q] \ gone
      BY <1>2 DEF Destroyed
    <2> HIDE DEF gone
    <2> QED BY <2>1 DEF KeepsOrder
  <1> QED BY <1>1, <1>2

LEMMA OverlayKeepsOrder ==
    ASSUME TreeTypeOK, GetOverlayWindow \/ ReleaseOverlayWindow, NEW q \in All
    PROVE  KeepsOrder(q, Cow)
  <1>0. Cow \in All /\ Root \in All /\ Root # Cow
    BY IdsAssumption DEF All
  <1>1. CASE GetOverlayWindow /\ cowRefs = 0
    <2>1. stack' = [stack EXCEPT ![Root] = Restacked(Root, Cow, {})]
      BY <1>1 DEF GetOverlayWindow
    <2> QED BY <1>0, <2>1, OneListMoves
  <1>2. CASE ReleaseOverlayWindow /\ cowRefs = 1
    <2>1. /\ children' = [children EXCEPT ![Root] = @ \ {Cow}, ![Cow] = {}]
          /\ stack' = [stack EXCEPT ![Root] = Lifted(@, Cow), ![Cow] = {}]
      BY <1>2 DEF ReleaseOverlayWindow
    <2>2. DOMAIN stack = All /\ DOMAIN children = All
      BY DEF TreeTypeOK
    <2>4. children'[Cow] = {}
      BY <1>0, <2>1, <2>2
    <2>5. stack'[Root] = Lifted(stack[Root], Cow)
      BY <1>0, <2>1, <2>2
    <2>6. \A r \in All \ {Root, Cow} : stack'[r] = stack[r]
      BY <1>0, <2>1, <2>2
    <2>3. CASE q = Root
      <3> SUFFICES ASSUME NEW x, NEW y, x # Cow, y # Cow
                   PROVE  <<x, y>> \in stack[Root] <=> <<x, y>> \in stack'[Root]
        BY <2>3 DEF KeepsOrder
      <3>1. <<x, y>> \in Lifted(stack[Root], Cow) <=> <<x, y>> \in stack[Root]
        BY OthersKeepOrder
      <3> QED BY <2>5, <3>1
    <2> QED BY <2>3, <2>4, <2>6 DEF KeepsOrder
  <1>3. CASE stack' = stack
    BY <1>3 DEF KeepsOrder
  <1> QED BY <1>1, <1>2, <1>3 DEF GetOverlayWindow, ReleaseOverlayWindow

LEMMA OneMovesStep ==
    ASSUME TreeInv, [TreeNext]_treeVars
    PROVE  \E moved \in All : \A q \in All : KeepsOrder(q, moved)
  <1>0. TreeTypeOK /\ Cow \in All
    BY DEF TreeInv, All
  <1>1. ASSUME NEW w \in Window, NEW p \in All, CreateWindow(w, p)
        PROVE  \E moved \in All : \A q \in All : KeepsOrder(q, moved)
    <2>1. w \in All
      BY DEF All
    <2> QED BY <1>0, <1>1, <2>1, OneListMoves DEF CreateWindow
  <1>2. ASSUME NEW w \in All, NEW p \in All, ReparentWindow(w, p)
        PROVE  \E moved \in All : \A q \in All : KeepsOrder(q, moved)
    BY <1>0, <1>2, ReparentMoves
  <1>3. ASSUME NEW w \in All, ConfigureWindow(w)
        PROVE  \E moved \in All : \A q \in All : KeepsOrder(q, moved)
    <2>1. PICK upper : Restack(w, upper)
      BY <1>3, ConfigureRestacks
    <2>2. parent[w] \in All
      BY <1>0 DEF TreeTypeOK
    <2> QED BY <1>0, <2>1, <2>2, OneListMoves DEF Restack
  <1>4. ASSUME NEW p \in All, NEW d \in {0, 1}, CirculateWindow(p, d)
        PROVE  \E moved \in All : \A q \in All : KeepsOrder(q, moved)
    <2>1. PICK w \in Circulating(p) :
              \E upper : stack' = [stack EXCEPT ![p] = Restacked(p, w, upper)]
      BY <1>4, CirculateRestacks
    <2>2. w \in All
      BY <1>0 DEF Circulating, TreeTypeOK
    <2> QED BY <1>0, <2>1, <2>2, OneListMoves
  <1>5. CASE stack' = stack
    BY <1>0, <1>5 DEF KeepsOrder
  <1>6. ASSUME NEW w \in All,
               MapWindow(w) \/ UnmapWindow(w) \/ MapSubwindows(w) \/ UnmapSubwindows(w)
        PROVE  stack' = stack
    BY <1>6 DEF MapWindow, UnmapWindow, MapSubwindows, UnmapSubwindows, Mapped, Unmapped
  <1>7. ASSUME NEW Dead, Destroyed(Dead)
        PROVE  \E moved \in All : \A q \in All : KeepsOrder(q, moved)
    BY <1>0, <1>7, DestroyedKeepsOrder
  <1>8. CASE GetOverlayWindow \/ ReleaseOverlayWindow
    BY <1>0, <1>8, OverlayKeepsOrder
  <1>9. CASE UNCHANGED treeVars
    BY <1>5, <1>9 DEF treeVars
  <1>10. ASSUME NEW w \in All, DestroyWindow(w) \/ DestroySubwindows(w)
         PROVE  \E moved \in All : \A q \in All : KeepsOrder(q, moved)
    BY <1>7, <1>10 DEF DestroyWindow, DestroySubwindows
  <1>11. ASSUME NEW c \in Client, DestroyOwned(c)
         PROVE  \E moved \in All : \A q \in All : KeepsOrder(q, moved)
    BY <1>7, <1>11 DEF DestroyOwned
  <1> QED BY <1>1, <1>2, <1>3, <1>4, <1>5, <1>6, <1>8, <1>9, <1>10, <1>11 DEF TreeNext

\* Whatever is requested, at most one of the siblings that stay changes its
\* place among them (restack_window, circulate_window, reparent_window,
\* create_window, destroy_window_inner and the claims of the COW).
THEOREM OneWindowMoves == TreeSpec => OneMovesAtATime
  <1>1. TreeIInv /\ [TreeNext]_treeVars =>
            [~torn => \A p \in All : \E moved \in All :
                \A x, y \in (children[p] \cap children'[p]) \ {moved} :
                    <<x, y>> \in stack[p] <=> <<x, y>> \in stack'[p]]_treeVars
    BY OneMovesStep DEF TreeIInv, KeepsOrder
  <1> QED BY <1>1, TreeInductive, PTL DEF TreeSpec, OneMovesAtATime

\* Every window of a client that goes is below one of its roots: a window that
\* were not would have a parent of the same client that is not either, and so
\* on around a cycle.
LEMMA OwnedAllGo ==
    ASSUME TreeInv, NEW c \in Client, DestroyOwned(c)
    PROVE  Owned(c)' = {}
  <1> DEFINE M == OwnedRoots(c)
             Dead == UNION {Subtree(w) : w \in M}
             Left == Owned(c) \ Dead
  <1>1. M \in SUBSET (All \ {Root})
    BY IdsAssumption DEF OwnedRoots, Owned, All
  <1>2. \A w \in M : w \in Subtree(w)
    <2>1. \A y \in All : children[y] \cap exists \in SUBSET All
      BY DEF TreeInv, TreeTypeOK
    <2>2. [y \in All |-> children[y] \cap exists] \in [All -> SUBSET All]
      BY <2>1
    <2> QED BY <1>1, <2>2, ReachableFacts DEF Subtree
  <1>3. \A y \in Dead : children[y] \cap exists \subseteq Dead
    <2> HIDE DEF M
    <2> QED BY <1>1, SubtreesClosed
  <1>4. \A w \in M : w \in Dead
    BY <1>2
  <1>5. Destroyed(Dead)
    BY DEF DestroyOwned
  <1>6. \A w \in Owned(c) : w \in exists \ {Root} /\ w \in All /\ w # Cow
    BY IdsAssumption DEF Owned, All
  <1>7. \A w \in Owned(c) : parent[w] \notin Owned(c) => w \in M
    BY DEF OwnedRoots
  <1> HIDE DEF M, Dead
  <1>8. Left = {}
    <2> SUFFICES ASSUME Left # {} PROVE FALSE
      OBVIOUS
    <2>1. Left \in SUBSET (exists \ {Root})
      BY <1>6
    <2>2. PICK w \in Left : parent[w] \notin Left
      BY <2>1 DEF TreeInv, NoCycle
    <2>3. parent[w] \in Owned(c) /\ parent[w] \in Dead
      BY <1>4, <1>7, <2>2
    <2>4. w \in children[parent[w]] \cap exists
      BY <1>6, <2>2, <2>3 DEF TreeInv, ListsAgree, Listed
    <2> QED BY <1>3, <2>2, <2>3, <2>4
  <1>9. exists' = exists \ Dead
    BY <1>5 DEF Destroyed
  <1>10. Owned(c)' = {w \in Window \cap exists' : OwnerOf[w] = c}
    BY DEF Owned
  <1>11. \A w \in Window \cap exists' : OwnerOf[w] # c
    BY <1>8, <1>9 DEF Owned
  <1> QED BY <1>10, <1>11

\* A client that goes takes all its windows along, also those that others have
\* put elsewhere in the tree, and those of its own below another's
\* (collect_owned_window_roots, process_disconnect).
THEOREM DisconnectLeavesNothing == TreeSpec => LeavesNothing
  <1>1. TreeIInv /\ [TreeNext]_treeVars =>
            [\A c \in Client : Owned(c)' # {} /\ exists' # exists => ~DestroyOwned(c)]_treeVars
    BY OwnedAllGo DEF TreeIInv
  <1> QED BY <1>1, TreeInductive, PTL DEF TreeSpec, LeavesNothing

\* The mapped children of a window that a mapping reaches are reached too.
LEMMA MappedBelowFacts ==
    ASSUME TreeInv, NEW w \in All
    PROVE  /\ MappedBelow(w) \subseteq All
           /\ \A y \in MappedBelow(w) \cup {w} :
                 \A x \in children[y] \cap exists :
                    mapState[x] # "Unmapped" => x \in MappedBelow(w) \cup {w}
  <1> DEFINE next == [y \in All |-> {x \in children[y] \cap exists : mapState[x] # "Unmapped"}]
  <1>1. next \in [All -> SUBSET All]
    <2>1. \A y \in All : {x \in children[y] \cap exists : mapState[x] # "Unmapped"} \in SUBSET All
      BY DEF TreeInv, TreeTypeOK
    <2> QED BY <2>1
  <1>2. MappedBelow(w) = Reachable(w, next) \ {w}
    BY DEF MappedBelow
  <1>3. /\ Reachable(w, next) \subseteq All
        /\ w \in Reachable(w, next)
        /\ \A y \in Reachable(w, next) : next[y] \subseteq Reachable(w, next)
    BY <1>1, ReachableFacts
  <1>4. \A y \in MappedBelow(w) \cup {w} : y \in Reachable(w, next) /\ y \in All
    BY <1>2, <1>3
  <1>5. \A y \in All : \A x \in children[y] \cap exists :
            mapState[x] # "Unmapped" => x \in next[y]
    OBVIOUS
  <1> HIDE DEF next
  <1> QED BY <1>2, <1>3, <1>4, <1>5

\* map_window on children of one parent.  A window that was not Viewable and is
\* now was mapped itself, or is below one that was.
LEMMA MappedReveals ==
    ASSUME TreeInv, NEW M \in SUBSET All, NEW viewable \in BOOLEAN, Mapped(M, viewable),
           NEW w \in exists, mapState[w] # "Viewable", mapState'[w] = "Viewable",
           NEW x \in children[w] \cap exists, mapState[x] # "Unmapped"
    PROVE  mapState'[x] = "Viewable"
  <1>1. w \in All /\ x \in All
    BY DEF TreeInv, TreeTypeOK
  <1>2. \A y \in All : mapState'[y] =
            IF y \in M THEN (IF viewable THEN "Viewable" ELSE "Unviewable")
            ELSE IF viewable /\ \E z \in M : y \in MappedBelow(z) THEN "Viewable"
            ELSE mapState[y]
    BY DEF Mapped
  <1>3. viewable /\ (w \in M \/ \E z \in M : w \in MappedBelow(z))
    BY <1>1, <1>2
  <1>4. PICK z \in M : w \in MappedBelow(z) \cup {z}
    BY <1>3
  <1>5. x \in MappedBelow(z) \cup {z}
    BY <1>4, MappedBelowFacts
  <1> QED BY <1>1, <1>2, <1>3, <1>4, <1>5

LEMMA MapRevealsStep ==
    ASSUME TreeInv, [TreeNext]_treeVars,
           NEW w \in exists, mapState[w] # "Viewable", mapState'[w] = "Viewable",
           NEW x \in children[w] \cap exists, mapState[x] # "Unmapped"
    PROVE  mapState'[x] = "Viewable"
  <1>0. TreeTypeOK /\ ServerWindows /\ w \in All /\ x \in All
    BY DEF TreeInv, TreeTypeOK
  <1>1. ASSUME NEW y \in All, MapWindow(y) \/ MapSubwindows(y)
        PROVE  mapState'[x] = "Viewable"
    <2>1. \E M \in SUBSET All, viewable \in BOOLEAN : Mapped(M, viewable)
      BY <1>0, <1>1 DEF MapWindow, MapSubwindows, ParentViewable, TreeTypeOK
    <2> QED BY <2>1, MappedReveals
  <1>2. mapState'[w] # mapState[w]
    OBVIOUS
  <1>3. ASSUME NEW M, Unmapped(M)
        PROVE  FALSE
    BY <1>0, <1>3 DEF Unmapped
  <1>4. ASSUME NEW Dead, Destroyed(Dead)
        PROVE  FALSE
    BY <1>0, <1>4 DEF Destroyed
  <1>5. CASE GetOverlayWindow \/ ReleaseOverlayWindow
    <2>1. w # Cow => mapState'[w] = mapState[w]
      BY <1>0, <1>5 DEF GetOverlayWindow, ReleaseOverlayWindow, TreeTypeOK
    <2>2. w = Cow => cowRefs > 0
      BY <1>0 DEF ServerWindows
    <2>3. CASE w = Cow /\ GetOverlayWindow
      BY <1>2, <2>2, <2>3 DEF GetOverlayWindow
    <2>4. CASE w = Cow /\ ReleaseOverlayWindow
      <3>1. CASE cowRefs = 1
        <4>1. mapState' = [mapState EXCEPT ![Cow] = "Unmapped"]
          BY <2>4, <3>1 DEF ReleaseOverlayWindow
        <4>2. mapState'[Cow] = "Unmapped"
          BY <1>0, <2>4, <4>1 DEF TreeTypeOK
        <4> QED BY <2>4, <4>2
      <3>2. CASE cowRefs # 1
        BY <1>2, <2>4, <3>2 DEF ReleaseOverlayWindow
      <3> QED BY <3>1, <3>2
    <2> QED BY <1>2, <1>5, <2>1, <2>3, <2>4
  <1>6. ASSUME NEW y \in All, UnmapWindow(y) \/ UnmapSubwindows(y)
        PROVE  FALSE
    BY <1>3, <1>6 DEF UnmapWindow, UnmapSubwindows
  <1>7. ASSUME NEW y \in All, DestroyWindow(y) \/ DestroySubwindows(y)
        PROVE  FALSE
    BY <1>4, <1>7 DEF DestroyWindow, DestroySubwindows
  <1>8. ASSUME NEW c \in Client, DestroyOwned(c)
        PROVE  FALSE
    BY <1>4, <1>8 DEF DestroyOwned
  <1>9. ASSUME NEW y \in All, ConfigureWindow(y)
        PROVE  FALSE
    BY <1>2, <1>9, ConfigureRestacks DEF Restack
  <1>10. ASSUME NEW p \in All, NEW d \in {0, 1}, CirculateWindow(p, d)
         PROVE  FALSE
    BY <1>2, <1>10, CirculateRestacks
  <1>11. ASSUME NEW y, NEW p, CreateWindow(y, p) \/ ReparentWindow(y, p)
         PROVE  FALSE
    BY <1>2, <1>11 DEF CreateWindow, ReparentWindow
  <1> QED BY <1>1, <1>2, <1>5, <1>6, <1>7, <1>8, <1>9, <1>10, <1>11 DEF TreeNext, treeVars

\* A window that becomes Viewable takes its mapped children with it, whichever
\* of the map requests made it so (map_window, promote_unviewable_descendants).
THEOREM MappingReveals == TreeSpec => MapReveals
  <1>1. TreeIInv /\ [TreeNext]_treeVars =>
            [\A w \in exists :
                mapState[w] # "Viewable" /\ mapState'[w] = "Viewable"
                   => \A x \in children[w] \cap exists :
                         mapState[x] # "Unmapped" => mapState'[x] = "Viewable"]_treeVars
    BY MapRevealsStep DEF TreeIInv
  <1> QED BY <1>1, TreeInductive, PTL DEF TreeSpec, MapReveals

-----------------------------------------------------------------------------
(* The overlay window stays on top.                                        *)

CowOnTop == CowIsTop(children[Root], stack[Root])

\* A window that comes into the root's list below the COW leaves it on top, and
\* so does one that leaves the list.
LEMMA TopLifted ==
    ASSUME NEW C, NEW R, NEW w, w # Cow, CowIsTop(C, R)
    PROVE  CowIsTop(C \ {w}, Lifted(R, w))
  BY DEF CowIsTop, Lifted

LEMMA TopPlaced ==
    ASSUME NEW C, NEW R, NEW w, NEW upper, w # Cow, Cow \in upper, CowIsTop(C, R)
    PROVE  CowIsTop(C \cup {w}, Placed(C, R, w, upper))
  BY DEF CowIsTop, Placed

LEMMA TopRestacked ==
    ASSUME CowOnTop, NEW w, w # Cow, NEW upper, Cow \in upper
    PROVE  CowIsTop(children[Root] \cup {w}, Restacked(Root, w, upper))
  <1> DEFINE C == children[Root] \ {w}
             R == Lifted(stack[Root], w)
  <1>1. CowIsTop(C, R)
    BY TopLifted DEF CowOnTop
  <1>2. C \cup {w} = children[Root] \cup {w}
    OBVIOUS
  <1>3. Restacked(Root, w, upper) = Placed(C, R, w, upper)
    BY DEF Restacked
  <1> HIDE DEF C, R
  <1>4. CowIsTop(C \cup {w}, Placed(C, R, w, upper))
    BY <1>1, TopPlaced
  <1> QED BY <1>2, <1>3, <1>4

\* What is put on top of the root's list has the COW above it.
LEMMA TopSlotHolds ==
    ASSUME CowOnTop, NEW w, w # Cow
    PROVE  TopSlot(Root, w) = {Cow}
  <1>1. CowIsTop(children[Root] \ {w}, Lifted(stack[Root], w))
    BY TopLifted DEF CowOnTop
  <1> QED BY <1>1 DEF TopSlot, AboveTop

LEMMA CreateKeepsTop ==
    ASSUME TreeInv, CowOnTop, NEW w \in Window, NEW p \in All, CreateWindow(w, p)
    PROVE  CowOnTop'
  <1>0. w # Cow /\ Root \in All
    BY IdsAssumption DEF All
  <1>1. /\ stack' = [stack EXCEPT ![p] = Restacked(p, w, TopSlot(p, w))]
        /\ children' = [children EXCEPT ![p] = @ \cup {w}]
    BY DEF CreateWindow
  <1>2. CASE p # Root
    BY <1>0, <1>1, <1>2 DEF CowOnTop, TreeInv, TreeTypeOK
  <1>3. CASE p = Root
    <2>1. /\ stack'[Root] = Restacked(Root, w, TopSlot(Root, w))
          /\ children'[Root] = children[Root] \cup {w}
      BY <1>0, <1>1, <1>3 DEF TreeInv, TreeTypeOK
    <2>2. Cow \in TopSlot(Root, w)
      BY <1>0, TopSlotHolds
    <2> QED BY <1>0, <2>1, <2>2, TopRestacked DEF CowOnTop
  <1> QED BY <1>2, <1>3

LEMMA ReparentKeepsTop ==
    ASSUME TreeInv, CowOnTop, NEW w \in All, w # Cow, NEW p \in All, ReparentWindow(w, p)
    PROVE  CowOnTop'
  <1> DEFINE old == parent[w]
             kids == [children EXCEPT ![old] = @ \ {w}]
             order == [stack EXCEPT ![old] = Lifted(@, w)]
  <1>1. /\ stack' = [order EXCEPT ![p] = Placed(kids[p], @, w, AboveTop(kids[p], @))]
        /\ children' = [kids EXCEPT ![p] = @ \cup {w}]
    BY DEF ReparentWindow
  <1>2. old \in All /\ Root \in All
    BY DEF TreeInv, TreeTypeOK, All
  <1>3. /\ kids[old] = children[old] \ {w}
        /\ order[old] = Lifted(stack[old], w)
        /\ \A q \in All \ {old} : kids[q] = children[q] /\ order[q] = stack[q]
        /\ DOMAIN kids = All /\ DOMAIN order = All
    BY <1>2 DEF TreeInv, TreeTypeOK
  <1> HIDE DEF old, kids, order
  <1>4. CowIsTop(kids[Root], order[Root])
    <2>1. CASE old = Root
      BY <1>3, <2>1, TopLifted DEF CowOnTop
    <2>2. CASE old # Root
      BY <1>2, <1>3, <2>2 DEF CowOnTop
    <2> QED BY <2>1, <2>2
  <1>5. CASE p # Root
    <2>1. stack'[Root] = order[Root] /\ children'[Root] = kids[Root]
      BY <1>1, <1>2, <1>3, <1>5
    <2> QED BY <1>4, <2>1 DEF CowOnTop
  <1>6. CASE p = Root
    <2>1. /\ stack'[Root] = Placed(kids[Root], order[Root], w, AboveTop(kids[Root], order[Root]))
          /\ children'[Root] = kids[Root] \cup {w}
      BY <1>1, <1>2, <1>3, <1>6
    <2>2. Cow \in AboveTop(kids[Root], order[Root])
      BY <1>4 DEF AboveTop
    <2> QED BY <1>4, <2>1, <2>2, TopPlaced DEF CowOnTop
  <1> QED BY <1>5, <1>6

\* Every place that handle_configure_window names leaves the COW above it.
LEMMA ConfigureKeepsTop ==
    ASSUME TreeInv, CowOnTop, NEW w \in All, w # Cow, ConfigureWindow(w)
    PROVE  CowOnTop'
  <1>1. Listed(w) /\ \E upper : Restack(w, upper)
    BY ConfigureRestacks
  <1>2. children' = children /\ Root \in All /\ parent[w] \in All
    BY <1>1 DEF Restack, TreeInv, TreeTypeOK, All
  <1>3. CASE parent[w] # Root
    <2>1. stack'[Root] = stack[Root]
      BY <1>1, <1>2, <1>3 DEF Restack, TreeInv, TreeTypeOK
    <2> QED BY <1>2, <2>1 DEF CowOnTop
  <1>4. CASE parent[w] = Root
    <2>1. w \in children[Root] /\ Cow \in children[Root] \ {w}
      BY <1>1, <1>4 DEF Listed, CowOnTop, CowIsTop
    <2>2. \E upper : Cow \in upper /\ Restack(w, upper)
      <3>1. Cow \in TopSlot(parent[w], w)
        BY <1>4, TopSlotHolds
      <3>2. CASE RaiseWindow(w)
        BY <3>1, <3>2 DEF RaiseWindow
      <3>3. CASE LowerWindow(w)
        BY <1>4, <2>1, <3>3 DEF LowerWindow, Siblings
      <3>4. ASSUME NEW s \in All, StackAbove(w, s) \/ StackBelow(w, s)
            PROVE  \E upper : Cow \in upper /\ Restack(w, upper)
        <4>1. s \in children[Root] /\ s # w /\ parent[s] = Root
          BY <1>4, <3>4 DEF StackAbove, StackBelow, Siblings
        <4>2. s # Cow => Cow \in Above(s) \ {w}
          BY <2>1, <4>1 DEF Above, Siblings, CowOnTop, CowIsTop
        <4>3. CASE StackAbove(w, s)
          BY <3>1, <4>2, <4>3 DEF StackAbove
        <4>4. CASE StackBelow(w, s)
          <5>1. Cow \in {s} \cup (Above(s) \ {w})
            BY <4>2
          <5> QED BY <4>4, <5>1 DEF StackBelow
        <4> QED BY <3>4, <4>3, <4>4
      <3> QED BY <3>2, <3>3, <3>4 DEF ConfigureWindow
    <2>3. PICK upper : Cow \in upper /\ Restack(w, upper)
      BY <2>2
    <2>4. stack'[Root] = Restacked(Root, w, upper)
      BY <1>2, <1>4, <2>3 DEF Restack, TreeInv, TreeTypeOK
    <2>5. children[Root] \cup {w} = children[Root]
      BY <2>1
    <2>6. CowIsTop(children[Root] \cup {w}, Restacked(Root, w, upper))
      BY <2>3, TopRestacked
    <2> QED BY <1>2, <2>4, <2>5, <2>6 DEF CowOnTop
  <1> QED BY <1>3, <1>4

\* circulate_window leaves the COW out.
LEMMA CirculateKeepsTop ==
    ASSUME TreeInv, CowOnTop, NEW p \in All, NEW d \in {0, 1}, CirculateWindow(p, d)
    PROVE  CowOnTop'
  <1>1. children' = children /\ Root \in All
    BY CirculateRestacks DEF All
  <1>2. PICK w \in Circulating(p) :
            \E upper \in {children[p] \ {w}, children[p] \ Circulating(p)} :
               stack' = [stack EXCEPT ![p] = Restacked(p, w, upper)]
    BY CirculateRestacks
  <1>3. PICK upper \in {children[p] \ {w}, children[p] \ Circulating(p)} :
            stack' = [stack EXCEPT ![p] = Restacked(p, w, upper)]
    BY <1>2
  <1>4. CASE p # Root
    <2>1. stack'[Root] = stack[Root]
      BY <1>1, <1>3, <1>4 DEF TreeInv, TreeTypeOK
    <2> QED BY <1>1, <2>1 DEF CowOnTop
  <1>5. CASE p = Root
    <2>1. Circulating(p) = children[Root] \ {Cow}
      BY <1>5 DEF Circulating, AboveTop, CowOnTop
    <2>2. w # Cow /\ w \in children[Root] /\ Cow \in upper
      BY <1>2, <1>3, <1>5, <2>1 DEF CowOnTop, CowIsTop
    <2>3. stack'[Root] = Restacked(Root, w, upper)
      BY <1>1, <1>3, <1>5 DEF TreeInv, TreeTypeOK
    <2>4. children[Root] \cup {w} = children[Root]
      BY <2>2
    <2>5. CowIsTop(children[Root] \cup {w}, Restacked(Root, w, upper))
      BY <2>2, TopRestacked
    <2> QED BY <1>1, <2>3, <2>4, <2>5 DEF CowOnTop
  <1> QED BY <1>4, <1>5

LEMMA DoomedKeepsTop ==
    ASSUME CowOnTop, NEW Dead, Doomed(Dead), Cow \notin Dead
    PROVE  CowOnTop'
  <1>1. Root \in All \ Dead
    BY DEF Doomed, All
  <1> DEFINE gone == {x \in Dead : parent[x] = Root}
  <1>2. /\ children'[Root] = children[Root] \ gone
        /\ stack'[Root] = {e \in stack[Root] : e[1] \notin gone /\ e[2] \notin gone}
    BY <1>1 DEF Doomed, Destroyed
  <1>3. Cow \notin gone
    OBVIOUS
  <1> HIDE DEF gone
  <1> QED BY <1>2, <1>3 DEF CowOnTop, CowIsTop

LEMMA CowTopStep ==
    ASSUME TreeInv, ~torn, [TreeNext]_treeVars, CowOnTop, Cow \in exists'
    PROVE  \/ CowOnTop'
           \/ ConfigureWindow(Cow)
           \/ \E p \in All : ReparentWindow(Cow, p)
  <1>0. Cow \in exists /\ cowRefs > 0
    <2>1. Cow \in children[Root] /\ Root \in All
      BY DEF CowOnTop, CowIsTop, All
    <2> QED BY <2>1 DEF TreeInv, ListsAgree, ServerWindows
  <1>1. ASSUME UNCHANGED <<children, stack>>
        PROVE  CowOnTop'
    BY <1>1 DEF CowOnTop
  <1>2. ASSUME NEW Dead, Doomed(Dead)
        PROVE  CowOnTop'
    <2>1. Cow \notin Dead
      BY <1>0, <1>2 DEF Doomed, Destroyed
    <2> QED BY <1>2, <2>1, DoomedKeepsTop
  <1>3. ASSUME NEW w \in Window, NEW p \in All, CreateWindow(w, p)
        PROVE  CowOnTop'
    BY <1>3, CreateKeepsTop
  <1>4. ASSUME NEW w \in All, NEW p \in All, ReparentWindow(w, p)
        PROVE  CowOnTop' \/ w = Cow
    BY <1>4, ReparentKeepsTop
  <1>5. ASSUME NEW w \in All, ConfigureWindow(w)
        PROVE  CowOnTop' \/ ConfigureWindow(Cow)
    BY <1>5, ConfigureKeepsTop
  <1>6. ASSUME NEW p \in All, NEW d \in {0, 1}, CirculateWindow(p, d)
        PROVE  CowOnTop'
    BY <1>6, CirculateKeepsTop
  <1>7. ASSUME NEW w \in All,
               MapWindow(w) \/ UnmapWindow(w) \/ MapSubwindows(w) \/ UnmapSubwindows(w)
        PROVE  CowOnTop'
    <2>1. UNCHANGED <<children, stack>>
      BY <1>7 DEF MapWindow, UnmapWindow, MapSubwindows, UnmapSubwindows, Mapped, Unmapped
    <2> QED BY <1>1, <2>1
  <1>8. ASSUME NEW w \in All, DestroyWindow(w) \/ DestroySubwindows(w)
        PROVE  CowOnTop'
    BY <1>2, <1>8, DestroysDoomed
  <1>9. ASSUME NEW c \in Client, DestroyOwned(c)
        PROVE  CowOnTop'
    <2>1. Root \in All
      BY DEF All
    <2> QED BY <1>2, <1>9, <2>1, DestroysDoomed
  <1>10. CASE GetOverlayWindow
    BY <1>0, <1>1, <1>10 DEF GetOverlayWindow
  <1>11. CASE ReleaseOverlayWindow
    BY <1>1, <1>11 DEF ReleaseOverlayWindow
  <1>12. CASE UNCHANGED treeVars
    BY <1>1, <1>12 DEF treeVars
  <1> QED BY <1>3, <1>4, <1>5, <1>6, <1>7, <1>8, <1>9, <1>10, <1>11, <1>12 DEF TreeNext

\* Once it is the topmost child of the root, the COW stays so until its last
\* claim is released, whatever is requested of the other windows
\* (cow_aware_top_index, RestackAction::AboveSibling, circulate_window).
THEOREM OverlayStaysOnTop == TreeSpec => CowStaysOnTop
  <1>1. TreeIInv /\ [TreeNext]_treeVars =>
            [~torn /\ CowIsTop(children[Root], stack[Root]) /\ Cow \in exists'
                => \/ CowIsTop(children[Root], stack[Root])'
                   \/ ConfigureWindow(Cow)
                   \/ \E p \in All : ReparentWindow(Cow, p)]_treeVars
    BY CowTopStep DEF TreeIInv, CowOnTop
  <1> QED BY <1>1, TreeInductive, PTL DEF TreeSpec, CowStaysOnTop

=============================================================================
