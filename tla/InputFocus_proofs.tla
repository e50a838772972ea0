--------------------------- MODULE InputFocus_proofs ---------------------------
(***************************************************************************)
(* The handlers that also move the focus or release a grab do to the tree  *)
(* what WindowTree's requests do, so that what is proved of the tree alone *)
(* holds of the composition; and with the tree's invariant, focus and grab *)
(* are where the requests leave them: on windows that are there, and, when *)
(* they have just moved, on windows that can be seen.                      *)
(***************************************************************************)
EXTENDS InputFocus, WindowTree_proofs

LEMMA HandlersAreTreeSteps == [Next]_vars => [TreeNext]_treeVars
  <1> SUFFICES ASSUME [Next]_vars PROVE [TreeNext]_treeVars
    OBVIOUS
  <1>1. CASE Tree
    BY <1>1 DEF Tree, TreeNext
  <1>2. ASSUME NEW w \in All, Unmap(w) \/ Destroy(w)
        PROVE  TreeNext
    BY <1>2 DEF Unmap, Destroy, TreeNext
  <1>3. ASSUME NEW p \in All, UnmapChildren(p) \/ DestroyChildren(p)
        PROVE  TreeNext
    BY <1>3 DEF UnmapChildren, DestroyChildren, TreeNext
  <1>4. ASSUME NEW c \in Client, Disconnect(c)
        PROVE  TreeNext
    BY <1>4 DEF Disconnect, TreeNext
  <1>5. ASSUME NEW c \in Client, UngrabKeyboard(c)
        PROVE  UNCHANGED treeVars
    BY <1>5 DEF UngrabKeyboard
  <1>6. ASSUME NEW f, NEW r, SetInputFocus(f, r)
        PROVE  UNCHANGED treeVars
    BY <1>6 DEF SetInputFocus
  <1>7. ASSUME NEW c \in Client, NEW w \in All,
               GrabKeyboard(c, w) \/ XIGrabDevice(c, w) \/ KeyPressed(c, w)
        PROVE  UNCHANGED treeVars
    BY <1>7 DEF GrabKeyboard, XIGrabDevice, KeyPressed
  <1>8. CASE UNCHANGED vars
    BY <1>8 DEF vars
  <1> QED BY <1>1, <1>2, <1>3, <1>4, <1>5, <1>6, <1>7, <1>8 DEF Next

\* Focus reverts and grab releases happen inside the window requests' own
\* handlers and add nothing to what those do to the tree (handle_unmap_window,
\* destroy_window_subtree, process_disconnect).
THEOREM FocusImplementsTree == Spec => TreeSpec
  <1>1. Init => TreeInit
    BY DEF Init
  <1> QED BY <1>1, HandlersAreTreeSteps, PTL DEF Spec, TreeSpec

\* The window tree stays consistent under the whole of the composition.
THEOREM FocusKeepsTreeConsistent == Spec => []TreeConsistent
  BY FocusImplementsTree, TreeStaysConsistent, PTL

\* What a request may do to the tree, it may do with its effects on focus and
\* grab: the overlay stays on top, one window moves at a time, mapping reveals
\* what it says, and a client that leaves takes its windows.
THEOREM FocusKeepsTreeActions ==
    Spec => CowStaysOnTop /\ MapReveals /\ OneMovesAtATime /\ LeavesNothing
  BY FocusImplementsTree, OverlayStaysOnTop, MappingReveals, OneWindowMoves,
     DisconnectLeavesNothing, PTL

-----------------------------------------------------------------------------
(* The nearest ancestor.  revert_core_focus_from walks up and takes the    *)
(* first window that will do; Ancestors is a set, and that one of a set of *)
(* ancestors has all the others above it rests on there being no cycle.    *)

ParentOf == [y \in All |-> IF y \in exists \ {Root} THEN {parent[y]} ELSE {}]

LEMMA UpFacts ==
    ASSUME TreeTypeOK, NEW x \in All
    PROVE  /\ Reachable(x, ParentOf) \subseteq All
           /\ x \in exists \ {Root} =>
                 /\ parent[x] \in All
                 /\ Ancestors(x) = Reachable(parent[x], ParentOf)
                 /\ Reachable(x, ParentOf) \subseteq {x} \cup Ancestors(x)
           /\ x \notin exists \ {Root} => Reachable(x, ParentOf) \subseteq {x}
  <1>1. ParentOf \in [All -> SUBSET All]
    BY DEF ParentOf, TreeTypeOK
  <1>2. \A y \in All :
           /\ Reachable(y, ParentOf) \subseteq All
           /\ y \in Reachable(y, ParentOf)
           /\ \A z \in Reachable(y, ParentOf) : ParentOf[z] \subseteq Reachable(y, ParentOf)
           /\ \A S \in SUBSET All :
                 y \in S /\ (\A z \in S : ParentOf[z] \subseteq S)
                    => Reachable(y, ParentOf) \subseteq S
    BY <1>1, ReachableFacts
  <1>3. CASE x \in exists \ {Root}
    <2>1. parent[x] \in All /\ ParentOf[x] = {parent[x]}
      BY <1>3 DEF TreeTypeOK, ParentOf
    <2>2. Ancestors(x) = Reachable(parent[x], ParentOf)
      BY DEF Ancestors, ParentOf
    <2> DEFINE S == {x} \cup Reachable(parent[x], ParentOf)
    <2>3. S \in SUBSET All /\ x \in S
      BY <1>2, <2>1
    <2>4. \A z \in S : ParentOf[z] \subseteq S
      BY <1>2, <2>1
    <2>5. Reachable(x, ParentOf) \subseteq S
      BY <1>2, <2>3, <2>4
    <2> QED BY <1>2, <1>3, <2>1, <2>2, <2>5
  <1>4. CASE x \notin exists \ {Root}
    <2>1. ParentOf[x] = {}
      BY <1>4 DEF ParentOf
    <2>2. {x} \in SUBSET All /\ x \in {x} /\ \A z \in {x} : ParentOf[z] \subseteq {x}
      BY <2>1
    <2>3. Reachable(x, ParentOf) \subseteq {x}
      BY <1>2, <2>2
    <2> QED BY <1>2, <1>4, <2>3
  <1> QED BY <1>3, <1>4

\* Were there no nearest, the windows with all of G above them would be closed
\* under parents: a cycle.
LEMMA NearestExists ==
    ASSUME TreeTypeOK, NoCycle, NEW w \in All, NEW G \in SUBSET Ancestors(w), G # {}
    PROVE  \E a \in G : \A b \in G \ {a} : b \in Ancestors(a)
  <1> SUFFICES ASSUME \A a \in G : ~(\A b \in G \ {a} : b \in Ancestors(a))
               PROVE  FALSE
    OBVIOUS
  <1> DEFINE Below == {x \in All : G \subseteq Reachable(x, ParentOf)}
  <1>1. parent[w] \in Below
    BY DEF Ancestors, ParentOf, TreeTypeOK
  <1>2. \A x \in Below : x \in exists \ {Root} /\ parent[x] \in Below
    <2> TAKE x \in Below
    <2>1. x \in exists \ {Root}
      <3> SUFFICES ASSUME x \notin exists \ {Root} PROVE FALSE
        OBVIOUS
      <3>1. G \subseteq {x}
        BY UpFacts
      <3>2. x \in G /\ G \ {x} = {}
        BY <3>1
      <3> QED BY <3>2
    <2>2. /\ parent[x] \in All
          /\ Ancestors(x) = Reachable(parent[x], ParentOf)
          /\ G \subseteq {x} \cup Ancestors(x)
      BY <2>1, UpFacts
    <2>3. x \notin G
      BY <2>2
    <2> QED BY <2>1, <2>2, <2>3
  <1> HIDE DEF Below
  <1>3. Below \in SUBSET (exists \ {Root}) /\ Below # {}
    BY <1>1, <1>2
  <1>4. PICK x \in Below : parent[x] \notin Below
    BY <1>3 DEF NoCycle
  <1> QED BY <1>2, <1>4

\* Where the focus reverts to: the root, or a window that exists, will not die
\* with the request, and is Viewable under the map states the handler reads.
LEMMA NearestFacts ==
    ASSUME TreeTypeOK, NoCycle, NEW w \in All, NEW m, NEW dying
    PROVE  LET a == NearestViewable(w, m, dying)
           IN  a = Root \/ (a \in exists /\ a \notin dying /\ m[a] = "Viewable")
  <1> DEFINE good == {a \in (Ancestors(w) \cap exists) \ (dying \cup {Root}) :
                         m[a] = "Viewable"}
  <1>1. CASE good = {}
    BY <1>1 DEF NearestViewable
  <1>2. CASE good # {}
    <2>1. \E a \in good : \A b \in good \ {a} : b \in Ancestors(a)
      <3>1. good \in SUBSET Ancestors(w)
        OBVIOUS
      <3> HIDE DEF good
      <3> QED BY <1>2, <3>1, NearestExists
    <2>2. (CHOOSE a \in good : \A b \in good \ {a} : b \in Ancestors(a)) \in good
      <3> HIDE DEF good
      <3> QED BY <2>1
    <2>3. NearestViewable(w, m, dying) \in good
      BY <1>2, <2>2 DEF NearestViewable
    <2> QED BY <2>3
  <1> QED BY <1>1, <1>2

\* What a revert makes of the focus.
LEMMA RevertFacts ==
    ASSUME TypeOK, NoCycle, focus \in All, NEW m, NEW dying, RevertFocus(m, dying)
    PROVE  /\ revertTo' \in RevertTo
           /\ \/ focus' \in {None, PointerRoot, Root}
              \/ focus' \in exists /\ focus' \notin dying /\ m[focus'] = "Viewable"
  <1>1. revertTo \in RevertTo
    BY DEF TypeOK
  <1>2. revertTo' \in RevertTo
    BY <1>1 DEF RevertFocus, RevertTo
  <1>3. CASE revertTo = "Parent"
    <2>1. focus' = NearestViewable(focus, m, dying)
      BY <1>3 DEF RevertFocus
    <2> QED BY <1>2, <2>1, NearestFacts DEF TypeOK
  <1>4. CASE revertTo # "Parent"
    BY <1>1, <1>2, <1>4 DEF RevertFocus, RevertTo
  <1> QED BY <1>3, <1>4

-----------------------------------------------------------------------------
(* What each handler does to the focus and the grab.                       *)

Pointers ==
    /\ focus \in All \cup {None, PointerRoot}
    /\ revertTo \in RevertTo
    /\ grab \in Grabs \cup {NoGrab}

MovesToViewable ==
    focus' # focus /\ focus' \in All \ {Root} => SeenViewable(focus', exists', mapState')

FocusKept == FocusExists => FocusExists'
GrabKept == GrabExists => GrabExists'
Kept == FocusKept /\ GrabKept

\* A grab that stays over a ReleaseGrab is on a window that can be seen.
LEMMA ReleaseFacts ==
    ASSUME TypeOK, ReleaseGrab
    PROVE  /\ grab' \in Grabs \cup {NoGrab}
           /\ grab' # NoGrab => grab' = grab /\ grab'.window \in exists'
  BY DEF TypeOK, ReleaseGrab, SeenViewable

\* handle_unmap_window and handle_unmap_subwindows.
LEMMA UnmapEffect ==
    ASSUME TypeOK, NoCycle, Root \in exists, exists' = exists, RevertIfUnviewable, ReleaseGrab
    PROVE  Pointers' /\ MovesToViewable /\ Kept
  <1>1. /\ grab' \in Grabs \cup {NoGrab}
        /\ grab' # NoGrab => grab'.window \in exists'
    BY ReleaseFacts
  <1>2. /\ None \notin All /\ PointerRoot \notin All
        /\ Root \in All
    BY FocusAssumption DEF All
  <1>3. CASE FocusIsWindow /\ ~SeenViewable(focus, exists', mapState')
    <2>1. RevertFocus(mapState', {}) /\ focus \in All
      BY <1>3 DEF RevertIfUnviewable, TypeOK, FocusIsWindow
    <2>2. /\ revertTo' \in RevertTo
          /\ \/ focus' \in {None, PointerRoot, Root}
             \/ focus' \in exists /\ focus' \notin {} /\ mapState'[focus'] = "Viewable"
      BY <2>1, RevertFacts
    <2>3. exists \subseteq All
      BY DEF TypeOK, TreeTypeOK
    <2>4. Pointers'
      BY <1>1, <1>2, <2>2, <2>3 DEF Pointers
    <2>5. MovesToViewable
      BY <1>2, <2>2 DEF MovesToViewable, SeenViewable
    <2>6. FocusExists' /\ GrabExists'
      BY <1>1, <1>2, <2>2 DEF FocusExists, GrabExists
    <2> QED BY <2>4, <2>5, <2>6 DEF Kept, FocusKept, GrabKept
  <1>4. CASE ~(FocusIsWindow /\ ~SeenViewable(focus, exists', mapState'))
    <2>1. focus' = focus /\ revertTo' = revertTo
      BY <1>4 DEF RevertIfUnviewable, KeepFocus
    <2>2. Pointers' /\ MovesToViewable
      BY <1>1, <2>1 DEF Pointers, MovesToViewable, TypeOK
    <2>3. FocusKept /\ GrabKept
      BY <1>1, <2>1 DEF FocusKept, GrabKept, FocusExists, GrabExists
    <2> QED BY <2>2, <2>3 DEF Kept
  <1> QED BY <1>3, <1>4

\* destroy_window_subtree: `order` holds at least the windows that go.
LEMMA DestroyEffect ==
    ASSUME TypeOK, NoCycle, Root \in exists, Root \in exists',
           NEW Dead, NEW order, Destroyed(Dead), Dead \subseteq order,
           RevertIfDying(order), ReleaseGrab \/ (Dead = {} /\ grab' = grab)
    PROVE  Pointers' /\ MovesToViewable /\ Kept
  <1>0. /\ None \notin All /\ PointerRoot \notin All
        /\ Root \in All /\ exists \subseteq All
    BY FocusAssumption DEF All, TypeOK, TreeTypeOK
  <1>1. exists' = exists \ Dead /\ \A w \in All \ Dead : mapState'[w] = mapState[w]
    BY DEF Destroyed
  <1>2. /\ grab' \in Grabs \cup {NoGrab}
        /\ grab' # NoGrab => grab'.window \in exists' \/ (grab' = grab /\ exists' = exists)
    <2>1. CASE ReleaseGrab
      BY <2>1, ReleaseFacts
    <2>2. CASE Dead = {} /\ grab' = grab
      BY <1>1, <2>2 DEF TypeOK
    <2> QED BY <2>1, <2>2
  <1>3. CASE FocusIsWindow /\ focus \in order
    <2>1. RevertFocus(mapState, order) /\ focus \in All
      BY <1>3 DEF RevertIfDying, TypeOK, FocusIsWindow
    <2>2. /\ revertTo' \in RevertTo
          /\ \/ focus' \in {None, PointerRoot, Root}
             \/ focus' \in exists /\ focus' \notin order /\ mapState[focus'] = "Viewable"
      BY <2>1, RevertFacts
    <2>3. /\ revertTo' \in RevertTo
          /\ \/ focus' \in {None, PointerRoot, Root}
             \/ focus' \in exists' /\ mapState'[focus'] = "Viewable"
      BY <1>0, <1>1, <2>2
    <2>4. Pointers'
      BY <1>0, <1>2, <2>2 DEF Pointers
    <2>5. MovesToViewable
      BY <1>0, <2>3 DEF MovesToViewable, SeenViewable
    <2>6. FocusKept /\ GrabKept
      BY <1>0, <1>2, <2>3 DEF FocusKept, GrabKept, FocusExists, GrabExists
    <2> QED BY <2>4, <2>5, <2>6 DEF Kept
  <1>4. CASE ~(FocusIsWindow /\ focus \in order)
    <2>1. focus' = focus /\ revertTo' = revertTo
      BY <1>4 DEF RevertIfDying, KeepFocus
    <2>2. focus \in exists => focus \in exists'
      BY <1>0, <1>1, <1>4 DEF FocusIsWindow
    <2>3. Pointers' /\ MovesToViewable
      BY <1>2, <2>1 DEF Pointers, MovesToViewable, TypeOK
    <2>4. FocusKept /\ GrabKept
      BY <1>2, <2>1, <2>2 DEF FocusKept, GrabKept, FocusExists, GrabExists
    <2> QED BY <2>3, <2>4 DEF Kept
  <1> QED BY <1>3, <1>4

LEMMA KeepEffect ==
    ASSUME TypeOK, KeepFocus, grab' = grab \/ grab' = NoGrab
    PROVE  /\ Pointers' /\ MovesToViewable
           /\ exists \subseteq exists' => Kept
  BY DEF TypeOK, KeepFocus, Pointers, MovesToViewable, Kept, FocusKept, GrabKept,
         FocusExists, GrabExists

\* Every request of WindowTree but the last release of the COW, and those that
\* InputFocus has handlers of its own for, keeps the windows there are.
LEMMA TreeKeepsWindows ==
    ASSUME Tree, ~ReleaseOverlayWindow
    PROVE  exists \subseteq exists'
  <1>1. ASSUME NEW w \in Window, NEW p \in All, CreateWindow(w, p)
        PROVE  exists \subseteq exists'
    BY <1>1 DEF CreateWindow
  <1>2. ASSUME NEW w, NEW p, ReparentWindow(w, p)
        PROVE  exists \subseteq exists'
    BY <1>2 DEF ReparentWindow
  <1>3. ASSUME NEW w \in All, ConfigureWindow(w)
        PROVE  exists \subseteq exists'
    BY <1>3, ConfigureRestacks DEF Restack
  <1>4. ASSUME NEW p \in All, NEW d \in {0, 1}, CirculateWindow(p, d)
        PROVE  exists \subseteq exists'
    BY <1>4, CirculateRestacks
  <1>5. ASSUME NEW w, MapWindow(w) \/ MapSubwindows(w)
        PROVE  exists \subseteq exists'
    BY <1>5 DEF MapWindow, MapSubwindows, Mapped
  <1>6. CASE GetOverlayWindow
    BY <1>6 DEF GetOverlayWindow
  <1> QED BY <1>1, <1>2, <1>3, <1>4, <1>5, <1>6 DEF Tree

LEMMA SetFocusEffect ==
    ASSUME TypeOK, NEW f \in All \cup {None, PointerRoot}, NEW r \in RevertTo,
           SetInputFocus(f, r)
    PROVE  Pointers' /\ MovesToViewable /\ Kept
  <1>1. /\ focus' = f /\ revertTo' = r
        /\ exists' = exists /\ mapState' = mapState /\ grab' = grab
        /\ f \in All => f \in exists /\ mapState[f] = "Viewable"
    BY DEF SetInputFocus, treeVars, SeenViewable
  <1>2. Pointers'
    BY <1>1 DEF Pointers, TypeOK
  <1>3. MovesToViewable
    BY <1>1 DEF MovesToViewable, SeenViewable
  <1>4. Kept
    BY <1>1 DEF Kept, FocusKept, GrabKept, FocusExists, GrabExists
  <1> QED BY <1>2, <1>3, <1>4

\* The grabs: only the core request has looked at its window.
LEMMA GrabEffect ==
    ASSUME TypeOK, NEW c \in Client, NEW w \in All,
           GrabKeyboard(c, w) \/ XIGrabDevice(c, w) \/ KeyPressed(c, w)
    PROVE  /\ Pointers' /\ MovesToViewable /\ FocusKept
           /\ GrabKeyboard(c, w) => GrabKept
  <1>1. /\ UNCHANGED <<focus, revertTo, exists>>
        /\ grab' = [owner |-> c, window |-> w]
    BY DEF GrabKeyboard, XIGrabDevice, KeyPressed, treeVars, KeepFocus
  <1>2. grab' \in Grabs /\ grab'.window = w
    BY <1>1 DEF Grabs
  <1>3. Pointers' /\ MovesToViewable
    BY <1>1, <1>2 DEF Pointers, MovesToViewable, TypeOK
  <1>4. FocusKept
    BY <1>1 DEF FocusKept, FocusExists
  <1>5. GrabKeyboard(c, w) => GrabKept
    BY <1>1, <1>2 DEF GrabKept, GrabExists, GrabKeyboard, SeenViewable
  <1> QED BY <1>3, <1>4, <1>5

LEMMA FocusStep ==
    ASSUME TypeOK, TreeInv, Root \in exists', [Next]_vars
    PROVE  /\ Pointers' /\ MovesToViewable
           /\ \/ Kept
              \/ \E c \in Client : Disconnect(c)
              \/ ReleaseOverlayWindow
              \/ /\ FocusKept
                 /\ \E c \in Client, w \in All : XIGrabDevice(c, w) \/ KeyPressed(c, w)
  <1>0. NoCycle /\ Root \in exists /\ TreeTypeOK
    BY DEF TreeInv, ServerWindows
  <1>1. CASE Tree /\ Keep
    <2>1. KeepFocus /\ grab' = grab
      BY <1>1 DEF Keep
    <2> QED BY <1>1, <2>1, KeepEffect, TreeKeepsWindows
  <1>2. ASSUME NEW w \in All, Unmap(w) \/ UnmapChildren(w)
        PROVE  Pointers' /\ MovesToViewable /\ Kept
    <2>1. exists' = exists /\ RevertIfUnviewable /\ ReleaseGrab
      BY <1>2 DEF Unmap, UnmapChildren, UnmapWindow, UnmapSubwindows, Unmapped
    <2> QED BY <1>0, <2>1, UnmapEffect
  <1>3. ASSUME NEW w \in All, Destroy(w)
        PROVE  Pointers' /\ MovesToViewable /\ Kept
    <2>1. /\ Destroyed(DestroyedBy(w)) /\ DestroyedBy(w) \subseteq Subtree(w)
          /\ RevertIfDying(Subtree(w)) /\ ReleaseGrab
      BY <1>3 DEF Destroy, DestroyWindow, DestroyedBy
    <2> QED BY <1>0, <2>1, DestroyEffect
  <1>4. ASSUME NEW p \in All, DestroyChildren(p)
        PROVE  Pointers' /\ MovesToViewable /\ Kept
    <2> DEFINE Dead == UNION {Subtree(w) : w \in children[p] \cap exists}
    <2>1. Destroyed(Dead) /\ RevertIfDying(Dead)
      BY <1>4 DEF DestroyChildren, DestroySubwindows
    <2>2. ReleaseGrab \/ (Dead = {} /\ grab' = grab)
      BY <1>4 DEF DestroyChildren
    <2> HIDE DEF Dead
    <2> QED BY <1>0, <2>1, <2>2, DestroyEffect
  <1>5. ASSUME NEW c \in Client, Disconnect(c)
        PROVE  Pointers' /\ MovesToViewable
    <2>1. KeepFocus /\ (grab' = grab \/ grab' = NoGrab)
      BY <1>5 DEF Disconnect
    <2> QED BY <2>1, KeepEffect
  <1>6. ASSUME NEW c \in Client, UngrabKeyboard(c)
        PROVE  Pointers' /\ MovesToViewable /\ Kept
    <2>1. KeepFocus /\ grab' = NoGrab /\ exists' = exists
      BY <1>6 DEF UngrabKeyboard, treeVars
    <2> QED BY <2>1, KeepEffect
  <1>7. CASE UNCHANGED vars
    <2>1. KeepFocus /\ grab' = grab /\ exists' = exists
      BY <1>7 DEF vars, treeVars, KeepFocus
    <2> QED BY <2>1, KeepEffect
  <1>8. ASSUME NEW c \in Client, NEW w \in All,
               GrabKeyboard(c, w) \/ XIGrabDevice(c, w) \/ KeyPressed(c, w)
        PROVE  /\ Pointers' /\ MovesToViewable
               /\ \/ Kept
                  \/ FocusKept /\ (XIGrabDevice(c, w) \/ KeyPressed(c, w))
    BY <1>8, GrabEffect DEF Kept
  <1> QED BY <1>1, <1>2, <1>3, <1>4, <1>5, <1>6, <1>7, <1>8, SetFocusEffect DEF Next

-----------------------------------------------------------------------------
(* Theorems. *)

FocusInv == TypeOK /\ TreeIInv

LEMMA FocusAlways == Spec => []FocusInv
  <1>1. Init => FocusInv
    <2> SUFFICES ASSUME Init PROVE FocusInv
      OBVIOUS
    <2>1. TreeIInv
      BY InitTree, InitStacked DEF Init, TreeIInv
    <2>2. TypeOK
      BY <2>1 DEF Init, TypeOK, TreeIInv, TreeInv, RevertTo
    <2> QED BY <2>1, <2>2 DEF FocusInv
  <1>2. FocusInv /\ [Next]_vars => FocusInv'
    <2> SUFFICES ASSUME FocusInv, [Next]_vars PROVE FocusInv'
      OBVIOUS
    <2>1. TreeIInv'
      BY HandlersAreTreeSteps, TreeStep, StackedStep DEF FocusInv, TreeIInv
    <2>2. Root \in exists' /\ TreeTypeOK'
      BY <2>1 DEF TreeIInv, TreeInv, ServerWindows
    <2>3. Pointers'
      BY <2>2, FocusStep DEF FocusInv, TreeIInv
    <2> QED BY <2>1, <2>2, <2>3 DEF FocusInv, TypeOK, Pointers
  <1> QED BY <1>1, <1>2, PTL DEF Spec

\* The focus is a window of the tree, None or PointerRoot, wherever a revert
\* leaves it: the walk up from a window that goes always ends at one that will
\* do, or at the root (revert_core_focus_from).
THEOREM FocusTyped == Spec => []TypeOK
  <1>1. FocusInv => TypeOK
    BY DEF FocusInv
  <1> QED BY <1>1, FocusAlways, PTL

\* A focus that moves, by request or by revert, lands on a window that can be
\* seen once the handler is done, on the root, or nowhere
\* (handle_set_input_focus, revert_core_focus_from).
THEOREM FocusLandsOnViewable == Spec => FocusMovesToViewable
  <1>1. FocusInv /\ FocusInv' /\ [Next]_vars =>
            [focus' # focus /\ focus' \in All \ {Root}
                => SeenViewable(focus', exists', mapState')]_vars
    BY FocusStep DEF FocusInv, TreeIInv, TreeInv, ServerWindows, MovesToViewable
  <1> QED BY <1>1, FocusAlways, PTL DEF Spec, FocusMovesToViewable

\* The focus is left on a window that is gone only by the end of a client and
\* by the last release of the COW, whose handlers do not look at it; a grab by
\* these two, or by having been taken on a window that is gone, which neither
\* XIGrabDevice nor a passive grab rules out.  No request that destroys or
\* unmaps leaves either there (destroy_window_subtree,
\* release_core_grabs_for_unviewable).
THEOREM RequestsKeepTargets == Spec => TargetsSurvive
  <1>1. FocusInv /\ FocusInv' /\ [Next]_vars =>
            [\/ /\ FocusExists => FocusExists'
                /\ \/ GrabExists => GrabExists'
                   \/ \E c \in Client, w \in All : XIGrabDevice(c, w) \/ KeyPressed(c, w)
             \/ \E c \in Client : Disconnect(c)
             \/ ReleaseOverlayWindow]_vars
    BY FocusStep DEF FocusInv, TreeIInv, TreeInv, ServerWindows, Kept, FocusKept, GrabKept
  <1> QED BY <1>1, FocusAlways, PTL DEF Spec, TargetsSurvive

=============================================================================
