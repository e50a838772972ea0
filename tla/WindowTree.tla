------------------------------ MODULE WindowTree ------------------------------
(***************************************************************************)
(* The window tree of xserver-core (resources.rs): which windows exist,    *)
(* their parents, each parent's list of children, their map states, and    *)
(* the Composite Overlay Window (COW), which is a child of the root while  *)
(* it is claimed and is kept on top of it.                                 *)
(*                                                                         *)
(* A `children` vector is modelled by its members and the strict order     *)
(* `stack` of who is below whom.  Geometry is left out: whether two        *)
(* siblings overlap is a free choice in Configure.  Redirection to a       *)
(* window manager (MapRequest and its like) turns a request into an event  *)
(* and leaves the tree alone: such a request is a step of no action here.  *)
(*                                                                         *)
(* This module has the operations; InputFocus composes them with the       *)
(* keyboard focus and the keyboard grab, and has the specification.        *)
(***************************************************************************)
EXTENDS Naturals

CONSTANTS
    Window,     \* the ids clients create windows under
    Client,
    OwnerOf,    \* Window -> Client: ids come from their client's own range
    Root, Cow,  \* the two windows the server owns
    MaxClaims   \* bound on the claims of the COW held at a time

All == Window \cup {Root, Cow}

ASSUME IdsAssumption ==
    /\ Root \notin Window
    /\ Cow \notin Window
    /\ Root # Cow
    /\ OwnerOf \in [Window -> Client]
    /\ MaxClaims \in Nat

VARIABLES
    exists,     \* the keys of ResourceTable::windows
    parent,     \* Window::parent
    children,   \* the members of Window::children
    stack,      \* <<x, y>> \in stack[p]: x is somewhere below y under p
    mapState,   \* Window::map_state
    cowRefs,    \* the backend's cow_refcount
    torn        \* history: the last claim went while the COW was not below the root

treeVars == <<exists, parent, children, stack, mapState, cowRefs, torn>>

MapStates == {"Unmapped", "Unviewable", "Viewable"}

TreeTypeOK ==
    /\ exists \subseteq All
    /\ parent \in [All -> All]
    /\ children \in [All -> SUBSET All]
    /\ stack \in [All -> SUBSET (All \X All)]
    /\ mapState \in [All -> MapStates]
    /\ cowRefs \in 0..MaxClaims
    /\ torn \in BOOLEAN

TreeInit ==
    /\ exists = {Root}
    /\ parent = [w \in All |-> Root]
    /\ children = [w \in All |-> {}]
    /\ stack = [w \in All |-> {}]
    /\ mapState = [w \in All |-> IF w = Root THEN "Viewable" ELSE "Unmapped"]
    /\ cowRefs = 0
    /\ torn = FALSE

-----------------------------------------------------------------------------
(* Sibling lists.                                                          *)

\* cow_aware_top_index: the COW is the last of the members C ordered by R.
CowIsTop(C, R) == Cow \in C /\ \A x \in C \ {Cow} : <<x, Cow>> \in R

\* What a window put on top still has above it.
AboveTop(C, R) == IF CowIsTop(C, R) THEN {Cow} ELSE {}

\* The order R after w has left it.
Lifted(R, w) == {e \in R : e[1] # w /\ e[2] # w}

\* The order R on C after w has come in below the members `upper`.
Placed(C, R, w, upper) ==
    R \cup {<<x, w>> : x \in C \ upper} \cup {<<w, x>> : x \in upper}

\* The order of p's list after w moved, or came, below the others in `upper`.
Restacked(p, w, upper) == Placed(children[p] \ {w}, Lifted(stack[p], w), w, upper)

\* Above w when it is put on top of p's list.
TopSlot(p, w) == AboveTop(children[p] \ {w}, Lifted(stack[p], w))

-----------------------------------------------------------------------------
(* Walks.  What is reachable from w along `next`: the members of every set *)
(* that holds w and is closed under next.                                  *)

Reachable(w, next) ==
    LET Closed == {S \in SUBSET All : w \in S /\ \A y \in S : next[y] \subseteq S}
    IN  {x \in All : \A S \in Closed : x \in S}

\* collect_destroy_order, destroy_window_inner: w and what hangs below it.
Subtree(w) == Reachable(w, [y \in All |-> children[y] \cap exists])

\* Along the parents, up to the root or to a window that is gone.
Ancestors(w) ==
    Reachable(parent[w], [y \in All |-> IF y \in exists \ {Root} THEN {parent[y]} ELSE {}])

IsDescendantOf(candidate, ancestor) ==
    candidate \in exists \ {Root} /\ ancestor \in Ancestors(candidate)

\* Mutant of MappedBelow: only the children.
MappedBelow_ChildrenOnly(w) == {x \in children[w] \cap exists : mapState[x] # "Unmapped"}

\* promote_unviewable_descendants stops at windows that are not mapped.
MappedBelow(w) ==
    Reachable(w, [y \in All |-> {x \in children[y] \cap exists : mapState[x] # "Unmapped"}])
        \ {w}

(* The requests.                                                           *)

CreateWindow(w, p) ==
    /\ w \in Window \ exists
    /\ p \in exists
    /\ exists' = exists \cup {w}
    /\ parent' = [parent EXCEPT ![w] = p]
    /\ stack' = [stack EXCEPT ![p] = Restacked(p, w, TopSlot(p, w))]
    /\ children' = [children EXCEPT ![p] = @ \cup {w}]
    /\ UNCHANGED <<mapState, cowRefs, torn>>

\* The windows Dead go, each with its own list and out of its parent's.
Destroyed(Dead) ==
    LET gone(w) == {x \in Dead : parent[x] = w} IN
    /\ exists' = exists \ Dead
    /\ parent' = [w \in All |-> IF w \in Dead THEN Root ELSE parent[w]]
    /\ children' = [w \in All |-> IF w \in Dead THEN {} ELSE children[w] \ gone(w)]
    /\ stack' = [w \in All |->
                    IF w \in Dead THEN {}
                    ELSE {e \in stack[w] : e[1] \notin gone(w) /\ e[2] \notin gone(w)}]
    /\ mapState' = [w \in All |-> IF w \in Dead THEN "Unmapped" ELSE mapState[w]]
    /\ UNCHANGED <<cowRefs, torn>>

\* destroy_window_inner leaves the root, and with it all its children, alone.
DestroyedBy(w) == IF w = Root THEN {} ELSE Subtree(w)

DestroyWindow(w) == w \in exists /\ Destroyed(DestroyedBy(w))

DestroySubwindows(p) ==
    p \in exists /\ Destroyed(UNION {Subtree(w) : w \in children[p] \cap exists})

\* collect_owned_window_roots; the server's own windows have no client.
Owned(c) == {w \in Window \cap exists : OwnerOf[w] = c}

\* Mutant of OwnedRoots: only top-level windows.
OwnedRoots_TopLevel(c) == {w \in Owned(c) : parent[w] = Root}

OwnedRoots(c) == {w \in Owned(c) : parent[w] \notin Owned(c)}

\* process_disconnect and destroy_zombie_resources, for the windows.
DestroyOwned(c) == Destroyed(UNION {Subtree(w) : w \in OwnedRoots(c)})

\* Mutant of ReparentWindow: a window may go below its own descendant.
ReparentWindow_NoCycleCheck(w, p) ==
    /\ w \in exists \ {Root}
    /\ p \in exists \ {w}
    /\ LET old == parent[w]
           kids == [children EXCEPT ![old] = @ \ {w}]
           order == [stack EXCEPT ![old] = Lifted(@, w)]
       IN  /\ stack' = [order EXCEPT ![p] =
                           Placed(kids[p], @, w, AboveTop(kids[p], @))]
           /\ children' = [kids EXCEPT ![p] = @ \cup {w}]
    /\ parent' = [parent EXCEPT ![w] = p]
    /\ UNCHANGED <<exists, mapState, cowRefs, torn>>

ReparentWindow(w, p) ==
    /\ w \in exists \ {Root}
    /\ p \in exists \ {w}
    /\ ~IsDescendantOf(p, w)
    /\ LET old == parent[w]
           kids == [children EXCEPT ![old] = @ \ {w}]
           order == [stack EXCEPT ![old] = Lifted(@, w)]
       IN  /\ stack' = [order EXCEPT ![p] =
                           Placed(kids[p], @, w, AboveTop(kids[p], @))]
           /\ children' = [kids EXCEPT ![p] = @ \cup {w}]
    /\ parent' = [parent EXCEPT ![w] = p]
    /\ UNCHANGED <<exists, mapState, cowRefs, torn>>

Restack(w, upper) ==
    /\ stack' = [stack EXCEPT ![parent[w]] = Restacked(parent[w], w, upper)]
    /\ UNCHANGED <<exists, parent, children, mapState, cowRefs, torn>>

\* A window whose parent is gone is in no list, and is not restacked.
Listed(w) == w \in exists \ {Root} /\ parent[w] \in exists /\ w \in children[parent[w]]

Siblings(w) == children[parent[w]] \ {w}

Above(w) == {x \in Siblings(w) : <<w, x>> \in stack[parent[w]]}

RaiseWindow(w) == Listed(w) /\ Restack(w, TopSlot(parent[w], w))

LowerWindow(w) == Listed(w) /\ Restack(w, Siblings(w))

\* Mutant of StackAbove: directly above the COW when it is the sibling.
StackAbove_NoCap(w, sibling) ==
    /\ Listed(w)
    /\ sibling \in Siblings(w) /\ parent[sibling] = parent[w]
    /\ Restack(w, Above(sibling) \ {w})

\* Nothing lands above the COW, whatever it names as its sibling.
StackAbove(w, sibling) ==
    /\ Listed(w)
    /\ sibling \in Siblings(w) /\ parent[sibling] = parent[w]
    /\ Restack(w, IF sibling = Cow THEN TopSlot(parent[w], w) ELSE Above(sibling) \ {w})

StackBelow(w, sibling) ==
    /\ Listed(w)
    /\ sibling \in Siblings(w) /\ parent[sibling] = parent[w]
    /\ Restack(w, {sibling} \cup (Above(sibling) \ {w}))

\* handle_configure_window; TopIf, BottomIf and Opposite raise, lower or do
\* nothing, depending on what the siblings' geometry covers.
ConfigureWindow(w) ==
    \/ RaiseWindow(w)
    \/ LowerWindow(w)
    \/ \E sibling \in All : StackAbove(w, sibling) \/ StackBelow(w, sibling)

\* The COW takes no part when it is on top of the root.
Circulating(p) ==
    children[p] \ (IF p = Root THEN AboveTop(children[p], stack[p]) ELSE {})

\* Mutant of CirculateWindow: the two ends change places.
CirculateWindow_Swap(p, direction) ==
    LET kids == Circulating(p) IN
    /\ p \in exists
    /\ direction \in {0, 1}
    /\ \E w, x \in kids :
          /\ w # x
          /\ \A y \in kids \ {w} : <<y, w>> \in stack[p]
          /\ \A y \in kids \ {x} : <<x, y>> \in stack[p]
          /\ LET other(y) == IF y = w THEN x ELSE IF y = x THEN w ELSE y
             IN  stack' = [stack EXCEPT ![p] = {<<other(e[1]), other(e[2])>> : e \in @}]
    /\ UNCHANGED <<exists, parent, children, mapState, cowRefs, torn>>

CirculateWindow(p, direction) ==
    LET kids == Circulating(p) IN
    /\ p \in exists
    /\ \E w, x \in kids : w # x
    /\ \E w \in kids :
          \/ /\ direction = 0
             /\ \A x \in kids \ {w} : <<x, w>> \in stack[p]
             /\ stack' = [stack EXCEPT ![p] = Restacked(p, w, children[p] \ {w})]
          \/ /\ direction = 1
             /\ \A x \in kids \ {w} : <<w, x>> \in stack[p]
             /\ stack' = [stack EXCEPT ![p] = Restacked(p, w, children[p] \ kids)]
    /\ UNCHANGED <<exists, parent, children, mapState, cowRefs, torn>>

-----------------------------------------------------------------------------
(* Map states.                                                             *)

\* map_window on each window of M, children of one parent: Viewable below a
\* Viewable parent, and then so is what is mapped below it.
Mapped(M, viewable) ==
    /\ mapState' = [w \in All |->
           IF w \in M THEN (IF viewable THEN "Viewable" ELSE "Unviewable")
           ELSE IF viewable /\ \E x \in M : w \in MappedBelow(x) THEN "Viewable"
           ELSE mapState[w]]
    /\ UNCHANGED <<exists, parent, children, stack, cowRefs, torn>>

ParentViewable(w) == parent[w] \in exists /\ mapState[parent[w]] = "Viewable"

\* A window that is mapped already is left alone.
MapWindow(w) ==
    /\ w \in exists
    /\ mapState[w] = "Unmapped"
    /\ Mapped({w}, ParentViewable(w))

\* Every child, the mapped ones too.
MapSubwindows(p) ==
    p \in exists /\ Mapped(children[p] \cap exists, mapState[p] = "Viewable")

\* unmap_window changes the window itself and nothing below it.
Unmapped(M) ==
    /\ mapState' = [w \in All |-> IF w \in M THEN "Unmapped" ELSE mapState[w]]
    /\ UNCHANGED <<exists, parent, children, stack, cowRefs, torn>>

UnmapWindow(w) ==
    w \in exists \ {Root} /\ mapState[w] # "Unmapped" /\ Unmapped({w})

UnmapSubwindows(p) ==
    /\ p \in exists
    /\ Unmapped({w \in children[p] \cap exists : mapState[w] # "Unmapped"})

-----------------------------------------------------------------------------
(* The Composite Overlay Window.                                           *)

\* The first claim materialises the COW; later ones only count.
GetOverlayWindow ==
    /\ cowRefs < MaxClaims
    /\ cowRefs' = cowRefs + 1
    /\ UNCHANGED torn
    /\ IF cowRefs = 0
       THEN /\ exists' = exists \cup {Cow}
            /\ parent' = [parent EXCEPT ![Cow] = Root]
            /\ stack' = [stack EXCEPT ![Root] = Restacked(Root, Cow, {})]
            /\ children' = [children EXCEPT ![Root] = @ \cup {Cow}, ![Cow] = {}]
            /\ mapState' = [mapState EXCEPT ![Cow] = "Viewable"]
       ELSE UNCHANGED <<exists, parent, children, stack, mapState>>

\* A list other than the root's holds the COW: a client has reparented it.
CowElsewhere == \E p \in All \ {Root} : Cow \in children[p]

\* Mutant of ReleaseOverlayWindow: a release without a claim is counted.
ReleaseOverlayWindow_Unmatched ==
    /\ cowRefs' = cowRefs - 1
    /\ IF cowRefs = 1
       THEN /\ exists' = exists \ {Cow}
            /\ children' = [children EXCEPT ![Root] = @ \ {Cow}, ![Cow] = {}]
            /\ stack' = [stack EXCEPT ![Root] = Lifted(@, Cow), ![Cow] = {}]
            /\ parent' = [parent EXCEPT ![Cow] = Root]
            /\ mapState' = [mapState EXCEPT ![Cow] = "Unmapped"]
            /\ torn' = (torn \/ CowElsewhere)
       ELSE UNCHANGED <<exists, parent, children, stack, mapState, torn>>

\* The last release takes the COW out of the root's list, and no other, and
\* drops it; its children stay, naming a parent that is gone.  Left in another
\* list and claimed again, the COW may then be in two, or twice in one, and the
\* lists in a circle, in which the walks of the code do not end.
ReleaseOverlayWindow ==
    /\ cowRefs > 0
    /\ cowRefs' = cowRefs - 1
    /\ IF cowRefs = 1
       THEN /\ exists' = exists \ {Cow}
            /\ children' = [children EXCEPT ![Root] = @ \ {Cow}, ![Cow] = {}]
            /\ stack' = [stack EXCEPT ![Root] = Lifted(@, Cow), ![Cow] = {}]
            /\ parent' = [parent EXCEPT ![Cow] = Root]
            /\ mapState' = [mapState EXCEPT ![Cow] = "Unmapped"]
            /\ torn' = (torn \/ CowElsewhere)
       ELSE UNCHANGED <<exists, parent, children, stack, mapState, torn>>

TreeNext ==
    \/ \E w \in Window, p \in All : CreateWindow(w, p)
    \/ \E w, p \in All : ReparentWindow(w, p)
    \/ \E w \in All : ConfigureWindow(w)
    \/ \E p \in All, d \in {0, 1} : CirculateWindow(p, d)
    \/ \E w \in All : MapWindow(w) \/ UnmapWindow(w)
    \/ \E p \in All : MapSubwindows(p) \/ UnmapSubwindows(p)
    \/ \E w \in All : DestroyWindow(w) \/ DestroySubwindows(w)
    \/ \E c \in Client : DestroyOwned(c)
    \/ GetOverlayWindow
    \/ ReleaseOverlayWindow

TreeSpec == TreeInit /\ [][TreeNext]_treeVars

-----------------------------------------------------------------------------
(* Properties.                                                             *)

\* Lists and parents agree: what a list holds exists and names that parent,
\* and every window but the root is in its parent's list.  Windows left behind
\* by a released COW are in no list; the COW alone may be left in a list it
\* does not belong to, once it was released from elsewhere than the root.
\* (reparent_window, destroy_window_inner, destroy_cow_resource.)
ListsAgree ==
    /\ \A p \in All : \A w \in children[p] :
          /\ p \in exists
          /\ (w = Cow => ~torn) => w \in exists /\ parent[w] = p
    /\ \A w \in exists \ {Root} : parent[w] # Cow => Listed(w)

StrictlyOrders(R, C) ==
    /\ R \subseteq C \X C
    /\ \A x \in C : <<x, x>> \notin R
    /\ \A x, y \in C : x # y => <<x, y>> \in R \/ <<y, x>> \in R
    /\ \A x, y, z \in C : <<x, y>> \in R /\ <<y, z>> \in R => <<x, z>> \in R

\* The lists are strictly ordered, as long as none may hold the COW twice.
StrictlyStacked == ~torn => \A p \in All : StrictlyOrders(stack[p], children[p])

\* No window is its own ancestor: every set of windows has one whose parent
\* is outside.
NoCycle ==
    \A S \in SUBSET (exists \ {Root}) : S # {} => \E w \in S : parent[w] \notin S

\* The root stays, and the COW exists only while it is claimed, so that
\* materialize_cow_resource never finds one.
ServerWindows ==
    /\ Root \in exists
    /\ Root \notin UNION {children[p] : p \in All}
    /\ Cow \in exists => cowRefs > 0

TreeConsistent == ListsAgree /\ StrictlyStacked /\ NoCycle /\ ServerWindows

\* The COW stays the topmost child of the root whatever is requested of the
\* other windows (cow_aware_top_index, RestackAction::AboveSibling,
\* circulate_window).
CowStaysOnTop ==
    [][ ~torn /\ CowIsTop(children[Root], stack[Root]) /\ Cow \in exists'
           => \/ CowIsTop(children[Root], stack[Root])'
              \/ ConfigureWindow(Cow)
              \/ \E p \in All : ReparentWindow(Cow, p) ]_treeVars

\* A window that becomes Viewable takes its mapped children with it, and so
\* all that is mapped below it (map_window, promote_unviewable_descendants).
MapReveals ==
    [][ \A w \in exists :
           mapState[w] # "Viewable" /\ mapState'[w] = "Viewable"
              => \A x \in children[w] \cap exists :
                    mapState[x] # "Unmapped" => mapState'[x] = "Viewable" ]_treeVars

\* A request moves at most one of the siblings that stay; the others keep
\* their order (restack_window, circulate_window, reparent_window).
OneMovesAtATime ==
    [][ ~torn => \A p \in All : \E moved \in All :
           \A x, y \in (children[p] \cap children'[p]) \ {moved} :
               <<x, y>> \in stack[p] <=> <<x, y>> \in stack'[p] ]_treeVars

\* A client that goes leaves none of its windows, wherever in the tree other
\* clients have put them (collect_owned_window_roots, process_disconnect).
LeavesNothing ==
    [][ \A c \in Client : Owned(c)' # {} /\ exists' # exists => ~DestroyOwned(c) ]_treeVars
=============================================================================
