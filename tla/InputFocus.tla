------------------------------ MODULE InputFocus ------------------------------
(***************************************************************************)
(* The window tree together with what points into it: the core keyboard    *)
(* focus and the active core keyboard grab (process_request.rs,            *)
(* process_disconnect.rs).  Every request that unmaps or destroys windows  *)
(* also reverts the focus and releases the grab, in the same handler.      *)
(*                                                                         *)
(* The timestamps SetInputFocus, GrabKeyboard and UngrabKeyboard are       *)
(* checked against are left out: each such request may also be ignored.    *)
(***************************************************************************)
EXTENDS WindowTree

CONSTANTS
    None,           \* focus value 0
    PointerRoot     \* focus value 1

ASSUME FocusAssumption ==
    /\ None \notin All
    /\ PointerRoot \notin All
    /\ None # PointerRoot
    /\ None \notin Client

VARIABLES
    focus,      \* core_focus.raw
    revertTo,   \* core_focus.revert_to
    grab        \* active_keyboard_grab: its owner and window

vars == <<treeVars, focus, revertTo, grab>>

RevertTo == {"None", "PointerRoot", "Parent"}
Grabs == [owner : Client, window : All]
NoGrab == [owner |-> None, window |-> None]

TypeOK ==
    /\ TreeTypeOK
    /\ focus \in All \cup {None, PointerRoot}
    /\ revertTo \in RevertTo
    /\ grab \in Grabs \cup {NoGrab}

Init ==
    /\ TreeInit
    /\ focus = PointerRoot
    /\ revertTo = "None"
    /\ grab = NoGrab

-----------------------------------------------------------------------------
(* Reverting.                                                              *)

\* Mutant of NearestViewable: the parent, viewable or not.
NearestViewable_Parent(w, m, dying) == IF parent[w] \in exists THEN parent[w] ELSE Root

\* revert_core_focus_from's walk: the nearest ancestor that is Viewable
\* under the map states m and not dying; the root when there is none.
NearestViewable(w, m, dying) ==
    LET good == {a \in (Ancestors(w) \cap exists) \ (dying \cup {Root}) : m[a] = "Viewable"}
    IN  IF good = {} THEN Root
        ELSE CHOOSE a \in good : \A b \in good \ {a} : b \in Ancestors(a)

\* revert_core_focus_from: revert_to falls to None only with Parent.
RevertFocus(m, dying) ==
    /\ focus' = CASE revertTo = "Parent" -> NearestViewable(focus, m, dying)
                  [] revertTo = "PointerRoot" -> PointerRoot
                  [] revertTo = "None" -> None
    /\ revertTo' = IF revertTo = "Parent" THEN "None" ELSE revertTo

\* core_focus.raw names a window; the root never reverts.
FocusIsWindow == focus \notin {None, PointerRoot, Root}

KeepFocus == UNCHANGED <<focus, revertTo>>

\* The handlers look at the window's own map state.
SeenViewable(w, e, m) == w \in e /\ m[w] = "Viewable"

\* revert_core_focus_if_unviewable, on the state after the unmap.
RevertIfUnviewable ==
    IF FocusIsWindow /\ ~SeenViewable(focus, exists', mapState')
    THEN RevertFocus(mapState', {}) ELSE KeepFocus

\* Mutant of RevertIfDying: the walk does not know what else is dying.
RevertIfDying_Unaware(order) ==
    IF FocusIsWindow /\ focus \in order
    THEN RevertFocus(mapState, {}) ELSE KeepFocus

\* destroy_window_subtree: before the windows `order` go.
RevertIfDying(order) ==
    IF FocusIsWindow /\ focus \in order
    THEN RevertFocus(mapState, order) ELSE KeepFocus

\* release_core_grabs_for_unviewable, on the state after the change.
ReleaseGrab ==
    grab' = IF grab # NoGrab /\ ~SeenViewable(grab.window, exists', mapState')
            THEN NoGrab ELSE grab

Keep == KeepFocus /\ UNCHANGED grab

(* The requests that unmap or destroy.                                     *)

Unmap(w) == UnmapWindow(w) /\ RevertIfUnviewable /\ ReleaseGrab

UnmapChildren(p) == UnmapSubwindows(p) /\ RevertIfUnviewable /\ ReleaseGrab

\* collect_destroy_order does not stop at the root; the root only survives
\* destroy_window.
Destroy(w) == DestroyWindow(w) /\ RevertIfDying(Subtree(w)) /\ ReleaseGrab

DestroyChildren(p) ==
    /\ DestroySubwindows(p)
    /\ RevertIfDying(UNION {Subtree(w) : w \in children[p] \cap exists})
    /\ IF children[p] \cap exists = {} THEN UNCHANGED grab ELSE ReleaseGrab

\* A client goes (process_disconnect; for a retained one, later,
\* destroy_zombie_resources): its windows and its own grab; neither the
\* focus nor another client's grab is looked at.
Disconnect(c) ==
    /\ DestroyOwned(c)
    /\ grab' = IF grab.owner = c THEN NoGrab ELSE grab
    /\ KeepFocus

-----------------------------------------------------------------------------
(* The requests about the focus and the grab.                              *)

SetInputFocus(f, r) ==
    /\ f \in All => SeenViewable(f, exists, mapState)
    /\ focus' = f
    /\ revertTo' = r
    /\ UNCHANGED <<treeVars, grab>>

GrabKeyboard(c, w) ==
    /\ grab.owner \in {c, None}
    /\ SeenViewable(w, exists, mapState)
    /\ grab' = [owner |-> c, window |-> w]
    /\ UNCHANGED treeVars
    /\ KeepFocus

\* XIGrabDevice for the master keyboard: any window id, alive or not, and
\* whoever has the keyboard.
XIGrabDevice(c, w) ==
    /\ grab' = [owner |-> c, window |-> w]
    /\ UNCHANGED treeVars
    /\ KeepFocus

\* find_key_grab: the windows whose passive grabs a key finds, from the focus
\* up; with PointerRoot from the window under the pointer.
KeyPath(f) == {f, Root} \cup Ancestors(f)
KeyStarts  == CASE focus = None        -> {Root}
                [] focus = PointerRoot -> exists
                [] OTHER               -> {focus}

\* A key activates a passive grab of c on w.  Those outlive their windows.
KeyPressed(c, w) ==
    /\ grab = NoGrab
    /\ \E f \in KeyStarts : w \in KeyPath(f)
    /\ grab' = [owner |-> c, window |-> w]
    /\ UNCHANGED treeVars
    /\ KeepFocus

\* Also XIUngrabDevice, the release of the key of a passive grab, and an
\* AllowEvents that replays the event.
UngrabKeyboard(c) ==
    /\ grab.owner = c
    /\ grab' = NoGrab
    /\ UNCHANGED treeVars
    /\ KeepFocus

-----------------------------------------------------------------------------

Tree ==
    \/ \E w \in Window, p \in All : CreateWindow(w, p)
    \/ \E w, p \in All : ReparentWindow(w, p)
    \/ \E w \in All : ConfigureWindow(w)
    \/ \E p \in All, d \in {0, 1} : CirculateWindow(p, d)
    \/ \E w \in All : MapWindow(w)
    \/ \E p \in All : MapSubwindows(p)
    \/ GetOverlayWindow
    \/ ReleaseOverlayWindow

Next ==
    \/ Tree /\ Keep
    \/ \E w \in All : Unmap(w) \/ Destroy(w)
    \/ \E p \in All : UnmapChildren(p) \/ DestroyChildren(p)
    \/ \E c \in Client : Disconnect(c) \/ UngrabKeyboard(c)
    \/ \E f \in All \cup {None, PointerRoot}, r \in RevertTo : SetInputFocus(f, r)
    \/ \E c \in Client, w \in All : \/ GrabKeyboard(c, w)
                                    \/ XIGrabDevice(c, w)
                                    \/ KeyPressed(c, w)

Spec == Init /\ [][Next]_vars

-----------------------------------------------------------------------------
(* Properties.                                                             *)

\* The focus is on a window that is there; so is the grab.
FocusExists == focus \in All => focus \in exists
GrabExists == grab # NoGrab => grab.window \in exists

\* The focus is left on a window that is gone only by a client's end and by
\* the release of the COW; a grab by these, or because it was taken on such a
\* window.  No request that destroys or unmaps windows leaves either there
\* (destroy_window_subtree, revert_core_focus_from,
\* release_core_grabs_for_unviewable).
TargetsSurvive ==
    [][ \/ /\ FocusExists => FocusExists'
           /\ \/ GrabExists => GrabExists'
              \/ \E c \in Client, w \in All : XIGrabDevice(c, w) \/ KeyPressed(c, w)
        \/ \E c \in Client : Disconnect(c)
        \/ ReleaseOverlayWindow ]_vars

\* Wherever the focus moves, by request or by revert, it finds the root or a
\* window that exists and is Viewable afterwards (handle_set_input_focus,
\* revert_core_focus_from).
FocusMovesToViewable ==
    [][ focus' # focus /\ focus' \in All \ {Root}
           => SeenViewable(focus', exists', mapState') ]_vars

\* handle_unmap_window says the revert covers any unmapped ancestor: the
\* focus does not stay below a window that is unmapped.
UnmapReverts ==
    [][ \A w \in All :
           Unmap(w) /\ focus \in exists /\ IsDescendantOf(focus, w) => focus' # focus ]_vars
=============================================================================
