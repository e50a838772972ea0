---------------------------- MODULE DeviceGrabs ----------------------------
(***************************************************************************)
(* Core and XI2 grabs of the pointer and the keyboard, and the freezing of *)
(* the two devices by synchronous grabs (process_request.rs,               *)
(* pointer_fanout.rs, key_fanout.rs, process_disconnect.rs).  A frozen     *)
(* device withholds its events; AllowEvents, or the end of the grab, lets  *)
(* them go.  Replaying one may itself start or end a grab and so thaw and  *)
(* replay again, inside the first replay.                                  *)
(*                                                                         *)
(* Left out: XI 1.x device grabs, motion (withheld and delivered like a    *)
(* button event, but starts, ends and freezes nothing), confinement, a     *)
(* keyboard focus of None (which drops a replayed key), further buttons    *)
(* (a passive grab ends with the release of any), the                      *)
(* timestamps (each request that carries one may also be ignored), the     *)
(* windows (a grab window may stop being viewable at any time) and the     *)
(* requests that register passive grabs: a press reads what is registered, *)
(* nothing else does, so each step finds any grab a client could have      *)
(* registered since the last one, or none.                                 *)
(***************************************************************************)
EXTENDS Naturals, FiniteSets, Sequences

CONSTANTS
    Client,
    Key,
    None,
    MaxHeld         \* events withheld per device

KeyEvent == [key : Key, down : BOOLEAN]

ASSUME GrabAssumption ==
    /\ None \notin Client
    /\ None \notin Key
    /\ None \notin KeyEvent
    /\ "focus" \notin Client
    /\ MaxHeld \in Nat

\* Xi1SyncState; frozen() compares with >=.
Thawed == 0
FreezeNextEvent == 1
FreezeBothNextEvent == 2
FrozenNoEvent == 3
FrozenWithEvent == 4

Device == {"pointer", "keyboard"}
Mode == {"AsyncPointer", "SyncPointer", "ReplayPointer", "AsyncKeyboard",
         "SyncKeyboard", "ReplayKeyboard", "AsyncBoth", "SyncBoth"}
ButtonEvent == {"press", "release"}
Owner == Client \cup {None}

\* this, paired: synchronous for the device itself, for the other one.
\* wants: the owner is told of the activating press (a synchronous grab
\* freezes the pointer either way).
ButtonGrab ==
    {g \in [owner : Client, this : BOOLEAN, paired : BOOLEAN, wants : BOOLEAN] :
        g.wants => g.this}
KeyGrab == [owner : Client, key : Key, this : BOOLEAN, paired : BOOLEAN]

VARIABLES
    srv,            \* the fields of ServerState named in TypeOK
    keysDown,       \* keys physically down
    buttonDown      \* the button is physically down

vars == <<srv, keysDown, buttonDown>>

NoGrab == [owner |-> None, key |-> None]

Server ==
    [pgrab : Owner,                 \* pointer_grab
     passive : BOOLEAN,             \* pointer_grab_is_passive
     active : Owner,                \* active_pointer_grab
     kgrab : {NoGrab} \cup [owner : Client, key : Key \cup {None}],
                                    \* active_keyboard_grab; key: PassiveKey
     keyGrabs : SUBSET KeyGrab,     \* those the last step found registered
     request : (Mode \cup {"Disconnect", "none"}) \X Owner,
                                    \* what the last step did for whom
     sync : [Device -> 0..4],       \* xi1_frozen[d].state
     other : [Device -> Owner],     \* xi1_frozen[d].other
     forms : [Device -> Nat],       \* xi1_frozen[d].queue, its length
     press : BOOLEAN,               \* frozen_pointer_event is some
     pqueue : Seq(ButtonEvent),     \* frozen_pointer_queue
     heldKey : KeyEvent \cup {None},        \* frozen_keyboard_event
     keys : Seq(KeyEvent),          \* xi1_frozen[keyboard].core_key_queue
     out : Seq([to : Client \cup {"focus"}, key : KeyEvent])]
                                    \* the keys the last step delivered

TypeOK ==
    /\ srv \in Server
    /\ keysDown \in SUBSET Key
    /\ buttonDown \in BOOLEAN

Init ==
    /\ srv = [pgrab |-> None, passive |-> FALSE, active |-> None, kgrab |-> NoGrab,
              keyGrabs |-> {}, request |-> <<"none", None>>,
              sync |-> [d \in Device |-> Thawed], other |-> [d \in Device |-> None],
              forms |-> [d \in Device |-> 0],
              press |-> FALSE, pqueue |-> <<>>, heldKey |-> None, keys |-> <<>>,
              out |-> <<>>]
    /\ keysDown = {}
    /\ buttonDown = FALSE

-----------------------------------------------------------------------------
(* Freezing and thawing: functions from a state s of the server to the     *)
(* next one.                                                               *)

Peer(d) == IF d = "pointer" THEN "keyboard" ELSE "pointer"

Frozen(s, d) == s.other[d] # None \/ s.sync[d] >= FrozenNoEvent

\* xi1_device_grab_owner: an activated button grab is not looked at.
BridgedOwner(s, d) == IF d = "pointer" THEN s.active ELSE s.kgrab.owner

\* apply_allow_events' grab_owner_of.
GrabOwner(s, d) ==
    IF BridgedOwner(s, d) # None \/ d = "keyboard" THEN BridgedOwner(s, d) ELSE s.pgrab

\* xi1_freeze_this_event_if_needed: an armed freeze trips.
Trip(s, d, o) ==
    LET p == Peer(d)
        both == IF s.sync[p] = FreezeBothNextEvent /\ BridgedOwner(s, p) = o
                THEN [s EXCEPT !.sync[p] = FrozenNoEvent]
                ELSE [s EXCEPT !.other[p] = o]
    IN  CASE s.sync[d] = FreezeBothNextEvent -> [both EXCEPT !.sync[d] = FrozenWithEvent]
          [] s.sync[d] = FreezeNextEvent -> [s EXCEPT !.sync[d] = FrozenWithEvent]
          [] OTHER -> s

\* xi1_route_device_event: the XI 1.x form of an event; no XI 1.x grab exists.
DeviceForm(s, d) ==
    IF Frozen(s, d) THEN [s EXCEPT !.forms[d] = @ + 1]
    ELSE IF BridgedOwner(s, d) # None THEN Trip(s, d, BridgedOwner(s, d))
    ELSE s

\* o's grab of d ends: what xi1_core_grab_bridge_release changes itself.
Released(s, d, o) ==
    [s EXCEPT !.sync[d] = Thawed,
              !.other[Peer(d)] = IF @ = o THEN None ELSE @]

\* o's grab of d begins: what xi1_check_grab_for_syncs changes itself.
Checked(s, d, o, this, paired) ==
    [s EXCEPT !.sync[d] = IF this THEN FrozenNoEvent ELSE Thawed,
              !.other[d] = IF ~this /\ @ = o THEN None ELSE @,
              !.other[Peer(d)] = IF paired THEN o ELSE IF @ = o THEN None ELSE @]

-----------------------------------------------------------------------------
(* Replays.  xi1_compute_freezes takes withheld events one by one; a key   *)
(* that starts or ends a grab enters it again before it is delivered.  The *)
(* parameter f is what the loop does from a state on: flush below.         *)

\* xi1_compute_freezes; a thawed pointer drops what AllowEvents did not take.
Compute(f, s) ==
    LET t == f["keyboard"][f["pointer"][s]]
    IN  IF ~Frozen(t, "pointer") /\ ~t.press THEN [t EXCEPT !.pqueue = <<>>] ELSE t

\* The registered key grab that a key event activates.
Activates(s, e) == {g \in s.keyGrabs : e.down /\ s.kgrab = NoGrab /\ g.key = e.key}

Ends(s, e) == s.kgrab # NoGrab /\ s.kgrab.key = e.key /\ ~e.down

\* key_route's effect: a passive grab ends with its key or begins with it.
KeyRouted(f, s, e) ==
    LET g == CHOOSE g \in Activates(s, e) : TRUE
    IN  IF Ends(s, e)
        THEN Compute(f, Released([s EXCEPT !.kgrab = NoGrab, !.heldKey = None],
                                 "keyboard", s.kgrab.owner))
        ELSE IF Activates(s, e) # {}
        THEN Compute(f, Checked([s EXCEPT !.kgrab = [owner |-> g.owner, key |-> e.key]],
                                "keyboard", g.owner, g.this, g.paired))
        ELSE s

Delivered(s, to, e) == [s EXCEPT !.out = Append(@, [to |-> to, key |-> e])]

\* deliver_routed_key: route, hold the activating press of a synchronous
\* grab for a replay, deliver, then the XI 1.x form.
DeliverRoutedKey(f, s, e) ==
    LET g == CHOOSE g \in Activates(s, e) : TRUE
        to == IF s.kgrab # NoGrab THEN s.kgrab.owner
              ELSE IF Activates(s, e) # {} THEN g.owner ELSE "focus"
        r == KeyRouted(f, s, e)
        h == IF Activates(s, e) # {} /\ g.this THEN [r EXCEPT !.heldKey = e] ELSE r
    IN  DeviceForm(Delivered(h, to, e), "keyboard")

\* Mutant of Flushed: takes a key before it looks at the freeze.
Flushed_TakesFirst(f, d, s) ==
    IF d = "keyboard" /\ s.keys # <<>>
    THEN IF Frozen(s, d) THEN [s EXCEPT !.keys = Tail(@)]
         ELSE f[d][DeliverRoutedKey(f, [s EXCEPT !.keys = Tail(@)], Head(s.keys))]
    ELSE IF ~Frozen(s, d) /\ s.forms[d] > 0
    THEN f[d][DeviceForm([s EXCEPT !.forms[d] = @ - 1], d)]
    ELSE s

\* xi1_compute_freezes' loop over one device: core keys before XI 1.x forms.
Flushed(f, d, s) ==
    IF Frozen(s, d) THEN s
    ELSE IF d = "keyboard" /\ s.keys # <<>>
    THEN f[d][DeliverRoutedKey(f, [s EXCEPT !.keys = Tail(@)], Head(s.keys))]
    ELSE IF s.forms[d] > 0
    THEN f[d][DeviceForm([s EXCEPT !.forms[d] = @ - 1], d)]
    ELSE s

\* The loop, when n bounds what is left to replay.
flush[n \in Nat] ==
    [d \in Device |-> [s \in Server |-> IF n = 0 THEN s ELSE Flushed(flush[n - 1], d, s)]]

\* A replayed key may leave an XI 1.x form behind.
Withheld(s) == 2 * Len(s.keys) + s.forms["pointer"] + s.forms["keyboard"]

Replay(s) == flush[Withheld(s)]

ComputeFreezes(s) == Compute(Replay(s), s)

\* Mutant of BridgeRelease: no replay of what was withheld.
BridgeRelease_NoFlush(s, d, o) == Released(s, d, o)

\* Mutant of BridgeRelease: the grab's own device stays as the grab left it.
BridgeRelease_StaysFrozen(s, d, o) ==
    ComputeFreezes([s EXCEPT !.other[Peer(d)] = IF @ = o THEN None ELSE @])

\* xi1_core_grab_bridge_release.
BridgeRelease(s, d, o) == ComputeFreezes(Released(s, d, o))

\* xi1_check_grab_for_syncs.
CheckGrabForSyncs(s, d, o, this, paired) == ComputeFreezes(Checked(s, d, o, this, paired))

\* xi1_thaw_device.
ThawDevice(s, d) == ComputeFreezes([s EXCEPT !.sync[d] = Thawed, !.other[d] = None])

\* deactivate_core_pointer_grab.
DeactivatePointer(s, c) ==
    BridgeRelease([s EXCEPT !.pgrab = None, !.passive = FALSE, !.active = None,
                            !.press = FALSE, !.pqueue = <<>>], "pointer", c)

\* deactivate_core_keyboard_grab.
DeactivateKeyboard(s, c) ==
    IF s.kgrab.owner = c
    THEN BridgeRelease([s EXCEPT !.kgrab = NoGrab, !.heldKey = None], "keyboard", c)
    ELSE s

-----------------------------------------------------------------------------
(* Button events.                                                          *)

\* pointer_event_fanout_to_state's gate.
PointerHeld(s) == Frozen(s, "pointer") \/ (s.passive /\ s.press)

\* release_passive_grab_on_button_release.
ReleasePassive(s, e) ==
    IF e = "release" /\ s.passive
    THEN BridgeRelease([s EXCEPT !.pgrab = None, !.passive = FALSE, !.press = FALSE],
                       "pointer", s.pgrab)
    ELSE s

\* A button grab begins; the press is held for a replay if its owner saw it.
ActivateButtonGrab(s, g) ==
    CheckGrabForSyncs([s EXCEPT !.pgrab = g.owner, !.passive = TRUE,
                                !.press = @ \/ g.wants],
                      "pointer", g.owner, g.this, g.paired)

\* pointer_event_fanout_to_state with the grabs looked at; `match` holds the
\* registered grab that fits, if any.
PointerFanout(s, e, match) ==
    IF PointerHeld(s) THEN [s EXCEPT !.pqueue = Append(@, e)]
    ELSE LET r == ReleasePassive(s, e)
             fits == IF e = "press" /\ r.pgrab = None THEN match ELSE {}
             g == CHOOSE g \in fits : TRUE
         IN  DeviceForm(IF fits = {} THEN r ELSE ActivateButtonGrab(r, g), "pointer")

\* AllowEvents plays the withheld events without looking at grabs.
Play(s, queue) ==
    LET play[n \in Nat] ==
            IF n = 0 THEN s
            ELSE DeviceForm(ReleasePassive(play[n - 1], queue[n]), "pointer")
    IN  play[Len(queue)]

\* key_event_fanout_to_state.
KeyFanout(s, e) ==
    IF Frozen(s, "keyboard") THEN [s EXCEPT !.keys = Append(@, e)]
    ELSE DeliverRoutedKey(Replay(s), s, e)

-----------------------------------------------------------------------------
(* AllowEvents.                                                            *)

PointerModes == {"AsyncPointer", "SyncPointer", "ReplayPointer"}
BothModes == {"AsyncBoth", "SyncBoth"}
Subject(m) == IF m \in PointerModes THEN "pointer" ELSE "keyboard"

\* What the request leaves the devices it names in.
NewState(m) ==
    CASE m \in {"SyncPointer", "SyncKeyboard"} -> FreezeNextEvent
      [] m = "SyncBoth" -> FreezeBothNextEvent
      [] OTHER -> Thawed

\* The gate: the device is frozen by c's grab, or held on c's behalf.
FrozenBy(s, c, d) ==
    \/ /\ GrabOwner(s, d) = c
       /\ \/ s.sync[d] >= FrozenNoEvent
          \/ IF d = "pointer" THEN s.press ELSE s.heldKey # None
    \/ s.other[d] = c

\* set_state for the device of m; the *Both modes act on both devices of c,
\* and only if the pointer is frozen by c's own grab.
Allowed(s, c, m) ==
    LET acted == IF m \notin BothModes THEN {Subject(m)}
                 ELSE IF GrabOwner(s, "pointer") = c /\ s.sync["pointer"] >= FrozenNoEvent
                 THEN {d \in Device : GrabOwner(s, d) = c \/ s.other[d] = c}
                 ELSE {}
    IN  [s EXCEPT !.sync = [d \in Device |-> IF d \in acted THEN NewState(m) ELSE @[d]],
                  !.other = [d \in Device |-> IF d \in acted /\ @[d] = c THEN None ELSE @[d]]]

\* The held press and the queue are taken; Replay ends the grab.
PointerTaken(s, c, m) ==
    LET some == s.press \/ s.pqueue # <<>>
        t == [s EXCEPT !.press = FALSE, !.pqueue = <<>>]
    IN  IF m # "ReplayPointer" THEN t
        ELSE IF s.passive THEN [t EXCEPT !.pgrab = None, !.passive = FALSE]
        ELSE IF some /\ s.active = c THEN DeactivatePointer(t, c)
        ELSE t

\* Mutant of KeyTaken: only Replay takes the held key.
KeyTaken_KeepsHeld(s, c, m) ==
    LET t == [s EXCEPT !.heldKey = None]
    IN  IF m # "ReplayKeyboard" \/ s.kgrab.owner # c THEN s
        ELSE IF s.kgrab.key # None THEN [t EXCEPT !.kgrab = NoGrab]
        ELSE DeactivateKeyboard(t, c)

KeyTaken(s, c, m) ==
    LET some == s.heldKey # None \/ s.keys # <<>> \/ s.forms["keyboard"] > 0
        t == [s EXCEPT !.heldKey = None]
    IN  IF m # "ReplayKeyboard" \/ s.kgrab.owner # c THEN t
        ELSE IF s.kgrab.key # None THEN [t EXCEPT !.kgrab = NoGrab]
        ELSE IF some THEN DeactivateKeyboard(t, c)
        ELSE t

\* Replay plays the held press and then the queue; without a held press the
\* queue is gone.
PointerPlayed(s, m, press, queue) ==
    IF m # "ReplayPointer" THEN Play(s, queue)
    ELSE IF press THEN Play(s, <<"press">> \o queue)
    ELSE s

\* replay_frozen_key_to_focus.
KeyReplayed(s, m, e) ==
    IF m = "ReplayKeyboard" /\ e # None THEN DeviceForm(Delivered(s, "focus", e), "keyboard")
    ELSE s

\* apply_allow_events, reached from AllowEvents and XIAllowEvents.
Allow(s, c, m) ==
    LET a == Allowed(s, c, m)
        p == IF m \in PointerModes \cup BothModes THEN PointerTaken(a, c, m) ELSE a
        k == IF m \notin PointerModes THEN KeyTaken(p, c, m) ELSE p
        q == IF m \in PointerModes \cup BothModes
             THEN PointerPlayed(k, m, s.press, s.pqueue) ELSE k
    IN  ComputeFreezes(KeyReplayed(q, m, p.heldKey))

-----------------------------------------------------------------------------
(* The steps.                                                              *)

\* Each step reports only its own deliveries.
Found(grabs) ==
    [srv EXCEPT !.out = <<>>, !.keyGrabs = grabs, !.request = <<"none", None>>]

Serving(grabs, what, c) == [Found(grabs) EXCEPT !.request = <<what, c>>]

\* The key grab registered when a step begins; which one matters only if the
\* step may let a press go.
Registered ==
    {{}} \cup IF \E i \in DOMAIN srv.keys : srv.keys[i].down THEN {{g} : g \in KeyGrab} ELSE {}

Devices == <<keysDown, buttonDown>>

KeyInput(k) ==
    LET e == [key |-> k, down |-> k \notin keysDown]
    IN  /\ Len(srv.keys) < MaxHeld
        /\ \E grabs \in {{}} \cup {{g} : g \in KeyGrab} : srv' = KeyFanout(Found(grabs), e)
        /\ keysDown' = IF e.down THEN keysDown \cup {k} ELSE keysDown \ {k}
        /\ UNCHANGED buttonDown

\* The registered button grab that fits: looked for at a press that is not
\* held.
Matching ==
    {{}} \cup IF buttonDown \/ PointerHeld(srv) THEN {} ELSE {{g} : g \in ButtonGrab}

ButtonInput ==
    /\ Len(srv.pqueue) < MaxHeld
    /\ srv.forms["pointer"] < MaxHeld
    /\ \E grabs \in Registered, match \in Matching :
          srv' = PointerFanout(Found(grabs), IF buttonDown THEN "release" ELSE "press", match)
    /\ buttonDown' = ~buttonDown
    /\ UNCHANGED keysDown

AllowEvents(c, m) ==
    /\ FrozenBy(srv, c, Subject(m))
    /\ \E grabs \in Registered : srv' = Allow(Serving(grabs, m, c), c, m)
    /\ UNCHANGED Devices

\* Held on behalf of another client's grab of the other device (GrabFrozen).
FrozenByOther(c, d) == srv.other[d] \notin {c, None}

PointerGrabbed(s, c, this, paired) ==
    CheckGrabForSyncs([s EXCEPT !.pgrab = c, !.passive = FALSE, !.active = c],
                      "pointer", c, this, paired)

KeyboardGrabbed(s, c, this, paired) ==
    CheckGrabForSyncs([s EXCEPT !.kgrab = [owner |-> c, key |-> None]],
                      "keyboard", c, this, paired)

GrabPointer(c, this, paired) ==
    /\ srv.active \in {c, None}
    /\ srv.pgrab \in {c, None}
    /\ ~FrozenByOther(c, "pointer")
    /\ \E grabs \in Registered : srv' = PointerGrabbed(Found(grabs), c, this, paired)
    /\ UNCHANGED Devices

GrabKeyboard(c, this, paired) ==
    /\ srv.kgrab.owner \in {c, None}
    /\ ~FrozenByOther(c, "keyboard")
    /\ \E grabs \in Registered : srv' = KeyboardGrabbed(Found(grabs), c, this, paired)
    /\ UNCHANGED Devices

\* XIGrabDevice looks at no other grab, and forgets the held event if async.
XIGrabDevice(c, d, this, paired) ==
    /\ \E grabs \in Registered :
          srv' = IF d = "pointer"
                 THEN [PointerGrabbed(Found(grabs), c, this, paired) EXCEPT !.press = @ /\ this]
                 ELSE [KeyboardGrabbed(Found(grabs), c, this, paired)
                          EXCEPT !.heldKey = IF this THEN @ ELSE None]
    /\ UNCHANGED Devices

UngrabPointer(c) ==
    /\ c \in {srv.active, srv.pgrab}
    /\ \E grabs \in Registered : srv' = DeactivatePointer(Found(grabs), c)
    /\ UNCHANGED Devices

UngrabKeyboard(c) ==
    /\ c = srv.kgrab.owner
    /\ \E grabs \in Registered : srv' = DeactivateKeyboard(Found(grabs), c)
    /\ UNCHANGED Devices

XIUngrabDevice(c, d) ==
    /\ c = IF d = "pointer" THEN srv.pgrab ELSE srv.kgrab.owner
    /\ \E grabs \in Registered :
          srv' = IF d = "pointer" THEN DeactivatePointer(Found(grabs), c)
                 ELSE DeactivateKeyboard(Found(grabs), c)
    /\ UNCHANGED Devices

\* release_core_grabs_for_unviewable: the windows of the grabs in `gone` are
\* not viewable any more.
WindowsGone(gone) ==
    /\ \E grabs \in Registered :
          LET s == Found(grabs)
              p == IF "pointer" \in gone /\ s.pgrab # None
                   THEN DeactivatePointer(s, s.pgrab) ELSE s
          IN  srv' = IF "keyboard" \in gone /\ p.kgrab # NoGrab
                     THEN DeactivateKeyboard(p, p.kgrab.owner) ELSE p
    /\ UNCHANGED Devices

\* Mutant of GrabsDropped: the record of the active pointer grab stays.
GrabsDropped_KeepsActive(s, c) ==
    LET p == IF s.pgrab = c
             THEN [s EXCEPT !.pgrab = None, !.passive = FALSE, !.press = FALSE, !.pqueue = <<>>]
             ELSE s
    IN  IF p.kgrab.owner = c THEN [p EXCEPT !.kgrab = NoGrab, !.heldKey = None] ELSE p

\* process_disconnect: c's grabs go, then every device that is frozen is
\* thawed, in the order a HashMap lists them.
GrabsDropped(s, c) ==
    LET p == IF s.pgrab = c
             THEN [s EXCEPT !.pgrab = None, !.passive = FALSE, !.press = FALSE, !.pqueue = <<>>]
             ELSE s
        k == IF p.kgrab.owner = c THEN [p EXCEPT !.kgrab = NoGrab, !.heldKey = None] ELSE p
    IN  [k EXCEPT !.active = IF @ = c THEN None ELSE @,
                  !.keyGrabs = {g \in @ : g.owner # c}]

Disconnect(c) ==
    /\ \E grabs \in Registered, first \in Device :
          LET s == GrabsDropped(Serving(grabs, "Disconnect", c), c)
              t == IF Frozen(srv, first) THEN ThawDevice(s, first) ELSE s
          IN  srv' = IF Frozen(srv, Peer(first)) THEN ThawDevice(t, Peer(first)) ELSE t
    /\ UNCHANGED Devices

Next ==
    \/ \E k \in Key : KeyInput(k)
    \/ ButtonInput
    \/ \E gone \in SUBSET Device \ {{}} : WindowsGone(gone)
    \/ \E c \in Client :
          \/ \E m \in Mode : AllowEvents(c, m)
          \/ \E this, paired \in BOOLEAN :
                \/ GrabPointer(c, this, paired)
                \/ GrabKeyboard(c, this, paired)
                \/ \E d \in Device : XIGrabDevice(c, d, this, paired)
          \/ UngrabPointer(c) \/ UngrabKeyboard(c)
          \/ \E d \in Device : XIUngrabDevice(c, d)
          \/ Disconnect(c)

Spec == Init /\ [][Next]_vars

-----------------------------------------------------------------------------
(* Properties.                                                             *)

\* The records kept about one grab agree: an active pointer grab is the
\* pointer grab and not a passive one, and a held press or key belongs to a
\* grab (pointer_grab, active_pointer_grab, pointer_grab_is_passive,
\* frozen_pointer_event, frozen_keyboard_event).
GrabsAgree ==
    /\ TypeOK
    /\ srv.active # None => srv.pgrab = srv.active /\ ~srv.passive
    /\ srv.passive => srv.pgrab # None
    /\ srv.press => srv.pgrab # None
    /\ srv.heldKey # None => srv.kgrab # NoGrab

\* A device frozen by its own grab has a grab, so some client's AllowEvents
\* is honoured for it: the gate of apply_allow_events never locks everyone
\* out of a frozen device.
Thawable == \A d \in Device : Frozen(srv, d) => \E c \in Client : FrozenBy(srv, c, d)

\* What is withheld is withheld by a freeze: no later event finds the device
\* open and overtakes it (xi1_compute_freezes runs wherever a device may
\* have thawed).
NothingStranded ==
    /\ srv.keys # <<>> => Frozen(srv, "keyboard")
    /\ \A d \in Device : srv.forms[d] > 0 => Frozen(srv, d)

Count(s, e) == Cardinality({i \in DOMAIN s : s[i] = e})

Arrived(e) ==
    IF e.down THEN e.key \in keysDown' \ keysDown ELSE e.key \in keysDown \ keysDown'

\* Every key is delivered once: however grabs, freezes and nested replays
\* interleave, what comes in or was withheld goes out or stays withheld, and
\* only the key a synchronous grab held goes out again, by a replay
\* (key_event_fanout_to_state, xi1_compute_freezes).
KeysOnce ==
    [][ \A e \in KeyEvent :
          LET before == Count(srv.keys, e) + IF Arrived(e) THEN 1 ELSE 0
              after == Count(srv'.keys, e)
                         + Cardinality({i \in DOMAIN srv'.out : srv'.out[i].key = e})
          IN  after - before \in {0, IF srv.heldKey = e THEN 1 ELSE 0} ]_vars

\* Whoever lets go, lets go.  A client that is gone holds no device: what it
\* left held would withhold input from everyone for ever.  A client whose
\* AllowEvents is honoured, with nothing withheld that could freeze the
\* device anew, no longer holds it in any of the three ways the gate looks
\* for, whichever of sync state, held event, queue and paired hold there is
\* to undo (process_disconnect; apply_allow_events, whose *Both modes do
\* nothing unless both devices are frozen).
LetsGo ==
    [][ \A c \in Client : srv'.request[2] = c =>
          /\ srv'.request = <<"Disconnect", c>> => \A d \in Device : ~FrozenBy(srv', c, d)
          /\ \A m \in Mode \ BothModes :
                /\ srv'.request = <<m, c>>
                /\ srv.keys = <<>> /\ srv.pqueue = <<>>
                /\ \A d \in Device : srv.forms[d] = 0
                => ~FrozenBy(srv', c, Subject(m)) ]_vars
=============================================================================
