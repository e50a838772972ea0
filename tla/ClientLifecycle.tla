--------------------------- MODULE ClientLifecycle ---------------------------
(***************************************************************************)
(* The life of a connection in xserver-core: accept, the setup thread and  *)
(* its registry entry, the rendezvous with the core for a resource-id      *)
(* base, the hand-over to a reader thread, requests that change who owns   *)
(* what, disconnect with its close-down mode, zombies and KillClient, and  *)
(* the two ways the core stops.                                            *)
(*                                                                         *)
(* Threads: one core thread (every Core* / Handle* action), one setup      *)
(* thread per accepted connection (Setup* actions), one reader thread per  *)
(* registered client (Reader* actions), and the peer.  They meet in the    *)
(* core's channel, the setup registry, and the socket.                     *)
(*                                                                         *)
(* Requests wait apart from the other messages: once an iteration's budget *)
(* is spent the core defers them and goes on with what is behind them, so  *)
(* a ClientDisconnected overtakes its client's requests.  What a request   *)
(* asks for is chosen when it is handled; RequestPipeline models the       *)
(* budget and the order of one client's requests.                          *)
(***************************************************************************)
EXTENDS Naturals, Sequences, SequencesExt

CONSTANTS Conn,        \* connections that may be accepted, once each
          NumBases,    \* bases are k * 0x100000, k in 1..NumBases
          MaxPending   \* bound: requests of one client waiting at the core

ASSUME NumBasesAssumption == NumBases \in Nat \ {0}
ASSUME MaxPendingAssumption == MaxPending \in Nat

NoBase == 0

VARIABLES
    core,       \* "running" | "stopped" (Message::Shutdown) | "hostEof"
    chan,       \* the core's channel without its Request messages
    pending,    \* requests waiting: in the channel or in deferred_requests
    registry,   \* connections with a stream clone in the SetupRegistry
    setup,      \* what each setup thread is doing
    base,       \* base the last SetupAllocateResponse carried
    nextBase,   \* IdAllocator.next_base / 0x100000
    freeBases,  \* IdAllocator.free_bases, top of the Vec last
    clients,    \* keys of state.clients
    closeMode,  \* close_down_modes, 0 when absent
    zombies,    \* zombie_clients, 0 when absent
    owns,       \* kinds of resource each connection's id owns
    reader,     \* reader thread of each connection
    sock        \* the connection's socket, as both ends see it

lease == <<nextBase, freeBases, base>>
table == <<clients, closeMode, zombies, owns>>
vars  == <<core, chan, pending, registry, setup, lease, table, reader, sock>>

Msg(k, c) == [kind |-> k, c |-> c]
Kinds     == {"SetupAllocate", "SetupComplete", "Disconnected"}

SetupPhases  == {"none", "handshake", "awaiting", "answered", "handed", "exited",
                 "unspawned"}
ReaderPhases == {"none", "reading", "parked", "exited"}
Resources    == {"window", "other"}
CloseModes   == {0, 1, 2}   \* DestroyAll, RetainPermanent, RetainTemporary

TypeOK ==
    /\ core \in {"running", "stopped", "hostEof"}
    /\ chan \in Seq([kind : Kinds, c : Conn])
    /\ registry \in SUBSET Conn
    /\ setup \in [Conn -> SetupPhases]
    /\ base \in [Conn -> 0..NumBases]
    /\ nextBase \in 1..(NumBases + 1)
    /\ freeBases \in Seq(1..NumBases)
    /\ clients \in SUBSET Conn
    /\ closeMode \in [Conn -> CloseModes]
    /\ zombies \in [Conn -> CloseModes]
    /\ owns \in [Conn -> SUBSET Resources]
    /\ reader \in [Conn -> ReaderPhases]
    /\ pending \in [Conn -> 0..MaxPending]
    /\ sock \in [Conn -> {"open", "peerClosed", "shut"}]

Init ==
    /\ core = "running"
    /\ chan = <<>>
    /\ registry = {}
    /\ setup = [c \in Conn |-> "none"]
    /\ base = [c \in Conn |-> NoBase]
    /\ nextBase = 1
    /\ freeBases = <<>>
    /\ clients = {}
    /\ closeMode = [c \in Conn |-> 0]
    /\ zombies = [c \in Conn |-> 0]
    /\ owns = [c \in Conn |-> {}]
    /\ reader = [c \in Conn |-> "none"]
    /\ pending = [c \in Conn |-> 0]
    /\ sock = [c \in Conn |-> "open"]

Running == core = "running"

-----------------------------------------------------------------------------
(* Accept and the setup thread. *)

\* Mutant of Accept: the thread is started before its clone is registered.
Accept_NotRegistered(c) ==
    /\ Running
    /\ setup[c] = "none"
    /\ setup' = [setup EXCEPT ![c] = "handshake"]
    /\ UNCHANGED <<core, chan, registry, lease, table, reader, pending, sock>>

\* accept_pending + setup_thread::spawn: the clone enters the registry before
\* the thread exists.
Accept(c) ==
    /\ Running
    /\ setup[c] = "none"
    /\ registry' = registry \cup {c}
    /\ \/ setup' = [setup EXCEPT ![c] = "handshake"]
       \/ setup' = [setup EXCEPT ![c] = "unspawned"]   \* Builder::spawn failed
    /\ UNCHANGED <<core, chan, lease, table, reader, pending, sock>>

\* A send into the channel wakes the core; it fails once the core is gone.
Send(m) == chan' = IF Running THEN Append(chan, m) ELSE chan

\* Mutant of SetupExit: the thread has no SetupGuard.
SetupExit_NoGuard(c) ==
    /\ setup' = [setup EXCEPT ![c] = "exited"]
    /\ UNCHANGED registry

\* SetupGuard::drop, on every way out of the thread.
SetupExit(c) ==
    /\ setup' = [setup EXCEPT ![c] = "exited"]
    /\ registry' = registry \ {c}

\* Mutant of SetupRead: the guard's scope ends with the handshake.
SetupRead_GuardTooShort(c) ==
    /\ setup[c] = "handshake"
    /\ sock[c] # "shut"
    /\ Running
    /\ setup' = [setup EXCEPT ![c] = "awaiting"]
    /\ registry' = registry \ {c}
    /\ Send(Msg("SetupAllocate", c))
    /\ UNCHANGED <<core, lease, table, reader, pending, sock>>

\* read_setup_request returned a well-formed setup block.
SetupRead(c) ==
    /\ setup[c] = "handshake"
    /\ sock[c] # "shut"
    /\ IF Running
       THEN /\ setup' = [setup EXCEPT ![c] = "awaiting"]
            /\ UNCHANGED registry
       ELSE SetupExit(c)
    /\ Send(Msg("SetupAllocate", c))
    /\ UNCHANGED <<core, lease, table, reader, pending, sock>>

\* The block is malformed, the peer is gone, the socket was shut down, or the
\* five-second timeout ran out; equally while the reply is being written.
SetupFail(c) ==
    /\ setup[c] \in {"handshake", "answered"}
    /\ SetupExit(c)
    /\ UNCHANGED <<core, chan, lease, table, reader, pending, sock>>

\* A base of zero is the core's refusal: write_setup_failed, no client.
SetupRefused(c) ==
    /\ setup[c] = "answered"
    /\ base[c] = NoBase
    /\ SetupExit(c)
    /\ UNCHANGED <<core, chan, lease, table, reader, pending, sock>>

\* write_setup_success went out; the stream travels to the core.
SetupSuccess(c) ==
    /\ setup[c] = "answered"
    /\ base[c] # NoBase
    /\ sock[c] = "open"
    /\ IF Running
       THEN /\ setup' = [setup EXCEPT ![c] = "handed"]
            /\ UNCHANGED registry
       ELSE SetupExit(c)
    /\ Send(Msg("SetupComplete", c))
    /\ UNCHANGED <<core, lease, table, reader, pending, sock>>

SetupReturn(c) ==
    /\ setup[c] = "handed"
    /\ SetupExit(c)
    /\ UNCHANGED <<core, chan, lease, table, reader, pending, sock>>

-----------------------------------------------------------------------------
(* The core's side of setup. *)

HeadIs(k, c) == Running /\ chan # <<>> /\ Head(chan) = Msg(k, c)

\* IdAllocator::allocate: the most recently released base, else a new one,
\* else nothing when next_base + 0x100000 would overflow u32.
Allocate(c) ==
    IF freeBases # <<>>
    THEN /\ base' = [base EXCEPT ![c] = Last(freeBases)]
         /\ freeBases' = Front(freeBases)
         /\ UNCHANGED nextBase
    ELSE /\ UNCHANGED freeBases
         /\ IF nextBase <= NumBases
            THEN /\ base' = [base EXCEPT ![c] = nextBase]
                 /\ nextBase' = nextBase + 1
            ELSE /\ base' = [base EXCEPT ![c] = NoBase]
                 /\ UNCHANGED nextBase

HandleSetupAllocate(c) ==
    /\ HeadIs("SetupAllocate", c)
    /\ chan' = Tail(chan)
    /\ Allocate(c)
    /\ setup' = [setup EXCEPT ![c] = "answered"]
    /\ UNCHANGED <<core, registry, table, reader, pending, sock>>

\* IdAllocator::release: push on the free list.
Release(b) == freeBases' = Append(freeBases, b)

\* handle_client_setup_complete: the entry is inserted, the registry entry
\* removed, the fd registered with the poller, the reader spawned.
HandleSetupComplete(c) ==
    /\ HeadIs("SetupComplete", c)
    /\ chan' = Tail(chan)
    /\ clients' = clients \cup {c}
    /\ registry' = registry \ {c}
    /\ reader' = [reader EXCEPT ![c] = "reading"]
    /\ UNCHANGED <<core, setup, lease, closeMode, zombies, owns, pending, sock>>

\* try_clone or set_nonblocking fails first: nothing was inserted, so the
\* process_disconnect that follows returns at once.
HandleSetupCompleteCloneFails(c) ==
    /\ HeadIs("SetupComplete", c)
    /\ chan' = Tail(chan)
    /\ sock' = [sock EXCEPT ![c] = "shut"]
    /\ UNCHANGED <<core, registry, setup, lease, table, reader, pending>>

\* Registration or the reader's spawn fails after the insert: the
\* process_disconnect that follows finds the entry and undoes it.
HandleSetupCompleteRegisterFails(c) ==
    /\ HeadIs("SetupComplete", c)
    /\ chan' = Tail(chan)
    /\ registry' = registry \ {c}
    /\ sock' = [sock EXCEPT ![c] = "shut"]
    /\ Release(base[c])
    /\ UNCHANGED <<core, setup, base, nextBase, table, reader, pending>>

-----------------------------------------------------------------------------
(* Disconnect, zombies and the requests that lead there. *)

\* Mutants of Disconnect: a retained client's base is recycled as well; the
\* socket is left open.
Disconnect_RecycleRetained(c) ==
    IF c \notin clients
    THEN UNCHANGED <<clients, closeMode, zombies, owns, freeBases, sock>>
    ELSE /\ clients' = clients \ {c}
         /\ closeMode' = [closeMode EXCEPT ![c] = 0]
         /\ sock' = [sock EXCEPT ![c] = "shut"]
         /\ zombies' = [zombies EXCEPT ![c] = closeMode[c]]
         /\ owns' = [owns EXCEPT ![c] = IF closeMode[c] = 0 THEN {} ELSE @]
         /\ Release(base[c])

Disconnect_NoShutdown(c) ==
    IF c \notin clients
    THEN UNCHANGED <<clients, closeMode, zombies, owns, freeBases, sock>>
    ELSE /\ clients' = clients \ {c}
         /\ closeMode' = [closeMode EXCEPT ![c] = 0]
         /\ owns' = [owns EXCEPT ![c] = {}]
         /\ Release(base[c])
         /\ UNCHANGED <<zombies, sock>>

\* process_disconnect.  A client that is not (any more) in the table is left
\* alone, which makes the second of two racing disconnects a no-op.  Windows
\* are destroyed whatever the close-down mode says.
Disconnect(c) ==
    IF c \notin clients
    THEN UNCHANGED <<clients, closeMode, zombies, owns, freeBases, sock>>
    ELSE LET retain == closeMode[c] \in {1, 2} IN
         /\ clients' = clients \ {c}
         /\ closeMode' = [closeMode EXCEPT ![c] = 0]
         /\ sock' = [sock EXCEPT ![c] = "shut"]
         /\ IF retain
            THEN /\ zombies' = [zombies EXCEPT ![c] = closeMode[c]]
                 /\ owns' = [owns EXCEPT ![c] = @ \ {"window"}]
                 /\ UNCHANGED freeBases
            ELSE /\ owns' = [owns EXCEPT ![c] = {}]
                 /\ Release(base[c])
                 /\ UNCHANGED zombies

\* destroy_zombie_resources for a set of zombies, and their removal from
\* zombie_clients.  Their bases are not released.
Bury(Z) ==
    /\ owns' = [c \in Conn |-> IF c \in Z THEN {} ELSE owns[c]]
    /\ zombies' = [c \in Conn |-> IF c \in Z THEN 0 ELSE zombies[c]]
    /\ UNCHANGED <<clients, closeMode, freeBases, sock>>

\* process_request_inline: requests of a client that is gone are dropped.
TakeRequest(c) ==
    /\ Running
    /\ pending[c] > 0
    /\ pending' = [pending EXCEPT ![c] = @ - 1]
    /\ UNCHANGED <<core, chan, registry, setup, base, nextBase>>

DropRequest(c) ==
    /\ TakeRequest(c)
    /\ c \notin clients
    /\ UNCHANGED <<freeBases, table, reader, sock>>

\* A parked reader sent nothing after its Enable: it is the last that waits.
AtEnable(c) == reader[c] = "parked" /\ pending[c] = 1

\* Mutant of Handling: the guard for clients that are gone is missing.
Handling_NoGuard(c) == TakeRequest(c) /\ ~AtEnable(c) /\ UNCHANGED reader

Handling(c) == TakeRequest(c) /\ c \in clients /\ ~AtEnable(c) /\ UNCHANGED reader

\* handle_big_requests_request tells the reader how to go on, unless
\* process_request answered BadLength before it.
HandleEnable(c) ==
    /\ TakeRequest(c)
    /\ c \in clients
    /\ AtEnable(c)
    /\ \/ reader' = [reader EXCEPT ![c] = "reading"]
       \/ UNCHANGED reader
    /\ UNCHANGED <<freeBases, table, sock>>

\* CreateWindow, CreatePixmap, CreateGC, ...: an id in the client's range.
HandleCreate(c, r) ==
    /\ Handling(c)
    /\ owns' = [owns EXCEPT ![c] = @ \cup {r}]
    /\ UNCHANGED <<freeBases, clients, closeMode, zombies, sock>>

\* handle_set_close_down_mode; modes above 2 are BadValue and change nothing.
HandleSetCloseDownMode(c, m) ==
    /\ Handling(c)
    /\ closeMode' = [closeMode EXCEPT ![c] = m]
    /\ UNCHANGED <<freeBases, clients, zombies, owns, sock>>

\* handle_kill_client(0): every RetainTemporary zombie.
HandleKillAllTemporary(c) ==
    /\ Handling(c)
    /\ Bury({z \in Conn : zombies[z] = 2})

\* handle_kill_client(resource of t): a zombie is buried, any client --
\* the requester included -- is disconnected under its own close-down mode.
HandleKillClient(c, t) ==
    /\ Handling(c)
    /\ owns[t] # {}
    /\ IF zombies[t] # 0 THEN Bury({t}) ELSE Disconnect(t)

\* The reply, that of an Enable as well, could not be written:
\* RequestOutcome::Disconnect.
HandleRequestDisconnects(c) ==
    /\ TakeRequest(c)
    /\ c \in clients
    /\ Disconnect(c)
    /\ UNCHANGED reader

\* Mutant of HandleDisconnected: the message is read and forgotten.
HandleDisconnected_Ignored(c) ==
    /\ HeadIs("Disconnected", c)
    /\ chan' = Tail(chan)
    /\ UNCHANGED <<core, registry, setup, lease, table, reader, pending, sock>>

HandleDisconnected(c) ==
    /\ HeadIs("Disconnected", c)
    /\ chan' = Tail(chan)
    /\ Disconnect(c)
    /\ UNCHANGED <<core, registry, setup, base, nextBase, reader, pending>>

\* The WRITABLE event or the reconcile pass found the peer gone.
DropUnwritable(c) ==
    /\ Running
    /\ c \in clients
    /\ sock[c] # "open"
    /\ Disconnect(c)
    /\ UNCHANGED <<core, chan, registry, setup, base, nextBase, reader, pending>>

-----------------------------------------------------------------------------
(* Reader threads and the peer. *)

\* read_request returned a frame.  Bytes the peer wrote before it closed are
\* still delivered; nothing is after a shutdown.  After an Enable the reader
\* waits for the core and is not at its socket.
ReaderForward(c) ==
    /\ reader[c] = "reading"
    /\ sock[c] # "shut"
    /\ IF Running
       THEN /\ pending[c] < MaxPending
            /\ pending' = [pending EXCEPT ![c] = @ + 1]
            /\ \/ UNCHANGED reader
               \/ reader' = [reader EXCEPT ![c] = "parked"]
       ELSE /\ reader' = [reader EXCEPT ![c] = "exited"]
            /\ UNCHANGED pending
    /\ UNCHANGED <<core, chan, registry, setup, lease, table, sock>>

\* End of file, a read error or, between two requests, ReaderControl::Shutdown.
\* Only the control message ends the thread without a ClientDisconnected; the
\* client is out of the table by then, so a late one changes nothing and both
\* are allowed.
ReaderEof(c) ==
    /\ reader[c] = "reading"
    /\ sock[c] # "open"
    /\ reader' = [reader EXCEPT ![c] = "exited"]
    /\ \/ Send(Msg("Disconnected", c))
       \/ sock[c] = "shut" /\ UNCHANGED chan
    /\ UNCHANGED <<core, registry, setup, lease, table, pending, sock>>

\* ReaderControl::Shutdown, or the end of the control channel with the core,
\* reaches a parked reader; nothing that happens to the socket does.
ReaderShutdown(c) ==
    /\ reader[c] = "parked"
    /\ c \notin clients \/ ~Running
    /\ reader' = [reader EXCEPT ![c] = "exited"]
    /\ UNCHANGED <<core, chan, registry, setup, lease, table, pending, sock>>

PeerClose(c) ==
    /\ setup[c] # "none"
    /\ sock[c] = "open"
    /\ sock' = [sock EXCEPT ![c] = "peerClosed"]
    /\ UNCHANGED <<core, chan, registry, setup, lease, table, reader, pending>>

-----------------------------------------------------------------------------
(* The core stops: the receiver is dropped with everything queued in it. *)

\* Message::Shutdown: shutdown_all drains the registry.  The message is the
\* last the core looks at, wherever it stands in the queue; what was queued
\* before it has been handled, so it is modelled at the head.
Shutdown ==
    /\ Running
    /\ core' = "stopped"
    /\ chan' = <<>>
    /\ pending' = [c \in Conn |-> 0]
    /\ sock' = [c \in Conn |-> IF c \in registry THEN "shut" ELSE sock[c]]
    /\ registry' = {}
    /\ UNCHANGED <<setup, lease, table, reader>>

\* The host X11 connection closed: run_core returns without shutdown_all.
HostEof ==
    /\ Running
    /\ core' = "hostEof"
    /\ chan' = <<>>
    /\ pending' = [c \in Conn |-> 0]
    /\ UNCHANGED <<registry, setup, lease, table, reader, sock>>

-----------------------------------------------------------------------------
SetupStep(c) == \/ SetupRead(c) \/ SetupFail(c) \/ SetupRefused(c)
                \/ SetupSuccess(c) \/ SetupReturn(c)

ControlStep(c) ==
    \/ HandleSetupAllocate(c)
    \/ HandleSetupComplete(c)
    \/ HandleSetupCompleteCloneFails(c)
    \/ HandleSetupCompleteRegisterFails(c)
    \/ HandleDisconnected(c)

RequestStep(c) ==
    \/ DropRequest(c)
    \/ HandleEnable(c)
    \/ \E r \in Resources : HandleCreate(c, r)
    \/ \E m \in CloseModes : HandleSetCloseDownMode(c, m)
    \/ HandleKillAllTemporary(c)
    \/ \E t \in Conn : HandleKillClient(c, t)
    \/ HandleRequestDisconnects(c)

Next ==
    \/ \E c \in Conn : \/ Accept(c) \/ SetupStep(c)
                       \/ ControlStep(c) \/ RequestStep(c) \/ DropUnwritable(c)
                       \/ ReaderForward(c) \/ ReaderEof(c) \/ ReaderShutdown(c)
                       \/ PeerClose(c)
    \/ Shutdown
    \/ HostEof

\* Every send wakes the core, which then drains the channel; a spent request
\* budget holds back requests only, so the other messages are always taken.
\* Every thread is scheduled, and the setup timeouts end a handshake nobody
\* completes.  A peer that closed has written finitely many bytes: a reader
\* that is at its socket again and again comes to the end of them.  Nothing is
\* assumed of accept, of the requests or of the core stopping.
Fairness ==
    /\ WF_vars(\E c \in Conn : ControlStep(c))
    /\ \A c \in Conn : /\ WF_vars(SetupStep(c))
                       /\ SF_vars(ReaderEof(c))
                       /\ WF_vars(ReaderShutdown(c))

Spec     == Init /\ [][Next]_vars
FairSpec == Spec /\ Fairness

-----------------------------------------------------------------------------
(* Properties. *)

InFlight(c) == \E i \in DOMAIN chan : chan[i] = Msg("SetupComplete", c)

\* The stages in which a connection's base is in use: carried by the setup
\* thread, by the message, by the client entry, or kept by a zombie.
Holds(c) == /\ base[c] # NoBase
            /\ \/ setup[c] = "answered"
               \/ InFlight(c)
               \/ c \in clients
               \/ zombies[c] # 0

\* No resource-id base is in use twice, and none in use is on the free list,
\* which itself lists no base twice (IdAllocator::allocate / release against
\* the racing disconnects, the retained clients and the failing setups).
BasesExclusive ==
    /\ \A c, d \in Conn : Holds(c) /\ Holds(d) /\ base[c] = base[d] => c = d
    /\ \A c \in Conn : Holds(c) => \A i \in DOMAIN freeBases : freeBases[i] # base[c]
    /\ \A i, j \in DOMAIN freeBases : freeBases[i] = freeBases[j] => i = j
    /\ \A i \in DOMAIN freeBases : freeBases[i] < nextBase
    /\ \A c \in Conn : Holds(c) => base[c] < nextBase

\* Whatever the resource table holds belongs to a connected client or a
\* zombie: a teardown that lost the race leaves nothing behind under a base
\* the next client may be given.
NoOrphanResources ==
    \A c \in Conn : owns[c] # {} => c \in clients \/ zombies[c] # 0

\* After Message::Shutdown no setup thread is left blocked on its socket: every
\* stream such a thread may be reading or writing was in the registry that
\* shutdown_all drained.
ShutdownReachesSetup ==
    core = "stopped" =>
        \A c \in Conn : setup[c] \in {"handshake", "answered"} => sock[c] = "shut"

(* The inductive invariant behind the three above, and its parts. *)

\* A setup message in the channel fits what its sender did before it, and is
\* there once.
Fits(m) ==
    /\ m.kind = "SetupAllocate" => setup[m.c] = "awaiting"
    /\ m.kind = "SetupComplete" =>
          /\ setup[m.c] \in {"handed", "exited"}
          /\ base[m.c] # NoBase
          /\ m.c \notin clients
          /\ zombies[m.c] = 0

Messages ==
    /\ \A i \in DOMAIN chan : Fits(chan[i])
    /\ \A i, j \in DOMAIN chan :
          chan[i] = chan[j] /\ chan[i].kind # "Disconnected" => i = j

\* Clients and zombies went through setup with a base, and are not both.
Stages ==
    \A c \in Conn :
        /\ c \in clients => zombies[c] = 0
        /\ c \in clients \/ zombies[c] # 0 =>
              base[c] # NoBase /\ setup[c] \in {"handed", "exited"}

\* While the core runs, a thread still in setup is in the registry.
Registered ==
    Running => \A c \in Conn :
        setup[c] \in {"handshake", "awaiting", "answered"} => c \in registry

IndInv == /\ TypeOK /\ Messages /\ Stages /\ BasesExclusive
          /\ NoOrphanResources /\ Registered /\ ShutdownReachesSetup

\* A client whose peer closed leaves the client table, unless its reader
\* stays parked at an Enable for good: only a reader at its socket notices.
ClosedPeerRemoved ==
    \A c \in Conn : (c \in clients /\ sock[c] = "peerClosed")
                        ~> (c \notin clients \/ ~Running \/ [](reader[c] = "parked"))

\* A removed client's reader thread ends, wherever it waits.
ReadersEnd ==
    \A c \in Conn : (reader[c] \in {"reading", "parked"} /\ c \notin clients)
                        ~> (reader[c] = "exited" \/ ~Running)

\* A thread that was started leaves the registry while the core runs.
RegistryDrains ==
    \A c \in Conn : (c \in registry /\ setup[c] # "unspawned")
                        ~> (c \notin registry \/ ~Running)

Leases == INSTANCE BaseLease
             WITH lease <- [c \in Conn |-> IF Holds(c) THEN base[c] ELSE NoBase]

\* Connections lease bases exclusively (BaseLease, by refinement).
LeaseSpec == Leases!Spec
=============================================================================
