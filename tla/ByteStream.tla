----------------------------- MODULE ByteStream -----------------------------
(***************************************************************************)
(* What a client may rely on of its connection: the units the server       *)
(* produces arrive in order and none is missing, until the connection is   *)
(* given up; then whatever is still on its way may be lost.                *)
(***************************************************************************)
EXTENDS Naturals, Sequences

CONSTANT MaxStep  \* most units produced or received in one step

VARIABLES
    emitted,   \* units the server has produced, numbered from 1
    received,  \* the numbers of the units the client was given
    up         \* the server still serves the client

svars == <<emitted, received, up>>

SInit == emitted = 0 /\ received = <<>> /\ up = TRUE

Emit    == \E n \in 1..MaxStep : emitted' = emitted + n /\ UNCHANGED <<received, up>>
Receive == \E n \in 1..MaxStep :
               /\ Len(received) + n <= emitted
               /\ received' = received \o [i \in 1..n |-> Len(received) + i]
               /\ UNCHANGED <<emitted, up>>
GiveUp  == up /\ up' = FALSE /\ emitted' - emitted \in 0..MaxStep /\ UNCHANGED received

SNext == Emit \/ Receive \/ GiveUp

SSpec == SInit /\ [][SNext]_svars
=============================================================================
