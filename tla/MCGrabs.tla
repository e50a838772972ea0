------------------------------- MODULE MCGrabs -------------------------------
(* The instance of DeviceGrabs: clients are interchangeable, and no step    *)
(* reads what the last one did, delivered or found registered.              *)
EXTENDS DeviceGrabs, TLC

Alike == Permutations(Client)

Ahead == <<[srv EXCEPT !.out = <<>>, !.keyGrabs = {}, !.request = <<>>], keysDown, buttonDown>>

\* At most two keys and button events are withheld, in all their forms, and no
\* core keys beside pointer events.
Smaller ==
    LET pointer == Len(srv.pqueue) + srv.forms["pointer"]
    IN  /\ Len(srv.keys) + pointer + srv.forms["keyboard"] <= 2
        /\ pointer = 0 \/ srv.keys = <<>>
=============================================================================
