------------------------------ MODULE BaseLease ------------------------------
(***************************************************************************)
(* What the resource-id allocator promises to connections, with no word on *)
(* how: a connection holds at most one resource-id base, a base is held by  *)
(* at most one connection, and it is granted again only after it was given  *)
(* back.  ClientLifecycle implements this specification.                    *)
(***************************************************************************)
EXTENDS Naturals

CONSTANTS Conn,      \* connection identities; never reused
          NumBases   \* bases are 1..NumBases; 0 stands for "no base"

VARIABLE lease       \* [Conn -> 0..NumBases]

Init == lease = [c \in Conn |-> 0]

\* A base nobody holds is leased to a connection that holds none.
Grant(c, b) ==
    /\ lease[c] = 0
    /\ \A d \in Conn : lease[d] # b
    /\ lease' = [lease EXCEPT ![c] = b]

\* The holder is gone, and everything it named with the base with it.
Drop(c) ==
    /\ lease[c] # 0
    /\ lease' = [lease EXCEPT ![c] = 0]

\* KillClient(AllTemporary) ends several leases in one request.
DropAll(S) ==
    /\ S # {}
    /\ \A c \in S : lease[c] # 0
    /\ lease' = [c \in Conn |-> IF c \in S THEN 0 ELSE lease[c]]

Next == \/ \E c \in Conn : \/ Drop(c)
                           \/ \E b \in 1..NumBases : Grant(c, b)
        \/ \E S \in SUBSET Conn : DropAll(S)

Spec == Init /\ [][Next]_lease
=============================================================================
