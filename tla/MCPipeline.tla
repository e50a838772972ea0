------------------------------ MODULE MCPipeline ------------------------------
(***************************************************************************)
(* RequestPipeline for TLC: one Ignore that may go astray is enough.       *)
(***************************************************************************)
EXTENDS RequestPipeline

\* A bad minor is read only while no other one, and no Ignore, is on its way,
\* and by no client whose reader an Ignore has misled before.
OneBadMinor ==
    LET sent == chan'[Len(chan')] IN
    Len(chan') > Len(chan) /\ sent.what = "request" /\ sent.kind = "badMinor"
        => /\ sent.c \notin misled
           /\ \A i \in DOMAIN Line : From(sent.c, Line[i]) => Line[i].kind # "badMinor"
           /\ \A i \in DOMAIN ctl[sent.c] : ctl[sent.c][i] # "ignore"
=============================================================================
