------------------------------ MODULE MCServer ------------------------------
(* Instances of Server for TLC. *)
EXTENDS Server, TLC

CONSTANTS c1, c2, c3, none

MCConns3 == {c1, c2, c3}
MCConns2 == {c1, c2}

\* With descriptor 2 held elsewhere, accept can return 3 before 2: a connection
\* is turned away, and the next two may share a worker.
MCOther == {2}
MCNoOther == {}
=============================================================================
