------------------------------- MODULE MCEcho -------------------------------
(* Instances of Echo for TLC. *)
EXTENDS Echo, TLC

CONSTANTS c1, c2, server

\* Messages of different lengths with different bytes.  The bytes are small,
\* so that one read as a length is still a length.
MCClients == {c1, c2}
MCMessage == c1 :> <<2, 1, 3>> @@ c2 :> <<1, 2>>
=============================================================================
