----------------------------- MODULE MCGateway -----------------------------
(* Terminals of 300 by 24 and of 80 by 13, one server in the menu beside    *)
(* the console, and room for one resize message and one key on the wire.    *)
EXTENDS Gateway

MCSizes == {[w |-> 300, h |-> 24], [w |-> 80, h |-> 13]}
=============================================================================
