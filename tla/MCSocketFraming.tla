--------------------------- MODULE MCSocketFraming ---------------------------
(* Two messages, both longer than one read has to be and one longer than   *)
(* the server takes; headers of two bytes are enough to be split.          *)
EXTENDS SocketFraming

CONSTANTS m1, m2

MCMessages == {m1, m2}
MCSize == [m \in MCMessages |-> IF m = m1 THEN 2 ELSE 3]
=============================================================================
