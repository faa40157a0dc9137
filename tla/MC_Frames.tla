------------------------------ MODULE MC_Frames ------------------------------
(* Values of the constants of Frames that a cfg cannot write.               *)
EXTENDS Frames

F(op, head, size) == [op |-> op, head |-> head, size |-> size]

\* short and long headers, frames without content, the ends of a connection
MCPlans == {<<F("text", 2, 1), F("binary", 4, 2), F("text", 2, 1)>>,
            <<F("text", 4, 1), F("pong", 2, 0), F("text", 2, 2)>>,
            <<F("binary", 2, 0), F("text", 2, 1), F("close", 2, 2)>>,
            <<F("text", 2, 1), F("continuation", 2, 1)>>}
=============================================================================
