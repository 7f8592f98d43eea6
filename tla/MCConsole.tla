----------------------------- MODULE MCConsole -----------------------------
(* Console for TLC.                                                        *)
EXTENDS Console

CONSTANT w1

\* One writer's text is a newline, which becomes two characters.
MCText == [t \in Outputter |-> IF t = w1 THEN <<"\n">> ELSE <<"a">>]
TwoKeys == <<"a", "\r">>
============================================================================
