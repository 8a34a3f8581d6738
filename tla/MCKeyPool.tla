------------------------------ MODULE MCKeyPool ------------------------------
(* Small instances of KeyPool for TLC: ALICE, whose SAE_ID sorts first and   *)
(* who therefore allocates the chunks, and BOB.                              *)
EXTENDS KeyPool

CONSTANTS Alice, Bob

MCKme == {Alice, Bob}
MCPeer == [k \in {Alice, Bob} |-> IF k = Alice THEN Bob ELSE Alice]
NoFaults == {}
EveryFault == AllFaults
=============================================================================
