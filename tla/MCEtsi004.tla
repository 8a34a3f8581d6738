---------------------------- MODULE MCEtsi004 ------------------------------
(***************************************************************************)
(* Small instances of Etsi004: KME A allocates.                            *)
(***************************************************************************)
EXTENDS Etsi004, TLC

CONSTANTS A, B          \* the two KMEs
CONSTANTS OfA, OfB      \* their application processes

MCKme == {A, B}
MCPeer == A :> B @@ B :> A
MCApp == OfA \cup OfB
MCSite == [p \in MCApp \cup Handler |-> IF p \in OfB THEN B ELSE A]

NoFaults == {}
PeerFaults == {"peer"}
PeerAndTtl == {"peer", "ttl"}
PeerAndRestart == {"peer", "restart"}

\* Calls of one KME, and handlers, are interchangeable.
Interchangeable == Permutations(OfA) \cup Permutations(OfB) \cup Permutations(Handler)
=============================================================================
