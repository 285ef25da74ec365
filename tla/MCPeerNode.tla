----------------------------- MODULE MCPeerNode -----------------------------
(* Instances of PeerNode for TLC. *)
EXTENDS PeerNode, TLC

\* Two nodes that ask each other.
PairPeers == [n \in Node |-> <<CHOOSE m \in Node : m # n>>]

\* Of two nodes that ask each other it does not matter which is which.
Swap == Permutations(Node)

\* Three nodes, as the launcher builds them: everyone asks everyone, in the
\* order of the ports.
TrioPeers == "A" :> <<"B", "C">> @@ "B" :> <<"A", "C">> @@ "C" :> <<"A", "B">>

\* The two ends of the spread: clocks that agree, and clocks too far apart for
\* either node to believe the other.
EndsOfSpread == {-3, 3}
SlowCrystal == {-1}
NoSkew == {0}
=============================================================================
