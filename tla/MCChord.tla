------------------------------ MODULE MCChord ------------------------------
(* Every ring of up to eight positions, and the ring of chord.py. *)
EXTENDS Chord

RingsOf(m) == {[M |-> m, nodes |-> S] : S \in SUBSET (0..(2^m - 1)) \ {{}}}
Workshop == [M |-> 5, nodes |-> {1, 4, 9, 11, 14, 18, 20, 21, 28}]
AllRings == RingsOf(1) \union RingsOf(2) \union RingsOf(3) \union {Workshop}
=============================================================================
