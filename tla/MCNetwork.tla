------------------------------ MODULE MCNetwork ------------------------------
(* A ring of 8 words, frames of 3 and 4 words with their header.  The sizes  *)
(* keep the shape of the real ones: a register wider than the ring, lengths  *)
(* that are and are not multiples of 4, room behind the ring for what is     *)
(* copied, and a frame shorter than an echo's copy.                          *)
EXTENDS Network

MCLengths == {5, 12}
MCTested  == [arp |-> 1, echo |-> 1, other |-> 1]
MCCopied  == [arp |-> 1, echo |-> 8]
=============================================================================
