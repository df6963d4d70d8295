------------------------------- MODULE MCInput -------------------------------
(* Two character keys: a letter, and the key of two accents.  A pointer on    *)
(* 3x2 pixels; motion bytes with and without bit 3 (255, that is -1, and 1);  *)
(* 250 is the PS/2 acknowledgement.                                         *)
EXTENDS Input

MCKeys    == {"a", "accent"}
MCPlain   == [a |-> "a", accent |-> "grave"]
MCShift   == [a |-> "A", accent |-> "tilde"]
MCCapital == [a |-> "A"]
MCAccents == {"grave", "tilde"}
MCComposed ==
  [p \in MCAccents \X {"a"} |-> IF p[1] = "grave" THEN "a_grave" ELSE "a_tilde"]
=============================================================================
