------------------------------- MODULE MCDisk --------------------------------
(* Two tasks, two sectors of two words, two values: a transfer can be cut    *)
(* between its words, and a sector can be half of one value and half of the  *)
(* other if the code lets it.                                                *)
EXTENDS Disk
=============================================================================
