---------------------------- MODULE MCFileSystem ----------------------------
(* A model-checking instance of FileSystem: a directory of two slots, an    *)
(* empty file, one of a sector and one that reaches into the next slot, a   *)
(* plain name and one with a dot that is also linked into the kernel.       *)
EXTENDS FileSystem, TLC

MCNota    == <<"n", "o", "t", "a">>
MCFoto    == <<"f", "o", "t", "o", ".", "b", "m", "p">>
MCApp     == <<"a", "p", "p", ".", "e", "l", "f">>

MCNames  == {MCNota, MCFoto}
MCSizes  == {0, 300, 513}
MCLinked == {MCFoto, MCApp}
MCLinkedFirst == {MCApp}
MCSymmetry == Permutations(Contents)

=============================================================================
