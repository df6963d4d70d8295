---------------------------- MODULE MCApplications ----------------------------
(* What a session leaves closed cannot change in it, except that the shell   *)
(* takes the keys of a closed note pad; so windows are tried one by one, the *)
(* note pad together with the serial window that also takes the keys.        *)
EXTENDS Applications

MCSessions == {{"shell"}, {"pad", "serial"}, {"calc"}, {"gallery"}, {"paint"}, {"video", "music"}}
===============================================================================
