------------------------------ MODULE MCDesktop -------------------------------
(* A pointer with two places; minutes of two seconds, hours of one minute and *)
(* days of two hours.  The video player, which redraws on its own, is used    *)
(* with the pointer moving, and together with Paint under a pointer at rest.  *)
EXTENDS Desktop

MCFormats  == {[bcd |-> TRUE, hours24 |-> TRUE]}
MCSessions == {{"video"}, {"video", "paint"}}
MCRestless == {{"video"}}
===============================================================================
