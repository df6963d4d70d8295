------------------------------ MODULE MCWindows ------------------------------
(* A desktop of 5x4 with a task bar below (row 4), windows of 3x2, 2x2 and   *)
(* 4x3 (the last open at first), two columns of one icon, partly under the   *)
(* windows, and a menu of two items.                                         *)
EXTENDS Windows

MCWindowIds == 0 .. 2
MCWidth     == [i \in MCWindowIds |-> <<3, 2, 4>>[i + 1]]
MCHeight    == [i \in MCWindowIds |-> <<2, 2, 3>>[i + 1]]
MCStartX    == [i \in MCWindowIds |-> <<0, 2, 1>>[i + 1]]
MCStartY    == [i \in MCWindowIds |-> <<1, 0, 0>>[i + 1]]
MCStartOpen == {2}
MCColumns   == 0 .. 4
MCRows      == {0, 1, 2, 4}
MCCloseBox  == {-1, 0} \X {0}
MCIconAt    == <<[p \in MCColumns \X MCRows |-> IF p = <<0, 0>> THEN 0 ELSE -1],
                 [p \in MCColumns \X MCRows |-> IF p = <<1, 0>> THEN 1 ELSE -1]>>
MCMenuArea  == (0 .. 1) \X (0 .. 2)
MCMenuItems == {0, 2}
MCStart     == {<<0, 4>>}
MCPower     == {<<2, 4>>}
=============================================================================
