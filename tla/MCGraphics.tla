----------------------------- MODULE MCGraphics -----------------------------
(* A 4x3 screen, a 3x2 cache, coordinates beyond every edge; the shapes are  *)
(* a glyph with a hole and a single pixel.                                  *)
EXTENDS Graphics

MCCoords == -1 .. 4
MCSizes  == {0, 1, 3}
MCShapes == {{<<0, 0>>}, {<<0, 1>>, <<1, 0>>}}
=============================================================================
