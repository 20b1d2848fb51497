------------------------------ MODULE MCPainter ------------------------------
(* A small screen with two overlapping windows, one of them with more text   *)
(* than it shows.                                                            *)
EXTENDS Painter

Win(id, x, y, w, h, text, image, scroll) ==
    [id |-> id, x |-> x, y |-> y, w |-> w, h |-> h, text |-> text, image |-> image,
     scroll |-> scroll, caret |-> [x |-> 0, y |-> 0, w |-> 1, h |-> 1, visible |-> TRUE]]

MCDesks == {<<Win("A", 0, 0, 4, 6, <<"c", "nl", "c", "c", "c">>, 0, 1), Win("B", 2, 2, 4, 5, <<>>, 1, 0)>>}
MCSpots == {<<0, 1>>, <<1, 1>>, <<3, 4>>, <<5, 6>>}
=============================================================================
