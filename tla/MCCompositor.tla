---------------------------- MODULE MCCompositor ----------------------------
(* Instances of Compositor for TLC: the root window of the first mode's      *)
(* place and an ordinary window, two modes, a screen of two pixels.          *)
EXTENDS Compositor

MCAttr == <<[root |-> TRUE, place_root |-> TRUE, place |-> "sky", mode |-> None,
              x |-> 0, width |-> 2],
            [root |-> FALSE, place_root |-> FALSE, place |-> None, mode |-> None,
              x |-> 1, width |-> 1]>>

Mouse(to, left) == [watch |-> "mouse", body |-> [to |-> to, left |-> left]]
Key(key, n) == [watch |-> "key", body |-> [key |-> key, n |-> n, down |-> TRUE]]

MCInputs == {Mouse(0, TRUE), Mouse(1, TRUE), Mouse(1, FALSE), Key("fn", 2), Key("tab", 0)}
MCMaxFlushes == <<0, 1>>
=============================================================================
