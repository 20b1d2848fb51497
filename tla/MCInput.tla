------------------------------ MODULE MCInput ------------------------------
(* Small rings and short sessions, so that both rings overflow.            *)
EXTENDS Input

Key(code, ext, down) == [code |-> code, ext |-> ext, down |-> down]

Quiet == [drivers |-> {}, strokes |-> {}, packets |-> {}, bundles |-> {},
          maxKeys |-> 0, maxPackets |-> 0, maxDma |-> 0]

\* a with a shift, caps lock, and an extended key that shares a code with a
\* dead key and one with a shift.
Typing ==
  [Quiet EXCEPT !.drivers = {"keyboard"}, !.maxKeys = 3,
     !.strokes = {Key(\h1E, FALSE, TRUE), Key(\h2A, FALSE, TRUE),
                  Key(\h2A, FALSE, FALSE), Key(\h3A, FALSE, TRUE),
                  Key(\h2A, TRUE, TRUE), Key(\h48, TRUE, TRUE)}]

\* Dead keys with and without AltGr and shift.
Accents ==
  [Quiet EXCEPT !.drivers = {"keyboard"}, !.maxKeys = 4,
     !.strokes = {Key(\h29, FALSE, TRUE), Key(\h1A, FALSE, TRUE),
                  Key(\h1A, FALSE, FALSE), Key(\h12, FALSE, TRUE),
                  Key(\h38, TRUE, TRUE), Key(\h36, FALSE, TRUE)}]

\* Keypad and its lock, the space, a digit, a key without a code.
Keypad ==
  [Quiet EXCEPT !.drivers = {"keyboard"}, !.maxKeys = 3,
     !.strokes = {Key(\h45, FALSE, TRUE), Key(\h47, FALSE, TRUE),
                  Key(\h35, TRUE, TRUE), Key(\h02, FALSE, TRUE),
                  Key(\h39, FALSE, FALSE), Key(\h60, FALSE, TRUE),
                  Key(\h1C, FALSE, FALSE), Key(\h53, FALSE, TRUE)}]

\* Movements whose second byte looks like a first one; the smallest i8; an
\* overflowed packet; a button pressed and released.
Pointing ==
  [Quiet EXCEPT !.drivers = {"mouse"}, !.maxPackets = 3,
     !.packets = {<<8, 8, 1>>, <<9, 200, 128>>, <<72, 9, 0>>}]

Both ==
  [Quiet EXCEPT !.drivers = {"keyboard", "mouse"},
     !.maxKeys = 1, !.maxPackets = 1,
     !.strokes = {Key(\h48, TRUE, FALSE)}, !.packets = {<<9, 5, 250>>}]

Dma == [Quiet EXCEPT !.bundles = {"a", "b"}, !.maxDma = 2]

MCScenes == {Typing, Accents, Keypad, Pointing, Both, Dma}

\* Every byte the scenes send.
MCValues ==
  UNION {UNION {Range(Bytes(k)) : k \in s.strokes} \cup
         UNION {Range(p) : p \in s.packets} : s \in MCScenes}
=============================================================================
