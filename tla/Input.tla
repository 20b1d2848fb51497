------------------------------- MODULE Input -------------------------------
(***************************************************************************)
(* From the PS/2 port to input events.  Interrupt handlers put the bytes   *)
(* of the keyboard and of the mouse into two rings (InputRing); the two    *)
(* user-space drivers open their device, bind its interrupt line and, at   *)
(* each tick, read the ring dry in chunks and turn bytes into events       *)
(* (drivers/keyboard_driver, drivers/mouse_driver).  The device table and  *)
(* the interrupt and DMA bindings they go through are those of             *)
(* kernel/src/drivers/device.rs and irq_dma.rs.                            *)
(*                                                                         *)
(* The variables of InputRing are the keyboard's ring; Mouse is the other. *)
(* A read is one step, so is the handling of one byte: interrupts may come *)
(* between any two.  Characters are named by the scan code of their key,   *)
(* with the level (upper, altgr) and the accent that choose the glyph.     *)
(***************************************************************************)
EXTENDS InputRing, FiniteSets, SequencesExt

CONSTANTS
  MouseN,      \* the length of the mouse's ring
  Scenes,      \* what the user and the bundles do: records of
               \*   drivers (the modules of the boot image), strokes,
               \*   packets, bundles, maxKeys, maxPackets, maxDma
  None         \* the absent value

VARIABLES
  scene,
  typed,    \* the strokes made so far: [code, ext, down]
  kwire,    \* the bytes of the last stroke the port still holds
  kbd,      \* the keyboard driver
  keys,     \* the KEY_EVENT things it made, in order
  mbuf, mhead, mtail, mout, mlost,
  moved,    \* the packets the mouse sent so far
  mwire,
  mouse,    \* the mouse driver
  moves,    \* the INPUT_EVENT and MOUSE_BUTTON things it made
  caps,     \* capability edges: <<bundle, target, capability>>
  irqs,     \* IRQ_STATE: next_handle and bindings
  dma       \* DMA_STATE, and the DMA_EVENT things

mouseRing == <<mbuf, mhead, mtail, mout, mlost>>
keyVars == <<typed, kwire, kbd, keys>>
mouseVars == <<moved, mwire, mouse, moves>>
bindVars == <<caps, irqs, dma>>
vars == <<scene, ringVars, mouseRing, keyVars, mouseVars, bindVars>>

Mouse == INSTANCE InputRing
           WITH buf <- mbuf, head <- mhead, tail <- mtail, out <- mout,
                lost <- mlost, N <- MouseN

Bit(b, k) == (b \div 2^k) % 2 = 1

---------------------------------------------------------------------------
(* The device table and the interrupt bindings *)

\* The endpoints in the order init_drivers registers them; handles count
\* from 1.
Devices == <<"framebuffer", "serial", "keyboard", "mouse">>

\* DeviceTable::open: the endpoint of a kind with a given index among its
\* kind.
dev_open(kind, index) ==
  LET same == {h \in DOMAIN Devices : Devices[h] = kind}
      nth  == {h \in same : Cardinality({g \in same : g < h}) = index}
  IN  IF nth = {} THEN None ELSE CHOOSE h \in nth : TRUE

\* The device that dev_read goes to: the endpoint with this handle, if any.
dev_read(handle) == IF handle \in DOMAIN Devices THEN Devices[handle] ELSE None

has_capability(bundle, target, cap) == <<bundle, target, cap>> \in caps

\* IrqState::bind.
irq_bind(bundle, device) ==
  IF has_capability(bundle, device, "CAN_HANDLE_IRQ")
  THEN irqs.next ELSE None

bound(bundle, device) ==
  IF irq_bind(bundle, device) = None THEN irqs
  ELSE [next |-> irqs.next + 1,
        bindings |-> irqs.bindings \cup
          {[handle |-> irqs.next, bundle |-> bundle, device |-> device]}]

\* Mutant: the driver may read its device and not bind its line.
driver_caps_read(name) == {<<name, name, "CAN_READ">>}

\* What the launcher grants a driver before its task runs.
driver_caps(name) ==
  {<<name, name, c>> : c \in {"CAN_READ", "CAN_HANDLE_IRQ", "CAN_PORT_IO"}}

---------------------------------------------------------------------------
(* Keys *)

Letters == (\h10..\h19) \cup (\h1E..\h26) \cup (\h2C..\h32)

Characters ==
  (\h02..\h0D) \cup (\h10..\h1B) \cup (\h1E..\h29) \cup {\h2B}
    \cup (\h2C..\h35) \cup {\h39}

\* KeyCode, with the named keys that only differ in their name as one.
KeyCode == {"Character", "Shift", "AltRight", "CapsLock", "NumLock",
            "Keypad", "KeypadDecimal", "KeypadSign", "Named", "Unknown"}

decode_extended(code) ==
  CASE code = \h38 -> "AltRight"
    [] code = \h35 -> "KeypadSign"
    [] code \in {\h1C, \h1D, \h47, \h48, \h49, \h4B, \h4D}
                 \cup (\h4F..\h53) \cup (\h5B..\h5D) -> "Named"
    [] OTHER -> "Unknown"

decode_plain(code) ==
  CASE code \in Characters -> "Character"
    [] code \in {\h2A, \h36} -> "Shift"
    [] code = \h3A -> "CapsLock"
    [] code = \h45 -> "NumLock"
    [] code \in {\h47, \h48, \h49, \h4B, \h4C, \h4D} \cup (\h4F..\h52)
         -> "Keypad"
    [] code = \h53 -> "KeypadDecimal"
    [] code \in {\h37, \h4A, \h4E} -> "KeypadSign"
    [] code \in {\h01, \h0E, \h0F, \h1C, \h1D, \h38, \h46, \h57, \h58}
                 \cup (\h3B..\h44) -> "Named"
    [] OTHER -> "Unknown"

decode_key(code, ext) ==
  IF ext THEN decode_extended(code) ELSE decode_plain(code)

update_state(k, key, down) ==
  [k EXCEPT
     !.shift = IF key = "Shift" THEN down ELSE @,
     !.altgr = IF key = "AltRight" THEN down ELSE @,
     !.caps_lock = IF key = "CapsLock" /\ down THEN ~@ ELSE @,
     !.num_lock = IF key = "NumLock" /\ down THEN ~@ ELSE @]

\* The AltGr level: keys whose glyph follows the case, follows shift, or is
\* fixed.
AltGrCased == {\h10, \h11, \h12, \h1E, \h20, \h26, \h2C, \h31} \cup (\h14..\h19)
AltGrShifted == {\h02, \h05, \h0D, \h1F, \h27, \h28, \h2B, \h2E, \h33}
AltGrFixed == {\h03, \h04, \h13, \h1A, \h1B, \h32, \h35} \cup (\h06..\h0C)

Char(code, upper, altgr, accent) ==
  [code |-> code, upper |-> upper, altgr |-> altgr, accent |-> accent]

altgr_char(code, shift, uppercase) ==
  Char(code, \/ code \in AltGrCased /\ uppercase
             \/ code \in AltGrShifted /\ shift, TRUE, "None")

\* The letters each dead key combines with: a, e, i, o, u and a few more.
Vowels == {\h1E, \h12, \h17, \h18, \h16}
Composes(dead) ==
  CASE dead = "Acute"      -> Vowels \cup {\h2E, \h31}
    [] dead = "Grave"      -> Vowels
    [] dead = "Circumflex" -> Vowels \cup {\h2E}
    [] dead = "Diaeresis"  -> Vowels \cup {\h15}
    [] dead = "Tilde"      -> {\h1E, \h18, \h31}
    [] OTHER               -> {}

apply_dead_key(dead, code) == IF code \in Composes(dead) THEN dead ELSE "None"

\* A digit follows shift.
Digits == \h02..\h0B
digit(code, shift) == Char(code, shift, FALSE, "None")

\* So does a symbol, but the space has one level and 1A no glyph.
symbol(code, shift) ==
  IF code = \h1A THEN None ELSE Char(code, shift /\ code # \h39, FALSE, "None")

\* A letter follows shift and caps lock and takes the accent.
plain_char(k, code) ==
  IF code \in Letters
  THEN Char(code, k.shift # k.caps_lock, FALSE, apply_dead_key(k.deadkey, code))
  ELSE IF code \in Digits THEN digit(code, k.shift)
  ELSE symbol(code, k.shift)

key_char(k, key, code) ==
  IF key = "Character"
  THEN IF k.altgr /\ code \in AltGrCased \cup AltGrShifted \cup AltGrFixed
       THEN altgr_char(code, k.shift, k.shift # k.caps_lock)
       ELSE plain_char(k, code)
  ELSE IF key = "KeypadSign" \/ (key \in {"Keypad", "KeypadDecimal"} /\ k.num_lock)
       THEN Char(code, FALSE, FALSE, "None")
       ELSE None

\* Any character that a character key yields uses the dead key up.
resolve_dead_key(k, key, char) ==
  IF key = "Character" /\ char # None THEN [k EXCEPT !.deadkey = "None"] ELSE k

dead_key(k, code) ==
  IF k.altgr THEN "None"
  ELSE CASE code = \h28 -> "Acute"
         [] code = \h29 -> IF k.shift THEN "Tilde" ELSE "Grave"
         [] code = \h2B -> "Circumflex"
         [] code = \h1A -> "Diaeresis"
         [] OTHER -> "None"

---------------------------------------------------------------------------
(* The keyboard driver *)

\* The fields describe_key fills in: the character, if the key has one.
emitted(k, code, ext, down) ==
  LET key == decode_key(code, ext)
      k1  == update_state(k, key, down)
  IN  [code |-> code, key |-> key, down |-> down,
       char |-> key_char(k1, key, code)]

\* emit_event: the driver afterwards, and the events it makes.
emit_event(k, scancode, ext) ==
  LET down == ~Bit(scancode, 7)
      code == scancode % 128
      dead == IF down /\ ~ext THEN dead_key(k, code) ELSE "None"
      ev   == emitted(k, code, ext, down)
  IN  IF dead # "None"
      THEN [k |-> [k EXCEPT !.deadkey = dead], events |-> <<>>]
      ELSE [k |-> resolve_dead_key(update_state(k, ev.key, down), ev.key, ev.char),
            events |-> <<ev>>]

handle_scancode(k, scancode) ==
  IF k.prefix THEN emit_event([k EXCEPT !.prefix = FALSE], scancode, TRUE)
  ELSE IF scancode = \hE0 THEN [k |-> [k EXCEPT !.prefix = TRUE], events |-> <<>>]
  ELSE emit_event(k, scancode, FALSE)

NewKeyboard ==
  [pc |-> "off", at |-> 0, dev |-> None, irq |-> None, prefix |-> FALSE,
   shift |-> FALSE, caps_lock |-> FALSE, altgr |-> FALSE, deadkey |-> "None",
   num_lock |-> FALSE]

\* start_user_task: the capabilities are granted before the task is entered.
LaunchKeyboard ==
  /\ "keyboard" \in scene.drivers /\ kbd.pc = "off"
  /\ caps' = caps \cup driver_caps("keyboard")
  /\ kbd' = [kbd EXCEPT !.pc = "init"]
  /\ UNCHANGED <<scene, ringVars, mouseRing, typed, kwire, keys, mouseVars,
                 irqs, dma>>

InitKeyboard ==
  /\ kbd.pc = "init"
  /\ kbd' = [kbd EXCEPT !.pc = "idle", !.dev = dev_open("keyboard", 0),
                        !.irq = irq_bind("keyboard", "keyboard")]
  /\ irqs' = bound("keyboard", "keyboard")
  /\ UNCHANGED <<scene, ringVars, mouseRing, typed, kwire, keys, mouseVars,
                 caps, dma>>

\* tick does nothing without both handles.
TickKeyboard ==
  /\ kbd.pc = "idle" /\ kbd.irq # None /\ kbd.dev # None
  /\ kbd' = [kbd EXCEPT !.pc = "read"]
  /\ UNCHANGED <<scene, ringVars, mouseRing, typed, kwire, keys, mouseVars,
                 bindVars>>

\* Mutant: a chunk that ends after E0 loses the prefix.
ReadKeyboardForgets ==
  /\ kbd.pc = "read"
  /\ IF head # tail
     THEN read /\ kbd' = [kbd EXCEPT !.pc = "handle", !.at = 1, !.prefix = FALSE]
     ELSE UNCHANGED ringVars /\ kbd' = [kbd EXCEPT !.pc = "idle"]
  /\ UNCHANGED <<scene, mouseRing, typed, kwire, keys, mouseVars, bindVars>>

\* dev_read through the endpoint with this handle; zero bytes end the loop,
\* and irq_ack always succeeds.
ReadKeyboard ==
  /\ kbd.pc = "read"
  /\ IF dev_read(kbd.dev) = "keyboard" /\ head # tail
     THEN read /\ kbd' = [kbd EXCEPT !.pc = "handle", !.at = 1]
     ELSE UNCHANGED ringVars /\ kbd' = [kbd EXCEPT !.pc = "idle"]
  /\ UNCHANGED <<scene, mouseRing, typed, kwire, keys, mouseVars, bindVars>>

HandleScancode ==
  /\ kbd.pc = "handle"
  /\ LET r == handle_scancode(kbd, out[kbd.at]) IN
     /\ keys' = keys \o r.events
     /\ kbd' = IF kbd.at < Len(out) THEN [r.k EXCEPT !.at = @ + 1]
               ELSE [r.k EXCEPT !.pc = "read", !.at = 0]
  /\ UNCHANGED <<scene, ringVars, mouseRing, typed, kwire, mouseVars, bindVars>>

---------------------------------------------------------------------------
(* The mouse driver *)

Signed(b) == IF b > 127 THEN b - 256 ELSE b
wrapping_neg(i) == IF i = -128 THEN i ELSE -i

\* PacketDecoder::feed: a first byte without bit 3 is skipped, a packet with
\* an overflow bit is dropped whole.
feed(m, byte) ==
  IF m.index = 0 /\ ~Bit(byte, 3) THEN m
  ELSE
    LET packet == [m.packet EXCEPT ![m.index + 1] = byte]
        m1 == [m EXCEPT !.packet = packet, !.index = (@ + 1) % 3]
        buttons == packet[1] % 8
    IN  IF m1.index # 0 \/ Bit(packet[1], 6) \/ Bit(packet[1], 7) THEN m1
        ELSE [m1 EXCEPT
                !.buttons = buttons,
                !.events = Append(@,
                  [dx |-> Signed(packet[2]),
                   dy |-> wrapping_neg(Signed(packet[3])),
                   buttons |-> buttons,
                   changed |-> buttons # m.buttons])]

emit_mouse_event(e) ==
  <<[kind |-> "move", dx |-> e.dx, dy |-> e.dy, buttons |-> e.buttons]>>
    \o (IF e.changed
        THEN <<[kind |-> "button", buttons |-> e.buttons, down |-> e.buttons # 0]>>
        ELSE <<>>)

NewMouse ==
  [pc |-> "off", at |-> 0, dev |-> None, irq |-> None,
   packet |-> <<0, 0, 0>>, index |-> 0, buttons |-> 0, events |-> <<>>]

LaunchMouse ==
  /\ "mouse" \in scene.drivers /\ mouse.pc = "off"
  /\ caps' = caps \cup driver_caps("mouse")
  /\ mouse' = [mouse EXCEPT !.pc = "init"]
  /\ UNCHANGED <<scene, ringVars, mouseRing, keyVars, moved, mwire, moves,
                 irqs, dma>>

InitMouse ==
  /\ mouse.pc = "init"
  /\ mouse' = [mouse EXCEPT !.pc = "idle", !.dev = dev_open("mouse", 0),
                            !.irq = irq_bind("mouse", "mouse")]
  /\ irqs' = bound("mouse", "mouse")
  /\ UNCHANGED <<scene, ringVars, mouseRing, keyVars, moved, mwire, moves,
                 caps, dma>>

TickMouse ==
  /\ mouse.pc = "idle" /\ mouse.irq # None /\ mouse.dev # None
  /\ mouse' = [mouse EXCEPT !.pc = "read"]
  /\ UNCHANGED <<scene, ringVars, mouseRing, keyVars, moved, mwire, moves,
                 bindVars>>

\* poll_events reads the ring dry; only then are the events made.
ReadMouse ==
  /\ mouse.pc = "read"
  /\ IF dev_read(mouse.dev) = "mouse" /\ mhead # mtail
     THEN Mouse!read /\ mouse' = [mouse EXCEPT !.pc = "handle", !.at = 1]
     ELSE UNCHANGED mouseRing /\ mouse' = [mouse EXCEPT !.pc = "emit"]
  /\ UNCHANGED <<scene, ringVars, keyVars, moved, mwire, moves, bindVars>>

HandleByte ==
  /\ mouse.pc = "handle"
  /\ LET m == feed(mouse, mout[mouse.at]) IN
     mouse' = IF mouse.at < Len(mout) THEN [m EXCEPT !.at = @ + 1]
              ELSE [m EXCEPT !.pc = "read", !.at = 0]
  /\ UNCHANGED <<scene, ringVars, mouseRing, keyVars, moved, mwire, moves,
                 bindVars>>

EmitMouse ==
  /\ mouse.pc = "emit"
  /\ IF mouse.events = <<>>
     THEN mouse' = [mouse EXCEPT !.pc = "idle"] /\ UNCHANGED moves
     ELSE /\ moves' = moves \o emit_mouse_event(Head(mouse.events))
          /\ mouse' = [mouse EXCEPT !.events = Tail(@)]
  /\ UNCHANGED <<scene, ringVars, mouseRing, keyVars, moved, mwire, bindVars>>

---------------------------------------------------------------------------
(* The devices: a stroke or a movement reaches the port byte by byte, each *)
(* byte with an interrupt.                                                 *)

\* Scan code set 1: E0 before an extended key, bit 7 for a release.
Bytes(s) ==
  (IF s.ext THEN <<\hE0>> ELSE <<>>) \o <<s.code + (IF s.down THEN 0 ELSE 128)>>

\* The devices send bytes, and 0 is the byte the rings start out with.
ASSUME InputAssumption ==
  /\ MouseN \in Nat /\ MouseN > 1
  /\ 0 \in Values
  /\ \A s \in Scenes : /\ \A k \in s.strokes : Bytes(k) \in Seq(Values)
                       /\ s.packets \subseteq Seq(Values)

TypeKey(s) ==
  /\ kwire = <<>> /\ Len(typed) < scene.maxKeys
  /\ typed' = Append(typed, s)
  /\ kwire' = Bytes(s)
  /\ UNCHANGED <<scene, ringVars, mouseRing, kbd, keys, mouseVars, bindVars>>

keyboard_interrupt_handler ==
  /\ kwire # <<>>
  /\ interrupt_handler(Head(kwire))
  /\ kwire' = Tail(kwire)
  /\ UNCHANGED <<scene, mouseRing, typed, kbd, keys, mouseVars, bindVars>>

MoveMouse(p) ==
  /\ mwire = <<>> /\ Len(moved) < scene.maxPackets
  /\ moved' = Append(moved, p)
  /\ mwire' = p
  /\ UNCHANGED <<scene, ringVars, mouseRing, keyVars, mouse, moves, bindVars>>

mouse_interrupt_handler ==
  /\ mwire # <<>>
  /\ Mouse!interrupt_handler(Head(mwire))
  /\ mwire' = Tail(mwire)
  /\ UNCHANGED <<scene, ringVars, keyVars, moved, mouse, moves, bindVars>>

---------------------------------------------------------------------------
(* DMA *)

others == <<scene, ringVars, mouseRing, keyVars, mouseVars>>

\* A capability edge that a bundle is given while it runs.
Grant(bundle, target) ==
  /\ caps' = caps \cup {<<bundle, target, "CAN_DMA">>}
  /\ UNCHANGED <<others, irqs, dma>>

dma_map(bundle, buffer) ==
  /\ Len(dma.mappings) < scene.maxDma
  /\ has_capability(bundle, buffer, "CAN_DMA")
  /\ dma' = [dma EXCEPT !.mappings =
               Append(@, [bundle |-> bundle, buffer |-> buffer])]
  /\ UNCHANGED <<others, caps, irqs>>

\* Mutant: any bundle's mapping will do.
dma_submit_any(bundle, device, mapping) ==
  /\ Len(dma.submissions) < scene.maxDma
  /\ mapping \in DOMAIN dma.mappings
  /\ has_capability(bundle, device, "CAN_DMA")
  /\ dma' = [dma EXCEPT !.submissions =
               Append(@, [bundle |-> bundle, device |-> device,
                          mapping |-> mapping, status |-> "Pending"])]
  /\ UNCHANGED <<others, caps, irqs>>

dma_submit(bundle, device, mapping) ==
  /\ Len(dma.submissions) < scene.maxDma
  /\ mapping \in DOMAIN dma.mappings
  /\ dma.mappings[mapping].bundle = bundle
  /\ has_capability(bundle, device, "CAN_DMA")
  /\ dma' = [dma EXCEPT !.submissions =
               Append(@, [bundle |-> bundle, device |-> device,
                          mapping |-> mapping, status |-> "Pending"])]
  /\ UNCHANGED <<others, caps, irqs>>

\* DmaState::wait, refused to other bundles: the submission is complete,
\* although nothing is transferred.
wait(handle) == [dma EXCEPT !.submissions[handle].status = "Complete"]

\* Every wait makes a DMA_EVENT, however often it is repeated.
emit_dma_event(s) ==
  [owner |-> s.bundle, device |-> s.device, buffer |-> s.mapping]

dma_wait(bundle, handle) ==
  /\ handle \in DOMAIN dma.submissions
  /\ dma.submissions[handle].bundle = bundle
  /\ dma' = [wait(handle) EXCEPT
               !.events = @ \cup {emit_dma_event(dma.submissions[handle])}]
  /\ UNCHANGED <<others, caps, irqs>>

---------------------------------------------------------------------------

Init ==
  /\ scene \in Scenes
  /\ RingInit(0) /\ Mouse!RingInit(0)
  /\ typed = <<>> /\ kwire = <<>> /\ kbd = NewKeyboard /\ keys = <<>>
  /\ moved = <<>> /\ mwire = <<>> /\ mouse = NewMouse /\ moves = <<>>
  /\ caps = {}
  /\ irqs = [next |-> 1, bindings |-> {}]
  /\ dma = [mappings |-> <<>>, submissions |-> <<>>, events |-> {}]

KeyboardStep ==
  LaunchKeyboard \/ InitKeyboard \/ TickKeyboard \/ ReadKeyboard \/ HandleScancode

MouseStep ==
  LaunchMouse \/ InitMouse \/ TickMouse \/ ReadMouse \/ HandleByte \/ EmitMouse

DmaStep ==
  \E b \in scene.bundles :
    \/ \E t \in {"disk", "pages"} : Grant(b, t) \/ dma_map(b, t)
    \/ \E t \in {"disk", "pages"}, h \in 1..scene.maxDma : dma_submit(b, t, h)
    \/ \E h \in 1..scene.maxDma : dma_wait(b, h)

Next ==
  \/ KeyboardStep
  \/ MouseStep
  \/ \E s \in scene.strokes : TypeKey(s)
  \/ keyboard_interrupt_handler
  \/ \E p \in scene.packets : MoveMouse(p)
  \/ mouse_interrupt_handler
  \/ DmaStep

Spec == Init /\ [][Next]_vars

\* Both drivers are tasks, and every ready task gets its turn.
FairSpec == Spec /\ WF_vars(KeyboardStep) /\ WF_vars(MouseStep)

---------------------------------------------------------------------------
(* What the user's strokes and movements stand for *)

IsKey(s, codes, ext) == s.code \in codes /\ s.ext = ext

\* The last stroke of one of these keys up to the i-th was a press.
Held(codes, ext, i) ==
  LET js == {j \in 1..i : IsKey(typed[j], codes, ext)} IN
  js # {} /\ typed[CHOOSE j \in js : \A k \in js : k <= j].down

Toggled(code, i) ==
  Cardinality({j \in 1..i : IsKey(typed[j], {code}, FALSE) /\ typed[j].down}) % 2 = 1

ShiftHeld(i) == Held({\h2A, \h36}, FALSE, i)
AltGrHeld(i) == Held({\h38}, TRUE, i)

\* A press that only prepares the next character.
IsDead(i) ==
  /\ IsKey(typed[i], {\h1A, \h28, \h29, \h2B}, FALSE)
  /\ typed[i].down /\ ~AltGrHeld(i)

YieldsCharacter(i) ==
  /\ IsKey(typed[i], Characters, FALSE) /\ ~IsDead(i)
  /\ typed[i].code = \h1A => AltGrHeld(i)

\* The dead key that waits for a character when the i-th stroke comes.
Waiting(i) == {j \in 1..i-1 : IsDead(j) /\ \A k \in j+1..i-1 :
                                ~IsDead(k) /\ ~YieldsCharacter(k)}

\* What the user should see of each stroke: the key, and for a letter its
\* case and whether it carries the accent that waits for it.
Meant(i) ==
  LET s == typed[i]
      plain == IsKey(s, Letters, FALSE)
                 /\ ~(AltGrHeld(i) /\ s.code \in AltGrCased \cup AltGrShifted \cup AltGrFixed)
  IN  [code |-> s.code, down |-> s.down,
       upper |-> plain /\ ShiftHeld(i) # Toggled(\h3A, i),
       accent |-> plain /\ \E j \in Waiting(i) :
                    IsKey(s, Vowels, FALSE)
                      /\ (typed[j].code = \h29 /\ ShiftHeld(j) => s.code \in {\h1E, \h18})]

Seen(e) ==
  [code |-> e.code, down |-> e.down,
   upper |-> e.char # None /\ e.code \in Letters /\ e.char.upper /\ ~e.char.altgr,
   accent |-> e.char # None /\ e.code \in Vowels /\ e.char.accent # "None"]

Strokes == SelectSeq([i \in 1..Len(typed) |-> i], LAMBDA i : ~IsDead(i))

Shown == [i \in 1..Len(keys) |-> Seen(keys[i])]
Wanted == [i \in 1..Len(Strokes) |-> Meant(Strokes[i])]

MeantMove(p) == <<Signed(p[2]), wrapping_neg(Signed(p[3])), p[1] % 8>>
WantedMoves ==
  LET whole == SelectSeq(moved, LAMBDA p : p[1] < 64) IN
  [i \in 1..Len(whole) |-> MeantMove(whole[i])]
ShownMoves ==
  LET ms == SelectSeq(moves, LAMBDA e : e.kind = "move") IN
  [i \in 1..Len(ms) |-> <<ms[i].dx, ms[i].dy, ms[i].buttons>>]
ButtonEvents == SelectSeq(moves, LAMBDA e : e.kind = "button")

---------------------------------------------------------------------------
(* Properties *)

\* As long as no byte was refused, the key events are those of the strokes
\* made so far, in order, each once, with the case and the accent that the
\* strokes before it call for: however the reads cut the stream, also in the
\* middle of an E0 sequence, and however early the user typed.  The movements
\* are those of the packets sent, without the ones that overflowed, and a
\* MOUSE_BUTTON event reports a change of the buttons even when bytes were lost
\* and the decoder reads packets out of step.
EventsAsMade ==
  /\ \A i \in DOMAIN keys : keys[i].key \in KeyCode
  /\ lost = 0 => IsPrefix(Shown, Wanted)
  /\ mlost = 0 => IsPrefix(ShownMoves, WantedMoves)
  /\ \A i \in DOMAIN ButtonEvents :
       ButtonEvents[i].buttons # (IF i = 1 THEN 0 ELSE ButtonEvents[i - 1].buttons)

\* A DMA_EVENT goes to a bundle that holds CAN_DMA on the device and on the
\* buffer it mapped itself, and an interrupt line is bound only by a bundle
\* that may handle it: handles of other bundles are of no use.
BoundByConsent ==
  /\ \A e \in dma.events :
       /\ has_capability(e.owner, e.device, "CAN_DMA")
       /\ dma.mappings[e.buffer].bundle = e.owner
       /\ has_capability(e.owner, dma.mappings[e.buffer].buffer, "CAN_DMA")
  /\ \A b \in irqs.bindings : has_capability(b.bundle, b.device, "CAN_HANDLE_IRQ")

\* Whatever was typed or moved before or after the drivers started, once the
\* user stops every stroke and every movement has its event, unless a ring
\* overflowed.
EverythingArrives ==
  <>[](/\ lost = 0 /\ kwire = <<>> => Shown = Wanted
       /\ mlost = 0 /\ mwire = <<>> => ShownMoves = WantedMoves)
=============================================================================
