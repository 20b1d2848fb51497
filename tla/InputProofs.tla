---------------------------- MODULE InputProofs ----------------------------
(***************************************************************************)
(* The interrupt and DMA bindings of Input are made by consent, and its    *)
(* two rings are the queues of LossyQueue, for any scenes, rings and       *)
(* chunks.                                                                 *)
(***************************************************************************)
EXTENDS Input, InputRingProofs

Holders == UNION {s.bundles : s \in Scenes}
Targets == {"disk", "pages"}

Mapping == [bundle : Holders, buffer : Targets]
Submission == [bundle : Holders, device : Targets, mapping : Nat,
               status : {"Pending", "Complete"}]
DmaEvent == [owner : Holders, device : Targets, buffer : Nat]

(* DMA_STATE and the events made from it. *)
DmaTypeOK ==
  /\ scene \in Scenes
  /\ dma \in [mappings : Seq(Mapping), submissions : Seq(Submission),
              events : SUBSET DmaEvent]

(* The mapping m was made by bundle b. *)
OwnMapping(b, m) ==
  /\ m \in DOMAIN dma.mappings
  /\ dma.mappings[m].bundle = b

(* BoundByConsent rests on what the tables hold before an event is made: a
   mapping is on a buffer its bundle may use, and a submission goes to a device
   its bundle may use, with a mapping of the same bundle.  Capabilities are
   never taken back. *)
ConsentInv ==
  /\ DmaTypeOK
  /\ \A m \in DOMAIN dma.mappings :
       has_capability(dma.mappings[m].bundle, dma.mappings[m].buffer, "CAN_DMA")
  /\ \A h \in DOMAIN dma.submissions :
       LET s == dma.submissions[h] IN
       OwnMapping(s.bundle, s.mapping) /\ has_capability(s.bundle, s.device, "CAN_DMA")
  /\ \A e \in dma.events :
       OwnMapping(e.owner, e.buffer) /\ has_capability(e.owner, e.device, "CAN_DMA")
  /\ \A b \in irqs.bindings : has_capability(b.bundle, b.device, "CAN_HANDLE_IRQ")

(* A step that adds capabilities and leaves the tables alone. *)
LEMMA ConsentGrows ==
  ASSUME ConsentInv, caps \subseteq caps', UNCHANGED <<scene, irqs, dma>>
  PROVE  ConsentInv'
BY Zenon DEF ConsentInv, DmaTypeOK, OwnMapping, has_capability

(* bind records a line only for a bundle that may handle it. *)
LEMMA ConsentBound ==
  ASSUME ConsentInv, NEW b, NEW d, irqs' = bound(b, d), UNCHANGED <<scene, caps, dma>>
  PROVE  ConsentInv'
<1>1. \A x \in irqs'.bindings : has_capability(x.bundle, x.device, "CAN_HANDLE_IRQ")
  <2>1. CASE irq_bind(b, d) = None
    BY <2>1, Zenon DEF bound, ConsentInv
  <2>2. CASE irq_bind(b, d) # None
    <3> DEFINE new == [handle |-> irqs.next, bundle |-> b, device |-> d]
    <3>1. has_capability(b, d, "CAN_HANDLE_IRQ")
      BY <2>2, Zenon DEF irq_bind
    <3>2. irqs'.bindings = irqs.bindings \cup {new}
      BY <2>2 DEF bound
    <3>3. new.bundle = b /\ new.device = d
      OBVIOUS
    <3> HIDE DEF new
    <3> QED BY <3>1, <3>2, <3>3, Zenon DEF ConsentInv
  <2> QED BY <2>1, <2>2
<1> QED BY <1>1, Zenon DEF ConsentInv, DmaTypeOK, OwnMapping, has_capability

(* dma_map adds a mapping on a buffer the bundle may use. *)
LEMMA ConsentMap ==
  ASSUME ConsentInv, NEW b \in scene.bundles, NEW t \in Targets, dma_map(b, t)
  PROVE  ConsentInv'
<1> DEFINE new == [bundle |-> b, buffer |-> t]
           q == dma.mappings
<1>1. scene \in Scenes /\ q \in Seq(Mapping) /\ new \in Mapping
  BY DEF ConsentInv, DmaTypeOK, Holders, Mapping
<1>2. dma' = [dma EXCEPT !.mappings = Append(q, new)] /\ caps' = caps /\ irqs' = irqs
      /\ scene' = scene /\ has_capability(b, t, "CAN_DMA")
  BY Zenon DEF dma_map, others
<1>3. /\ dma'.mappings = Append(q, new)
      /\ dma'.submissions = dma.submissions /\ dma'.events = dma.events
      /\ dma' \in [mappings : Seq(Mapping), submissions : Seq(Submission),
                   events : SUBSET DmaEvent]
  <2> HIDE DEF new
  <2> QED BY <1>1, <1>2, AppendProperties DEF ConsentInv, DmaTypeOK
<1>4. /\ DOMAIN q \subseteq DOMAIN Append(q, new)
      /\ \A m \in DOMAIN q : Append(q, new)[m] = q[m]
      /\ \A m \in DOMAIN Append(q, new) : m \in DOMAIN q \/ Append(q, new)[m] = new
  <2> HIDE DEF new, q
  <2> QED BY <1>1, AppendProperties
<1>5. \A m \in DOMAIN dma'.mappings :
         has_capability(dma'.mappings[m].bundle, dma'.mappings[m].buffer, "CAN_DMA")
  <2> SUFFICES ASSUME NEW m \in DOMAIN Append(q, new)
               PROVE  has_capability(Append(q, new)[m].bundle, Append(q, new)[m].buffer, "CAN_DMA")
    BY <1>3, Zenon
  <2>1. CASE m \in DOMAIN q
    BY <1>4, <2>1, Zenon DEF ConsentInv
  <2>2. CASE Append(q, new)[m] = new
    <3>1. new.bundle = b /\ new.buffer = t
      OBVIOUS
    <3> HIDE DEF new
    <3> QED BY <1>2, <2>2, <3>1, Zenon
  <2> QED BY <1>4, <2>1, <2>2, Zenon
<1>6. \A x, m : OwnMapping(x, m) => OwnMapping(x, m)'
  BY <1>3, <1>4, Zenon DEF OwnMapping
<1> HIDE DEF new, q
<1> QED BY <1>2, <1>3, <1>5, <1>6, Zenon DEF ConsentInv, DmaTypeOK, has_capability

(* dma_submit adds a submission with a mapping of the same bundle, to a device
   the bundle may use. *)
LEMMA ConsentSubmit ==
  ASSUME ConsentInv, NEW b \in scene.bundles, NEW t \in Targets, NEW m \in Nat,
         dma_submit(b, t, m)
  PROVE  ConsentInv'
<1> DEFINE new == [bundle |-> b, device |-> t, mapping |-> m, status |-> "Pending"]
           q == dma.submissions
           Good(s) == OwnMapping(s.bundle, s.mapping)
                        /\ has_capability(s.bundle, s.device, "CAN_DMA")
<1>1. scene \in Scenes /\ q \in Seq(Submission) /\ new \in Submission
  BY DEF ConsentInv, DmaTypeOK, Holders, Submission
<1>2. dma' = [dma EXCEPT !.submissions = Append(q, new)] /\ caps' = caps /\ irqs' = irqs
      /\ scene' = scene /\ has_capability(b, t, "CAN_DMA") /\ OwnMapping(b, m)
  BY Zenon DEF dma_submit, others, OwnMapping
<1>3. /\ dma'.submissions = Append(q, new)
      /\ dma'.mappings = dma.mappings /\ dma'.events = dma.events
      /\ dma' \in [mappings : Seq(Mapping), submissions : Seq(Submission),
                   events : SUBSET DmaEvent]
  <2> HIDE DEF new
  <2> QED BY <1>1, <1>2, AppendProperties DEF ConsentInv, DmaTypeOK
<1>4. \A h \in DOMAIN Append(q, new) :
         (h \in DOMAIN q /\ Append(q, new)[h] = q[h]) \/ Append(q, new)[h] = new
  <2> HIDE DEF new, q
  <2> QED BY <1>1, AppendProperties
<1>5. Good(new)
  BY <1>2
<1>6. \A h \in DOMAIN dma'.submissions : Good(dma'.submissions[h])
  <2>1. \A h \in DOMAIN q : Good(q[h])
    BY Zenon DEF ConsentInv
  <2> HIDE DEF Good, new, q
  <2> QED BY <1>3, <1>4, <1>5, <2>1, Zenon
<1>7. \A x, y : OwnMapping(x, y) => OwnMapping(x, y)'
  BY <1>3, Zenon DEF OwnMapping
<1> HIDE DEF new, q
<1> QED BY <1>2, <1>3, <1>6, <1>7, Zenon DEF ConsentInv, DmaTypeOK, has_capability

(* dma_wait completes a submission of the bundle and makes an event with its
   bundle, device and mapping. *)
LEMMA ConsentWait ==
  ASSUME ConsentInv, NEW b \in scene.bundles, NEW h \in Nat, dma_wait(b, h)
  PROVE  ConsentInv'
<1> DEFINE q == dma.submissions
           p == [q EXCEPT ![h].status = "Complete"]
           e == emit_dma_event(q[h])
           Good(s) == OwnMapping(s.bundle, s.mapping)
                        /\ has_capability(s.bundle, s.device, "CAN_DMA")
<1>1. q \in Seq(Submission) /\ h \in DOMAIN q /\ q[h] \in Submission
  BY DEF ConsentInv, DmaTypeOK, dma_wait
<1>2. dma' = [[dma EXCEPT !.submissions = p] EXCEPT !.events = @ \cup {e}]
      /\ caps' = caps /\ irqs' = irqs /\ scene' = scene
  BY Zenon DEF dma_wait, others, wait
<1>3. p \in Seq(Submission) /\ DOMAIN p = DOMAIN q
      /\ \A i \in DOMAIN q : p[i].bundle = q[i].bundle /\ p[i].device = q[i].device
                             /\ p[i].mapping = q[i].mapping
  <2> HIDE DEF q
  <2> QED BY <1>1 DEF Submission
<1>4. e \in DmaEvent /\ e.owner = q[h].bundle /\ e.device = q[h].device
      /\ e.buffer = q[h].mapping
  BY <1>1 DEF emit_dma_event, DmaEvent, Submission
<1> HIDE DEF p, e
<1>5. /\ dma'.submissions = p /\ dma'.events = dma.events \cup {e}
      /\ dma'.mappings = dma.mappings
      /\ dma' \in [mappings : Seq(Mapping), submissions : Seq(Submission),
                   events : SUBSET DmaEvent]
  BY <1>2, <1>3, <1>4 DEF ConsentInv, DmaTypeOK
<1>6. \A i \in DOMAIN q : Good(q[i])
  BY Zenon DEF ConsentInv
<1>7. \A i \in DOMAIN dma'.submissions : Good(dma'.submissions[i])
  BY <1>3, <1>5, <1>6, Zenon
<1>8. \A x \in dma'.events :
         OwnMapping(x.owner, x.buffer) /\ has_capability(x.owner, x.device, "CAN_DMA")
  <2>1. OwnMapping(e.owner, e.buffer) /\ has_capability(e.owner, e.device, "CAN_DMA")
    BY <1>1, <1>4, <1>6, Zenon
  <2> QED BY <1>5, <2>1, Zenon DEF ConsentInv
<1>9. \A x, y : OwnMapping(x, y) => OwnMapping(x, y)'
  BY <1>5, Zenon DEF OwnMapping
<1> HIDE DEF q
<1> QED BY <1>2, <1>5, <1>7, <1>8, <1>9, Zenon DEF ConsentInv, DmaTypeOK, has_capability

(* No step takes a capability back, and the tables change by bind, dma_map,
   dma_submit and dma_wait only. *)
LEMMA ConsentStep ==
  ASSUME ConsentInv, [Next]_vars
  PROVE  ConsentInv'
<1>1. CASE KeyboardStep
  <2>1. CASE InitKeyboard
    BY <2>1, ConsentBound, Zenon DEF InitKeyboard
  <2>2. CASE LaunchKeyboard
    BY <2>2, ConsentGrows, Zenon DEF LaunchKeyboard
  <2>3. CASE TickKeyboard \/ ReadKeyboard \/ HandleScancode
    BY <2>3, ConsentGrows, Zenon DEF TickKeyboard, ReadKeyboard, HandleScancode, bindVars
  <2> QED BY <1>1, <2>1, <2>2, <2>3, Zenon DEF KeyboardStep
<1>2. CASE MouseStep
  <2>1. CASE InitMouse
    BY <2>1, ConsentBound, Zenon DEF InitMouse
  <2>2. CASE LaunchMouse
    BY <2>2, ConsentGrows, Zenon DEF LaunchMouse
  <2>3. CASE TickMouse \/ ReadMouse \/ HandleByte \/ EmitMouse
    BY <2>3, ConsentGrows, Zenon DEF TickMouse, ReadMouse, HandleByte, EmitMouse, bindVars
  <2> QED BY <1>2, <2>1, <2>2, <2>3, Zenon DEF MouseStep
<1>3. CASE \/ \E s \in scene.strokes : TypeKey(s)
           \/ keyboard_interrupt_handler
           \/ \E p \in scene.packets : MoveMouse(p)
           \/ mouse_interrupt_handler
           \/ UNCHANGED vars
  BY <1>3, ConsentGrows, Zenon DEF TypeKey, keyboard_interrupt_handler, MoveMouse,
     mouse_interrupt_handler, bindVars, vars
<1>4. CASE DmaStep
  <2>1. PICK b \in scene.bundles :
          \/ \E t \in Targets : Grant(b, t) \/ dma_map(b, t)
          \/ \E t \in Targets, h \in 1..scene.maxDma : dma_submit(b, t, h)
          \/ \E h \in 1..scene.maxDma : dma_wait(b, h)
    BY <1>4, Zenon DEF DmaStep, Targets
  <2>2. ASSUME NEW t \in Targets, Grant(b, t) PROVE ConsentInv'
    BY <2>2, ConsentGrows, Zenon DEF Grant, others
  <2>3. ASSUME NEW t \in Targets, dma_map(b, t) PROVE ConsentInv'
    BY <2>3, ConsentMap, Zenon
  <2>4. ASSUME NEW t \in Targets, NEW h \in 1..scene.maxDma, dma_submit(b, t, h)
        PROVE  ConsentInv'
    <3>1. h \in Nat
      BY <2>4 DEF dma_submit, ConsentInv, DmaTypeOK
    <3> QED BY <2>4, <3>1, ConsentSubmit, Zenon
  <2>5. ASSUME NEW h \in 1..scene.maxDma, dma_wait(b, h) PROVE ConsentInv'
    <3>1. h \in Nat
      BY <2>5 DEF dma_wait, ConsentInv, DmaTypeOK
    <3> QED BY <2>5, <3>1, ConsentWait, Zenon
  <2> QED BY <2>1, <2>2, <2>3, <2>4, <2>5, Zenon
<1> QED BY <1>1, <1>2, <1>3, <1>4, Zenon DEF Next

(* DMA events and interrupt bindings go to bundles that hold the capabilities
   they stand for: irq_dma.rs checks them when the binding, the mapping and the
   submission are made, and none is taken back before the event. *)
THEOREM BoundOnlyByConsent == Spec => []BoundByConsent
<1>1. Init => ConsentInv
  <2> SUFFICES ASSUME Init PROVE ConsentInv
    OBVIOUS
  <2>1. scene \in Scenes /\ dma.mappings = <<>> /\ dma.submissions = <<>> /\ dma.events = {}
        /\ irqs.bindings = {}
    BY DEF Init
  <2>2. dma \in [mappings : Seq(Mapping), submissions : Seq(Submission),
                 events : SUBSET DmaEvent]
    BY DEF Init
  <2>3. DOMAIN dma.mappings = {} /\ DOMAIN dma.submissions = {}
    BY <2>1
  <2> QED BY <2>1, <2>2, <2>3, Zenon DEF ConsentInv, DmaTypeOK
<1>2. ConsentInv => BoundByConsent
  <2> SUFFICES ASSUME ConsentInv PROVE BoundByConsent
    OBVIOUS
  <2>1. ASSUME NEW e \in dma.events
        PROVE  /\ has_capability(e.owner, e.device, "CAN_DMA")
               /\ dma.mappings[e.buffer].bundle = e.owner
               /\ has_capability(e.owner, dma.mappings[e.buffer].buffer, "CAN_DMA")
    <3>1. /\ has_capability(e.owner, e.device, "CAN_DMA") /\ e.buffer \in DOMAIN dma.mappings
          /\ dma.mappings[e.buffer].bundle = e.owner
      BY Zenon DEF ConsentInv, OwnMapping
    <3>2. has_capability(dma.mappings[e.buffer].bundle, dma.mappings[e.buffer].buffer, "CAN_DMA")
      BY <3>1, Zenon DEF ConsentInv
    <3> QED BY <3>1, <3>2 DEF has_capability
  <2> QED BY <2>1, Zenon DEF BoundByConsent, ConsentInv
<1> QED BY <1>1, <1>2, ConsentStep, PTL DEF Spec

MouseProofs == INSTANCE InputRingProofs
                 WITH buf <- mbuf, head <- mhead, tail <- mtail, out <- mout,
                      lost <- mlost, N <- MouseN

(* What the ports hold are bytes. *)
WireInv == scene \in Scenes /\ kwire \in Seq(Values) /\ mwire \in Seq(Values)

LEMMA WireStep ==
  ASSUME WireInv, [Next]_vars
  PROVE  WireInv'
<1>1. CASE KeyboardStep
  BY <1>1, Zenon DEF WireInv, KeyboardStep, LaunchKeyboard, InitKeyboard, TickKeyboard,
     ReadKeyboard, HandleScancode, mouseVars
<1>2. CASE MouseStep
  BY <1>2, Zenon DEF WireInv, MouseStep, LaunchMouse, InitMouse, TickMouse, ReadMouse,
     HandleByte, EmitMouse, keyVars
<1>3. ASSUME NEW s \in scene.strokes, TypeKey(s) PROVE WireInv'
  BY <1>3, InputAssumption, Zenon DEF WireInv, TypeKey, mouseVars
<1>4. ASSUME NEW p \in scene.packets, MoveMouse(p) PROVE WireInv'
  BY <1>4, InputAssumption, Zenon DEF WireInv, MoveMouse, keyVars
<1>5. CASE keyboard_interrupt_handler
  <2>1. scene' = scene /\ mwire' = mwire /\ kwire # <<>> /\ kwire' = Tail(kwire)
    BY <1>5, Zenon DEF keyboard_interrupt_handler, mouseVars
  <2> QED BY <2>1 DEF WireInv
<1>6. CASE mouse_interrupt_handler
  <2>1. scene' = scene /\ kwire' = kwire /\ mwire # <<>> /\ mwire' = Tail(mwire)
    BY <1>6, Zenon DEF mouse_interrupt_handler, keyVars
  <2> QED BY <2>1 DEF WireInv
<1>7. CASE DmaStep
  BY <1>7, Zenon DEF WireInv, DmaStep, Grant, dma_map, dma_submit, dma_wait, others,
     keyVars, mouseVars
<1>8. CASE UNCHANGED vars
  BY <1>8, Zenon DEF WireInv, vars, keyVars, mouseVars
<1> QED BY <1>1, <1>2, <1>3, <1>4, <1>5, <1>6, <1>7, <1>8, Zenon DEF Next

(* Every step is a step of the keyboard's ring, or leaves it alone. *)
LEMMA KeyboardRingStep ==
  ASSUME WireInv, [Next]_vars
  PROVE  [RingNext]_ringVars
<1>1. CASE keyboard_interrupt_handler
  <2>1. kwire # <<>> /\ interrupt_handler(Head(kwire))
    BY <1>1, Zenon DEF keyboard_interrupt_handler
  <2>2. Head(kwire) \in Values
    BY <2>1 DEF WireInv
  <2> QED BY <2>1, <2>2, Zenon DEF RingNext
<1>2. CASE KeyboardStep
  <2>1. CASE ReadKeyboard
    BY <2>1, Zenon DEF ReadKeyboard, RingNext
  <2>2. CASE LaunchKeyboard \/ InitKeyboard \/ TickKeyboard \/ HandleScancode
    BY <2>2, Zenon DEF LaunchKeyboard, InitKeyboard, TickKeyboard, HandleScancode, ringVars
  <2> QED BY <1>2, <2>1, <2>2, Zenon DEF KeyboardStep
<1>3. CASE \/ MouseStep \/ mouse_interrupt_handler \/ DmaStep
           \/ \E s \in scene.strokes : TypeKey(s)
           \/ \E p \in scene.packets : MoveMouse(p)
           \/ UNCHANGED vars
  BY <1>3, Zenon DEF MouseStep, LaunchMouse, InitMouse, TickMouse, ReadMouse, HandleByte,
     EmitMouse, mouse_interrupt_handler, DmaStep, Grant, dma_map, dma_submit, dma_wait,
     TypeKey, MoveMouse, others, vars, ringVars
<1> QED BY <1>1, <1>2, <1>3, Zenon DEF Next

(* Every step is a step of the mouse's ring, or leaves it alone. *)
LEMMA MouseRingStep ==
  ASSUME WireInv, [Next]_vars
  PROVE  [Mouse!RingNext]_mouseRing
<1>1. CASE mouse_interrupt_handler
  <2>1. mwire # <<>> /\ Mouse!interrupt_handler(Head(mwire))
    BY <1>1, Zenon DEF mouse_interrupt_handler
  <2>2. Head(mwire) \in Values
    BY <2>1 DEF WireInv
  <2> QED BY <2>1, <2>2, Zenon DEF Mouse!RingNext
<1>2. CASE MouseStep
  <2>1. CASE ReadMouse
    BY <2>1, Zenon DEF ReadMouse, Mouse!RingNext, mouseRing
  <2>2. CASE LaunchMouse \/ InitMouse \/ TickMouse \/ HandleByte \/ EmitMouse
    BY <2>2, Zenon DEF LaunchMouse, InitMouse, TickMouse, HandleByte, EmitMouse, mouseRing
  <2> QED BY <1>2, <2>1, <2>2, Zenon DEF MouseStep
<1>3. CASE \/ KeyboardStep \/ keyboard_interrupt_handler \/ DmaStep
           \/ \E s \in scene.strokes : TypeKey(s)
           \/ \E p \in scene.packets : MoveMouse(p)
           \/ UNCHANGED vars
  BY <1>3, Zenon DEF KeyboardStep, LaunchKeyboard, InitKeyboard, TickKeyboard, ReadKeyboard,
     HandleScancode, keyboard_interrupt_handler, DmaStep, Grant, dma_map, dma_submit,
     dma_wait, TypeKey, MoveMouse, others, vars, mouseRing
<1> QED BY <1>1, <1>2, <1>3, Zenon DEF Next

(* In the whole of the input path, where interrupts fall between the reads of
   two drivers, each ring is still the queue of its device's bytes. *)
THEOREM InputRingsAreQueues == Spec => RingIsQueue /\ Mouse!RingIsQueue
<1>1. Init => WireInv /\ RingInit(0) /\ Mouse!RingInit(0)
  BY DEF Init, WireInv
<1>2. Spec => RingSpec
  <2>1. Init => \E v \in Values : RingInit(v)
    BY <1>1, InputAssumption, Zenon
  <2> QED BY <1>1, <2>1, WireStep, KeyboardRingStep, PTL DEF Spec, RingSpec
<1>3. Spec => Mouse!RingSpec
  <2>1. Init => \E v \in Values : Mouse!RingInit(v)
    BY <1>1, InputAssumption, Zenon
  <2>2. mouseRing = Mouse!ringVars
    BY DEF mouseRing, Mouse!ringVars
  <2>3. [Mouse!RingNext]_mouseRing => [Mouse!RingNext]_(Mouse!ringVars)
    BY DEF mouseRing, Mouse!ringVars
  <2> QED BY <1>1, <2>1, <2>3, WireStep, MouseRingStep, PTL DEF Spec, Mouse!RingSpec
<1>4. Mouse!RingSpec => Mouse!RingIsQueue
  <2>1. MouseProofs!RingSpec <=> Mouse!RingSpec
    BY PTL DEF MouseProofs!RingSpec, Mouse!RingSpec, MouseProofs!RingInit, Mouse!RingInit,
       MouseProofs!RingNext, Mouse!RingNext, MouseProofs!ringVars, Mouse!ringVars,
       MouseProofs!interrupt_handler, Mouse!interrupt_handler, MouseProofs!read, Mouse!read,
       MouseProofs!push_ok, Mouse!push_ok, MouseProofs!push_full, Mouse!push_full,
       MouseProofs!Slot, Mouse!Slot, MouseProofs!len, Mouse!len, MouseProofs!popped, Mouse!popped
  <2>2. MouseProofs!RingIsQueue <=> Mouse!RingIsQueue
    BY PTL DEF MouseProofs!RingIsQueue, Mouse!RingIsQueue,
       MouseProofs!Queue!LossyQueueSpec, Mouse!Queue!LossyQueueSpec,
       MouseProofs!Queue!LossyQueueInit, Mouse!Queue!LossyQueueInit,
       MouseProofs!Queue!LossyQueueNext, Mouse!Queue!LossyQueueNext,
       MouseProofs!Queue!Put, Mouse!Queue!Put, MouseProofs!Queue!Lose, Mouse!Queue!Lose,
       MouseProofs!Queue!Take, Mouse!Queue!Take, MouseProofs!Contents, Mouse!Contents,
       MouseProofs!Slot, Mouse!Slot, MouseProofs!len, Mouse!len
  <2>3. MouseProofs!RingSpec => MouseProofs!RingIsQueue
    BY MouseProofs!RingImplementsQueue, InputAssumption, RingAssumption
  <2> QED BY <2>1, <2>2, <2>3, PTL
<1> QED BY <1>2, <1>3, <1>4, RingImplementsQueue, PTL
=============================================================================
