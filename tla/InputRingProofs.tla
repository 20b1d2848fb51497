-------------------------- MODULE InputRingProofs --------------------------
(***************************************************************************)
(* InputRing implements LossyQueue for rings and reads of any length.      *)
(***************************************************************************)
EXTENDS InputRing, SequenceTheorems, TLAPS

(* The ring's indices stay inside the buffer, which holds bytes. *)
RingTypeOK ==
  /\ buf \in [0..N-1 -> Values]
  /\ head \in 0..N-1
  /\ tail \in 0..N-1
  /\ lost \in Nat

(* A slot at most a buffer's length away is a slot of the buffer. *)
LEMMA SlotInRange ==
  ASSUME NEW i \in 0..N-1, NEW d \in 0..N
  PROVE  Slot(i, d) \in 0..N-1
BY RingAssumption DEF Slot

(* Walking d slots and then e is walking d + e of them, within one round. *)
LEMMA SlotSum ==
  ASSUME NEW i \in 0..N-1, NEW d \in Nat, NEW e \in Nat, d + e < N
  PROVE  Slot(Slot(i, d), e) = Slot(i, d + e)
BY RingAssumption DEF Slot

(* len is below N, and head is len slots after tail. *)
LEMMA LenBounded ==
  ASSUME RingTypeOK
  PROVE  len \in 0..N-1 /\ Slot(tail, len) = head
BY RingAssumption DEF RingTypeOK, len, Slot

(* What waits in the ring is a sequence of len bytes. *)
LEMMA ContentsIsSeq ==
  ASSUME RingTypeOK
  PROVE  /\ Contents \in Seq(Values)
         /\ Len(Contents) = len
         /\ \A i \in 1..len : Contents[i] = buf[Slot(tail, i - 1)]
<1>1. len \in 0..N-1
  BY LenBounded
<1>2. \A i \in 1..len : buf[Slot(tail, i - 1)] \in Values
  <2>1. TAKE i \in 1..len
  <2>2. i - 1 \in 0..N
    BY <1>1, RingAssumption
  <2>3. Slot(tail, i - 1) \in 0..N-1
    BY <2>2, SlotInRange DEF RingTypeOK
  <2>4. QED
    BY <2>3 DEF RingTypeOK
<1>3. QED
  BY <1>1, <1>2, RingAssumption DEF Contents

(* A step of the ring keeps its indices in range. *)
LEMMA RingTypeStep ==
  ASSUME RingTypeOK, [RingNext]_ringVars
  PROVE  RingTypeOK'
<1>1. ASSUME NEW v \in Values, push_ok(v) PROVE RingTypeOK'
  <2>1. Slot(head, 1) \in 0..N-1
    BY SlotInRange, RingAssumption DEF RingTypeOK
  <2>2. QED
    BY <1>1, <2>1 DEF push_ok, RingTypeOK
<1>2. CASE push_full
  BY <1>2 DEF push_full, RingTypeOK
<1>3. CASE read
  <2> DEFINE k == IF len < Chunk THEN len ELSE Chunk
  <2>1. k \in 0..N
    BY LenBounded, RingAssumption
  <2>2. Slot(tail, k) \in 0..N-1
    BY <2>1, SlotInRange DEF RingTypeOK
  <2>3. tail' = Slot(tail, k) /\ UNCHANGED <<buf, head, lost>>
    BY <1>3 DEF read
  <2>4. QED
    BY <2>2, <2>3 DEF RingTypeOK
<1>4. CASE UNCHANGED ringVars
  BY <1>4 DEF ringVars, RingTypeOK
<1>5. QED
  BY <1>1, <1>2, <1>3, <1>4 DEF RingNext, interrupt_handler

(* A push that succeeds appends its byte to what waits, which was not full. *)
LEMMA PushAppends ==
  ASSUME RingTypeOK, RingTypeOK', NEW v \in Values, push_ok(v)
  PROVE  Queue!Put(v)
<1>1. len \in 0..N-1 /\ len < N - 1 /\ len' = len + 1 /\ Slot(tail, len) = head
  <2>1. len \in 0..N-1 /\ Slot(tail, len) = head
    BY LenBounded
  <2>2. len < N - 1 /\ len' = len + 1
    BY <2>1, RingAssumption DEF RingTypeOK, push_ok, len, Slot
  <2>3. QED
    BY <2>1, <2>2
<1>2. \A i \in 1..len : Slot(tail, i - 1) # head /\ Slot(tail, i - 1) \in 0..N-1
  BY <1>1, RingAssumption DEF RingTypeOK, Slot
<1>3. /\ Contents' \in Seq(Values)
      /\ Len(Contents') = len'
      /\ \A i \in 1..len' : Contents'[i] = buf'[Slot(tail, i - 1)]
  <2>1. tail' = tail
    BY DEF push_ok
  <2>2. /\ Contents' \in Seq(Values)
        /\ Len(Contents') = len'
        /\ \A i \in 1..len' : Contents'[i] = buf'[Slot(tail', i - 1)]
    <3>1. len' \in 0..N-1
      BY <1>1, RingAssumption
    <3>2. \A i \in 1..len' : buf'[Slot(tail', i - 1)] \in Values
      <4>1. TAKE i \in 1..len'
      <4>2. i - 1 \in 0..N
        BY <3>1, RingAssumption
      <4>3. Slot(tail, i - 1) \in 0..N-1
        BY <4>2, SlotInRange DEF RingTypeOK
      <4>4. QED
        BY <2>1, <4>3 DEF RingTypeOK, Slot
    <3>3. QED
      BY <3>1, <3>2, RingAssumption DEF Contents, Slot
  <2>3. QED
    BY <2>1, <2>2
<1>4. Contents' = Append(Contents, v)
  <2>1. /\ Append(Contents, v) \in Seq(Values)
        /\ Len(Append(Contents, v)) = len + 1
        /\ \A i \in 1..len : Append(Contents, v)[i] = Contents[i]
        /\ Append(Contents, v)[len + 1] = v
    BY ContentsIsSeq, AppendProperties
  <2>2. \A i \in 1..len : Contents'[i] = Append(Contents, v)[i]
    <3>1. TAKE i \in 1..len
    <3>2. Contents'[i] = buf'[Slot(tail, i - 1)]
      BY <1>1, <1>3
    <3>3. buf'[Slot(tail, i - 1)] = buf[Slot(tail, i - 1)]
      BY <1>2 DEF push_ok, RingTypeOK
    <3>4. QED
      BY <2>1, <3>2, <3>3, ContentsIsSeq
  <2>3. Contents'[len + 1] = v
    <3>1. Contents'[len + 1] = buf'[Slot(tail, len)]
      BY <1>1, <1>3
    <3>2. buf'[head] = v
      BY DEF push_ok, RingTypeOK
    <3>3. QED
      BY <1>1, <3>1, <3>2
  <2>4. \A i \in 1..Len(Contents') : Contents'[i] = Append(Contents, v)[i]
    BY <1>1, <1>3, <2>1, <2>2, <2>3
  <2>5. QED
    BY <1>1, <1>3, <2>1, <2>4, SeqEqual
<1>5. QED
  BY <1>1, <1>4, ContentsIsSeq DEF Queue!Put, push_ok

(* A push fails only when N - 1 bytes wait. *)
LEMMA FullLoses ==
  ASSUME RingTypeOK, push_full
  PROVE  Queue!Lose
<1>1. len = N - 1
  BY RingAssumption DEF RingTypeOK, push_full, len, Slot
<1>2. Len(Contents) = N - 1
  BY <1>1, ContentsIsSeq
<1>3. Contents' = Contents
  BY DEF push_full, Contents, len, Slot
<1>4. QED
  BY <1>2, <1>3 DEF Queue!Lose, push_full

(* A read takes the oldest bytes and leaves the rest in order. *)
LEMMA ReadTakes ==
  ASSUME RingTypeOK, read
  PROVE  \E k \in 1..Len(Contents) : Queue!Take(k)
<1> DEFINE k == IF len < Chunk THEN len ELSE Chunk
<1>1. len \in 0..N-1 /\ len # 0
  <2>1. len \in 0..N-1
    BY LenBounded
  <2>2. len # 0
    BY RingAssumption DEF RingTypeOK, read, len
  <2>3. QED
    BY <2>1, <2>2
<1>2. k \in 1..len
  BY <1>1, RingAssumption
<1>3. /\ out' = [i \in 1..k |-> buf[Slot(tail, i - 1)]]
      /\ tail' = Slot(tail, k)
      /\ buf' = buf /\ head' = head /\ lost' = lost
  BY DEF read, popped
<1>4. len' = len - k
  <2>1. len' = IF head >= Slot(tail, k) THEN head - Slot(tail, k)
               ELSE N - Slot(tail, k) + head
    BY <1>3 DEF len
  <2> HIDE DEF k
  <2>2. QED
    BY <1>1, <1>2, <2>1, RingAssumption DEF RingTypeOK, len, Slot
<1> HIDE DEF k
<1>5. out' = SubSeq(Contents, 1, k)
  BY <1>1, <1>2, <1>3, ContentsIsSeq
<1>6. Contents' = SubSeq(Contents, k + 1, len)
  <2>1. Contents' = [i \in 1..(len - k) |-> buf[Slot(Slot(tail, k), i - 1)]]
    BY <1>3, <1>4 DEF Contents, Slot
  <2>2. \A i \in 1..(len - k) :
          buf[Slot(Slot(tail, k), i - 1)] = Contents[k + i]
    <3>1. TAKE i \in 1..(len - k)
    <3>2. k \in Nat /\ i - 1 \in Nat /\ k + (i - 1) < N
          /\ k + i \in 1..len /\ (k + i) - 1 = k + (i - 1)
      BY <1>1, <1>2, RingAssumption
    <3>3. Slot(Slot(tail, k), i - 1) = Slot(tail, k + (i - 1))
      BY <3>2, SlotSum DEF RingTypeOK
    <3>4. Contents[k + i] = buf[Slot(tail, (k + i) - 1)]
      BY <3>2, ContentsIsSeq
    <3>5. QED
      BY <3>2, <3>3, <3>4
  <2>3. SubSeq(Contents, k + 1, len) = [i \in 1..(len - k) |-> Contents[k + i]]
    BY <1>1, <1>2, ContentsIsSeq
  <2>4. QED
    BY <2>1, <2>2, <2>3
<1>7. Len(Contents) = len
  BY ContentsIsSeq
<1>8. QED
  BY <1>2, <1>3, <1>5, <1>6, <1>7 DEF Queue!Take

(* The rings of the keyboard and of the mouse are FIFO queues that refuse a
   byte only when N - 1 bytes wait, for rings, chunks and bytes of any size:
   InputBuffer's push and pop, and the reads of read_keyboard and read_mouse. *)
THEOREM RingImplementsQueue == RingSpec => RingIsQueue
<1>1. ASSUME NEW v \in Values, RingInit(v)
      PROVE  RingTypeOK /\ Queue!LossyQueueInit
  <2>1. RingTypeOK
    BY <1>1, RingAssumption DEF RingInit, RingTypeOK
  <2>2. len = 0
    BY <1>1 DEF RingInit, len
  <2>3. Contents = <<>>
    BY <2>1, <2>2, ContentsIsSeq
  <2>4. QED
    BY <1>1, <2>1, <2>3 DEF RingInit, Queue!LossyQueueInit
<1>2. ASSUME RingTypeOK, [RingNext]_ringVars
      PROVE  RingTypeOK' /\ [Queue!LossyQueueNext]_<<Contents, out, lost>>
  <2>1. RingTypeOK'
    BY <1>2, RingTypeStep
  <2>2. ASSUME NEW v \in Values, push_ok(v) PROVE Queue!LossyQueueNext
    BY <1>2, <2>1, <2>2, PushAppends DEF Queue!LossyQueueNext
  <2>3. CASE push_full
    BY <1>2, <2>1, <2>3, FullLoses DEF Queue!LossyQueueNext
  <2>4. CASE read
    BY <1>2, <2>1, <2>4, ReadTakes DEF Queue!LossyQueueNext
  <2>5. CASE UNCHANGED ringVars
    BY <2>1, <2>5 DEF ringVars, Contents, len, Slot
  <2>6. QED
    BY <1>2, <2>1, <2>2, <2>3, <2>4, <2>5 DEF RingNext, interrupt_handler
<1>3. (\E v \in Values : RingInit(v)) => RingTypeOK /\ Queue!LossyQueueInit
  BY <1>1
<1>4. QED
  BY <1>2, <1>3, PTL DEF RingSpec, RingIsQueue, Queue!LossyQueueSpec
=============================================================================
