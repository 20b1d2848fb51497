----------------------------- MODULE InputRing -----------------------------
(***************************************************************************)
(* InputBuffer<u8, N> of kernel/src/drivers/input.rs, with the two things  *)
(* the kernel does to it: an interrupt handler pushes the byte it read     *)
(* from the port, or gives it up when the ring is full, and a system call  *)
(* pops as many bytes as its buffer takes (read_keyboard, read_mouse).     *)
(*                                                                         *)
(* There is one processor.  The interrupt handlers and the system calls    *)
(* run with interrupts off, and pop turns them off itself, so a push and a *)
(* read never overlap and the try_lock of push finds the lock free.  clear *)
(* has no caller and is left out.                                          *)
(***************************************************************************)
EXTENDS Integers, Sequences

CONSTANTS
  Values,   \* the bytes a device may send
  N,        \* the length of the buffer: 256 for keys, 4096 for the mouse
  Chunk     \* the length of the buffer a driver passes to dev_read

ASSUME RingAssumption ==
  /\ N \in Nat /\ N > 1
  /\ Chunk \in Nat /\ Chunk > 0

VARIABLES
  buf,    \* [0..N-1 -> Values]
  head,   \* where the next byte goes
  tail,   \* where the oldest byte is
  out,    \* the bytes the latest read returned
  lost    \* how many bytes the handler dropped

ringVars == <<buf, head, tail, out, lost>>

\* (i + d) % N for 0 <= i < N and 0 <= d <= N.
Slot(i, d) == IF i + d >= N THEN i + d - N ELSE i + d

len == IF head >= tail THEN head - tail ELSE N - tail + head

\* The slots start out with the default byte, which is never read.
RingInit(default) ==
  /\ buf = [i \in 0..N-1 |-> default]
  /\ head = 0
  /\ tail = 0
  /\ out = <<>>
  /\ lost = 0

push_ok(v) ==
  /\ Slot(head, 1) # tail
  /\ buf' = [buf EXCEPT ![head] = v]
  /\ head' = Slot(head, 1)
  /\ UNCHANGED <<tail, out, lost>>

push_full ==
  /\ Slot(head, 1) = tail
  /\ lost' = lost + 1
  /\ UNCHANGED <<buf, head, tail, out>>

\* Mutant: a full ring is written to all the same.
push_unchecked(v) ==
  /\ buf' = [buf EXCEPT ![head] = v]
  /\ head' = Slot(head, 1)
  /\ UNCHANGED <<tail, out, lost>>

interrupt_handler(v) == push_ok(v) \/ push_full

\* What the i-th pop from here on returns.
popped(i) == buf[Slot(tail, i - 1)]

\* The pops of one read: a byte for each slot of the caller's buffer, until
\* head = tail.
read ==
  LET k == IF len < Chunk THEN len ELSE Chunk IN
  /\ head # tail
  /\ out' = [i \in 1..k |-> popped(i)]
  /\ tail' = Slot(tail, k)
  /\ UNCHANGED <<buf, head, lost>>

RingNext == (\E v \in Values : interrupt_handler(v)) \/ read

RingSpec == (\E v \in Values : RingInit(v)) /\ [][RingNext]_ringVars

---------------------------------------------------------------------------

\* The bytes that wait, oldest first.
Contents == [i \in 1..len |-> buf[Slot(tail, i - 1)]]

Queue == INSTANCE LossyQueue WITH items <- Contents, Capacity <- N - 1

\* The ring is a queue of N - 1 bytes: "Writers only fail when the buffer is
\* full; readers pop in FIFO order" (input.rs:13), for push, pop and the
\* reads built from them.
RingIsQueue == Queue!LossyQueueSpec
=============================================================================
