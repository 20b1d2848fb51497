------------------------------ MODULE Runtime ------------------------------
(***************************************************************************)
(* The graph as a client sees it through ThingRuntime::call, with the      *)
(* three implementations of that trait:                                    *)
(*   host    thing_host, all bundles are threads of one process;           *)
(*   native  userland/src/runtime.rs, requests go through system calls;    *)
(*   direct  kernel/src/system/direct_runtime.rs, one task in the kernel.  *)
(*                                                                         *)
(* A thread has a list of calls to make, todo; call is the state of the    *)
(* first.  In the kernel a call is one step, under the STORE mutex.  On    *)
(* the host each lock taken is a step: a fiat takes its revision, stores   *)
(* the thing, then queues the change, and a poll looks at its watch,       *)
(* reads the store, then comes back to the watch.                          *)
(***************************************************************************)
EXTENDS Integers, FiniteSets, SequencesExt

CONSTANTS
  Threads,
  Kept,             \* the kinds of thing that some bundle reads or watches
  Watched,          \* those that some bundle watches
  FIND_PAGE_SIZE,   \* things in a page of the host's find_by_kind (64)
  MAX_RESULTS,      \* things in a page of the kernel's (100)
  MAX_WATCH_QUEUE,  \* changes a kernel watch holds (1024)
  BufferSize,       \* what fits in a client's buffer (64 KiB)
  None              \* the absent value

VARIABLES
  backend,    \* which runtime
  hidden,     \* things the reading bundle may not read (kernel)
  big,        \* things that alone fill a client's buffer
  revision,   \* the next revision
  things,     \* the latest version of each thing: [id, kind, fields, revision]
  watchers,   \* watch id -> [labels, queue, last]
  next_watch,
  todo,       \* thread -> the calls it has still to make
  call,       \* thread -> how far the first of them is, or None
  inbox,      \* thread -> the changes its polls returned and it has not handled
  handles,    \* thread -> its watches, in the order of registration
  panicked    \* threads whose client code panicked

graphVars == <<revision, things, watchers, next_watch>>
clientVars == <<todo, call, inbox, handles, panicked>>
runtimeVars == <<backend, hidden, big, graphVars, clientVars>>

Fiat(id, kind, fields) ==
  [op |-> "fiat", id |-> id, kind |-> kind, fields |-> fields]
PropsSet(id, fields) == [op |-> "props", id |-> id, fields |-> fields]
Link(pred) == [op |-> "link", id |-> None, kind |-> pred, fields |-> <<>>]
Register(labels) == [op |-> "register", labels |-> labels]
Unregister(w) == [op |-> "unregister", watch |-> w]
Poll(w) == [op |-> "poll", watch |-> w]
Find(kind) == [op |-> "find", kind |-> kind]

Busy(t, op) == todo[t] # <<>> /\ Head(todo[t]).op = op
Phase(t, phase) == call[t] # None /\ call[t].phase = phase
finish(t) == todo' = [todo EXCEPT ![t] = Tail(@)] /\ call' = [call EXCEPT ![t] = None]
enter(t, c) == call' = [call EXCEPT ![t] = c] /\ UNCHANGED todo

IdsOf(kind) == {id \in DOMAIN things : things[id].kind = kind}

RuntimeInit ==
  /\ revision = 1 /\ things = <<>> /\ watchers = <<>> /\ next_watch = 1
  /\ call = [t \in Threads |-> None]
  /\ inbox = [t \in Threads |-> <<>>]
  /\ handles = [t \in Threads |-> <<>>]
  /\ panicked = {}

---------------------------------------------------------------------------
(* Changes *)

\* A change is a version of a thing, or an edge: an edge has no id.
change(op, rev) == [id |-> op.id, kind |-> op.kind, fields |-> op.fields,
                    revision |-> rev]

\* match_change: labels are the thing's kind, or name the edge's predicate.
match_change(c, w) == w.labels \subseteq {c.kind}

stored(c) == (c.id :> c) @@ things

\* The host's push_change.
push_change(c) ==
  [w \in DOMAIN watchers |->
     IF match_change(c, watchers[w])
     THEN [watchers[w] EXCEPT !.queue = Append(@, c), !.last = c.revision]
     ELSE watchers[w]]

\* The kernel's notify_watches: the oldest goes when the queue is too long.
notify_watches(c) ==
  LET bounded(q) == IF Len(q) > MAX_WATCH_QUEUE THEN Tail(q) ELSE q
  IN  [w \in DOMAIN watchers |->
         IF match_change(c, watchers[w]) /\ c.id \notin hidden
         THEN [watchers[w] EXCEPT !.queue = bounded(Append(@, c))]
         ELSE watchers[w]]

---------------------------------------------------------------------------
(* The host's calls *)

\* InMemoryGraphStore::fiat and link take the revision before any lock.
\* What no bundle here reads (an edge, most kinds) is one step without a
\* trace - revisions are only compared, a gap shows nowhere - and what none
\* watches is not queued.
host_stamp(t) ==
  /\ backend = "host" /\ call[t] = None
  /\ Busy(t, "fiat") \/ Busy(t, "link")
  /\ LET c == change(Head(todo[t]), revision)
     IN  IF c.kind \in Kept THEN enter(t, [phase |-> "store", change |-> c])
         ELSE finish(t)
  /\ revision' = IF Head(todo[t]).kind \in Kept THEN revision + 1 ELSE revision
  /\ UNCHANGED <<backend, hidden, big, things, watchers, next_watch, inbox, handles, panicked>>

\* things.lock().insert: whatever version was there is replaced.
host_store(t) ==
  /\ Phase(t, "store")
  /\ things' = stored(call[t].change)
  /\ IF call[t].change.kind \in Watched
     THEN enter(t, [call[t] EXCEPT !.phase = "push"]) ELSE finish(t)
  /\ UNCHANGED <<backend, hidden, big, revision, watchers, next_watch, inbox, handles, panicked>>

\* props_set merges and takes its revision under the lock; a thing that is
\* not there is an error.
host_props_set(t) ==
  /\ backend = "host" /\ call[t] = None /\ Busy(t, "props")
  /\ LET op == Head(todo[t])
     IN  IF op.id \notin DOMAIN things
         THEN finish(t) /\ UNCHANGED <<things, revision>>
         ELSE LET c == [things[op.id] EXCEPT !.fields = op.fields @@ @,
                                             !.revision = revision]
              IN  /\ things' = stored(c)
                  /\ revision' = revision + 1
                  /\ enter(t, [phase |-> "push", change |-> c])
  /\ UNCHANGED <<backend, hidden, big, watchers, next_watch, inbox, handles, panicked>>

\* Mutant: the change is queued only when it is newer than what the watch saw.
host_push_newer(t) ==
  /\ Phase(t, "push")
  /\ watchers' = [w \in DOMAIN watchers |->
                    IF watchers[w].last < call[t].change.revision
                    THEN push_change(call[t].change)[w] ELSE watchers[w]]
  /\ finish(t)
  /\ UNCHANGED <<backend, hidden, big, revision, things, next_watch, inbox, handles, panicked>>

host_push(t) ==
  /\ Phase(t, "push")
  /\ watchers' = push_change(call[t].change)
  /\ finish(t)
  /\ UNCHANGED <<backend, hidden, big, revision, things, next_watch, inbox, handles, panicked>>

---------------------------------------------------------------------------
(* The kernel's calls *)

kernel_fiat(t) ==
  /\ backend # "host" /\ Busy(t, "fiat")
  /\ LET c == change(Head(todo[t]), revision)
     IN  /\ things' = stored(c)
         /\ watchers' = notify_watches(c)
  /\ revision' = revision + 1
  /\ finish(t)
  /\ UNCHANGED <<backend, hidden, big, next_watch, inbox, handles, panicked>>

\* The direct runtime has no PropsSet: its answer is an error.
kernel_props_set(t) ==
  /\ backend # "host" /\ Busy(t, "props")
  /\ LET op == Head(todo[t])
     IN  IF backend = "direct" \/ op.id \notin DOMAIN things
         THEN UNCHANGED <<things, watchers, revision>>
         ELSE LET c == [things[op.id] EXCEPT !.fields = op.fields @@ @,
                                             !.revision = revision]
              IN  /\ things' = stored(c)
                  /\ watchers' = notify_watches(c)
                  /\ revision' = revision + 1
  /\ finish(t)
  /\ UNCHANGED <<backend, hidden, big, next_watch, inbox, handles, panicked>>

---------------------------------------------------------------------------
(* Watches *)

register(t) ==
  /\ Busy(t, "register")
  /\ watchers' = (next_watch :> [labels |-> Head(todo[t]).labels,
                                 queue |-> <<>>, last |-> 0]) @@ watchers
  /\ next_watch' = next_watch + 1
  /\ handles' = [handles EXCEPT ![t] = Append(@, next_watch)]
  /\ finish(t)
  /\ UNCHANGED <<backend, hidden, big, revision, things, inbox, panicked>>

\* Only the host removes the watch.
unregister(t) ==
  /\ Busy(t, "unregister")
  /\ watchers' =
       IF backend = "host"
       THEN [w \in DOMAIN watchers \ {Head(todo[t]).watch} |-> watchers[w]]
       ELSE watchers
  /\ finish(t)
  /\ UNCHANGED <<backend, hidden, big, revision, things, next_watch, inbox, handles, panicked>>

deliver(t, changes) == inbox' = [inbox EXCEPT ![t] = @ \o changes]

poll_snapshot(t) ==
  /\ backend = "host" /\ call[t] = None /\ Busy(t, "poll")
  /\ LET w == Head(todo[t]).watch
     IN  IF w \in DOMAIN watchers
         THEN enter(t, [phase |-> "fetch", last |-> watchers[w].last])
         ELSE finish(t)
  /\ UNCHANGED <<backend, hidden, big, graphVars, inbox, handles, panicked>>

poll_fetch(t) ==
  /\ Phase(t, "fetch")
  /\ LET w == watchers[Head(todo[t]).watch]
         newer == {c \in {things[id] : id \in DOMAIN things} :
                     match_change(c, w) /\ c.revision > call[t].last}
     IN  enter(t, [phase |-> "merge", fetched |-> newer])
  /\ UNCHANGED <<backend, hidden, big, graphVars, inbox, handles, panicked>>

by_revision(S) == SetToSortSeq(S, LAMBDA a, b : a.revision < b.revision)

\* The queue extended with what was fetched, sorted by revision: where both
\* hold a version it comes twice.
merged(queue, fetched) ==
  SortSeq(queue \o by_revision(fetched), LAMBDA a, b : a.revision < b.revision)

\* Mutant: a poll takes only what it fetched and drops the queue.
poll_merge_fetched(t) ==
  /\ Phase(t, "merge")
  /\ LET w  == Head(todo[t]).watch
         cs == by_revision(call[t].fetched)
         all == {c.revision : c \in Range(cs)} \cup {watchers[w].last}
     IN  /\ watchers' = [watchers EXCEPT ![w].queue = <<>>, ![w].last = Max(all)]
         /\ deliver(t, cs)
  /\ finish(t)
  /\ UNCHANGED <<backend, hidden, big, revision, things, next_watch, handles, panicked>>

poll_merge(t) ==
  /\ Phase(t, "merge")
  /\ LET w  == Head(todo[t]).watch
         cs == merged(watchers[w].queue, call[t].fetched)
         all == {c.revision : c \in Range(cs)} \cup {watchers[w].last}
     IN  /\ watchers' = [watchers EXCEPT ![w].queue = <<>>, ![w].last = Max(all)]
         /\ deliver(t, cs)
  /\ finish(t)
  /\ UNCHANGED <<backend, hidden, big, revision, things, next_watch, handles, panicked>>

\* copy_out_slice leaves the buffer alone when the answer does not fit.
fits(S) == Cardinality(S) + BufferSize * Cardinality(S \cap big) <= BufferSize

batch_fits(q) ==
  Len(q) + BufferSize * Len(SelectSeq(q, LAMBDA c : c.id \in big)) <= BufferSize

\* The kernel empties the queue before it knows whether the batch can be
\* copied; the client slices its buffer by the length the batch has.
kernel_poll(t) ==
  /\ backend # "host" /\ Busy(t, "poll")
  /\ LET w == Head(todo[t]).watch
         q == watchers[w].queue
     IN  /\ watchers' = [watchers EXCEPT ![w].queue = <<>>]
         /\ IF backend = "direct" \/ batch_fits(q)
            THEN deliver(t, q) /\ UNCHANGED panicked
            ELSE panicked' = panicked \cup {t} /\ UNCHANGED inbox
  /\ finish(t)
  /\ UNCHANGED <<backend, hidden, big, revision, things, next_watch, handles>>

---------------------------------------------------------------------------
(* Searches: graph::find_by_kind, and the pages of the three runtimes *)

\* The index of a kind in the order of ids; an id ends with its rank.
index_of(kind) ==
  SetToSortSeq(IdsOf(kind), LAMBDA a, b : a[2] < b[2])

\* InMemoryGraphStore::find_by_kind: [ids, next], next is None at the end.
host_page(kind, cursor) ==
  LET index == index_of(kind)
      upto  == cursor + FIND_PAGE_SIZE
  IN  [ids  |-> {index[i] : i \in {j \in DOMAIN index : j > cursor /\ j <= upto}},
       next |-> IF Len(index) > upto THEN upto ELSE None]

\* Mutant: the cursor moves by the things looked at and one more.
kernel_page_ahead(kind, cursor) ==
  LET index    == index_of(kind)
      readable == {i \in DOMAIN index : i > cursor /\ index[i] \notin hidden}
      page     == {i \in readable :
                     Cardinality({j \in readable : j < i}) < MAX_RESULTS}
      full     == Cardinality(page) = MAX_RESULTS
  IN  [ids  |-> {index[i] : i \in page},
       next |-> IF full /\ Max(page) < Len(index) THEN Max(page) + 1 ELSE 0]

\* Store::find_by_kind: the cursor skips positions and advances by the
\* things returned, so what may not be read is walked over again.
kernel_page(kind, cursor) ==
  LET index    == index_of(kind)
      readable == {i \in DOMAIN index : i > cursor /\ index[i] \notin hidden}
      page     == {i \in readable :
                     Cardinality({j \in readable : j < i}) < MAX_RESULTS}
      full     == Cardinality(page) = MAX_RESULTS
  IN  [ids  |-> {index[i] : i \in page},
       next |-> IF full /\ Max(page) < Len(index) THEN cursor + MAX_RESULTS ELSE 0]

\* A search begins: before is what it should find at least, even changes
\* with every page asked for (a search that asks for ever takes steps).
find_begin(t) ==
  /\ call[t] = None /\ Busy(t, "find")
  /\ enter(t, [phase |-> "page", cursor |-> 0, got |-> {},
               before |-> IdsOf(Head(todo[t]).kind) \ hidden,
               buf |-> [ids |-> {}, next |-> 0], even |-> TRUE])
  /\ UNCHANGED <<backend, hidden, big, graphVars, inbox, handles, panicked>>

\* The answer of one page, as the loop that asked for it reads it: a page
\* that does not fit leaves the page before it in the buffer.
page_read(t) ==
  LET c == call[t]
      kind == Head(todo[t]).kind
  IN  CASE backend = "host" -> host_page(kind, c.cursor)
        [] backend = "direct" -> kernel_page(kind, c.cursor)
        [] backend = "native" ->
             LET page == kernel_page(kind, c.cursor)
             IN  IF fits(page.ids) THEN page ELSE c.buf

\* The native loop ends at cursor 0, the client's at None; the direct
\* runtime's cursor 0 is Some(0), and the client asks for the first page.
last_page(page) ==
  \/ backend = "host" /\ page.next = None
  \/ backend = "native" /\ page.next = 0

find_page(t) ==
  /\ Phase(t, "page")
  /\ LET page == page_read(t)
     IN  IF last_page(page)
         THEN finish(t)
         ELSE enter(t, [call[t] EXCEPT !.cursor = page.next,
                                       !.got = @ \cup page.ids, !.buf = page,
                                       !.even = ~@])
  /\ UNCHANGED <<backend, hidden, big, graphVars, inbox, handles, panicked>>

\* Every step of a call.
RuntimeStep(t) ==
  /\ t \notin panicked
  /\ \/ host_stamp(t) \/ host_store(t) \/ host_props_set(t) \/ host_push(t)
     \/ poll_snapshot(t) \/ poll_fetch(t) \/ poll_merge(t)
     \/ kernel_fiat(t) \/ kernel_props_set(t) \/ kernel_poll(t)
     \/ register(t) \/ unregister(t)
     \/ find_begin(t) \/ find_page(t)
=============================================================================
