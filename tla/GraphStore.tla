----------------------------- MODULE GraphStore -----------------------------
(***************************************************************************)
(* The kernel's graph: the versioned store of kernel/src/graph/store.rs,   *)
(* the journal it feeds (journal.rs, events.rs) and the operations that    *)
(* api.rs exposes.  Every operation runs under the STORE mutex, so each is *)
(* one action.                                                             *)
(*                                                                         *)
(* The store is one record, as in the source; the operators that take it   *)
(* as first argument `s' are the private methods of `Store' and return the *)
(* store after the call.  Field maps keep only the keys the inputs use; an *)
(* edge keeps, of its property map, the KIND entry that can_link reads.    *)
(***************************************************************************)
EXTENDS Naturals, Sequences

CONSTANTS
    Ids,              \* Uuids
    Bundles,          \* Uuids of bundles; a bundle's node has the bundle's id
    Kernel,           \* KERNEL_BUNDLE_ID
    Kinds,            \* Symbols used as kinds and labels (u64 numbers)
    BUNDLE,           \* canon::BUNDLE
    THING_CREATED,    \* canon::THING_CREATED, the label of an unlabelled node
    PUBLIC,           \* canon::PUBLIC
    InputKinds,       \* KEY_EVENT, KEY_PRESSED, MOUSE_MOVE, MOUSE_BUTTON, INPUT_EVENT
    Keys,             \* Symbols used as property keys
    Values,           \* property values, the Uuids among them
    FieldMaps,        \* the field maps requests carry
    LabelSets,        \* the label sets fiat_node requests carry
    LinkRequests,     \* [pred, kind] of the edges clients ask for
    Capabilities,     \* the capability strings clients ask to grant
    Patterns,         \* the NodePatterns clients watch: [labels, props]
    DeriveUuid(_, _), \* derive_uuid: the id of a thing created without one
    NoId,             \* no id in the request
    NoKind,           \* an edge without a KIND property
    NoWatch,          \* an id without a watch
    MAX_WATCH_QUEUE,  \* 1024 in the source
    JOURNAL_CAPACITY, \* 1024 in the source
    MaxRevision,      \* bound: no operation starts past this revision
    MaxWatches        \* bound: watches registered over a run

DataCapabilities == {"CAN_READ", "CAN_WRITE", "CAN_LINK"}
HardwareCapabilities == {"CAN_HANDLE_IRQ", "CAN_DMA", "CAN_MMIO", "CAN_PORT_IO"}
Preds == {"OWNS"} \cup DataCapabilities \cup HardwareCapabilities
            \cup {r.pred : r \in LinkRequests}

Fields == UNION {[D -> Values] : D \in SUBSET Keys}

(* Well-formed constants.  The ids are values because fields hold them.    *)
ASSUME ConstantsAssumption ==
    /\ Bundles \subseteq Ids /\ Kernel \in Bundles /\ NoId \notin Ids
    /\ Ids \subseteq Values
    /\ Kinds \subseteq Nat /\ BUNDLE \in Kinds /\ THING_CREATED \in Kinds
    /\ InputKinds \subseteq Kinds
    /\ {"OWNER", "ID"} \subseteq Keys
    /\ FieldMaps \subseteq Fields
    /\ LabelSets \subseteq SUBSET Kinds
    /\ \A k \in Kinds, f \in Fields : DeriveUuid(k, f) \in Ids
    /\ MAX_WATCH_QUEUE \in Nat \ {0}
    /\ JOURNAL_CAPACITY \in Nat \ {0}
    /\ MaxRevision \in Nat /\ MaxWatches \in Nat

VARIABLES
    store,      \* the Store record
    journal,    \* the Journal's entries, oldest first
    delivered   \* history: per watch, the newest revision its polls returned

vars == <<store, journal, delivered>>

Thing == [id : Ids, kind : Kinds, labels : SUBSET Kinds, fields : Fields,
          owner : Bundles, revision : Nat]
Edge == [src : Ids, pred : Preds, dst : Ids,
         kind : {r.kind : r \in LinkRequests} \cup {NoKind},
         owner : Bundles, revision : Nat]
Change == [type : {"Thing"}, body : Thing] \cup [type : {"Edge"}, body : Edge]
JournalEntry == [event : {"THING_CREATED", "EDGE_ADDED"}, subject : Ids,
                 revision : Nat]

Rng(q) == {q[i] : i \in 1..Len(q)}
Last(q) == q[Len(q)]
Live(s) == {w \in 1..MaxWatches : s.watches[w] # NoWatch}
ThingChange(thing) == [type |-> "Thing", body |-> thing]
EdgeChange(edge) == [type |-> "Edge", body |-> edge]
IsEdge(change) == change.type = "Edge"
Rev(change) == change.body.revision
----------------------------------------------------------------------------
(* Reading the store *)

Exists(s, id) == s.things[id] # <<>>
latest(s, id) == Last(s.things[id])

edges_of(s, src, pred) == Rng(s.edges_by_src_pred[<<src, pred>>])
edge_between(s, src, pred, dst) ==
    \E e \in edges_of(s, src, pred) : e.dst = dst
has_capability(s, bundle, node, pred) == edge_between(s, bundle, pred, node)
owns(s, bundle, node) == has_capability(s, bundle, node, "OWNS")

can_write(s, bundle, node) ==
    bundle = Kernel \/ owns(s, bundle, node)
                    \/ has_capability(s, bundle, node, "CAN_WRITE")

can_read(s, bundle, node) ==
    \/ bundle = Kernel
    \/ owns(s, bundle, node)
    \/ has_capability(s, bundle, node, "CAN_READ")
    \/ can_write(s, bundle, node)

(* A CAN_LINK edge with a KIND property allows edges of that kind only. *)
can_link(s, bundle, from, to, pred) ==
    \/ bundle = Kernel \/ owns(s, bundle, from) \/ owns(s, bundle, to)
    \/ \E e \in edges_of(s, bundle, "CAN_LINK") :
          e.dst \in {from, to} /\ e.kind \in {NoKind, pred}

change_visible_to(s, bundle, change) ==
    IF IsEdge(change)
      THEN \/ can_read(s, bundle, change.body.src)
           \/ can_read(s, bundle, change.body.dst)
           \/ change.body.owner = bundle
      ELSE \/ PUBLIC \in change.body.labels
           \/ change.body.kind \in InputKinds
           \/ can_read(s, bundle, change.body.id)

(* A pattern property may be met by the node's fields or by the edge. *)
matches_pattern(pattern, thing, change) ==
    /\ pattern.labels \subseteq thing.labels
    /\ \A k \in DOMAIN pattern.props :
          \/ k \in DOMAIN thing.fields /\ thing.fields[k] = pattern.props[k]
          \/ /\ IsEdge(change)
             /\ \/ k = "SRC" /\ pattern.props[k] = change.body.src
                \/ k = "DST" /\ pattern.props[k] = change.body.dst
                \/ k = "PREDICATE" /\ pattern.props[k] = change.body.pred
----------------------------------------------------------------------------
(* Changing the store *)

(* Mutant: a thing that exists already is not entered in the kind index. *)
insert_thing_unindexed(s, thing) ==
    [s EXCEPT !.things[thing.id] = Append(@, thing),
              !.kind_index[thing.kind] =
                  IF Exists(s, thing.id) THEN @ ELSE @ \cup {thing.id}]

(* A version or an edge that is not newer than the last one is dropped. *)
insert_thing(s, thing) ==
    IF Exists(s, thing.id) /\ latest(s, thing.id).revision >= thing.revision
      THEN s
      ELSE [s EXCEPT !.things[thing.id] = Append(@, thing),
                     !.kind_index[thing.kind] = @ \cup {thing.id}]

insert_edge(s, edge) ==
    IF s.edges # <<>> /\ Last(s.edges).revision >= edge.revision
      THEN s
      ELSE [s EXCEPT !.edges = Append(@, edge),
                     !.edges_by_src_pred[<<edge.src, edge.pred>>] = Append(@, edge)]

next_revision(s) == [s EXCEPT !.next_revision = @ + 1]

(* Mutant: the bundle node's revision is read but not consumed. *)
ensure_bundle_node_unnumbered(s, bundle) ==
    IF Exists(s, bundle) THEN s
    ELSE insert_thing(s,
             [id |-> bundle, kind |-> BUNDLE, labels |-> {BUNDLE},
              fields |-> [k \in {"ID"} |-> bundle], owner |-> bundle,
              revision |-> s.next_revision])

ensure_bundle_node(s, bundle) ==
    IF Exists(s, bundle) THEN s
    ELSE insert_thing(next_revision(s),
             [id |-> bundle, kind |-> BUNDLE, labels |-> {BUNDLE},
              fields |-> [k \in {"ID"} |-> bundle], owner |-> bundle,
              revision |-> s.next_revision])

ownership_edge(owner, node, revision) ==
    [src |-> owner, pred |-> "OWNS", dst |-> node, kind |-> NoKind,
     owner |-> owner, revision |-> revision]

(* The node an edge is matched against is its source, else its target. *)
change_target(s, change) ==
    IF ~IsEdge(change) THEN {change.body}
    ELSE IF Exists(s, change.body.src) THEN {latest(s, change.body.src)}
    ELSE IF Exists(s, change.body.dst) THEN {latest(s, change.body.dst)}
    ELSE {}

(* Mutant: a full queue refuses what is pushed. *)
push_unless_full(q, x, limit) == IF Len(q) >= limit THEN q ELSE Append(q, x)

(* Push, and drop the oldest once the queue is over its limit. *)
push_bounded(q, x, limit) ==
    IF Len(q) >= limit THEN Append(Tail(q), x) ELSE Append(q, x)

(* Mutant: whatever matches is queued, visible to the watch's owner or not. *)
notify_watches_unchecked(s, change) ==
    LET hit(w) == \E node \in change_target(s, change) :
                     matches_pattern(w.pattern, node, change)
    IN [s EXCEPT !.watches =
          [i \in 1..MaxWatches |->
             IF i \in Live(s) /\ hit(s.watches[i])
               THEN [s.watches[i] EXCEPT !.queue =
                       push_bounded(@, change, MAX_WATCH_QUEUE)]
               ELSE s.watches[i]]]

notify_watches(s, change) ==
    LET hit(w) == /\ change_visible_to(s, w.owner, change)
                  /\ \E node \in change_target(s, change) :
                        matches_pattern(w.pattern, node, change)
    IN [s EXCEPT !.watches =
          [i \in 1..MaxWatches |->
             IF i \in Live(s) /\ hit(s.watches[i])
               THEN [s.watches[i] EXCEPT !.queue =
                       push_bounded(@, change, MAX_WATCH_QUEUE)]
               ELSE s.watches[i]]]

emit(entry) == journal' = push_bounded(journal, entry, JOURNAL_CAPACITY)

emit_thing_event(thing) ==
    emit([event |-> "THING_CREATED", subject |-> thing.id,
          revision |-> thing.revision])

emit_edge_event(edge) ==
    emit([event |-> "EDGE_ADDED", subject |-> edge.src,
          revision |-> edge.revision])

Merge(new, old) ==
    [k \in DOMAIN new \cup DOMAIN old |->
        IF k \in DOMAIN new THEN new[k] ELSE old[k]]
----------------------------------------------------------------------------
(* The operations *)

EmptyStore ==
    [next_revision |-> 1,
     things |-> [i \in Ids |-> <<>>],
     edges |-> <<>>,
     kind_index |-> [k \in Kinds |-> {}],
     edges_by_src_pred |-> [sp \in Ids \X Preds |-> <<>>],
     watches |-> [w \in 1..MaxWatches |-> NoWatch],
     next_watch_id |-> 1]

Init ==
    /\ store = EmptyStore
    /\ journal = <<>>
    /\ delivered = [w \in 1..MaxWatches |-> 0]

RevisionsLeft == store.next_revision <= MaxRevision

(* Mutant: only the first version of a thing gets an ownership edge. *)
create_owned_once(s, thing) ==
    LET t == insert_thing(s, thing)
    IN notify_watches(
         IF Exists(s, thing.id) THEN t
         ELSE insert_edge(t, ownership_edge(thing.owner, thing.id, thing.revision)),
         ThingChange(thing))

(* Mutant: watches are notified before the owner can read the thing. *)
create_notify_first(s, thing) ==
    insert_edge(notify_watches(insert_thing(s, thing), ThingChange(thing)),
                ownership_edge(thing.owner, thing.id, thing.revision))

(* fiat_node once its labels are known to be non-empty: insert the version, *)
(* then its ownership edge with the same revision, then notify.             *)
create(s, thing) ==
    notify_watches(
        insert_edge(insert_thing(s, thing),
                    ownership_edge(thing.owner, thing.id, thing.revision)),
        ThingChange(thing))

(* The kind is the smallest label; OWNER is filled in unless given. *)
FiatNode(owner, id, labels, fields) ==
    /\ RevisionsLeft
    /\ LET ls == IF labels = {} THEN {THING_CREATED} ELSE labels
           props == Merge(fields, [k \in {"OWNER"} |-> owner])
           s == ensure_bundle_node(store, owner)
       IN \E kind \in ls :
            /\ \A l \in ls : kind <= l
            /\ LET thing == [id |-> IF id = NoId THEN DeriveUuid(kind, props)
                                                 ELSE id,
                             kind |-> kind, labels |-> ls, fields |-> props,
                             owner |-> owner, revision |-> s.next_revision]
               IN /\ store' = create(next_revision(s), thing)
                  /\ emit_thing_event(thing)
    /\ UNCHANGED delivered

(* fiat passes the kind as the only label, whatever labels the request has. *)
Fiat(owner, id, kind, fields) == FiatNode(owner, id, {kind}, fields)

(* A refused link and a link that exists already change nothing. *)
LinkEdge(owner, from, to, request) ==
    /\ RevisionsLeft
    /\ can_link(store, owner, from, to, request.pred)
    /\ ~edge_between(store, from, request.pred, to)
    /\ LET edge == [src |-> from, pred |-> request.pred, dst |-> to,
                    kind |-> request.kind, owner |-> owner,
                    revision |-> store.next_revision]
       IN /\ store' = notify_watches(insert_edge(next_revision(store), edge),
                                     EdgeChange(edge))
          /\ emit_edge_event(edge)
    /\ UNCHANGED delivered

(* A new version with the merged fields; no journal event is emitted. *)
SetProps(owner, node, props) ==
    /\ RevisionsLeft
    /\ Exists(store, node)
    /\ can_write(store, owner, node)
    /\ LET thing == [latest(store, node) EXCEPT
                        !.fields = Merge(props, @),
                        !.revision = store.next_revision]
       IN store' = notify_watches(insert_thing(next_revision(store), thing),
                                  ThingChange(thing))
    /\ UNCHANGED <<journal, delivered>>

can_grant(s, grantor, target, capability) ==
    \/ /\ capability \in DataCapabilities
       /\ grantor = Kernel \/ owns(s, grantor, target)
    \/ capability \in HardwareCapabilities /\ grantor = Kernel

(* A grant adds an edge even when the grantee has the capability already. *)
GrantCapability(grantor, grantee, target, capability) ==
    /\ RevisionsLeft
    /\ can_grant(store, grantor, target, capability)
    /\ LET s == ensure_bundle_node(store, grantee)
           edge == [src |-> grantee, pred |-> capability, dst |-> target,
                    kind |-> NoKind, owner |-> grantor,
                    revision |-> s.next_revision]
       IN /\ store' = notify_watches(insert_edge(next_revision(s), edge),
                                     EdgeChange(edge))
          /\ emit_edge_event(edge)
    /\ UNCHANGED delivered

RegisterWatch(owner, pattern) ==
    /\ store.next_watch_id <= MaxWatches
    /\ LET id == store.next_watch_id
           watch == [owner |-> owner, pattern |-> pattern, queue |-> <<>>]
       IN store' = [store EXCEPT
             !.next_watch_id = @ + 1,
             !.watches[id] = watch]
    /\ UNCHANGED <<journal, delivered>>

(* Mutant: a poll copies the queue and leaves it. *)
PollWatchKeeping(id) ==
    /\ id \in Live(store)
    /\ store.watches[id].queue # <<>>
    /\ delivered' = [delivered EXCEPT ![id] = Rev(Last(store.watches[id].queue))]
    /\ UNCHANGED <<store, journal>>

(* A poll takes the whole queue; an empty queue or an unknown id is no batch. *)
PollWatch(id) ==
    /\ id \in Live(store)
    /\ store.watches[id].queue # <<>>
    /\ delivered' = [delivered EXCEPT ![id] = Rev(Last(store.watches[id].queue))]
    /\ store' = [store EXCEPT !.watches[id].queue = <<>>]
    /\ UNCHANGED journal

Next ==
    \/ \E o \in Bundles, i \in Ids \cup {NoId}, k \in Kinds, f \in FieldMaps :
          Fiat(o, i, k, f)
    \/ \E o \in Bundles, i \in Ids \cup {NoId}, ls \in LabelSets, f \in FieldMaps :
          FiatNode(o, i, ls, f)
    \/ \E o \in Bundles, from, to \in Ids, r \in LinkRequests :
          LinkEdge(o, from, to, r)
    \/ \E o \in Bundles, node \in Ids, f \in FieldMaps : SetProps(o, node, f)
    \/ \E o, g \in Bundles, t \in Ids, c \in Capabilities :
          GrantCapability(o, g, t, c)
    \/ \E o \in Bundles, p \in Patterns : RegisterWatch(o, p)
    \/ \E id \in 1..MaxWatches : PollWatch(id)

Spec == Init /\ [][Next]_vars
----------------------------------------------------------------------------
(* Properties.  The parts are stated of a store s, so that the proofs can   *)
(* speak of the intermediate stores of an operation.                        *)

Watch == [owner : Bundles, pattern : Patterns, queue : Seq(Change)]

Store == [next_revision : Nat \ {0},
          things : [Ids -> Seq(Thing)],
          edges : Seq(Edge),
          kind_index : [Kinds -> SUBSET Ids],
          edges_by_src_pred : [Ids \X Preds -> Seq(Edge)],
          watches : [1..MaxWatches -> Watch \cup {NoWatch}],
          next_watch_id : 1..(MaxWatches + 1)]

(* The store, the journal and the poll history have their types: in
   particular a watch id is never handed out twice (store.rs:51). *)
TypeOK ==
    /\ store \in Store
    /\ \A w \in Live(store) : w < store.next_watch_id
    /\ journal \in Seq(JournalEntry)
    /\ delivered \in [1..MaxWatches -> Nat]

VersionsOrdered(s) ==
    \A id \in Ids : \A i, j \in 1..Len(s.things[id]) :
        i < j => s.things[id][i].revision < s.things[id][j].revision

EdgesOrdered(s) ==
    \A i, j \in 1..Len(s.edges) : i < j => s.edges[i].revision < s.edges[j].revision

RevisionsAssigned(s) ==
    /\ \A id \in Ids : \A v \in Rng(s.things[id]) :
          v.id = id /\ v.revision < s.next_revision
    /\ \A e \in Rng(s.edges) : e.revision < s.next_revision

RevisionsUnique(s) ==
    /\ \A a, b \in Ids : \A v \in Rng(s.things[a]), w \in Rng(s.things[b]) :
          v.revision = w.revision => a = b
    /\ \A a \in Ids : \A v \in Rng(s.things[a]), e \in Rng(s.edges) :
          v.revision = e.revision
            => e.pred = "OWNS" /\ e.src = v.owner /\ e.dst = a

(* A revision names one change: versions of different things never share
   one, a thing's versions and the edges are in revision order, and an edge
   has the revision of a version only if it is the ownership edge fiat_node
   added with it.  insert_thing and insert_edge drop what is not newer, so a
   revision taken too early or twice would lose a change silently. *)
RevisionsIdentify ==
    /\ VersionsOrdered(store) /\ EdgesOrdered(store)
    /\ RevisionsAssigned(store) /\ RevisionsUnique(store)

KindIndexExact(s) ==
    \A k \in Kinds :
        s.kind_index[k] = {id \in Ids : \E v \in Rng(s.things[id]) : v.kind = k}

EdgeIndexExact(s) ==
    \A src \in Ids, pred \in Preds :
        edges_of(s, src, pred) = {e \in Rng(s.edges) : e.src = src /\ e.pred = pred}

(* The two indexes agree with what they index: edges_by_src_pred has exactly
   the edges of its key, kind_index exactly the things that ever had the kind
   (find_by_kind and every capability check read only the indexes). *)
IndexesAgree == KindIndexExact(store) /\ EdgeIndexExact(store)

OwnedBy(s, v) == \E e \in Rng(s.edges) : e.src = v.owner /\ e.pred = "OWNS" /\ e.dst = v.id

OwnershipRecorded(s) ==
    \A id \in Ids : \A v \in Rng(s.things[id]) :
        OwnedBy(s, v) \/ (v.kind = BUNDLE /\ v.owner = id)

(* Whoever created a version can read the thing from then on: its ownership
   edge was not dropped by insert_edge.  Only the bare bundle nodes of
   ensure_bundle_node, which are their own owner, have none (store.rs:449). *)
OwnershipKept == OwnershipRecorded(store)

InStore(s, change) ==
    IF IsEdge(change) THEN change.body \in Rng(s.edges)
                      ELSE change.body \in Rng(s.things[change.body.id])

QueuesFaithful(s, seen) ==
    \A w \in Live(s) :
        LET q == s.watches[w].queue IN
        /\ Len(q) <= MAX_WATCH_QUEUE
        /\ \A i \in 1..Len(q) : InStore(s, q[i]) /\ seen[w] < Rev(q[i])
        /\ \A i, j \in 1..Len(q) : i < j => Rev(q[i]) < Rev(q[j])

(* A watch queue holds at most MAX_WATCH_QUEUE changes, each of them a version
   or an edge that is in the store, in revision order and newer than all that
   earlier polls of the watch returned: no change is delivered twice, out of
   order, or without having happened (notify_watches, poll_watch). *)
WatchQueuesFaithful == QueuesFaithful(store, delivered)

QueuesVisible(s) ==
    \A w \in Live(s) : \A c \in Rng(s.watches[w].queue) :
        change_visible_to(s, s.watches[w].owner, c)

(* A poll, however late, returns only changes the watch's owner may read when
   it polls: visibility is checked once, when the change is queued, so this
   needs every later operation to leave the owner's edges in place
   (notify_watches, poll_watch). *)
QueuedIsVisible == QueuesVisible(store)

(* The last matching change is never the one that is lost: right after a step
   that adds a version of a thing, every watch of its owner whose pattern the
   version meets ends with it, however full the queue was and though the owner's
   right to read it is as new as the thing (fiat_node, store.rs:158; notify_watches
   drops the oldest, store.rs:402).  Only a bare bundle node, made on the way by
   ensure_bundle_node, is not announced. *)
OwnerIsNotified ==
    [][\A id \in Ids :
         (Len(store'.things[id]) > Len(store.things[id])
            /\ ~(latest(store', id).kind = BUNDLE /\ latest(store', id).owner = id))
           => \A w \in Live(store)' :
                LET v == latest(store', id) IN
                (store'.watches[w].owner = v.owner
                   /\ matches_pattern(store'.watches[w].pattern, v, ThingChange(v)))
                  => /\ store'.watches[w].queue # <<>>
                     /\ Last(store'.watches[w].queue) = ThingChange(v)]_vars

Journalled(entry) == entry \in Rng(journal)
OldestJournalled == IF journal = <<>> THEN 0 ELSE journal[1].revision
JournalFull == Len(journal) = JOURNAL_CAPACITY

(* The journal is the tail of the history of edges: its entries are in
   revision order, each is about something in the store, and no edge other
   than an ownership edge is missing from it unless it is older than the
   oldest entry of a full journal (emit, link_edge, grant_capability). *)
JournalIsRecentHistory ==
    /\ Len(journal) <= JOURNAL_CAPACITY
    /\ \A i, j \in 1..Len(journal) : i < j => journal[i].revision < journal[j].revision
    /\ \A entry \in Rng(journal) :
          \/ entry.event = "EDGE_ADDED" /\ \E e \in Rng(store.edges) :
                e.src = entry.subject /\ e.revision = entry.revision
          \/ entry.event = "THING_CREATED" /\ \E v \in Rng(store.things[entry.subject]) :
                v.revision = entry.revision
    /\ \A e \in Rng(store.edges) :
          e.pred # "OWNS" =>
             \/ JournalFull /\ e.revision < OldestJournalled
             \/ Journalled([event |-> "EDGE_ADDED", subject |-> e.src,
                            revision |-> e.revision])

(* "On bare metal every mutation flows through the kernel journal"
   (docs/GRAPH_API.md:3): a step that adds a version or an edge adds a journal
   entry.  set_props (store.rs:236) does not. *)
EveryMutationJournalled ==
    [][(store'.things # store.things \/ store'.edges # store.edges)
          => journal' # journal]_vars
============================================================================
