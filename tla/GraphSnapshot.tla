--------------------------- MODULE GraphSnapshot ---------------------------
(***************************************************************************)
(* Taking a snapshot of the graph store and applying it again              *)
(* (Store::snapshot, Store::apply_snapshot), interleaved with all the      *)
(* operations of GraphStore.  The kernel code that would hold a snapshot   *)
(* is its caller; here one snapshot is taken and may be applied more than  *)
(* once.                                                                   *)
(***************************************************************************)
EXTENDS GraphStore

SX == INSTANCE SequencesExt

CONSTANT NoSnapshot, MaxRestores    \* bound: restores per run

VARIABLES
    saved,      \* the GraphSnapshot held, or NoSnapshot
    origin,     \* history: the store the snapshot was taken of
    restores    \* bound: restores so far

snapVars == <<store, journal, delivered, saved, origin, restores>>

SnapInit ==
    /\ Init
    /\ saved = NoSnapshot
    /\ origin = EmptyStore
    /\ restores = 0

(* All versions of all things, thing by thing in the order of the map. *)
Flattened(things) ==
    LET order == SX!SetToSeq(Ids)
    IN SX!FlattenSeq([i \in 1..Len(order) |-> things[order[i]]])

snapshot(s) ==
    [revision |-> s.next_revision - 1,
     things |-> Flattened(s.things),
     edges |-> s.edges]

(* Mutant: the counter continues with the snapshot's own revision. *)
apply_snapshot_same_revision(s, snap) ==
    LET cleared == [EmptyStore EXCEPT !.next_watch_id = s.next_watch_id]
        things == SX!FoldLeft(insert_thing, cleared, snap.things)
        edges == SX!FoldLeft(insert_edge, things, snap.edges)
    IN [edges EXCEPT !.next_revision = snap.revision]

(* Mutant: the watch counter starts again. *)
apply_snapshot_new_counter(s, snap) ==
    LET things == SX!FoldLeft(insert_thing, EmptyStore, snap.things)
        edges == SX!FoldLeft(insert_edge, things, snap.edges)
    IN [edges EXCEPT !.next_revision = snap.revision + 1]

(* Everything but the watch counter is cleared and inserted anew. *)
apply_snapshot(s, snap) ==
    LET cleared == [EmptyStore EXCEPT !.next_watch_id = s.next_watch_id]
        things == SX!FoldLeft(insert_thing, cleared, snap.things)
        edges == SX!FoldLeft(insert_edge, things, snap.edges)
    IN [edges EXCEPT !.next_revision = snap.revision + 1]

(* Bound: one snapshot per run. *)
Snapshot ==
    /\ saved = NoSnapshot
    /\ saved' = snapshot(store)
    /\ origin' = store
    /\ UNCHANGED <<store, journal, delivered, restores>>

ApplySnapshot ==
    /\ saved # NoSnapshot
    /\ restores < MaxRestores
    /\ store' = apply_snapshot(store, saved)
    /\ restores' = restores + 1
    /\ UNCHANGED <<journal, delivered, saved, origin>>

SnapNext ==
    \/ Next /\ UNCHANGED <<saved, origin, restores>>
    \/ Snapshot
    \/ ApplySnapshot

SnapSpec == SnapInit /\ [][SnapNext]_snapVars
----------------------------------------------------------------------------
(* Applying a snapshot brings back the store it was taken of: every version,
   every edge, both indexes and the revision counter, whatever happened in
   between; only the watches are gone (apply_snapshot, store.rs:358). *)
RestoreIsExact ==
    [][restores' # restores =>
         store' = [origin EXCEPT !.watches = EmptyStore.watches,
                                 !.next_watch_id = store.next_watch_id]]_snapVars

(* The watch counter alone survives a restore, so a watch registered after it
   never takes the id of one registered before, whose client may still poll:
   the counter never goes back and a new watch's id is not below it
   (apply_snapshot clears the watches, register_watch_pattern reads the counter). *)
WatchIdsNeverReused ==
    [][/\ store'.next_watch_id >= store.next_watch_id
       /\ \A w \in Live(store)' \ Live(store) : w >= store.next_watch_id]_snapVars
============================================================================
