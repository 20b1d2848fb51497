-------------------------- MODULE GraphStoreProofs --------------------------
(***************************************************************************)
(* Proofs about GraphStore, for every set of ids, bundles, kinds, patterns *)
(* and every queue and journal size.                                       *)
(*                                                                         *)
(* The argument is about single stores: Core(s) is the part of the         *)
(* inductive invariant that speaks of one store, and each of the source's  *)
(* private methods preserves it.  The key fact is that a revision just     *)
(* taken is newer than everything stored (FreshRevision), so insert_thing  *)
(* and insert_edge never take the branch that drops their argument.        *)
(***************************************************************************)
EXTENDS GraphStore, SequenceTheorems, TLAPS

Core(s) ==
    /\ s \in Store
    /\ VersionsOrdered(s) /\ EdgesOrdered(s) /\ RevisionsAssigned(s)
    /\ KindIndexExact(s) /\ EdgeIndexExact(s)

(* Nothing stored has revision r or a later one. *)
NewerThanThings(s, r) == \A id \in Ids : \A v \in Rng(s.things[id]) : v.revision < r
NewerThanEdges(s, r) == \A e \in Rng(s.edges) : e.revision < r

(* Appending to a sequence adds its argument to the elements. *)
LEMMA RngAppend ==
    ASSUME NEW S, NEW q \in Seq(S), NEW x \in S
    PROVE  /\ Rng(Append(q, x)) = Rng(q) \cup {x}
           /\ Append(q, x) \in Seq(S)
           /\ Len(Append(q, x)) = Len(q) + 1
           /\ \A i \in 1..Len(q) : Append(q, x)[i] = q[i]
           /\ Append(q, x)[Len(q) + 1] = x
  BY DEF Rng

(* The next revision is newer than all that is stored, and taking it leaves
   the store's invariant intact (next_revision). *)
LEMMA FreshRevision ==
    ASSUME NEW s, Core(s)
    PROVE  LET t == next_revision(s)
           IN /\ Core(t)
              /\ s.next_revision < t.next_revision
              /\ NewerThanThings(t, s.next_revision)
              /\ NewerThanEdges(t, s.next_revision)
<1> DEFINE t == next_revision(s)
<1>1. /\ t \in Store /\ t.next_revision = s.next_revision + 1
      /\ t.things = s.things /\ t.edges = s.edges
      /\ t.kind_index = s.kind_index
      /\ t.edges_by_src_pred = s.edges_by_src_pred
  <2>1. s \in Store
    BY DEF Core
  <2>2. t = [s EXCEPT !.next_revision = s.next_revision + 1]
    BY DEF next_revision
  <2>3. s.next_revision + 1 \in Nat \ {0}
    BY <2>1 DEF Store
  <2> HIDE DEF t
  <2> QED BY <2>1, <2>2, <2>3, Zenon DEF Store
<1>2. s.next_revision \in Nat
  BY DEF Core, Store
<1>3. RevisionsAssigned(t)
  <2>1. ASSUME NEW id \in Ids, NEW v \in Rng(s.things[id])
        PROVE  v.id = id /\ v.revision < t.next_revision
    <3>1. v \in Thing
      BY DEF Core, Store, Rng
    <3> QED BY <3>1, <1>1, <1>2 DEF Core, RevisionsAssigned, Thing
  <2>2. ASSUME NEW e \in Rng(s.edges)
        PROVE  e.revision < t.next_revision
    <3>1. e \in Edge
      BY DEF Core, Store, Rng
    <3> QED BY <3>1, <1>1, <1>2 DEF Core, RevisionsAssigned, Edge
  <2> QED BY <1>1, <2>1, <2>2 DEF RevisionsAssigned
<1>4. VersionsOrdered(t) /\ EdgesOrdered(t) /\ KindIndexExact(t) /\ EdgeIndexExact(t)
  BY <1>1 DEF Core, VersionsOrdered, EdgesOrdered, KindIndexExact, EdgeIndexExact, edges_of
<1>5. NewerThanThings(t, s.next_revision) /\ NewerThanEdges(t, s.next_revision)
  BY <1>1 DEF Core, RevisionsAssigned, NewerThanThings, NewerThanEdges
<1> QED BY <1>1, <1>2, <1>3, <1>4, <1>5 DEF Core

(* A version newer than the thing's others is appended, and both indexes still
   agree with the store (insert_thing). *)
LEMMA InsertThing ==
    ASSUME NEW s, Core(s), NEW t \in Thing,
           t.revision < s.next_revision,
           \A v \in Rng(s.things[t.id]) : v.revision < t.revision
    PROVE  LET u == insert_thing(s, t)
           IN /\ Core(u)
              /\ u = [s EXCEPT !.things = [s.things EXCEPT ![t.id] = Append(s.things[t.id], t)],
                              !.kind_index = [s.kind_index EXCEPT
                                                ![t.kind] = s.kind_index[t.kind] \cup {t.id}]]
              /\ Rng(u.things[t.id]) = Rng(s.things[t.id]) \cup {t}
              /\ \A id \in Ids \ {t.id} : u.things[id] = s.things[id]
              /\ u.edges = s.edges /\ u.next_revision = s.next_revision
              /\ u.watches = s.watches
              /\ u.next_watch_id = s.next_watch_id
              /\ u.edges_by_src_pred = s.edges_by_src_pred
<1> DEFINE old == s.things[t.id]
           new == Append(old, t)
           things == [s.things EXCEPT ![t.id] = new]
           kinds == [s.kind_index EXCEPT ![t.kind] = s.kind_index[t.kind] \cup {t.id}]
           u == insert_thing(s, t)
<1>1. /\ s \in Store /\ t.id \in Ids /\ t.kind \in Kinds /\ t.revision \in Nat
      /\ old \in Seq(Thing) /\ s.next_revision \in Nat
  BY Zenon DEF Core, Store, Thing
<1>2. ~(Exists(s, t.id) /\ latest(s, t.id).revision >= t.revision)
  <2> SUFFICES ASSUME Exists(s, t.id)
               PROVE  ~(latest(s, t.id).revision >= t.revision)
    OBVIOUS
  <2>1. Len(old) \in 1..Len(old)
    BY <1>1 DEF Exists
  <2>2. latest(s, t.id) \in Thing /\ latest(s, t.id).revision < t.revision
    BY <2>1, <1>1 DEF latest, Last, Rng
  <2> QED BY <2>2, <1>1 DEF Thing
<1>3. u = [s EXCEPT !.things = things, !.kind_index = kinds]
  <2>1. u = [s EXCEPT !.things[t.id] = Append(@, t),
                      !.kind_index[t.kind] = @ \cup {t.id}]
    BY <1>2 DEF insert_thing
  <2> QED BY <2>1, <1>1 DEF Store
<1>4. /\ Rng(new) = Rng(old) \cup {t} /\ new \in Seq(Thing)
      /\ Len(new) = Len(old) + 1 /\ new[Len(old) + 1] = t
      /\ \A i \in 1..Len(old) : new[i] = old[i]
  BY <1>1, RngAppend
<1>5. /\ things \in [Ids -> Seq(Thing)] /\ kinds \in [Kinds -> SUBSET Ids]
      /\ things[t.id] = new
      /\ \A id \in Ids \ {t.id} : things[id] = s.things[id]
      /\ kinds[t.kind] = s.kind_index[t.kind] \cup {t.id}
      /\ \A k \in Kinds \ {t.kind} : kinds[k] = s.kind_index[k]
  <2> HIDE DEF new
  <2> QED BY <1>1, <1>4 DEF Store
<1> HIDE DEF u, things, kinds, new
<1>6. /\ u \in Store /\ u.things = things /\ u.kind_index = kinds
      /\ u.edges = s.edges /\ u.next_revision = s.next_revision
      /\ u.watches = s.watches /\ u.next_watch_id = s.next_watch_id
      /\ u.edges_by_src_pred = s.edges_by_src_pred
  BY <1>1, <1>3, <1>5, Zenon DEF Store
<1>7. VersionsOrdered(u)
  <2> SUFFICES ASSUME NEW id \in Ids, NEW i \in 1..Len(u.things[id]),
                      NEW j \in 1..Len(u.things[id]), i < j
               PROVE  u.things[id][i].revision < u.things[id][j].revision
    BY DEF VersionsOrdered
  <2>1. CASE id # t.id
    BY <2>1, <1>5, <1>6 DEF Core, VersionsOrdered
  <2>2. CASE id = t.id
    <3>1. i \in 1..Len(old) /\ new[i] = old[i]
      BY <2>2, <1>1, <1>4, <1>5, <1>6
    <3>2. CASE j \in 1..Len(old)
      BY <2>2, <3>1, <3>2, <1>4, <1>5, <1>6, Zenon DEF Core, VersionsOrdered
    <3>3. CASE j = Len(old) + 1
      BY <2>2, <3>1, <3>3, <1>4, <1>5, <1>6, Zenon DEF Rng
    <3> QED BY <2>2, <3>2, <3>3, <1>1, <1>4, <1>5, <1>6, SMTT(60)
  <2> QED BY <2>1, <2>2
<1>8. RevisionsAssigned(u)
  <2>1. ASSUME NEW id \in Ids, NEW v \in Rng(u.things[id])
        PROVE  v.id = id /\ v.revision < u.next_revision
    <3>1. v \in Rng(s.things[id]) \/ (id = t.id /\ v = t)
      BY <1>4, <1>5, <1>6
    <3> QED BY <3>1, <1>6 DEF Core, RevisionsAssigned
  <2> QED BY <2>1, <1>6 DEF Core, RevisionsAssigned
<1>9. KindIndexExact(u)
  <2> SUFFICES ASSUME NEW k \in Kinds, NEW id \in Ids
               PROVE  id \in u.kind_index[k] <=> \E v \in Rng(u.things[id]) : v.kind = k
    <3>1. \A k \in Kinds : u.kind_index[k] \subseteq Ids
      BY <1>6 DEF Store
    <3> QED BY <3>1 DEF KindIndexExact
  <2>1. id \in s.kind_index[k] <=> \E v \in Rng(s.things[id]) : v.kind = k
    BY DEF Core, KindIndexExact
  <2>2. CASE id = t.id
    BY <2>1, <2>2, <1>1, <1>4, <1>5, <1>6
  <2>3. CASE id # t.id
    BY <2>1, <2>3, <1>1, <1>4, <1>5, <1>6, ZenonT(60)
  <2> QED BY <2>2, <2>3
<1>10. EdgesOrdered(u) /\ EdgeIndexExact(u)
  BY <1>6 DEF Core, EdgesOrdered, EdgeIndexExact, edges_of
<1>11. Rng(u.things[t.id]) = Rng(old) \cup {t}
  BY <1>4, <1>5, <1>6
<1>12. Core(u)
  BY <1>6, <1>7, <1>8, <1>9, <1>10 DEF Core
<1> QED BY <1>3, <1>5, <1>6, <1>11, <1>12 DEF u, things, kinds, new

(* An edge newer than the others is appended to the edges and to its index
   entry (insert_edge). *)
LEMMA InsertEdge ==
    ASSUME NEW s, Core(s), NEW e \in Edge,
           e.revision < s.next_revision,
           NewerThanEdges(s, e.revision)
    PROVE  LET u == insert_edge(s, e)
           IN /\ Core(u)
              /\ Rng(u.edges) = Rng(s.edges) \cup {e}
              /\ u.things = s.things /\ u.next_revision = s.next_revision
              /\ u.watches = s.watches
              /\ u.next_watch_id = s.next_watch_id
              /\ u.kind_index = s.kind_index
<1> DEFINE key == <<e.src, e.pred>>
           edges == Append(s.edges, e)
           entry == Append(s.edges_by_src_pred[key], e)
           index == [s.edges_by_src_pred EXCEPT ![key] = entry]
           u == insert_edge(s, e)
<1>1. /\ s \in Store /\ s.edges \in Seq(Edge) /\ e.revision \in Nat
      /\ key \in Ids \X Preds /\ s.edges_by_src_pred[key] \in Seq(Edge)
      /\ s.next_revision \in Nat
  BY Zenon DEF Core, Store, Edge
<1>2. ~(s.edges # <<>> /\ Last(s.edges).revision >= e.revision)
  <2> SUFFICES ASSUME s.edges # <<>>
               PROVE  ~(Last(s.edges).revision >= e.revision)
    OBVIOUS
  <2>1. Len(s.edges) \in 1..Len(s.edges)
    BY <1>1
  <2>2. Last(s.edges) \in Edge /\ Last(s.edges).revision < e.revision
    BY <2>1, <1>1 DEF Last, Rng, NewerThanEdges
  <2> QED BY <2>2, <1>1 DEF Edge
<1>3. u = [s EXCEPT !.edges = edges, !.edges_by_src_pred = index]
  <2>1. u = [s EXCEPT !.edges = Append(@, e), !.edges_by_src_pred[key] = Append(@, e)]
    BY <1>2 DEF insert_edge
  <2> QED BY <2>1, <1>1 DEF Store
<1>4. /\ Rng(edges) = Rng(s.edges) \cup {e} /\ edges \in Seq(Edge)
      /\ Len(edges) = Len(s.edges) + 1 /\ edges[Len(s.edges) + 1] = e
      /\ \A i \in 1..Len(s.edges) : edges[i] = s.edges[i]
  BY <1>1, RngAppend
<1>5. /\ Rng(entry) = Rng(s.edges_by_src_pred[key]) \cup {e}
      /\ entry \in Seq(Edge)
  BY <1>1, RngAppend
<1> HIDE DEF u, edges, entry, key
<1>6. /\ index \in [Ids \X Preds -> Seq(Edge)]
      /\ index[key] = entry
      /\ \A k \in (Ids \X Preds) \ {key} : index[k] = s.edges_by_src_pred[k]
  BY <1>1, <1>5 DEF Store
<1> HIDE DEF index
<1>7. /\ u \in Store /\ u.edges = edges /\ u.edges_by_src_pred = index
      /\ u.things = s.things /\ u.kind_index = s.kind_index
      /\ u.next_revision = s.next_revision
      /\ u.watches = s.watches /\ u.next_watch_id = s.next_watch_id
  BY <1>1, <1>3, <1>4, <1>6, Zenon DEF Store
<1>8. EdgesOrdered(u)
  <2> SUFFICES ASSUME NEW i \in 1..Len(edges), NEW j \in 1..Len(edges), i < j
               PROVE  edges[i].revision < edges[j].revision
    BY <1>7 DEF EdgesOrdered
  <2>1. i \in 1..Len(s.edges) /\ edges[i] = s.edges[i]
    BY <1>1, <1>4
  <2>2. CASE j \in 1..Len(s.edges)
    BY <2>1, <2>2, <1>4 DEF Core, EdgesOrdered
  <2>3. CASE j = Len(s.edges) + 1
    BY <2>1, <2>3, <1>4, Zenon DEF Rng, NewerThanEdges
  <2> QED BY <2>2, <2>3, <1>1, <1>4
<1>9. RevisionsAssigned(u)
  BY <1>4, <1>7 DEF Core, RevisionsAssigned
<1>10. EdgeIndexExact(u)
  <2> SUFFICES ASSUME NEW src \in Ids, NEW pred \in Preds
               PROVE  Rng(index[<<src, pred>>]) =
                        {f \in Rng(edges) : f.src = src /\ f.pred = pred}
    BY <1>7 DEF EdgeIndexExact, edges_of
  <2>1. Rng(s.edges_by_src_pred[<<src, pred>>])
          = {f \in Rng(s.edges) : f.src = src /\ f.pred = pred}
    BY DEF Core, EdgeIndexExact, edges_of
  <2>2. CASE src = e.src /\ pred = e.pred
    BY <2>1, <2>2, <1>4, <1>5, <1>6, Zenon DEF key
  <2>3. CASE ~(src = e.src /\ pred = e.pred)
    <3>1. index[<<src, pred>>] = s.edges_by_src_pred[<<src, pred>>]
      BY <2>3, <1>6 DEF key
    <3> QED BY <2>1, <2>3, <3>1, <1>4, Zenon
  <2> QED BY <2>2, <2>3
<1>11. VersionsOrdered(u) /\ KindIndexExact(u)
  BY <1>7 DEF Core, VersionsOrdered, KindIndexExact
<1>12. Core(u)
  BY <1>7, <1>8, <1>9, <1>10, <1>11 DEF Core
<1> QED BY <1>4, <1>7, <1>12 DEF u

(* A watch is a number. *)
LEMMA LiveIsNat ==
    ASSUME NEW s, NEW w \in Live(s)
    PROVE  w \in Nat
BY DEF Live

(* push_bounded keeps all of q, or all but its first element, and ends with x. *)
LEMMA PushBounded ==
    ASSUME NEW S, NEW q \in Seq(S), NEW x \in S, NEW limit \in Nat \ {0}
    PROVE  LET p == push_bounded(q, x, limit)
           IN /\ p \in Seq(S) /\ Len(p) > 0 /\ p[Len(p)] = x
              /\ Len(q) <= limit => Len(p) <= limit
              /\ \E d \in {0, 1} :
                    /\ Len(p) = Len(q) + 1 - d
                    /\ d = 1 => Len(q) >= limit
                    /\ \A i \in 1..(Len(p) - 1) : i + d \in 1..Len(q) /\ p[i] = q[i + d]
<1>1. CASE Len(q) >= limit
  <2> DEFINE t == Tail(q)
             p == Append(t, x)
  <2>1. /\ t \in Seq(S) /\ Len(t) = Len(q) - 1
        /\ \A i \in 1..Len(t) : t[i] = q[i + 1]
    BY <1>1
  <2> HIDE DEF t
  <2>2. /\ p \in Seq(S) /\ Len(p) = Len(t) + 1 /\ p[Len(t) + 1] = x
        /\ \A i \in 1..Len(t) : p[i] = t[i]
    BY <2>1, RngAppend
  <2> HIDE DEF p
  <2>3. push_bounded(q, x, limit) = p
    BY <1>1 DEF push_bounded, p, t
  <2>4. Len(q) \in Nat /\ Len(t) \in Nat
    BY <2>1
  <2>5. \A i \in 1..(Len(p) - 1) : i + 1 \in 1..Len(q) /\ p[i] = q[i + 1]
    BY <2>1, <2>2, <2>4
  <2> QED BY <1>1, <2>1, <2>2, <2>3, <2>4, <2>5
<1>2. CASE ~(Len(q) >= limit)
  <2> DEFINE p == Append(q, x)
  <2>1. /\ p \in Seq(S) /\ Len(p) = Len(q) + 1 /\ p[Len(q) + 1] = x
        /\ \A i \in 1..Len(q) : p[i] = q[i]
    BY RngAppend
  <2>2. push_bounded(q, x, limit) = p
    BY <1>2 DEF push_bounded
  <2> HIDE DEF p
  <2>3. Len(q) \in Nat
    OBVIOUS
  <2>4. \A i \in 1..(Len(p) - 1) : i + 0 \in 1..Len(q) /\ p[i] = q[i + 0]
    BY <2>1, <2>3
  <2> QED BY <1>2, <2>1, <2>2, <2>3, <2>4
<1> QED BY <1>1, <1>2

(* A change that is pushed is the last one queued. *)
LEMMA PushLast ==
    ASSUME NEW q \in Seq(Change), NEW x \in Change, NEW limit \in Nat \ {0},
           NEW p, p = push_bounded(q, x, limit)
    PROVE  /\ p \in Seq(Change) /\ Len(p) > 0 /\ p[Len(p)] = x
           /\ Len(q) <= limit => Len(p) <= limit
  BY PushBounded

(* What is queued moves down by at most one place when a change is pushed. *)
LEMMA PushShift ==
    ASSUME NEW q \in Seq(Change), NEW x \in Change, NEW limit \in Nat \ {0},
           NEW p, p = push_bounded(q, x, limit)
    PROVE  \E d \in {0, 1} :
              /\ Len(p) = Len(q) + 1 - d
              /\ d = 1 => Len(q) >= limit
              /\ \A i \in 1..(Len(p) - 1) : i + d \in 1..Len(q) /\ p[i] = q[i + d]
  BY PushBounded

(* What one store must satisfy: the inductive invariant without the watches. *)
Sound(s) == Core(s) /\ RevisionsUnique(s) /\ OwnershipRecorded(s)

SameGraph(s, u) ==
    /\ u.next_revision = s.next_revision /\ u.things = s.things
    /\ u.edges = s.edges /\ u.kind_index = s.kind_index
    /\ u.edges_by_src_pred = s.edges_by_src_pred

(* Soundness does not depend on the watches. *)
LEMMA SoundSameGraph ==
    ASSUME NEW s, NEW u \in Store, SameGraph(s, u), Sound(s)
    PROVE  Sound(u)
  BY DEF SameGraph, Sound, Core, VersionsOrdered, EdgesOrdered, RevisionsAssigned,
         KindIndexExact, EdgeIndexExact, edges_of, RevisionsUnique,
         OwnershipRecorded, OwnedBy

(* Taking a revision keeps a store sound. *)
LEMMA SoundNextRevision ==
    ASSUME NEW s, Sound(s)
    PROVE  Sound(next_revision(s))
<1> DEFINE t == next_revision(s)
<1>1. Core(t)
  BY FreshRevision DEF Sound
<1>2. t.things = s.things /\ t.edges = s.edges
  <2>1. s \in Store /\ t = [s EXCEPT !.next_revision = s.next_revision + 1]
    BY DEF Sound, Core, next_revision
  <2> HIDE DEF t
  <2> QED BY <2>1 DEF Store
<1> HIDE DEF t
<1>3. RevisionsUnique(t) /\ OwnershipRecorded(t)
  BY <1>2 DEF Sound, RevisionsUnique, OwnershipRecorded, OwnedBy
<1> QED BY <1>1, <1>3 DEF Sound, t

(* Inserting the newest version of all keeps revisions unique, and ownership
   recorded provided the version's owner is recorded or need not be. *)
LEMMA SoundInsertThing ==
    ASSUME NEW s, Sound(s), NEW t \in Thing, t.revision < s.next_revision,
           NewerThanThings(s, t.revision), NewerThanEdges(s, t.revision)
    PROVE  LET u == insert_thing(s, t)
           IN /\ Core(u) /\ RevisionsUnique(u)
              /\ (OwnedBy(s, t) \/ (t.kind = BUNDLE /\ t.owner = t.id)) => Sound(u)
<1> DEFINE u == insert_thing(s, t)
<1>1. t.id \in Ids
  BY Zenon DEF Thing
<1>2. /\ Core(u) /\ u.edges = s.edges
      /\ Rng(u.things[t.id]) = Rng(s.things[t.id]) \cup {t}
      /\ \A id \in Ids \ {t.id} : u.things[id] = s.things[id]
  BY <1>1, InsertThing, Zenon DEF Sound, NewerThanThings
<1> HIDE DEF u
<1>3. \A id \in Ids : \A v \in Rng(u.things[id]) :
         v \in Rng(s.things[id]) \/ (id = t.id /\ v = t)
  BY <1>2
<1>4. t.revision \in Nat
  BY DEF Thing
<1>5. RevisionsUnique(u)
  <2>1. ASSUME NEW a \in Ids, NEW b \in Ids, NEW v \in Rng(u.things[a]),
               NEW w \in Rng(u.things[b]), v.revision = w.revision
        PROVE  a = b
    <3>1. CASE v \in Rng(s.things[a]) /\ w \in Rng(s.things[b])
      BY <2>1, <3>1 DEF Sound, RevisionsUnique
    <3>2. CASE v = t /\ w \in Rng(s.things[b]) /\ a = t.id
      BY <2>1, <3>2, <1>4 DEF NewerThanThings
    <3>3. CASE w = t /\ v \in Rng(s.things[a]) /\ b = t.id
      BY <2>1, <3>3, <1>4 DEF NewerThanThings
    <3> QED BY <1>3, <3>1, <3>2, <3>3
  <2>2. ASSUME NEW a \in Ids, NEW v \in Rng(u.things[a]), NEW e \in Rng(u.edges),
               v.revision = e.revision
        PROVE  e.pred = "OWNS" /\ e.src = v.owner /\ e.dst = a
    <3>1. e \in Rng(s.edges)
      BY <1>2
    <3>2. CASE v = t
      BY <2>2, <3>1, <3>2, <1>4 DEF NewerThanEdges
    <3>3. CASE v \in Rng(s.things[a])
      BY <2>2, <3>1, <3>3 DEF Sound, RevisionsUnique
    <3> QED BY <1>3, <3>2, <3>3
  <2> QED BY <2>1, <2>2 DEF RevisionsUnique
<1>6. ASSUME OwnedBy(s, t) \/ (t.kind = BUNDLE /\ t.owner = t.id)
      PROVE  OwnershipRecorded(u)
  <2> SUFFICES ASSUME NEW id \in Ids, NEW v \in Rng(u.things[id])
               PROVE  OwnedBy(u, v) \/ (v.kind = BUNDLE /\ v.owner = id)
    BY DEF OwnershipRecorded
  <2>1. CASE v = t /\ id = t.id
    BY <1>2, <1>6, <2>1 DEF OwnedBy
  <2>2. CASE v \in Rng(s.things[id])
    BY <1>2, <2>2 DEF Sound, OwnershipRecorded, OwnedBy
  <2> QED BY <1>3, <2>1, <2>2
<1> QED BY <1>2, <1>5, <1>6 DEF Sound, u

(* Inserting the newest edge: unique as long as it is newer than all versions,
   or the ownership edge of the version that has its revision. *)
LEMMA SoundInsertEdge ==
    ASSUME NEW s, Core(s), RevisionsUnique(s), NEW e \in Edge,
           e.revision < s.next_revision, NewerThanEdges(s, e.revision),
           \A id \in Ids : \A v \in Rng(s.things[id]) :
              v.revision = e.revision => e.pred = "OWNS" /\ e.src = v.owner /\ e.dst = id,
           \A id \in Ids : \A v \in Rng(s.things[id]) :
              \/ OwnedBy(s, v) \/ (v.kind = BUNDLE /\ v.owner = id)
              \/ e.src = v.owner /\ e.pred = "OWNS" /\ e.dst = v.id
    PROVE  Sound(insert_edge(s, e))
<1> DEFINE u == insert_edge(s, e)
<1>1. Core(u) /\ u.things = s.things /\ Rng(u.edges) = Rng(s.edges) \cup {e}
  BY InsertEdge
<1> HIDE DEF u
<1>2. RevisionsUnique(u)
  BY <1>1 DEF RevisionsUnique
<1>3. OwnershipRecorded(u)
  BY <1>1 DEF OwnershipRecorded, OwnedBy
<1> QED BY <1>1, <1>2, <1>3 DEF Sound, u

(* Creating a bundle's node, when it has none, keeps the store sound. *)
LEMMA EnsureBundleNode ==
    ASSUME NEW s, Sound(s), NEW b \in Bundles
    PROVE  LET u == ensure_bundle_node(s, b)
           IN /\ Sound(u)
              /\ u.next_revision >= s.next_revision
              /\ u.watches = s.watches /\ u.next_watch_id = s.next_watch_id
              /\ Rng(s.edges) = Rng(u.edges)
              /\ \A id \in Ids : Rng(s.things[id]) \subseteq Rng(u.things[id])
<1>1. CASE Exists(s, b)
  <2>1. s.next_revision \in Nat
    BY Zenon DEF Sound, Core, Store
  <2> QED BY <1>1, <2>1, SMTT(40) DEF ensure_bundle_node
<1>2. CASE ~Exists(s, b)
  <2> DEFINE t == next_revision(s)
             f == [k \in {"ID"} |-> b]
             n == [id |-> b, kind |-> BUNDLE, labels |-> {BUNDLE}, fields |-> f,
                   owner |-> b, revision |-> s.next_revision]
             u == insert_thing(t, n)
  <2>1. ensure_bundle_node(s, b) = u
    BY <1>2 DEF ensure_bundle_node
  <2>2. f \in Fields
    <3>1. b \in Values /\ {"ID"} \in SUBSET Keys
      BY ConstantsAssumption
    <3>2. f \in [{"ID"} -> Values]
      BY <3>1
    <3> HIDE DEF f
    <3> QED BY <3>1, <3>2 DEF Fields
  <2> HIDE DEF f
  <2>3. n \in Thing
    BY <2>2, ConstantsAssumption DEF Thing, Sound, Core, Store
  <2>4. /\ n.revision = s.next_revision /\ n.kind = BUNDLE /\ n.owner = n.id
        /\ n.id = b /\ b \in Ids
    BY ConstantsAssumption
  <2> HIDE DEF n
  <2>5. /\ Sound(t) /\ s.next_revision < t.next_revision
        /\ NewerThanThings(t, s.next_revision) /\ NewerThanEdges(t, s.next_revision)
    BY SoundNextRevision, FreshRevision DEF Sound
  <2>6. /\ t.watches = s.watches /\ t.next_watch_id = s.next_watch_id
        /\ t.things = s.things /\ t.edges = s.edges
    <3>1. s \in Store /\ t = [s EXCEPT !.next_revision = s.next_revision + 1]
      BY DEF Sound, Core, next_revision
    <3> HIDE DEF t
    <3> QED BY <3>1 DEF Store
  <2> HIDE DEF t
  <2>7. Sound(u)
    BY <2>3, <2>4, <2>5, SoundInsertThing, Zenon
  <2>8. /\ Rng(u.things[n.id]) = Rng(t.things[n.id]) \cup {n}
        /\ \A id \in Ids \ {n.id} : u.things[id] = t.things[id]
        /\ u.edges = t.edges /\ u.next_revision = t.next_revision
        /\ u.watches = t.watches /\ u.next_watch_id = t.next_watch_id
    BY <2>3, <2>4, <2>5, InsertThing, Zenon DEF Sound, NewerThanThings
  <2> HIDE DEF u
  <2>9. s.next_revision \in Nat /\ t.next_revision \in Nat
    BY <2>5 DEF Sound, Core, Store
  <2> QED BY <2>1, <2>4, <2>5, <2>6, <2>7, <2>8, <2>9
<1> QED BY <1>1, <1>2, Zenon

(* notify_watches touches nothing but the queues of live watches. *)
LEMMA NotifyWatches ==
    ASSUME NEW s \in Store, NEW c \in Change
    PROVE  LET u == notify_watches(s, c)
           IN /\ u \in Store /\ SameGraph(s, u)
              /\ u.next_watch_id = s.next_watch_id
              /\ Live(u) \subseteq Live(s)
              /\ \A w \in Live(u) :
                    \/ u.watches[w] = s.watches[w]
                    \/ /\ u.watches[w] = [s.watches[w] EXCEPT !.queue =
                                            push_bounded(s.watches[w].queue, c, MAX_WATCH_QUEUE)]
                       /\ change_visible_to(s, s.watches[w].owner, c)
<1> DEFINE hit(w) == /\ change_visible_to(s, w.owner, c)
                     /\ \E node \in change_target(s, c) :
                           matches_pattern(w.pattern, node, c)
           pushed(i) == [s.watches[i] EXCEPT !.queue = push_bounded(@, c, MAX_WATCH_QUEUE)]
           ws == [i \in 1..MaxWatches |->
                    IF i \in Live(s) /\ hit(s.watches[i]) THEN pushed(i) ELSE s.watches[i]]
           u == notify_watches(s, c)
<1>1. u = [s EXCEPT !.watches = ws]
  BY DEF notify_watches
<1> HIDE DEF hit
<1>2. \A i \in Live(s) : pushed(i) \in Watch
  <2> SUFFICES ASSUME NEW i \in Live(s) PROVE pushed(i) \in Watch
    OBVIOUS
  <2>1. s.watches[i] \in Watch /\ s.watches[i].queue \in Seq(Change)
    BY Zenon DEF Live, Store, Watch
  <2> DEFINE q == push_bounded(s.watches[i].queue, c, MAX_WATCH_QUEUE)
  <2>2. q \in Seq(Change)
    BY <2>1, PushBounded, ConstantsAssumption
  <2>3. pushed(i) = [s.watches[i] EXCEPT !.queue = q]
    OBVIOUS
  <2> HIDE DEF q, pushed
  <2> QED BY <2>1, <2>2, <2>3 DEF Watch
<1>3. ws \in [1..MaxWatches -> Watch \cup {NoWatch}]
  <2> HIDE DEF pushed
  <2> QED BY <1>2, Zenon DEF Store
<1>4. \A w \in 1..MaxWatches :
         ws[w] = s.watches[w] \/ (w \in Live(s) /\ ws[w] = pushed(w) /\ hit(s.watches[w]))
  OBVIOUS
<1> HIDE DEF ws, u
<1>5. /\ u \in Store /\ SameGraph(s, u) /\ u.watches = ws
      /\ u.next_watch_id = s.next_watch_id
  BY <1>1, <1>3, Zenon DEF Store, SameGraph
<1>6. Live(u) \subseteq Live(s)
  <2> HIDE DEF pushed
  <2> QED BY <1>4, <1>5 DEF Live
<1>7. \A w \in Live(u) :
         \/ u.watches[w] = s.watches[w]
         \/ u.watches[w] = pushed(w) /\ hit(s.watches[w])
  <2> HIDE DEF pushed
  <2> QED BY <1>4, <1>5 DEF Live
<1>8. \A w : hit(w) => change_visible_to(s, w.owner, c)
  BY DEF hit
<1> QED BY <1>5, <1>6, <1>7, <1>8 DEF u

(* m is s with versions and edges added and nothing else. *)
Grows(s, m) ==
    /\ Sound(m)
    /\ m.watches = s.watches /\ m.next_watch_id = s.next_watch_id
    /\ s.next_revision <= m.next_revision
    /\ Rng(s.edges) \subseteq Rng(m.edges)
    /\ \A id \in Ids : Rng(s.things[id]) \subseteq Rng(m.things[id])

(* What is in the store was given a revision before the next one. *)
LEMMA StoredRevision ==
    ASSUME NEW s, Sound(s), NEW c \in Change, InStore(s, c)
    PROVE  Rev(c) \in Nat /\ Rev(c) < s.next_revision
<1>1. CASE c.type = "Edge" /\ c.body \in Edge
  BY <1>1 DEF InStore, IsEdge, Sound, Core, RevisionsAssigned, Rev, Edge
<1>2. CASE c.type = "Thing" /\ c.body \in Thing
  BY <1>2 DEF InStore, IsEdge, Sound, Core, RevisionsAssigned, Rev, Thing
<1> QED BY <1>1, <1>2 DEF Change

(* Announcing a change that is in the grown store and newer than the store it
   grew from keeps every queue faithful. *)
LEMMA Announce ==
    ASSUME NEW s, Sound(s), NEW m, Grows(s, m), NEW c \in Change,
           InStore(m, c), s.next_revision <= Rev(c),
           NEW seen \in [1..MaxWatches -> Nat],
           \A w \in 1..MaxWatches : seen[w] < s.next_revision,
           QueuesFaithful(s, seen)
    PROVE  LET u == notify_watches(m, c)
           IN /\ Sound(u) /\ QueuesFaithful(u, seen)
              /\ s.next_revision <= u.next_revision
              /\ u.next_watch_id = s.next_watch_id
              /\ Live(u) \subseteq Live(s)
<1> DEFINE u == notify_watches(m, c)
<1>1. m \in Store /\ s \in Store
  BY DEF Grows, Sound, Core
<1>2. /\ u \in Store /\ SameGraph(m, u) /\ u.next_watch_id = m.next_watch_id
      /\ Live(u) \subseteq Live(m)
      /\ \A w \in Live(u) :
            \/ u.watches[w] = m.watches[w]
            \/ u.watches[w] = [m.watches[w] EXCEPT !.queue =
                                push_bounded(m.watches[w].queue, c, MAX_WATCH_QUEUE)]
  BY <1>1, NotifyWatches
<1> HIDE DEF u
<1>3. Sound(u)
  BY <1>2, SoundSameGraph DEF Grows
<1>4. /\ Live(m) = Live(s) /\ m.watches = s.watches
      /\ s.next_revision <= u.next_revision /\ u.next_watch_id = s.next_watch_id
  BY <1>2 DEF Live, Grows, SameGraph
<1>5. \A d \in Change : InStore(s, d) => InStore(u, d)
  <2> SUFFICES ASSUME NEW d \in Change, InStore(s, d) PROVE InStore(u, d)
    OBVIOUS
  <2>1. u.edges = m.edges /\ u.things = m.things
    BY <1>2 DEF SameGraph
  <2>2. CASE IsEdge(d)
    BY <2>1, <2>2, Zenon DEF InStore, Grows
  <2>3. CASE ~IsEdge(d)
    <3>1. d.body.id \in Ids
      BY <2>3 DEF IsEdge, Change, Thing
    <3> QED BY <2>1, <2>3, <3>1, Zenon DEF InStore, Grows
  <2> QED BY <2>2, <2>3
<1>6. InStore(u, c)
  BY <1>2, ZenonT(60) DEF InStore, SameGraph
<1>7. ASSUME NEW w \in Live(u)
      PROVE  LET q == u.watches[w].queue IN
             /\ Len(q) <= MAX_WATCH_QUEUE
             /\ \A i \in 1..Len(q) : InStore(u, q[i]) /\ seen[w] < Rev(q[i])
             /\ \A i, j \in 1..Len(q) : i < j => Rev(q[i]) < Rev(q[j])
  <2> DEFINE r == s.watches[w].queue
             p == push_bounded(r, c, MAX_WATCH_QUEUE)
             q == u.watches[w].queue
  <2>1. /\ w \in Live(s) /\ w \in 1..MaxWatches
        /\ s.watches[w] \in Watch /\ r \in Seq(Change)
    BY <1>1, <1>2, <1>4, Zenon DEF Live, Store, Watch
  <2>2. /\ Len(r) <= MAX_WATCH_QUEUE
        /\ \A i \in 1..Len(r) : InStore(s, r[i]) /\ seen[w] < Rev(r[i])
        /\ \A i, j \in 1..Len(r) : i < j => Rev(r[i]) < Rev(r[j])
    BY <2>1 DEF QueuesFaithful
  <2>3. \A i \in 1..Len(r) : InStore(u, r[i]) /\ Rev(r[i]) \in Nat /\ Rev(r[i]) < Rev(c)
    <3> SUFFICES ASSUME NEW i \in 1..Len(r)
                 PROVE  InStore(u, r[i]) /\ Rev(r[i]) \in Nat /\ Rev(r[i]) < Rev(c)
      OBVIOUS
    <3>1. r[i] \in Change
      BY <2>1
    <3>2. Rev(r[i]) \in Nat /\ Rev(r[i]) < s.next_revision
      BY <2>2, <3>1, StoredRevision
    <3>3. Rev(c) \in Nat
      BY <1>6, <1>3, StoredRevision
    <3>4. s.next_revision \in Nat
      BY <1>1, Zenon DEF Store
    <3>5. InStore(u, r[i])
      BY <1>5, <2>2, <3>1
    <3>6. s.next_revision <= Rev(c)
      OBVIOUS
    <3> HIDE DEF r
    <3>7. Rev(r[i]) < Rev(c)
      BY <3>2, <3>3, <3>4, <3>6
    <3> QED BY <3>2, <3>5, <3>7
  <2>4. seen[w] < Rev(c)
    <3>1. Rev(c) \in Nat
      BY <1>6, <1>3, StoredRevision, Zenon
    <3>2. seen[w] \in Nat /\ s.next_revision \in Nat /\ seen[w] < s.next_revision
      BY <2>1, <1>1, Zenon DEF Store
    <3> QED BY <3>1, <3>2
  <2>5. CASE u.watches[w] = s.watches[w]
    BY <2>5, <2>2, <2>3, Zenon
  <2>6. CASE q = p
    <3> HIDE DEF q
    <3>1. /\ p \in Seq(Change) /\ Len(p) > 0 /\ p[Len(p)] = c
          /\ Len(p) <= MAX_WATCH_QUEUE
      <4>1. r \in Seq(Change) /\ Len(r) <= MAX_WATCH_QUEUE /\ MAX_WATCH_QUEUE \in Nat \ {0}
        BY <2>1, <2>2, ConstantsAssumption
      <4> HIDE DEF p, r
      <4> QED BY <4>1, PushLast, Zenon DEF p
    <3>2. PICK d \in {0, 1} :
            /\ Len(p) = Len(r) + 1 - d
            /\ \A i \in 1..(Len(p) - 1) : i + d \in 1..Len(r) /\ p[i] = r[i + d]
      <4>1. MAX_WATCH_QUEUE \in Nat \ {0}
        BY ConstantsAssumption
      <4>2. r \in Seq(Change)
        BY <2>1
      <4> HIDE DEF p, r
      <4>3. \E d \in {0, 1} :
               /\ Len(p) = Len(r) + 1 - d
               /\ d = 1 => Len(r) >= MAX_WATCH_QUEUE
               /\ \A i \in 1..(Len(p) - 1) : i + d \in 1..Len(r) /\ p[i] = r[i + d]
        BY <4>1, <4>2, PushShift DEF p
      <4> QED BY <4>3, Zenon
    <3> HIDE DEF p, r
    <3>3. \A i \in 1..Len(p) : i = Len(p) \/ i \in 1..(Len(p) - 1)
      BY <3>1, SMTT(60)
    <3>4. \A i \in 1..Len(p) : InStore(u, p[i]) /\ seen[w] < Rev(p[i])
      BY <3>1, <3>2, <3>3, <2>2, <2>3, <2>4, <1>6, Zenon
    <3>5. ASSUME NEW i \in 1..Len(p), NEW j \in 1..Len(p), i < j
          PROVE  Rev(p[i]) < Rev(p[j])
      <4>1. i \in 1..(Len(p) - 1)
        BY <3>1, <3>5
      <4>2. i + d \in 1..Len(r) /\ p[i] = r[i + d]
        BY <3>2, <4>1
      <4>3. CASE j = Len(p)
        BY <4>2, <4>3, <3>1, <2>3
      <4>4. CASE j \in 1..(Len(p) - 1)
        <5>1. j + d \in 1..Len(r) /\ p[j] = r[j + d] /\ i + d < j + d
          BY <3>2, <4>4, <3>5
        <5> DEFINE a == i + d
                   b == j + d
        <5>2. a \in 1..Len(r) /\ b \in 1..Len(r) /\ a < b /\ p[i] = r[a] /\ p[j] = r[b]
          BY <5>1, <4>2
        <5> HIDE DEF a, b
        <5> QED BY <5>2, <2>2
      <4> QED BY <3>3, <4>3, <4>4
    <3> QED BY <2>6, <3>1, <3>4, <3>5, Zenon DEF q
  <2> HIDE DEF p
  <2>7. u.watches[w] = s.watches[w] \/ q = p
    <3>1. CASE u.watches[w] = [s.watches[w] EXCEPT !.queue = p]
      BY <3>1, <2>1, ZenonT(60) DEF Watch
    <3> QED BY <3>1, <1>2, <1>4 DEF p
  <2> QED BY <2>5, <2>6, <2>7
<1>8. QueuesFaithful(u, seen)
  BY <1>7 DEF QueuesFaithful
<1> QED BY <1>2, <1>3, <1>4, <1>8 DEF u

(* A bundle that can read a node still can when the store has grown: nothing
   takes an edge away. *)
LEMMA CanReadGrows ==
    ASSUME NEW s, Sound(s), NEW m, Grows(s, m), NEW b \in Bundles, NEW n,
           can_read(s, b, n)
    PROVE  can_read(m, b, n)
<1>1. \A p \in Preds : edges_of(s, b, p) \subseteq edges_of(m, b, p)
  <2>1. b \in Ids
    BY ConstantsAssumption
  <2>2. EdgeIndexExact(s) /\ EdgeIndexExact(m) /\ Rng(s.edges) \subseteq Rng(m.edges)
    BY DEF Grows, Sound, Core
  <2> QED BY <2>1, <2>2 DEF EdgeIndexExact
<1>2. {"OWNS", "CAN_READ", "CAN_WRITE"} \subseteq Preds
  BY Zenon DEF Preds, DataCapabilities
<1> QED BY <1>1, <1>2 DEF can_read, can_write, owns, has_capability, edge_between

LEMMA VisibleGrows ==
    ASSUME NEW s, Sound(s), NEW m, Grows(s, m), NEW b \in Bundles, NEW c,
           change_visible_to(s, b, c)
    PROVE  change_visible_to(m, b, c)
  BY CanReadGrows, Zenon DEF change_visible_to

(* Announcing a change keeps what is queued visible to the watches' owners. *)
LEMMA AnnounceVisible ==
    ASSUME NEW s, Sound(s), NEW m, Grows(s, m), NEW c \in Change, QueuesVisible(s)
    PROVE  QueuesVisible(notify_watches(m, c))
<1> DEFINE u == notify_watches(m, c)
<1>1. /\ m \in Store /\ m.watches = s.watches /\ Live(m) = Live(s)
      /\ \A w \in Live(m) : m.watches[w] \in Watch
  BY Zenon DEF Grows, Sound, Core, Live, Store
<1>2. /\ SameGraph(m, u) /\ Live(u) \subseteq Live(m)
      /\ \A w \in Live(u) :
            \/ u.watches[w] = m.watches[w]
            \/ /\ u.watches[w] = [m.watches[w] EXCEPT !.queue =
                                    push_bounded(m.watches[w].queue, c, MAX_WATCH_QUEUE)]
               /\ change_visible_to(m, m.watches[w].owner, c)
  BY <1>1, NotifyWatches, Zenon
<1> HIDE DEF u
<1> SUFFICES ASSUME NEW w \in Live(u), NEW d \in Rng(u.watches[w].queue)
             PROVE  change_visible_to(u, u.watches[w].owner, d)
  BY DEF QueuesVisible, u
<1>3. /\ w \in Live(s) /\ m.watches[w] \in Watch /\ m.watches[w].owner \in Bundles
      /\ m.watches[w].queue \in Seq(Change)
  BY <1>1, <1>2 DEF Watch
<1> DEFINE r == m.watches[w].queue
           p == push_bounded(r, c, MAX_WATCH_QUEUE)
           o == m.watches[w].owner
<1>4. Rng(p) \subseteq Rng(r) \cup {c}
  <2>1. /\ p \in Seq(Change) /\ Len(p) > 0 /\ p[Len(p)] = c
        /\ \E k \in {0, 1} : \A i \in 1..(Len(p) - 1) : i + k \in 1..Len(r) /\ p[i] = r[i + k]
    <3>1. r \in Seq(Change) /\ MAX_WATCH_QUEUE \in Nat \ {0}
      BY <1>3, ConstantsAssumption
    <3> HIDE DEF p, r
    <3>2. p \in Seq(Change) /\ Len(p) > 0 /\ p[Len(p)] = c
      BY <3>1, PushLast DEF p
    <3>3. \E k \in {0, 1} :
             /\ Len(p) = Len(r) + 1 - k
             /\ k = 1 => Len(r) >= MAX_WATCH_QUEUE
             /\ \A i \in 1..(Len(p) - 1) : i + k \in 1..Len(r) /\ p[i] = r[i + k]
      BY <3>1, PushShift DEF p
    <3>4. \E k \in {0, 1} : \A i \in 1..(Len(p) - 1) : i + k \in 1..Len(r) /\ p[i] = r[i + k]
      BY <3>3, Zenon
    <3> QED BY <3>2, <3>4, Zenon
  <2> HIDE DEF p, r
  <2>2. \A i \in 1..Len(p) : i = Len(p) \/ i \in 1..(Len(p) - 1)
    BY <2>1
  <2> QED BY <2>1, <2>2, Zenon DEF Rng
<1>5. u.watches[w].owner = o /\ (d \in Rng(r) \/ (d = c /\ change_visible_to(m, o, c)))
  <2>1. CASE u.watches[w] = m.watches[w]
    BY <2>1
  <2>2. CASE /\ u.watches[w] = [m.watches[w] EXCEPT !.queue = p]
             /\ change_visible_to(m, o, c)
    <3>1. u.watches[w].queue = p /\ u.watches[w].owner = o
      <4> HIDE DEF p
      <4> QED BY <2>2, <1>3, Zenon DEF Watch
    <3> QED BY <3>1, <2>2, <1>4
  <2> QED BY <2>1, <2>2, <1>2, Zenon
<1>6. change_visible_to(m, o, d)
  <2>1. ASSUME d \in Rng(r) PROVE change_visible_to(m, o, d)
    <3>1. change_visible_to(s, o, d)
      BY <2>1, <1>1, <1>3, Zenon DEF QueuesVisible
    <3> QED BY <3>1, <1>3, VisibleGrows
  <2> QED BY <1>5, <2>1
<1> QED BY <1>2, <1>5, <1>6, ZenonT(60) DEF SameGraph, change_visible_to, can_read, can_write,
                                owns, has_capability, edge_between, edges_of

(* The inductive invariant. *)
IndInv ==
    /\ TypeOK
    /\ Sound(store)
    /\ WatchQueuesFaithful
    /\ QueuedIsVisible
    /\ \A w \in 1..MaxWatches : delivered[w] < store.next_revision

(* Whatever ends in announcing the newest change preserves the invariant's
   part about the store and the watches. *)
LEMMA AnnounceInv ==
    ASSUME IndInv, NEW m, Grows(store, m), NEW c \in Change, InStore(m, c),
           store.next_revision <= Rev(c), store' = notify_watches(m, c),
           delivered' = delivered, journal' \in Seq(JournalEntry)
    PROVE  IndInv'
<1>1. /\ Sound(store') /\ QueuesFaithful(store', delivered)
      /\ store.next_revision <= store'.next_revision
      /\ store'.next_watch_id = store.next_watch_id
      /\ Live(store') \subseteq Live(store)
  BY Announce, Zenon DEF IndInv, TypeOK, WatchQueuesFaithful
<1>2. store' \in Store /\ store \in Store
  BY <1>1 DEF Sound, Core, IndInv, TypeOK
<1>3. TypeOK'
  BY <1>1, <1>2 DEF IndInv, TypeOK, Live
<1>4. \A w \in 1..MaxWatches : delivered'[w] < store'.next_revision
  <2>1. store.next_revision \in Nat /\ store'.next_revision \in Nat
    BY <1>2 DEF Store
  <2> QED BY <1>1, <2>1, SMTT(60) DEF IndInv, TypeOK
<1>5. QueuesVisible(store')
  BY AnnounceVisible DEF IndInv, QueuedIsVisible
<1> QED BY <1>1, <1>3, <1>4, <1>5, Zenon DEF IndInv, WatchQueuesFaithful, QueuedIsVisible, Sound, Core,
           VersionsOrdered, EdgesOrdered, RevisionsAssigned, KindIndexExact,
           EdgeIndexExact, edges_of, RevisionsUnique, OwnershipRecorded, OwnedBy,
           QueuesFaithful, InStore, Live

(* A field map with another merged over it is a field map. *)
LEMMA MergeType ==
    ASSUME NEW f \in Fields, NEW g \in Fields
    PROVE  Merge(f, g) \in Fields
<1>1. PICK D \in SUBSET Keys : f \in [D -> Values]
  BY DEF Fields
<1>2. PICK E \in SUBSET Keys : g \in [E -> Values]
  BY DEF Fields
<1>3. DOMAIN f = D /\ DOMAIN g = E
  BY <1>1, <1>2
<1>4. Merge(f, g) \in [D \cup E -> Values]
  BY <1>1, <1>2, <1>3 DEF Merge
<1>5. D \cup E \in SUBSET Keys
  OBVIOUS
<1> QED BY <1>4, <1>5 DEF Fields

(* emit keeps the journal a sequence of entries. *)
LEMMA EmitType ==
    ASSUME journal \in Seq(JournalEntry), NEW entry \in JournalEntry, emit(entry)
    PROVE  journal' \in Seq(JournalEntry)
  BY PushBounded, ConstantsAssumption, Zenon DEF emit

(* Adding an edge with a revision just taken: link_edge and grant_capability
   after its ensure_bundle_node. *)
LEMMA AddEdge ==
    ASSUME NEW s, Sound(s), NEW e \in Edge, e.revision = s.next_revision
    PROVE  LET m == insert_edge(next_revision(s), e)
           IN Grows(s, m) /\ InStore(m, EdgeChange(e)) /\ EdgeChange(e) \in Change
<1> DEFINE t == next_revision(s)
           m == insert_edge(t, e)
<1>1. /\ Sound(t) /\ s.next_revision < t.next_revision
      /\ NewerThanThings(t, s.next_revision) /\ NewerThanEdges(t, s.next_revision)
  BY SoundNextRevision, FreshRevision DEF Sound
<1>2. /\ t.watches = s.watches /\ t.next_watch_id = s.next_watch_id
      /\ t.things = s.things /\ t.edges = s.edges
  <2>1. s \in Store /\ t = [s EXCEPT !.next_revision = s.next_revision + 1]
    BY Zenon DEF Sound, Core, next_revision
  <2> HIDE DEF t
  <2> QED BY <2>1 DEF Store
<1> HIDE DEF t
<1>3. e.revision \in Nat /\ s.next_revision \in Nat /\ t.next_revision \in Nat
  BY <1>1, Zenon DEF Edge, Sound, Core, Store
<1>4. \A id \in Ids : \A v \in Rng(t.things[id]) : v.revision # e.revision
  BY <1>1, <1>3, SMTT(60) DEF NewerThanThings
<1>5. Sound(m)
  <2>1. Core(t) /\ RevisionsUnique(t) /\ OwnershipRecorded(t)
    BY <1>1, Zenon DEF Sound
  <2>2. \A id \in Ids : \A v \in Rng(t.things[id]) :
          OwnedBy(t, v) \/ (v.kind = BUNDLE /\ v.owner = id)
    BY <2>1 DEF OwnershipRecorded
  <2>3. e.revision < t.next_revision /\ NewerThanEdges(t, e.revision)
    BY <1>1
  <2> QED BY <1>4, <2>1, <2>2, <2>3, SoundInsertEdge
<1>6. /\ Rng(m.edges) = Rng(t.edges) \cup {e}
      /\ m.things = t.things /\ m.next_revision = t.next_revision
      /\ m.watches = t.watches /\ m.next_watch_id = t.next_watch_id
  BY <1>1, InsertEdge, Zenon DEF Sound
<1> HIDE DEF m
<1>7. Grows(s, m)
  BY <1>1, <1>2, <1>3, <1>5, <1>6, SMTT(60) DEF Grows
<1>8. InStore(m, EdgeChange(e)) /\ EdgeChange(e) \in Change
  BY <1>6, Zenon DEF InStore, EdgeChange, IsEdge, Change
<1> QED BY <1>7, <1>8 DEF m, t

(* Growing is transitive. *)
LEMMA GrowsTrans ==
    ASSUME NEW s, Sound(s), NEW t, Grows(s, t), NEW m, Grows(t, m)
    PROVE  Grows(s, m)
<1>1. s.next_revision \in Nat /\ t.next_revision \in Nat /\ m.next_revision \in Nat
  BY Zenon DEF Grows, Sound, Core, Store
<1> QED BY <1>1, SMTT(60) DEF Grows

(* link_edge preserves the invariant. *)
LEMMA LinkEdgeInv ==
    ASSUME IndInv, NEW o \in Bundles, NEW from \in Ids, NEW to \in Ids,
           NEW r \in LinkRequests, LinkEdge(o, from, to, r)
    PROVE  IndInv'
<1> DEFINE e == [src |-> from, pred |-> r.pred, dst |-> to, kind |-> r.kind,
                 owner |-> o, revision |-> store.next_revision]
           m == insert_edge(next_revision(store), e)
<1>1. /\ store' = notify_watches(m, EdgeChange(e))
      /\ emit_edge_event(e) /\ delivered' = delivered
  BY Zenon DEF LinkEdge
<1>2. Sound(store) /\ store.next_revision \in Nat
  BY ZenonT(60) DEF IndInv, Sound, Core, Store
<1>3. e \in Edge /\ e.revision = store.next_revision /\ e.src = from
  BY <1>2 DEF Edge, Preds
<1> HIDE DEF e
<1>4. Grows(store, m) /\ InStore(m, EdgeChange(e)) /\ EdgeChange(e) \in Change
  BY <1>2, <1>3, AddEdge
<1>5. store.next_revision <= Rev(EdgeChange(e))
  BY <1>2, <1>3, SMTT(60) DEF Rev, EdgeChange
<1>6. journal' \in Seq(JournalEntry)
  BY <1>1, <1>2, <1>3, EmitType, ZenonT(60) DEF emit_edge_event, JournalEntry, IndInv, TypeOK
<1> HIDE DEF m
<1> QED BY <1>1, <1>4, <1>5, <1>6, AnnounceInv, Zenon

(* grant_capability preserves the invariant. *)
LEMMA GrantCapabilityInv ==
    ASSUME IndInv, NEW o \in Bundles, NEW g \in Bundles, NEW tgt \in Ids,
           NEW cap \in Capabilities, GrantCapability(o, g, tgt, cap)
    PROVE  IndInv'
<1> DEFINE s == ensure_bundle_node(store, g)
           e == [src |-> g, pred |-> cap, dst |-> tgt, kind |-> NoKind,
                 owner |-> o, revision |-> s.next_revision]
           m == insert_edge(next_revision(s), e)
<1>1. /\ store' = notify_watches(m, EdgeChange(e))
      /\ emit_edge_event(e) /\ delivered' = delivered
      /\ cap \in DataCapabilities \cup HardwareCapabilities
  BY Zenon DEF GrantCapability, can_grant
<1>2. Grows(store, s) /\ Sound(store)
  BY EnsureBundleNode, ZenonT(60) DEF IndInv, Grows, Sound, Core, Store
<1> HIDE DEF s
<1>3. Sound(s) /\ s.next_revision \in Nat /\ store.next_revision \in Nat
  BY <1>2, ZenonT(60) DEF Grows, Sound, Core, Store
<1>4. e \in Edge /\ e.revision = s.next_revision /\ e.src = g /\ g \in Ids
  BY <1>1, <1>3, ConstantsAssumption, Zenon DEF Edge, Preds
<1> HIDE DEF e
<1>5. Grows(s, m) /\ InStore(m, EdgeChange(e)) /\ EdgeChange(e) \in Change
  BY <1>3, <1>4, AddEdge, Zenon
<1>6. journal' \in Seq(JournalEntry)
  BY <1>1, <1>3, <1>4, EmitType, Zenon DEF emit_edge_event, JournalEntry, IndInv, TypeOK
<1> HIDE DEF m
<1>7. Grows(store, m)
  BY <1>2, <1>5, GrowsTrans, Zenon
<1>8. store.next_revision <= Rev(EdgeChange(e))
  BY <1>2, <1>3, <1>4, ZenonT(60) DEF Rev, EdgeChange, Grows
<1> QED BY <1>1, <1>5, <1>6, <1>7, <1>8, AnnounceInv

(* A version with a revision just taken grows the store: its ownership edge is
   added with it, or its owner is recorded already. *)
LEMMA AddThing ==
    ASSUME NEW s, Sound(s), NEW t \in Thing, t.revision = s.next_revision
    PROVE  LET n == next_revision(s)
               m == insert_thing(n, t)
               e == ownership_edge(t.owner, t.id, t.revision)
           IN /\ ThingChange(t) \in Change
              /\ (OwnedBy(s, t) \/ (t.kind = BUNDLE /\ t.owner = t.id))
                    => Grows(s, m) /\ InStore(m, ThingChange(t))
              /\ Grows(s, insert_edge(m, e))
              /\ InStore(insert_edge(m, e), ThingChange(t))
<1> DEFINE n == next_revision(s)
           m == insert_thing(n, t)
           e == ownership_edge(t.owner, t.id, t.revision)
           x == insert_edge(m, e)
<1>1. /\ Sound(n) /\ s.next_revision < n.next_revision
      /\ NewerThanThings(n, s.next_revision) /\ NewerThanEdges(n, s.next_revision)
  BY SoundNextRevision, FreshRevision DEF Sound
<1>2. /\ n.watches = s.watches /\ n.next_watch_id = s.next_watch_id
      /\ n.things = s.things /\ n.edges = s.edges
  <2>1. s \in Store /\ n = [s EXCEPT !.next_revision = s.next_revision + 1]
    BY DEF Sound, Core, next_revision
  <2> HIDE DEF n
  <2> QED BY <2>1, Zenon DEF Store
<1> HIDE DEF n
<1>3. /\ t.id \in Ids /\ t.owner \in Bundles /\ t.owner \in Ids /\ t.revision \in Nat
      /\ s.next_revision \in Nat /\ n.next_revision \in Nat
  BY <1>1, ConstantsAssumption, ZenonT(60) DEF Thing, Sound, Core, Store
<1>4. /\ Core(m) /\ RevisionsUnique(m)
      /\ (OwnedBy(n, t) \/ (t.kind = BUNDLE /\ t.owner = t.id)) => Sound(m)
  BY <1>1, SoundInsertThing, Zenon
<1>5. /\ Rng(m.things[t.id]) = Rng(n.things[t.id]) \cup {t}
      /\ \A id \in Ids \ {t.id} : m.things[id] = n.things[id]
      /\ m.edges = n.edges /\ m.next_revision = n.next_revision
      /\ m.watches = n.watches /\ m.next_watch_id = n.next_watch_id
  BY <1>1, <1>3, InsertThing, ZenonT(60) DEF Sound, NewerThanThings
<1> HIDE DEF m
<1>6. e \in Edge /\ e.revision = t.revision /\ e.pred = "OWNS"
      /\ e.src = t.owner /\ e.dst = t.id
  BY <1>3, Zenon DEF ownership_edge, Edge, Preds
<1> HIDE DEF e
<1>7. \A id \in Ids : \A v \in Rng(m.things[id]) :
         v \in Rng(n.things[id]) \/ (id = t.id /\ v = t)
  BY <1>5, Zenon
<1>8. NewerThanEdges(m, e.revision) /\ e.revision < m.next_revision
  BY <1>1, <1>5, <1>6, Zenon DEF NewerThanEdges
<1>9. \A id \in Ids : \A v \in Rng(m.things[id]) :
         v.revision = e.revision => e.pred = "OWNS" /\ e.src = v.owner /\ e.dst = id
  BY <1>1, <1>3, <1>6, <1>7, SMTT(40) DEF NewerThanThings
<1>10. \A id \in Ids : \A v \in Rng(m.things[id]) :
         \/ OwnedBy(m, v) \/ (v.kind = BUNDLE /\ v.owner = id)
         \/ e.src = v.owner /\ e.pred = "OWNS" /\ e.dst = v.id
  <2> SUFFICES ASSUME NEW id \in Ids, NEW v \in Rng(m.things[id])
               PROVE  \/ OwnedBy(m, v) \/ (v.kind = BUNDLE /\ v.owner = id)
                      \/ e.src = v.owner /\ e.pred = "OWNS" /\ e.dst = v.id
    BY Zenon
  <2>1. CASE v = t
    BY <2>1, <1>6, Zenon
  <2>2. CASE v \in Rng(n.things[id])
    BY <2>2, <1>1, <1>5, ZenonT(60) DEF Sound, OwnershipRecorded, OwnedBy
  <2> QED BY <1>7, <2>1, <2>2, Zenon
<1>11. Sound(x)
  BY <1>4, <1>6, <1>8, <1>9, <1>10, SoundInsertEdge, ZenonT(60)
<1>12. /\ Rng(x.edges) = Rng(m.edges) \cup {e}
       /\ x.things = m.things /\ x.next_revision = m.next_revision
       /\ x.watches = m.watches /\ x.next_watch_id = m.next_watch_id
  BY <1>4, <1>6, <1>8, InsertEdge, ZenonT(60)
<1> HIDE DEF x
<1>13. Grows(s, x)
  <2>1. x.watches = s.watches /\ x.next_watch_id = s.next_watch_id
    BY <1>2, <1>5, <1>12, ZenonT(60)
  <2>2. s.next_revision <= x.next_revision
    BY <1>1, <1>3, <1>5, <1>12, SMTT(60)
  <2>3. Rng(s.edges) \subseteq Rng(x.edges)
    BY <1>2, <1>5, <1>12, Zenon
  <2>4. ASSUME NEW id \in Ids PROVE Rng(s.things[id]) \subseteq Rng(x.things[id])
    BY <1>2, <1>5, <1>12, Zenon
  <2> QED BY <1>11, <2>1, <2>2, <2>3, <2>4, Zenon DEF Grows
<1>14. ThingChange(t) \in Change /\ InStore(x, ThingChange(t)) /\ InStore(m, ThingChange(t))
  BY <1>3, <1>5, <1>12, Zenon DEF ThingChange, Change, InStore, IsEdge
<1>15. ASSUME OwnedBy(s, t) \/ (t.kind = BUNDLE /\ t.owner = t.id)
       PROVE  Grows(s, m)
  <2>1. Sound(m)
    BY <1>2, <1>4, <1>15, Zenon DEF OwnedBy
  <2>2. m.watches = s.watches /\ m.next_watch_id = s.next_watch_id
    BY <1>2, <1>5, Zenon
  <2>3. s.next_revision <= m.next_revision
    BY <1>1, <1>3, <1>5, SMTT(60)
  <2>4. Rng(s.edges) \subseteq Rng(m.edges)
    BY <1>2, <1>5, Zenon
  <2>5. ASSUME NEW id \in Ids PROVE Rng(s.things[id]) \subseteq Rng(m.things[id])
    BY <1>2, <1>5, Zenon
  <2> QED BY <2>1, <2>2, <2>3, <2>4, <2>5 DEF Grows
<1> QED BY <1>13, <1>14, <1>15, Zenon DEF x, e, m, n

(* fiat_node preserves the invariant, and fiat with it. *)
LEMMA FiatNodeInv ==
    ASSUME IndInv, NEW o \in Bundles, NEW id \in Ids \cup {NoId},
           NEW labels \in SUBSET Kinds, NEW fields \in Fields,
           FiatNode(o, id, labels, fields)
    PROVE  IndInv'
<1> DEFINE ls == IF labels = {} THEN {THING_CREATED} ELSE labels
           own == [k \in {"OWNER"} |-> o]
           props == Merge(fields, own)
           s == ensure_bundle_node(store, o)
           thing(kind) == [id |-> IF id = NoId THEN DeriveUuid(kind, props) ELSE id,
                           kind |-> kind, labels |-> ls, fields |-> props,
                           owner |-> o, revision |-> s.next_revision]
<1>1. PICK kind \in ls : /\ store' = create(next_revision(s), thing(kind))
                         /\ emit_thing_event(thing(kind))
  BY ZenonT(60) DEF FiatNode
<1>2. delivered' = delivered
  BY Zenon DEF FiatNode
<1> DEFINE t == thing(kind)
           m == insert_edge(insert_thing(next_revision(s), t),
                            ownership_edge(t.owner, t.id, t.revision))
<1>3. store' = notify_watches(m, ThingChange(t)) /\ emit_thing_event(t)
  BY <1>1, ZenonT(60) DEF create
<1>4. Grows(store, s) /\ Sound(store)
  BY EnsureBundleNode, ZenonT(60) DEF IndInv, Grows, Sound, Core, Store
<1> HIDE DEF s
<1>5. Sound(s) /\ s.next_revision \in Nat /\ store.next_revision \in Nat
  BY <1>4, Zenon DEF Grows, Sound, Core, Store
<1>6. ls \subseteq Kinds /\ kind \in Kinds
  BY ConstantsAssumption
<1>7. props \in Fields
  <2>1. o \in Values /\ {"OWNER"} \in SUBSET Keys
    BY ConstantsAssumption
  <2>2. own \in [{"OWNER"} -> Values]
    BY <2>1, Zenon
  <2> HIDE DEF own
  <2>3. own \in Fields
    BY <2>1, <2>2, Zenon DEF Fields
  <2> QED BY <2>3, MergeType, Zenon
<1> HIDE DEF props, ls
<1>8. DeriveUuid(kind, props) \in Ids
  BY <1>6, <1>7, ConstantsAssumption, Zenon
<1>9. t \in Thing /\ t.revision = s.next_revision /\ t.id \in Ids
  BY <1>5, <1>6, <1>7, <1>8, ZenonT(60) DEF Thing
<1> HIDE DEF t
<1>10. Grows(s, m) /\ InStore(m, ThingChange(t)) /\ ThingChange(t) \in Change
  BY <1>5, <1>9, AddThing, ZenonT(60)
<1>11. journal' \in Seq(JournalEntry)
  BY <1>3, <1>5, <1>9, EmitType, Zenon DEF emit_thing_event, JournalEntry, IndInv, TypeOK
<1> HIDE DEF m
<1>12. Grows(store, m)
  BY <1>4, <1>10, GrowsTrans, Zenon
<1>13. store.next_revision <= Rev(ThingChange(t))
  BY <1>4, <1>5, <1>9, Zenon DEF Rev, ThingChange, Grows
<1> QED BY <1>2, <1>3, <1>10, <1>11, <1>12, <1>13, AnnounceInv, Zenon

(* set_props preserves the invariant: the new version has the kind and the owner
   of the last one, so its owner is recorded if the last one's was. *)
LEMMA SetPropsInv ==
    ASSUME IndInv, NEW o \in Bundles, NEW node \in Ids, NEW props \in Fields,
           SetProps(o, node, props)
    PROVE  IndInv'
<1> DEFINE old == latest(store, node)
           f == Merge(props, old.fields)
           t == [old EXCEPT !.fields = f, !.revision = store.next_revision]
           m == insert_thing(next_revision(store), t)
<1>1. /\ store' = notify_watches(m, ThingChange(t))
      /\ journal' = journal /\ delivered' = delivered /\ Exists(store, node)
  BY Zenon DEF SetProps
<1>2. Sound(store) /\ store.next_revision \in Nat /\ store.things[node] \in Seq(Thing)
  BY Zenon DEF IndInv, Sound, Core, Store
<1>3. old \in Rng(store.things[node]) /\ old \in Thing
  <2> DEFINE q == store.things[node]
  <2>1. q \in Seq(Thing) /\ q # <<>> /\ old = q[Len(q)]
    BY <1>1, <1>2, Zenon DEF Exists, latest, Last
  <2> HIDE DEF q, old
  <2>2. Len(q) \in 1..Len(q)
    BY <2>1
  <2>3. old \in Rng(q) /\ old \in Thing
    BY <2>1, <2>2 DEF Rng
  <2> QED BY <2>3 DEF q
<1>4. old.id = node
  BY <1>2, <1>3, ZenonT(60) DEF Sound, Core, RevisionsAssigned
<1>5. OwnedBy(store, old) \/ (old.kind = BUNDLE /\ old.owner = node)
  BY <1>2, <1>3 DEF Sound, OwnershipRecorded
<1> HIDE DEF old
<1>6. f \in Fields
  BY <1>3, MergeType DEF Thing
<1> HIDE DEF f
<1>7. /\ t \in Thing /\ t.revision = store.next_revision
      /\ t.id = old.id /\ t.kind = old.kind /\ t.owner = old.owner
  BY <1>2, <1>3, <1>6, ZenonT(60) DEF Thing
<1> HIDE DEF t
<1>8. OwnedBy(store, t) \/ (t.kind = BUNDLE /\ t.owner = t.id)
  BY <1>4, <1>5, <1>7 DEF OwnedBy
<1>9. Grows(store, m) /\ InStore(m, ThingChange(t)) /\ ThingChange(t) \in Change
  BY <1>2, <1>7, <1>8, AddThing, Zenon
<1> HIDE DEF m
<1>10. store.next_revision <= Rev(ThingChange(t))
  BY <1>2, <1>7 DEF Rev, ThingChange
<1>11. journal' \in Seq(JournalEntry)
  BY <1>1, Zenon DEF IndInv, TypeOK
<1> QED BY <1>1, <1>9, <1>10, <1>11, AnnounceInv

(* What a bundle may see depends only on the edges. *)
LEMMA SameVisible ==
    ASSUME NEW s, NEW u, SameGraph(s, u), NEW b, NEW c, change_visible_to(s, b, c)
    PROVE  change_visible_to(u, b, c)
  BY ZenonT(60) DEF SameGraph, change_visible_to, can_read, can_write, owns, has_capability,
         edge_between, edges_of

(* Registering a watch adds an empty queue under a new id. *)
LEMMA RegisterWatchInv ==
    ASSUME IndInv, NEW o \in Bundles, NEW p \in Patterns, RegisterWatch(o, p)
    PROVE  IndInv'
<1> DEFINE id == store.next_watch_id
           watch == [owner |-> o, pattern |-> p, queue |-> <<>>]
           ws == [store.watches EXCEPT ![id] = watch]
<1>1. /\ store \in Store /\ store.next_watch_id <= MaxWatches
      /\ journal' = journal /\ delivered' = delivered
      /\ store.next_watch_id \in Nat /\ MaxWatches \in Nat /\ id \in 1..MaxWatches
  <2>1. store \in Store /\ MaxWatches \in Nat
    BY ConstantsAssumption, Zenon DEF IndInv, TypeOK
  <2>2. id <= MaxWatches /\ journal' = journal /\ delivered' = delivered
    BY Zenon DEF RegisterWatch
  <2>3. id \in 1..(MaxWatches + 1)
    BY <2>1, Zenon DEF Store
  <2> HIDE DEF id
  <2>4. id \in Nat /\ id \in 1..MaxWatches
    BY <2>1, <2>2, <2>3
  <2> QED BY <2>1, <2>2, <2>4 DEF id
<1>2. store' = [store EXCEPT !.next_watch_id = id + 1, !.watches = ws]
  BY <1>1 DEF RegisterWatch, Store
<1>3. watch \in Watch /\ watch.queue = <<>>
  BY SMTT(60) DEF Watch
<1> HIDE DEF watch
<1>4. /\ ws \in [1..MaxWatches -> Watch \cup {NoWatch}] /\ ws[id] = watch
      /\ \A w \in 1..MaxWatches : w # id => ws[w] = store.watches[w]
  BY <1>1, <1>3 DEF Store
<1> HIDE DEF ws
<1>5. /\ store' \in Store /\ SameGraph(store, store')
      /\ store'.watches = ws /\ store'.next_watch_id = id + 1
  <2> DEFINE n == id + 1
  <2>1. n \in 1..(MaxWatches + 1)
    BY <1>1
  <2>2. store' = [store EXCEPT !.next_watch_id = n, !.watches = ws]
    BY <1>2
  <2> HIDE DEF n, id
  <2>3. store' \in Store
    BY <1>1, <1>4, <2>1, <2>2, ZenonT(60) DEF Store
  <2>4. SameGraph(store, store') /\ store'.watches = ws /\ store'.next_watch_id = n
    BY <1>1, <2>2 DEF Store, SameGraph
  <2> QED BY <2>3, <2>4 DEF n
<1>6. Sound(store')
  BY <1>5, SoundSameGraph DEF IndInv
<1>7. \A w \in Live(store') : w = id \/ (w \in Live(store) /\ ws[w] = store.watches[w])
  BY <1>4, <1>5 DEF Live
<1>8. TypeOK'
  <2>1. \A w \in Live(store') : w < store'.next_watch_id
    <3> SUFFICES ASSUME NEW w \in Live(store') PROVE w < id + 1
      BY <1>5
    <3>1. w \in Nat
      BY LiveIsNat, Zenon
    <3>2. w = id \/ w < store.next_watch_id
      BY <1>7, Zenon DEF IndInv, TypeOK
    <3>3. id \in Nat /\ store.next_watch_id = id
      BY <1>1
    <3> HIDE DEF id
    <3> QED BY <3>1, <3>2, <3>3
  <2> QED BY <1>1, <1>5, <2>1 DEF IndInv, TypeOK, Live
<1>9. QueuesFaithful(store', delivered)
  <2>1. store'.things = store.things /\ store'.edges = store.edges
    BY <1>5, Zenon DEF SameGraph
  <2>2. \A c : InStore(store, c) => InStore(store', c)
    BY <2>1 DEF InStore
  <2>3. QueuesFaithful(store, delivered)
    BY Zenon DEF IndInv, WatchQueuesFaithful
  <2> SUFFICES ASSUME NEW w \in Live(store')
               PROVE  LET q == ws[w].queue IN
                      /\ Len(q) <= MAX_WATCH_QUEUE
                      /\ \A i \in 1..Len(q) : InStore(store', q[i]) /\ delivered[w] < Rev(q[i])
                      /\ \A i, j \in 1..Len(q) : i < j => Rev(q[i]) < Rev(q[j])
    BY <1>5, ZenonT(60) DEF QueuesFaithful
  <2>4. CASE w = id
    <3>1. ws[w].queue = <<>>
      BY <2>4, <1>3, <1>4, Zenon
    <3>2. Len(ws[w].queue) = 0
      BY <3>1
    <3>3. 1..Len(ws[w].queue) = {} /\ MAX_WATCH_QUEUE \in Nat
      BY <3>2, ConstantsAssumption
    <3> QED BY <3>2, <3>3, SMTT(40)
  <2>5. CASE w \in Live(store) /\ ws[w] = store.watches[w]
    BY <2>5, <2>2, <2>3, Zenon DEF QueuesFaithful
  <2> QED BY <1>7, <2>4, <2>5
<1>10. \A w \in 1..MaxWatches : delivered'[w] < store'.next_revision
  BY <1>1, <1>5, Zenon DEF IndInv, SameGraph
<1>11. QueuesVisible(store')
  <2>1. \A b, c : change_visible_to(store, b, c) => change_visible_to(store', b, c)
    BY <1>5, SameVisible, Zenon
  <2>2. \A w \in Live(store') : \A c \in Rng(ws[w].queue) :
           w \in Live(store) /\ ws[w] = store.watches[w]
    BY <1>3, <1>4, <1>7, SMTT(60) DEF Rng
  <2> QED BY <1>5, <2>1, <2>2 DEF IndInv, QueuedIsVisible, QueuesVisible
<1> QED BY <1>1, <1>6, <1>8, <1>9, <1>10, <1>11, Zenon DEF IndInv, WatchQueuesFaithful,
           QueuedIsVisible, Sound, Core,
           VersionsOrdered, EdgesOrdered, RevisionsAssigned, KindIndexExact,
           EdgeIndexExact, edges_of, RevisionsUnique, OwnershipRecorded, OwnedBy,
           QueuesFaithful, InStore, Live

(* A poll empties one queue, and what it returned was in the store. *)
LEMMA PollWatchInv ==
    ASSUME IndInv, NEW id \in 1..MaxWatches, PollWatch(id)
    PROVE  IndInv'
<1> DEFINE q == store.watches[id].queue
           watch == [store.watches[id] EXCEPT !.queue = <<>>]
           ws == [store.watches EXCEPT ![id] = watch]
<1>1. /\ store \in Store /\ id \in Live(store) /\ q # <<>> /\ journal' = journal
      /\ delivered' = [delivered EXCEPT ![id] = Rev(Last(q))]
      /\ store.watches[id] \in Watch /\ q \in Seq(Change)
      /\ delivered \in [1..MaxWatches -> Nat]
  BY Zenon DEF IndInv, TypeOK, PollWatch, Live, Store, Watch
<1>2. store' = [store EXCEPT !.watches = ws]
  BY <1>1 DEF PollWatch, Store
<1>3. watch \in Watch /\ watch.queue = <<>>
  <2> DEFINE old == store.watches[id]
  <2>1. old \in Watch /\ <<>> \in Seq(Change) /\ watch = [old EXCEPT !.queue = <<>>]
    BY <1>1
  <2> HIDE DEF old, watch
  <2> QED BY <2>1, Zenon DEF Watch
<1> HIDE DEF watch
<1>4. /\ ws \in [1..MaxWatches -> Watch \cup {NoWatch}] /\ ws[id] = watch
      /\ \A w \in 1..MaxWatches : w # id => ws[w] = store.watches[w]
  BY <1>1, <1>3, Zenon DEF Store
<1> HIDE DEF ws
<1>5. /\ store' \in Store /\ SameGraph(store, store')
      /\ store'.watches = ws /\ store'.next_watch_id = store.next_watch_id
  BY <1>1, <1>2, <1>4, Zenon DEF Store, SameGraph
<1>6. Sound(store')
  BY <1>5, SoundSameGraph DEF IndInv
<1>7. \A w \in Live(store') :
         w \in Live(store) /\ (w = id \/ ws[w] = store.watches[w])
  BY <1>1, <1>4, <1>5 DEF Live
<1>8. Rev(Last(q)) \in Nat /\ Rev(Last(q)) < store.next_revision
  <2>1. Len(q) \in 1..Len(q) /\ Last(q) \in Change
    BY <1>1, SMTT(60) DEF Last
  <2>2. InStore(store, Last(q))
    BY <1>1, <2>1, Zenon DEF IndInv, WatchQueuesFaithful, QueuesFaithful, Last
  <2> QED BY <2>1, <2>2, StoredRevision DEF IndInv
<1>9. /\ delivered' \in [1..MaxWatches -> Nat]
      /\ \A w \in 1..MaxWatches : delivered'[w] < store'.next_revision
      /\ \A w \in 1..MaxWatches : w # id => delivered'[w] = delivered[w]
  <2> HIDE DEF q
  <2> QED BY <1>1, <1>5, <1>8, Zenon DEF IndInv, SameGraph
<1>10. TypeOK'
  BY <1>1, <1>5, <1>7, <1>9, Zenon DEF IndInv, TypeOK, Live
<1>11. QueuesFaithful(store', delivered')
  <2>1. store'.things = store.things /\ store'.edges = store.edges
    BY <1>5, Zenon DEF SameGraph
  <2>2. \A c : InStore(store, c) => InStore(store', c)
    BY <2>1 DEF InStore
  <2>3. QueuesFaithful(store, delivered)
    BY Zenon DEF IndInv, WatchQueuesFaithful
  <2> SUFFICES ASSUME NEW w \in Live(store')
               PROVE  LET r == ws[w].queue IN
                      /\ Len(r) <= MAX_WATCH_QUEUE
                      /\ \A i \in 1..Len(r) : InStore(store', r[i]) /\ delivered'[w] < Rev(r[i])
                      /\ \A i, j \in 1..Len(r) : i < j => Rev(r[i]) < Rev(r[j])
    BY <1>5, Zenon DEF QueuesFaithful
  <2>4. CASE w = id
    <3>1. ws[w].queue = <<>>
      BY <2>4, <1>3, <1>4, Zenon
    <3>2. Len(ws[w].queue) = 0
      BY <3>1
    <3>3. 1..Len(ws[w].queue) = {} /\ MAX_WATCH_QUEUE \in Nat
      BY <3>2, ConstantsAssumption
    <3> QED BY <3>2, <3>3, SMTT(40)
  <2>5. CASE w # id
    <3>1. delivered'[w] = delivered[w] /\ w \in Live(store) /\ ws[w] = store.watches[w]
      BY <2>5, <1>7, <1>9, Zenon DEF Live
    <3> QED BY <3>1, <2>2, <2>3, Zenon DEF QueuesFaithful
  <2> QED BY <2>4, <2>5
<1>12. QueuesVisible(store')
  <2>1. \A b, c : change_visible_to(store, b, c) => change_visible_to(store', b, c)
    BY <1>5, SameVisible, Zenon
  <2>2. \A w \in Live(store') : \A c \in Rng(ws[w].queue) :
           w \in Live(store) /\ ws[w] = store.watches[w]
    BY <1>3, <1>4, <1>7 DEF Rng
  <2> QED BY <1>5, <2>1, <2>2 DEF IndInv, QueuedIsVisible, QueuesVisible
<1> QED BY <1>6, <1>9, <1>10, <1>11, <1>12, Zenon DEF IndInv, WatchQueuesFaithful,
           QueuedIsVisible, Sound, Core,
           VersionsOrdered, EdgesOrdered, RevisionsAssigned, KindIndexExact,
           EdgeIndexExact, edges_of, RevisionsUnique, OwnershipRecorded, OwnedBy,
           QueuesFaithful, InStore, Live

(* The empty store satisfies the invariant. *)
LEMMA InitInv == Init => IndInv
<1> SUFFICES ASSUME Init PROVE IndInv
  BY Zenon
<1>1. /\ store.next_revision = 1 /\ store.things = [i \in Ids |-> <<>>]
      /\ store.edges = <<>> /\ store.kind_index = [k \in Kinds |-> {}]
      /\ store.edges_by_src_pred = [sp \in Ids \X Preds |-> <<>>]
      /\ store.watches = [w \in 1..MaxWatches |-> NoWatch]
      /\ store.next_watch_id = 1
  BY Zenon DEF Init, EmptyStore
<1>2. store \in Store
  <2>1. 1 \in 1..(MaxWatches + 1)
    BY ConstantsAssumption
  <2> QED BY <2>1, SMTT(40) DEF Init, EmptyStore, Store
<1>3. Live(store) = {}
  BY <1>1 DEF Live
<1>4. TypeOK
  BY <1>2, <1>3, SMTT(60) DEF TypeOK, Init
<1>5. \A id \in Ids : store.things[id] = <<>> /\ Rng(store.things[id]) = {}
  BY <1>1, SMTT(40) DEF Rng
<1>6. Rng(store.edges) = {} /\ Len(store.edges) = 0
  BY <1>1 DEF Rng
<1>7. \A src \in Ids, pred \in Preds : edges_of(store, src, pred) = {}
  BY <1>1, SMTT(60) DEF edges_of, Rng
<1>8. VersionsOrdered(store) /\ EdgesOrdered(store)
  BY <1>5, <1>6, SMTT(60) DEF VersionsOrdered, EdgesOrdered
<1>9. RevisionsAssigned(store) /\ RevisionsUnique(store) /\ OwnershipRecorded(store)
  BY <1>5, <1>6, Zenon DEF RevisionsAssigned, RevisionsUnique, OwnershipRecorded
<1>10. KindIndexExact(store) /\ EdgeIndexExact(store)
  BY <1>1, <1>5, <1>6, <1>7, Zenon DEF KindIndexExact, EdgeIndexExact
<1>11. WatchQueuesFaithful /\ QueuedIsVisible
  BY <1>3, Zenon DEF WatchQueuesFaithful, QueuesFaithful, QueuedIsVisible, QueuesVisible
<1>12. \A w \in 1..MaxWatches : delivered[w] < store.next_revision
  BY <1>1, SMTT(60) DEF Init
<1> QED BY <1>2, <1>4, <1>8, <1>9, <1>10, <1>11, <1>12 DEF IndInv, Sound, Core

(* Every step preserves the invariant. *)
LEMMA NextInv == IndInv /\ [Next]_vars => IndInv'
<1> SUFFICES ASSUME IndInv, [Next]_vars PROVE IndInv'
  BY Zenon
<1>1. ASSUME NEW o \in Bundles, NEW i \in Ids \cup {NoId}, NEW k \in Kinds,
             NEW f \in FieldMaps, Fiat(o, i, k, f)
      PROVE  IndInv'
  BY <1>1, FiatNodeInv, ConstantsAssumption, Zenon DEF Fiat
<1>2. ASSUME NEW o \in Bundles, NEW i \in Ids \cup {NoId}, NEW ls \in LabelSets,
             NEW f \in FieldMaps, FiatNode(o, i, ls, f)
      PROVE  IndInv'
  BY <1>2, FiatNodeInv, ConstantsAssumption
<1>3. ASSUME NEW o \in Bundles, NEW from \in Ids, NEW to \in Ids,
             NEW r \in LinkRequests, LinkEdge(o, from, to, r)
      PROVE  IndInv'
  BY <1>3, LinkEdgeInv, Zenon
<1>4. ASSUME NEW o \in Bundles, NEW node \in Ids, NEW f \in FieldMaps,
             SetProps(o, node, f)
      PROVE  IndInv'
  BY <1>4, SetPropsInv, ConstantsAssumption
<1>5. ASSUME NEW o \in Bundles, NEW g \in Bundles, NEW t \in Ids,
             NEW c \in Capabilities, GrantCapability(o, g, t, c)
      PROVE  IndInv'
  BY <1>5, GrantCapabilityInv
<1>6. ASSUME NEW o \in Bundles, NEW p \in Patterns, RegisterWatch(o, p)
      PROVE  IndInv'
  BY <1>6, RegisterWatchInv
<1>7. ASSUME NEW id \in 1..MaxWatches, PollWatch(id)
      PROVE  IndInv'
  BY <1>7, PollWatchInv
<1>8. CASE UNCHANGED vars
  <2>1. store' = store /\ journal' = journal /\ delivered' = delivered
    BY <1>8, Zenon DEF vars
  <2>2. TypeOK'
    BY <2>1 DEF IndInv, TypeOK, Live
  <2>3. Sound(store')
    BY <2>1 DEF IndInv
  <2>4. QueuesFaithful(store', delivered')
    BY <2>1 DEF IndInv, WatchQueuesFaithful
  <2>5. \A w \in 1..MaxWatches : delivered'[w] < store'.next_revision
    BY <2>1 DEF IndInv
  <2>6. QueuesVisible(store')
    BY <2>1 DEF IndInv, QueuedIsVisible
  <2> QED BY <2>2, <2>3, <2>4, <2>5, <2>6 DEF IndInv, WatchQueuesFaithful, QueuedIsVisible
<1> QED BY <1>1, <1>2, <1>3, <1>4, <1>5, <1>6, <1>7, <1>8 DEF Next

(* The invariant holds in every reachable state. *)
LEMMA Invariance == Spec => []IndInv
BY InitInv, NextInv, PTL DEF Spec

(* The store, the journal and the poll history keep their types, and every
   watch has an id below the next one to be handed out. *)
THEOREM TypeCorrect == Spec => []TypeOK
<1>1. IndInv => TypeOK
  BY DEF IndInv
<1> QED BY <1>1, Invariance, PTL

(* A revision names one change, for any number of things, bundles and kinds:
   insert_thing and insert_edge never drop a change, and no two operations
   share a revision. *)
THEOREM RevisionsAreIdentities == Spec => []RevisionsIdentify
<1>1. IndInv => RevisionsIdentify
  BY DEF IndInv, Sound, Core, RevisionsIdentify
<1> QED BY <1>1, Invariance, PTL

(* kind_index and edges_by_src_pred always agree with the versions and the
   edges they index. *)
THEOREM IndexesAreExact == Spec => []IndexesAgree
<1>1. IndInv => IndexesAgree
  BY DEF IndInv, Sound, Core, IndexesAgree
<1> QED BY <1>1, Invariance, PTL

(* Every version's creator keeps the ownership edge that lets it read and
   write the thing. *)
THEOREM OwnersKeepTheirThings == Spec => []OwnershipKept
<1>1. IndInv => OwnershipKept
  BY DEF IndInv, Sound, OwnershipKept
<1> QED BY <1>1, Invariance, PTL

(* Watch queues are bounded, in revision order, newer than what was polled,
   and hold only changes that are in the store. *)
THEOREM WatchesAreFaithful == Spec => []WatchQueuesFaithful
<1>1. IndInv => WatchQueuesFaithful
  BY DEF IndInv
<1> QED BY <1>1, Invariance, PTL

(* What a poll returns is readable by the watch's owner at the time of the
   poll, however many operations came between. *)
THEOREM PollsReturnVisible == Spec => []QueuedIsVisible
<1>1. IndInv => QueuedIsVisible
  BY DEF IndInv
<1> QED BY <1>1, Invariance, PTL
-----------------------------------------------------------------------------
(* A store with the version t added to those of its thing. *)
WithVersion(s, t) == [s.things EXCEPT ![t.id] = Append(s.things[t.id], t)]

(* Taking a revision changes the counter only. *)
LEMMA NextRevisionKeeps ==
    ASSUME NEW s, Sound(s)
    PROVE  LET n == next_revision(s)
           IN n.things = s.things /\ n.edges = s.edges /\ n.watches = s.watches
<1>1. s \in Store
  BY Zenon DEF Sound, Core
<1> QED BY <1>1, SMTT(60) DEF next_revision, Store

(* A version with a revision just taken is appended and nothing else is. *)
LEMMA VersionAdded ==
    ASSUME NEW s, Sound(s), NEW t \in Thing, t.revision = s.next_revision
    PROVE  LET m == insert_thing(next_revision(s), t)
           IN /\ Core(m) /\ NewerThanEdges(m, t.revision) /\ t.revision < m.next_revision
              /\ m.things = WithVersion(s, t) /\ m.edges = s.edges
              /\ m.watches = s.watches
<1> DEFINE n == next_revision(s)
           m == insert_thing(n, t)
           k == [n.kind_index EXCEPT ![t.kind] = n.kind_index[t.kind] \cup {t.id}]
<1>1. /\ Sound(n) /\ s.next_revision < n.next_revision
      /\ NewerThanThings(n, s.next_revision) /\ NewerThanEdges(n, s.next_revision)
  BY SoundNextRevision, FreshRevision DEF Sound
<1>2. n.things = s.things /\ n.edges = s.edges /\ n.watches = s.watches
  BY NextRevisionKeeps
<1> HIDE DEF n
<1>3. \A v \in Rng(n.things[t.id]) : v.revision < t.revision
  BY <1>1, Zenon DEF NewerThanThings, Thing
<1>4. /\ Core(m) /\ m.edges = n.edges /\ m.watches = n.watches
      /\ m.next_revision = n.next_revision
      /\ m = [n EXCEPT !.things = WithVersion(n, t), !.kind_index = k]
  BY <1>1, <1>3, InsertThing, Zenon DEF Sound, WithVersion
<1> HIDE DEF k, m
<1>5. n \in Store
  BY <1>1, Zenon DEF Sound, Core
<1>6. m.things = WithVersion(n, t)
  <2> DEFINE w == WithVersion(n, t)
  <2>1. m = [n EXCEPT !.things = w, !.kind_index = k]
    BY <1>4
  <2> HIDE DEF w
  <2>2. m.things = w
    BY <2>1, <1>5 DEF Store
  <2> QED BY <2>2 DEF w
<1>7. WithVersion(n, t) = WithVersion(s, t)
  BY <1>2 DEF WithVersion
<1>8. NewerThanEdges(m, t.revision) /\ t.revision < m.next_revision
  BY <1>1, <1>4, Zenon DEF NewerThanEdges
<1> QED BY <1>2, <1>4, <1>6, <1>7, <1>8 DEF m, n

(* fiat_node adds the version and its ownership edge. *)
LEMMA OwnedVersionAdded ==
    ASSUME NEW s, Sound(s), NEW t \in Thing, t.revision = s.next_revision
    PROVE  LET e == ownership_edge(t.owner, t.id, t.revision)
               x == insert_edge(insert_thing(next_revision(s), t), e)
           IN /\ Rng(x.edges) = Rng(s.edges) \cup {e} /\ e.pred = "OWNS"
              /\ x.things = WithVersion(s, t) /\ x.watches = s.watches
              /\ owns(x, t.owner, t.id)
<1> DEFINE m == insert_thing(next_revision(s), t)
           e == ownership_edge(t.owner, t.id, t.revision)
           x == insert_edge(m, e)
<1>1. /\ Core(m) /\ NewerThanEdges(m, t.revision) /\ t.revision < m.next_revision
      /\ m.things = WithVersion(s, t) /\ m.edges = s.edges /\ m.watches = s.watches
  BY VersionAdded, Zenon
<1> HIDE DEF m
<1>2. t.id \in Ids /\ t.owner \in Bundles /\ t.owner \in Ids /\ t.revision \in Nat
  BY ConstantsAssumption, ZenonT(60) DEF Thing
<1>3. e \in Edge /\ e.revision = t.revision /\ e.pred = "OWNS"
      /\ e.src = t.owner /\ e.dst = t.id
  BY <1>2, Zenon DEF ownership_edge, Edge, Preds
<1> HIDE DEF e
<1>4. Core(x) /\ Rng(x.edges) = Rng(m.edges) \cup {e}
      /\ x.things = m.things /\ x.watches = m.watches
  BY <1>1, <1>3, InsertEdge, ZenonT(60)
<1> HIDE DEF x
<1>5. e \in edges_of(x, t.owner, "OWNS")
  <2>1. "OWNS" \in Preds
    BY DEF Preds
  <2> QED BY <1>2, <1>3, <1>4, <2>1, Zenon DEF Core, EdgeIndexExact
<1>6. owns(x, t.owner, t.id)
  BY <1>3, <1>5, Zenon DEF owns, has_capability, edge_between
<1> QED BY <1>1, <1>3, <1>4, <1>6 DEF x, e, m

(* link_edge and grant_capability add an edge and no version. *)
LEMMA EdgeAdded ==
    ASSUME NEW s, Sound(s), NEW e \in Edge, e.revision = s.next_revision
    PROVE  LET m == insert_edge(next_revision(s), e)
           IN Rng(m.edges) = Rng(s.edges) \cup {e} /\ m.things = s.things
<1> DEFINE n == next_revision(s)
           m == insert_edge(n, e)
<1>1. /\ Core(n) /\ s.next_revision < n.next_revision
      /\ NewerThanEdges(n, s.next_revision)
  BY FreshRevision DEF Sound
<1>2. n.things = s.things /\ n.edges = s.edges
  BY NextRevisionKeeps
<1> HIDE DEF n
<1>3. Rng(m.edges) = Rng(n.edges) \cup {e} /\ m.things = n.things
  BY <1>1, InsertEdge, Zenon
<1> HIDE DEF m
<1> QED BY <1>2, <1>3, Zenon DEF m, n

(* s has the things of r, or those and a bundle node that owns itself. *)
AtMostABundleNode(r, s) ==
    \/ s.things = r.things
    \/ \E n \in Thing : s.things = WithVersion(r, n) /\ n.kind = BUNDLE /\ n.owner = n.id

(* ensure_bundle_node adds at most a bundle node that owns itself. *)
LEMMA BundleNodeAdded ==
    ASSUME NEW s, Sound(s), NEW b \in Bundles
    PROVE  LET u == ensure_bundle_node(s, b)
           IN Rng(u.edges) = Rng(s.edges) /\ AtMostABundleNode(s, u)
<1>1. CASE Exists(s, b)
  BY <1>1, Zenon DEF ensure_bundle_node, AtMostABundleNode
<1>2. CASE ~Exists(s, b)
  <2> DEFINE f == [k \in {"ID"} |-> b]
             n == [id |-> b, kind |-> BUNDLE, labels |-> {BUNDLE}, fields |-> f,
                   owner |-> b, revision |-> s.next_revision]
  <2>1. ensure_bundle_node(s, b) = insert_thing(next_revision(s), n)
    BY <1>2, Zenon DEF ensure_bundle_node
  <2>2. f \in Fields
    <3>1. b \in Values /\ {"ID"} \in SUBSET Keys
      BY ConstantsAssumption
    <3>2. f \in [{"ID"} -> Values]
      BY <3>1
    <3> HIDE DEF f
    <3> QED BY <3>1, <3>2 DEF Fields
  <2> HIDE DEF f
  <2>3. n \in Thing
    BY <2>2, ConstantsAssumption DEF Thing, Sound, Core, Store
  <2>4. n.revision = s.next_revision /\ n.kind = BUNDLE /\ n.owner = n.id
    BY Zenon
  <2> HIDE DEF n
  <2> DEFINE u == insert_thing(next_revision(s), n)
  <2>5. u.things = WithVersion(s, n) /\ u.edges = s.edges
    BY <2>3, <2>4, VersionAdded, Zenon
  <2> HIDE DEF u
  <2> QED BY <2>1, <2>3, <2>4, <2>5, Zenon DEF u, AtMostABundleNode
<1> QED BY <1>1, <1>2, Zenon

(* The version added is the latest one of its thing, and other things keep
   their versions. *)
LEMMA LatestVersion ==
    ASSUME NEW s \in Store, NEW t \in Thing
    PROVE  /\ Last(WithVersion(s, t)[t.id]) = t
           /\ \A id \in Ids \ {t.id} : WithVersion(s, t)[id] = s.things[id]
<1> DEFINE q == s.things[t.id]
<1>1. t.id \in Ids /\ s.things \in [Ids -> Seq(Thing)] /\ q \in Seq(Thing)
  BY Zenon DEF Thing, Store
<1>2. WithVersion(s, t)[t.id] = Append(q, t)
      /\ \A id \in Ids \ {t.id} : WithVersion(s, t)[id] = s.things[id]
  BY <1>1, Zenon DEF WithVersion
<1> HIDE DEF q
<1>3. Len(Append(q, t)) = Len(q) + 1 /\ Append(q, t)[Len(q) + 1] = t
  BY <1>1, RngAppend
<1> QED BY <1>2, <1>3 DEF Last

(* The versions and edges of a store are those after its watches are notified. *)
LEMMA NotifyKeeps ==
    ASSUME NEW m \in Store, NEW c \in Change
    PROVE  LET u == notify_watches(m, c)
           IN u.things = m.things /\ u.edges = m.edges
  BY NotifyWatches, Zenon DEF SameGraph

(* A queue with a change in it is not the empty one. *)
LEMMA QueueLast ==
    ASSUME NEW q \in Seq(Change), Len(q) > 0
    PROVE  q # <<>> /\ Last(q) = q[Len(q)]
BY DEF Last

(* A watch whose owner can read a changed thing and whose pattern it meets ends
   with the change, full or not. *)
LEMMA NotifyReaches ==
    ASSUME NEW s \in Store, NEW t \in Thing, can_read(s, t.owner, t.id),
           NEW u, u = notify_watches(s, ThingChange(t)), NEW w \in Live(u),
           u.watches[w].owner = t.owner,
           matches_pattern(u.watches[w].pattern, t, ThingChange(t))
    PROVE  /\ u.watches[w].queue # <<>>
           /\ Last(u.watches[w].queue) = ThingChange(t)
<1> DEFINE c == ThingChange(t)
           q == s.watches[w].queue
           p == push_bounded(q, c, MAX_WATCH_QUEUE)
           pushed == [s.watches[w] EXCEPT !.queue = p]
<1>1. c \in Change /\ ~IsEdge(c) /\ c.body = t
  BY Zenon DEF ThingChange, Change, IsEdge
<1>2. /\ w \in Live(s)
      /\ u.watches[w] = s.watches[w] \/ u.watches[w] = pushed
  BY <1>1, NotifyWatches, Zenon
<1>3. s.watches[w] \in Watch /\ q \in Seq(Change) /\ w \in 1..MaxWatches
  BY <1>2, Zenon DEF Live, Store, Watch
<1>a. MAX_WATCH_QUEUE \in Nat \ {0}
  BY ConstantsAssumption, Zenon
<1>b. p = push_bounded(q, c, MAX_WATCH_QUEUE)
  OBVIOUS
<1> HIDE DEF p, q
<1>4. p \in Seq(Change) /\ Len(p) > 0 /\ p[Len(p)] = c
  BY <1>1, <1>3, <1>a, <1>b, PushLast, Zenon
<1>5. pushed.owner = s.watches[w].owner /\ pushed.pattern = s.watches[w].pattern
      /\ pushed.queue = p
  BY <1>3, <1>4 DEF Watch
<1>6. change_visible_to(s, s.watches[w].owner, c)
  BY <1>1, <1>2, <1>5, Zenon DEF change_visible_to
<1>7. \E node \in change_target(s, c) : matches_pattern(s.watches[w].pattern, node, c)
  <2>1. change_target(s, c) = {t}
    BY <1>1, Zenon DEF change_target
  <2> QED BY <2>1, <1>2, <1>5, Zenon
<1>8. u.watches[w] = pushed
  <2> DEFINE hit(v) == /\ change_visible_to(s, v.owner, c)
                       /\ \E node \in change_target(s, c) : matches_pattern(v.pattern, node, c)
             ws == [i \in 1..MaxWatches |->
                      IF i \in Live(s) /\ hit(s.watches[i])
                        THEN [s.watches[i] EXCEPT !.queue = push_bounded(@, c, MAX_WATCH_QUEUE)]
                        ELSE s.watches[i]]
  <2>1. u = [s EXCEPT !.watches = ws]
    BY DEF notify_watches
  <2>2. hit(s.watches[w])
    BY <1>6, <1>7, Zenon
  <2>3. ws[w] = pushed
    BY <1>2, <1>3, <2>2 DEF p, q
  <2> HIDE DEF ws, pushed
  <2>4. u.watches = ws
    BY <2>1 DEF Store
  <2> QED BY <2>3, <2>4, Zenon
<1> HIDE DEF pushed, c
<1>9. p # <<>> /\ Last(p) = c
  BY <1>4, QueueLast, Zenon
<1> QED BY <1>5, <1>8, <1>9, Zenon DEF c

(* A thing with more versions has other versions. *)
LEMMA LongerDiffers ==
    ASSUME NEW q \in Seq(Thing), NEW p, Len(p) > Len(q)
    PROVE  p # q
OBVIOUS

(* What OwnerIsNotified asks of a step from store s to store u. *)
Announced(s, u) ==
    \A id \in Ids :
      (Len(u.things[id]) > Len(s.things[id])
         /\ ~(latest(u, id).kind = BUNDLE /\ latest(u, id).owner = id))
        => \A w \in Live(u) :
             LET v == latest(u, id) IN
             (u.watches[w].owner = v.owner
                /\ matches_pattern(u.watches[w].pattern, v, ThingChange(v)))
               => /\ u.watches[w].queue # <<>>
                  /\ Last(u.watches[w].queue) = ThingChange(v)

(* A step that adds a version readable by its owner, and before it at most a
   bundle node, announces what it has to. *)
LEMMA VersionAnnounced ==
    ASSUME NEW r \in Store, NEW s \in Store, AtMostABundleNode(r, s), NEW t \in Thing,
           NEW m \in Store, m.things = WithVersion(s, t),
           can_read(m, t.owner, t.id) \/ (t.kind = BUNDLE /\ t.owner = t.id)
    PROVE  Announced(r, notify_watches(m, ThingChange(t)))
<1> DEFINE u == notify_watches(m, ThingChange(t))
<1>0. ThingChange(t) \in Change /\ r.things \in [Ids -> Seq(Thing)]
  BY Zenon DEF Change, ThingChange, Store
<1>1. u.things = m.things
  BY <1>0, NotifyKeeps, Zenon
<1>2. latest(u, t.id) = t /\ \A id \in Ids \ {t.id} : u.things[id] = s.things[id]
  <2>1. u.things = WithVersion(s, t)
    BY <1>1, Zenon
  <2>2. /\ Last(WithVersion(s, t)[t.id]) = t
        /\ \A id \in Ids \ {t.id} : WithVersion(s, t)[id] = s.things[id]
    BY LatestVersion, Zenon
  <2> HIDE DEF u
  <2> QED BY <2>1, <2>2, Zenon DEF latest
<1> SUFFICES ASSUME NEW id \in Ids, Len(u.things[id]) > Len(r.things[id]),
                    ~(latest(u, id).kind = BUNDLE /\ latest(u, id).owner = id),
                    NEW w \in Live(u), u.watches[w].owner = latest(u, id).owner,
                    matches_pattern(u.watches[w].pattern, latest(u, id), ThingChange(latest(u, id)))
             PROVE  /\ u.watches[w].queue # <<>>
                    /\ Last(u.watches[w].queue) = ThingChange(latest(u, id))
  BY Zenon DEF Announced
<1>3. CASE id = t.id
  <2>1. can_read(m, t.owner, t.id)
    BY <1>2, <1>3, Zenon
  <2> HIDE DEF u
  <2> QED BY <1>2, <1>3, <2>1, NotifyReaches, Zenon DEF u
<1>4. CASE id # t.id
  <2>1. u.things[id] = s.things[id]
    BY <1>2, <1>4, Zenon
  <2> HIDE DEF u
  <2>2. r.things[id] \in Seq(Thing)
    BY <1>0, Zenon
  <2>3. s.things[id] # r.things[id]
    BY <2>1, <2>2, LongerDiffers, Zenon
  <2>4. PICK n \in Thing : s.things = WithVersion(r, n) /\ n.kind = BUNDLE /\ n.owner = n.id
    BY <2>3, Zenon DEF AtMostABundleNode
  <2>5. latest(s, n.id) = n /\ \A i \in Ids \ {n.id} : s.things[i] = r.things[i]
    <3>1. /\ Last(WithVersion(r, n)[n.id]) = n
          /\ \A i \in Ids \ {n.id} : WithVersion(r, n)[i] = r.things[i]
      BY LatestVersion, Zenon
    <3> QED BY <2>4, <3>1, Zenon DEF latest
  <2>6. id = n.id
    BY <2>3, <2>5, Zenon
  <2>7. latest(u, id) = n
    BY <2>1, <2>5, <2>6, Zenon DEF latest
  <2> QED BY <2>4, <2>6, <2>7, Zenon
<1> QED BY <1>3, <1>4

(* A step that adds at most a bundle node has nothing to announce. *)
LEMMA NothingToAnnounce ==
    ASSUME NEW r \in Store, NEW u, AtMostABundleNode(r, u)
    PROVE  Announced(r, u)
<1> SUFFICES ASSUME NEW id \in Ids, Len(u.things[id]) > Len(r.things[id])
             PROVE  latest(u, id).kind = BUNDLE /\ latest(u, id).owner = id
  BY Zenon DEF Announced
<1>1. r.things[id] \in Seq(Thing)
  BY Zenon DEF Store
<1>2. u.things[id] # r.things[id]
  BY <1>1, LongerDiffers, Zenon
<1>3. PICK n \in Thing : u.things = WithVersion(r, n) /\ n.kind = BUNDLE /\ n.owner = n.id
  BY <1>2, Zenon DEF AtMostABundleNode
<1>4. latest(u, n.id) = n /\ \A i \in Ids \ {n.id} : u.things[i] = r.things[i]
  <2>1. /\ Last(WithVersion(r, n)[n.id]) = n
        /\ \A i \in Ids \ {n.id} : WithVersion(r, n)[i] = r.things[i]
    BY LatestVersion, Zenon
  <2> QED BY <1>3, <2>1, Zenon DEF latest
<1> QED BY <1>2, <1>3, <1>4, Zenon

(* The change that a journal entry reports is in the store s. *)
About(s, entry) ==
    \/ entry.event = "EDGE_ADDED" /\ \E e \in Rng(s.edges) :
          e.src = entry.subject /\ e.revision = entry.revision
    \/ entry.event = "THING_CREATED" /\ \E v \in Rng(s.things[entry.subject]) :
          v.revision = entry.revision

EdgeEntry(e) == [event |-> "EDGE_ADDED", subject |-> e.src, revision |-> e.revision]

(* What the operations do to the journal: the store grows, and either no edge
   and no entry is added, or one entry with a new revision, about a change that
   is in the store, and no edge but that one and ownership edges. *)
JournalStep ==
    /\ Rng(store.edges) \subseteq Rng(store'.edges)
    /\ \A id \in Ids : Rng(store.things[id]) \subseteq Rng(store'.things[id])
    /\ \/ journal' = journal /\ Rng(store'.edges) = Rng(store.edges)
       \/ \E entry \in JournalEntry :
             /\ emit(entry) /\ store.next_revision <= entry.revision
             /\ About(store', entry)
             /\ \A e \in Rng(store'.edges) :
                   e \in Rng(store.edges) \/ e.pred = "OWNS" \/ entry = EdgeEntry(e)

(* An operation that adds an edge journals it. *)
LEMMA EdgeJournalled ==
    ASSUME IndInv, NEW s, Grows(store, s), Rng(s.edges) = Rng(store.edges),
           NEW e \in Edge, e.revision = s.next_revision,
           store' = notify_watches(insert_edge(next_revision(s), e), EdgeChange(e)),
           emit_edge_event(e)
    PROVE  JournalStep
<1> DEFINE m == insert_edge(next_revision(s), e)
<1>1. Sound(store) /\ Sound(s) /\ store.next_revision <= s.next_revision
  BY Zenon DEF IndInv, Grows
<1>2. Grows(s, m) /\ EdgeChange(e) \in Change
  BY <1>1, AddEdge
<1>3. Rng(m.edges) = Rng(s.edges) \cup {e} /\ m.things = s.things
  BY <1>1, EdgeAdded
<1> HIDE DEF m
<1>4. m \in Store
  BY <1>2, Zenon DEF Grows, Sound, Core
<1>5. store'.things = s.things /\ Rng(store'.edges) = Rng(store.edges) \cup {e}
  BY <1>2, <1>3, <1>4, NotifyKeeps, Zenon DEF m
<1>6. EdgeEntry(e) \in JournalEntry /\ emit(EdgeEntry(e))
  BY Zenon DEF EdgeEntry, JournalEntry, Edge, emit_edge_event
<1>7. About(store', EdgeEntry(e)) /\ store.next_revision <= EdgeEntry(e).revision
  BY <1>1, <1>5, Zenon DEF About, EdgeEntry
<1>8. \A id \in Ids : Rng(store.things[id]) \subseteq Rng(store'.things[id])
  BY <1>5, Zenon DEF Grows
<1>9. \A x \in Rng(store'.edges) :
        x \in Rng(store.edges) \/ x.pred = "OWNS" \/ EdgeEntry(e) = EdgeEntry(x)
  BY <1>5, Zenon
<1>10. Rng(store.edges) \subseteq Rng(store'.edges)
  BY <1>5, Zenon
<1> QED BY <1>6, <1>7, <1>8, <1>9, <1>10, Zenon DEF JournalStep

(* link_edge: no version is added, and the edge is journalled. *)
LEMMA LinkEdgeStep ==
    ASSUME IndInv, NEW o \in Bundles, NEW from \in Ids, NEW to \in Ids,
           NEW r \in LinkRequests, LinkEdge(o, from, to, r)
    PROVE  JournalStep /\ Announced(store, store')
<1> DEFINE e == [src |-> from, pred |-> r.pred, dst |-> to, kind |-> r.kind,
                 owner |-> o, revision |-> store.next_revision]
           m == insert_edge(next_revision(store), e)
<1>1. store' = notify_watches(m, EdgeChange(e)) /\ emit_edge_event(e)
  BY Zenon DEF LinkEdge
<1>2. Sound(store) /\ store \in Store /\ store.next_revision \in Nat
  BY ZenonT(60) DEF IndInv, Sound, Core, Store
<1>3. e \in Edge /\ e.revision = store.next_revision
  BY <1>2 DEF Edge, Preds
<1> HIDE DEF e
<1>4. Grows(store, store)
  BY <1>2, SMTT(40) DEF Grows
<1>5. JournalStep
  BY <1>1, <1>3, <1>4, EdgeJournalled, Zenon
<1>6. Grows(store, m) /\ EdgeChange(e) \in Change /\ m.things = store.things
  BY <1>2, <1>3, AddEdge, EdgeAdded, Zenon
<1> HIDE DEF m
<1>7. store'.things = store.things
  BY <1>1, <1>6, NotifyKeeps, Zenon DEF Grows, Sound, Core
<1>8. Announced(store, store')
  BY <1>2, <1>7, NothingToAnnounce, Zenon DEF AtMostABundleNode
<1> QED BY <1>5, <1>8

(* grant_capability: only a bundle node may be added, and the edge is
   journalled. *)
LEMMA GrantCapabilityStep ==
    ASSUME IndInv, NEW o \in Bundles, NEW g \in Bundles, NEW tgt \in Ids,
           NEW cap \in Capabilities, GrantCapability(o, g, tgt, cap)
    PROVE  JournalStep /\ Announced(store, store')
<1> DEFINE s == ensure_bundle_node(store, g)
           e == [src |-> g, pred |-> cap, dst |-> tgt, kind |-> NoKind,
                 owner |-> o, revision |-> s.next_revision]
           m == insert_edge(next_revision(s), e)
<1>1. /\ store' = notify_watches(m, EdgeChange(e)) /\ emit_edge_event(e)
      /\ cap \in DataCapabilities \cup HardwareCapabilities
  BY Zenon DEF GrantCapability, can_grant
<1>2. Grows(store, s) /\ Sound(store) /\ store \in Store
  BY EnsureBundleNode, ZenonT(60) DEF IndInv, Grows, Sound, Core, Store
<1>3. Rng(s.edges) = Rng(store.edges) /\ AtMostABundleNode(store, s)
  BY <1>2, BundleNodeAdded, Zenon
<1> HIDE DEF s
<1>4. Sound(s) /\ s.next_revision \in Nat
  BY <1>2, ZenonT(60) DEF Grows, Sound, Core, Store
<1>5. e \in Edge /\ e.revision = s.next_revision
  BY <1>1, <1>4, ConstantsAssumption, Zenon DEF Edge, Preds
<1> HIDE DEF e
<1>6. JournalStep
  BY <1>1, <1>2, <1>3, <1>5, EdgeJournalled, Zenon
<1>7. Grows(s, m) /\ EdgeChange(e) \in Change /\ m.things = s.things
  BY <1>4, <1>5, AddEdge, EdgeAdded, Zenon
<1> HIDE DEF m
<1>8. store'.things = s.things
  BY <1>1, <1>7, NotifyKeeps, Zenon DEF Grows, Sound, Core
<1>9. Announced(store, store')
  BY <1>2, <1>3, <1>8, NothingToAnnounce, Zenon DEF AtMostABundleNode
<1> QED BY <1>6, <1>9

(* fiat_node and fiat: a version its owner can read is added, journalled and
   announced; the only new edge is its ownership edge. *)
LEMMA FiatNodeStep ==
    ASSUME IndInv, NEW o \in Bundles, NEW id \in Ids \cup {NoId},
           NEW labels \in SUBSET Kinds, NEW fields \in Fields,
           FiatNode(o, id, labels, fields)
    PROVE  JournalStep /\ Announced(store, store')
<1> DEFINE ls == IF labels = {} THEN {THING_CREATED} ELSE labels
           own == [k \in {"OWNER"} |-> o]
           props == Merge(fields, own)
           s == ensure_bundle_node(store, o)
           thing(kind) == [id |-> IF id = NoId THEN DeriveUuid(kind, props) ELSE id,
                           kind |-> kind, labels |-> ls, fields |-> props,
                           owner |-> o, revision |-> s.next_revision]
<1>1. PICK kind \in ls : /\ store' = create(next_revision(s), thing(kind))
                         /\ emit_thing_event(thing(kind))
  BY ZenonT(60) DEF FiatNode
<1> DEFINE t == thing(kind)
           e == ownership_edge(t.owner, t.id, t.revision)
           m == insert_edge(insert_thing(next_revision(s), t), e)
           entry == [event |-> "THING_CREATED", subject |-> t.id, revision |-> t.revision]
<1>2. store' = notify_watches(m, ThingChange(t)) /\ emit_thing_event(t)
  BY <1>1, ZenonT(60) DEF create
<1>3. Grows(store, s) /\ Sound(store) /\ store \in Store
  BY EnsureBundleNode, ZenonT(60) DEF IndInv, Grows, Sound, Core, Store
<1>4. Rng(s.edges) = Rng(store.edges) /\ AtMostABundleNode(store, s)
  BY <1>3, BundleNodeAdded, Zenon
<1> HIDE DEF s
<1>5. Sound(s) /\ s \in Store /\ s.next_revision \in Nat /\ store.next_revision \in Nat
  BY <1>3, Zenon DEF Grows, Sound, Core, Store
<1>6. ls \subseteq Kinds /\ kind \in Kinds
  BY ConstantsAssumption
<1>7. props \in Fields
  <2>1. o \in Values /\ {"OWNER"} \in SUBSET Keys
    BY ConstantsAssumption
  <2>2. own \in [{"OWNER"} -> Values]
    BY <2>1, Zenon
  <2> HIDE DEF own
  <2>3. own \in Fields
    BY <2>1, <2>2, Zenon DEF Fields
  <2> QED BY <2>3, MergeType, Zenon
<1> HIDE DEF props, ls
<1>8. DeriveUuid(kind, props) \in Ids
  BY <1>6, <1>7, ConstantsAssumption, Zenon
<1>9. t \in Thing /\ t.revision = s.next_revision /\ t.id \in Ids
  BY <1>5, <1>6, <1>7, <1>8, ZenonT(60) DEF Thing
<1> HIDE DEF t
<1>10. Grows(s, m) /\ ThingChange(t) \in Change
  BY <1>5, <1>9, AddThing, ZenonT(60)
<1>11. /\ Rng(m.edges) = Rng(s.edges) \cup {e} /\ e.pred = "OWNS"
       /\ m.things = WithVersion(s, t) /\ owns(m, t.owner, t.id)
  BY <1>5, <1>9, OwnedVersionAdded, Zenon
<1> HIDE DEF m, e
<1>12. m \in Store /\ Grows(store, m)
  BY <1>3, <1>10, GrowsTrans, Zenon DEF Grows, Sound, Core
<1>13. store'.things = m.things /\ store'.edges = m.edges
  BY <1>2, <1>10, <1>12, NotifyKeeps, Zenon
<1>14. Announced(store, store')
  <2>1. can_read(m, t.owner, t.id)
    BY <1>11, Zenon DEF can_read
  <2> QED BY <1>2, <1>3, <1>4, <1>5, <1>9, <1>11, <1>12, <2>1, VersionAnnounced, Zenon
<1>15. entry \in JournalEntry /\ emit(entry)
  BY <1>2, <1>5, <1>9, Zenon DEF JournalEntry, emit_thing_event
<1>16. store.next_revision <= entry.revision
  BY <1>3, <1>5, <1>9, Zenon DEF Grows
<1>17. About(store', entry)
  <2>1. InStore(m, ThingChange(t))
    BY <1>5, <1>9, AddThing, Zenon DEF m, e
  <2>2. t \in Rng(store'.things[t.id])
    BY <2>1, <1>13, Zenon DEF InStore, ThingChange, IsEdge
  <2> QED BY <2>2, Zenon DEF About
<1> HIDE DEF entry
<1>18. JournalStep
  <2>1. Rng(store.edges) \subseteq Rng(store'.edges)
    BY <1>4, <1>11, <1>13, Zenon
  <2>2. \A i \in Ids : Rng(store.things[i]) \subseteq Rng(store'.things[i])
    BY <1>12, <1>13, Zenon DEF Grows
  <2>3. \A x \in Rng(store'.edges) :
          x \in Rng(store.edges) \/ x.pred = "OWNS" \/ entry = EdgeEntry(x)
    BY <1>4, <1>11, <1>13, Zenon
  <2> QED BY <1>15, <1>16, <1>17, <2>1, <2>2, <2>3, Zenon DEF JournalStep
<1> QED BY <1>14, <1>18

(* set_props: a version with its owner's rights unchanged, and no entry. *)
LEMMA SetPropsStep ==
    ASSUME IndInv, NEW o \in Bundles, NEW node \in Ids, NEW props \in Fields,
           SetProps(o, node, props)
    PROVE  JournalStep /\ Announced(store, store')
<1> DEFINE old == latest(store, node)
           f == Merge(props, old.fields)
           t == [old EXCEPT !.fields = f, !.revision = store.next_revision]
           m == insert_thing(next_revision(store), t)
<1>1. /\ store' = notify_watches(m, ThingChange(t))
      /\ journal' = journal /\ Exists(store, node)
  BY Zenon DEF SetProps
<1>2. /\ Sound(store) /\ store \in Store /\ store.next_revision \in Nat
      /\ store.things[node] \in Seq(Thing)
  BY Zenon DEF IndInv, Sound, Core, Store
<1>3. old \in Rng(store.things[node]) /\ old \in Thing
  <2> DEFINE q == store.things[node]
  <2>1. q \in Seq(Thing) /\ q # <<>> /\ old = q[Len(q)]
    BY <1>1, <1>2, Zenon DEF Exists, latest, Last
  <2> HIDE DEF q, old
  <2>2. Len(q) \in 1..Len(q)
    BY <2>1
  <2>3. old \in Rng(q) /\ old \in Thing
    BY <2>1, <2>2 DEF Rng
  <2> QED BY <2>3 DEF q
<1>4. old.id = node /\ (OwnedBy(store, old) \/ (old.kind = BUNDLE /\ old.owner = node))
  BY <1>2, <1>3, ZenonT(60) DEF Sound, Core, RevisionsAssigned, OwnershipRecorded
<1> HIDE DEF old
<1>5. f \in Fields
  BY <1>3, MergeType DEF Thing
<1> HIDE DEF f
<1>6. /\ t \in Thing /\ t.revision = store.next_revision
      /\ t.id = old.id /\ t.kind = old.kind /\ t.owner = old.owner
  BY <1>2, <1>3, <1>5, ZenonT(60) DEF Thing
<1> HIDE DEF t
<1>7. OwnedBy(store, t) \/ (t.kind = BUNDLE /\ t.owner = t.id)
  BY <1>4, <1>6 DEF OwnedBy
<1>8. Grows(store, m) /\ ThingChange(t) \in Change
  BY <1>2, <1>6, <1>7, AddThing, Zenon
<1>9. m.things = WithVersion(store, t) /\ m.edges = store.edges
  BY <1>2, <1>6, VersionAdded, Zenon
<1> HIDE DEF m
<1>10. m \in Store /\ Sound(m)
  BY <1>8, Zenon DEF Grows, Sound, Core
<1>11. store'.things = m.things /\ store'.edges = m.edges
  BY <1>1, <1>8, <1>10, NotifyKeeps, Zenon
<1>12. can_read(m, t.owner, t.id) \/ (t.kind = BUNDLE /\ t.owner = t.id)
  <2> SUFFICES ASSUME OwnedBy(store, t) PROVE can_read(m, t.owner, t.id)
    BY <1>7, Zenon
  <2>1. PICK e \in Rng(m.edges) : e.src = t.owner /\ e.pred = "OWNS" /\ e.dst = t.id
    BY <1>9, Zenon DEF OwnedBy
  <2>2. t.owner \in Ids /\ "OWNS" \in Preds
    BY <1>6, ConstantsAssumption DEF Thing, Preds
  <2>3. e \in edges_of(m, t.owner, "OWNS")
    BY <1>10, <2>1, <2>2, Zenon DEF Sound, Core, EdgeIndexExact
  <2> QED BY <2>1, <2>3, Zenon DEF can_read, owns, has_capability, edge_between
<1>13. AtMostABundleNode(store, store)
  BY DEF AtMostABundleNode
<1>14. Announced(store, store')
  BY <1>1, <1>2, <1>6, <1>9, <1>10, <1>12, <1>13, VersionAnnounced, Zenon
<1>15. JournalStep
  BY <1>1, <1>8, <1>9, <1>11, Zenon DEF JournalStep, Grows
<1> QED BY <1>14, <1>15

(* register_watch_pattern and poll_watch touch neither the graph nor the
   journal. *)
LEMMA WatchStep ==
    ASSUME IndInv, \/ \E o \in Bundles, p \in Patterns : RegisterWatch(o, p)
                   \/ \E id \in 1..MaxWatches : PollWatch(id)
                   \/ UNCHANGED vars
    PROVE  JournalStep /\ Announced(store, store')
<1>1. store \in Store
  BY Zenon DEF IndInv, TypeOK
<1>2. store'.things = store.things /\ store'.edges = store.edges /\ journal' = journal
  <2>1. ASSUME NEW o \in Bundles, NEW p \in Patterns, RegisterWatch(o, p)
        PROVE  store'.things = store.things /\ store'.edges = store.edges /\ journal' = journal
    BY <1>1, <2>1 DEF RegisterWatch, Store
  <2>2. ASSUME NEW id \in 1..MaxWatches, PollWatch(id)
        PROVE  store'.things = store.things /\ store'.edges = store.edges /\ journal' = journal
    BY <1>1, <2>2 DEF PollWatch, Store
  <2>3. CASE UNCHANGED vars
    BY <2>3 DEF vars
  <2> QED BY <2>1, <2>2, <2>3, Zenon
<1>3. JournalStep
  BY <1>2, Zenon DEF JournalStep
<1>4. Announced(store, store')
  BY <1>1, <1>2, NothingToAnnounce, Zenon DEF AtMostABundleNode
<1> QED BY <1>3, <1>4

(* Every step announces the version it adds and journals its edge. *)
LEMMA StepsRecord ==
    ASSUME IndInv, [Next]_vars
    PROVE  JournalStep /\ Announced(store, store')
<1>1. ASSUME NEW o \in Bundles, NEW i \in Ids \cup {NoId}, NEW k \in Kinds,
             NEW f \in FieldMaps, Fiat(o, i, k, f)
      PROVE  JournalStep /\ Announced(store, store')
  BY <1>1, FiatNodeStep, ConstantsAssumption, Zenon DEF Fiat
<1>2. ASSUME NEW o \in Bundles, NEW i \in Ids \cup {NoId}, NEW ls \in LabelSets,
             NEW f \in FieldMaps, FiatNode(o, i, ls, f)
      PROVE  JournalStep /\ Announced(store, store')
  BY <1>2, FiatNodeStep, ConstantsAssumption
<1>3. ASSUME NEW o \in Bundles, NEW from \in Ids, NEW to \in Ids,
             NEW r \in LinkRequests, LinkEdge(o, from, to, r)
      PROVE  JournalStep /\ Announced(store, store')
  BY <1>3, LinkEdgeStep, Zenon
<1>4. ASSUME NEW o \in Bundles, NEW node \in Ids, NEW f \in FieldMaps,
             SetProps(o, node, f)
      PROVE  JournalStep /\ Announced(store, store')
  BY <1>4, SetPropsStep, ConstantsAssumption
<1>5. ASSUME NEW o \in Bundles, NEW g \in Bundles, NEW t \in Ids,
             NEW c \in Capabilities, GrantCapability(o, g, t, c)
      PROVE  JournalStep /\ Announced(store, store')
  BY <1>5, GrantCapabilityStep
<1> QED BY <1>1, <1>2, <1>3, <1>4, <1>5, WatchStep, ZenonT(60) DEF Next

(* Revisions grow along the journal. *)
InOrder(j) == \A a, b \in 1..Len(j) : a < b => j[a].revision < j[b].revision

(* What stands in a journal is an entry with a revision. *)
LEMMA EntryOf ==
    ASSUME NEW j \in Seq(JournalEntry), NEW i \in 1..Len(j)
    PROVE  j[i] \in JournalEntry /\ j[i].revision \in Nat /\ j[i] \in Rng(j)
<1>1. j[i] \in JournalEntry
  OBVIOUS
<1> QED BY <1>1 DEF JournalEntry, Rng

(* An entry newer than all others is pushed: the order is kept, and the entry
   that falls out of a full journal was older than all that stay. *)
LEMMA PushInOrder ==
    ASSUME NEW q \in Seq(JournalEntry), NEW entry \in JournalEntry, NEW limit \in Nat \ {0},
           Len(q) <= limit, InOrder(q), NEW r \in Nat, r <= entry.revision,
           \A x \in Rng(q) : x.revision < r, NEW p, p = push_bounded(q, entry, limit)
    PROVE  /\ Len(p) <= limit /\ InOrder(p)
           /\ Rng(p) \subseteq Rng(q) \cup {entry} /\ entry \in Rng(p)
           /\ Len(q) = limit => /\ Len(p) = limit /\ q # <<>> /\ p # <<>>
                                /\ \A n \in Nat : n <= q[1].revision => n < p[1].revision
           /\ \A x \in Rng(q) : x \in Rng(p) \/ (Len(q) = limit /\ x = q[1])
<1>1. p \in Seq(JournalEntry) /\ Len(p) > 0 /\ p[Len(p)] = entry /\ Len(p) <= limit
  BY PushBounded
<1>2. PICK d \in {0, 1} :
         /\ Len(p) = Len(q) + 1 - d
         /\ d = 1 => Len(q) >= limit
         /\ \A i \in 1..(Len(p) - 1) : i + d \in 1..Len(q) /\ p[i] = q[i + d]
  BY PushBounded
<1>3. Len(q) \in Nat /\ Len(p) \in Nat /\ entry.revision \in Nat
  BY <1>1 DEF JournalEntry
<1>4. \A i \in 1..Len(q) : q[i].revision \in Nat /\ q[i].revision < r /\ q[i] \in Rng(q)
  BY EntryOf, Zenon
<1>5. \A i \in 1..Len(p) : p[i].revision \in Nat /\ p[i] \in Rng(p)
  BY <1>1, EntryOf, Zenon
<1>6. InOrder(p)
  <2> SUFFICES ASSUME NEW a \in 1..Len(p), NEW b \in 1..Len(p), a < b
               PROVE  p[a].revision < p[b].revision
    BY DEF InOrder
  <2>1. a \in 1..(Len(p) - 1) /\ a + d \in 1..Len(q) /\ p[a] = q[a + d]
    BY <1>2, <1>3
  <2>2. CASE b = Len(p)
    <3>1. p[b] = entry /\ p[a].revision \in Nat /\ p[a].revision < r
      BY <1>1, <1>4, <2>1, <2>2
    <3> QED BY <1>3, <3>1
  <2>3. CASE b # Len(p)
    <3>1. b \in 1..(Len(p) - 1) /\ a + d < b + d
      BY <1>3, <2>3
    <3>2. b + d \in 1..Len(q) /\ p[b] = q[b + d]
      BY <1>2, <3>1
    <3> QED BY <2>1, <3>1, <3>2 DEF InOrder
  <2> QED BY <2>2, <2>3
<1>7. ASSUME NEW i \in 1..Len(p) PROVE p[i] \in Rng(q) \cup {entry}
  <2>1. CASE i = Len(p)
    BY <1>1, <2>1
  <2>2. CASE i # Len(p)
    <3>1. i + d \in 1..Len(q) /\ p[i] = q[i + d]
      BY <1>2, <1>3, <2>2
    <3> QED BY <1>4, <3>1
  <2> QED BY <2>1, <2>2
<1>8. Rng(p) \subseteq Rng(q) \cup {entry} /\ entry \in Rng(p)
  <2>1. Len(p) \in 1..Len(p)
    BY <1>1, <1>3
  <2> QED BY <1>1, <1>7, <2>1 DEF Rng
<1>9. ASSUME Len(q) = limit
      PROVE  /\ Len(p) = limit /\ q # <<>> /\ p # <<>>
             /\ \A n \in Nat : n <= q[1].revision => n < p[1].revision
  <2>1. d = 1 /\ Len(p) = limit /\ 1 \in 1..Len(q) /\ 1 \in 1..Len(p)
    BY <1>1, <1>2, <1>3, <1>9
  <2>2. q[1].revision \in Nat /\ p[1].revision \in Nat /\ q[1].revision < r
    BY <1>4, <1>5, <2>1
  <2>3. q[1].revision < p[1].revision
    <3>1. CASE Len(p) = 1
      <4>1. p[1] = entry
        BY <1>1, <3>1
      <4> QED BY <1>3, <2>2, <4>1
    <3>2. CASE Len(p) # 1
      <4>1. 1 \in 1..(Len(p) - 1) /\ 2 \in 1..Len(q) /\ 1 + d = 2
        BY <1>2, <1>3, <2>1, <3>2
      <4>2. p[1] = q[2]
        BY <1>2, <4>1
      <4> QED BY <2>1, <4>1, <4>2 DEF InOrder
    <3> QED BY <3>1, <3>2
  <2>4. q # <<>> /\ p # <<>>
    BY <1>9, <2>1
  <2> QED BY <2>1, <2>2, <2>3, <2>4
<1>10. ASSUME NEW x \in Rng(q) PROVE x \in Rng(p) \/ (Len(q) = limit /\ x = q[1])
  <2>1. PICK k \in 1..Len(q) : x = q[k]
    BY DEF Rng
  <2>2. CASE k > d
    <3>1. k - d \in 1..(Len(p) - 1) /\ (k - d) + d = k /\ k - d \in 1..Len(p)
      BY <1>2, <1>3, <2>2
    <3>2. p[k - d] = q[k]
      BY <1>2, <3>1
    <3> QED BY <1>5, <2>1, <3>1, <3>2
  <2>3. CASE ~(k > d)
    <3>1. d = 1 /\ k = 1 /\ Len(q) = limit
      BY <1>2, <1>3, <2>3
    <3> QED BY <2>1, <3>1
  <2> QED BY <2>2, <2>3
<1> QED BY <1>1, <1>6, <1>8, <1>9, <1>10, Zenon

(* A step that journals what it adds keeps the journal the recent history: the
   entry it adds is newer than all others, and the one that falls out was older
   than all that stay. *)
LEMMA JournalStepInv ==
    ASSUME IndInv, JournalIsRecentHistory, JournalStep
    PROVE  JournalIsRecentHistory'
<1> DEFINE q == journal
           p == journal'
           Kept(e, j) == \/ Len(j) = JOURNAL_CAPACITY
                             /\ e.revision < (IF j = <<>> THEN 0 ELSE j[1].revision)
                         \/ EdgeEntry(e) \in Rng(j)
<1>1. /\ q \in Seq(JournalEntry) /\ Len(q) <= JOURNAL_CAPACITY /\ InOrder(q)
      /\ \A entry \in Rng(q) : About(store, entry)
      /\ \A e \in Rng(store.edges) : e.pred # "OWNS" => Kept(e, q)
  BY Zenon DEF IndInv, TypeOK, JournalIsRecentHistory, About, EdgeEntry, Journalled,
               OldestJournalled, JournalFull, InOrder
<1>2. SUFFICES /\ Len(p) <= JOURNAL_CAPACITY /\ InOrder(p)
               /\ \A entry \in Rng(p) : About(store', entry)
               /\ \A e \in Rng(store'.edges) : e.pred # "OWNS" => Kept(e, p)
  BY Zenon DEF JournalIsRecentHistory, About, EdgeEntry, Journalled, OldestJournalled,
               JournalFull, Rng, InOrder
<1>3. \A entry \in Rng(q) : About(store', entry)
  <2> SUFFICES ASSUME NEW entry \in Rng(q) PROVE About(store', entry)
    BY Zenon
  <2>0. PICK i \in 1..Len(journal) : entry = journal[i]
    BY Zenon DEF Rng
  <2>1. entry.subject \in Ids
    <3>1. journal \in Seq(JournalEntry)
      BY <1>1
    <3>2. entry \in JournalEntry
      BY <2>0, <3>1
    <3> QED BY <3>2 DEF JournalEntry
  <2>2. Rng(store.edges) \subseteq Rng(store'.edges)
        /\ Rng(store.things[entry.subject]) \subseteq Rng(store'.things[entry.subject])
    BY <2>1, Zenon DEF JournalStep
  <2>3. About(store, entry)
    BY <1>1
  <2> QED BY <2>2, <2>3, Zenon DEF About
<1>4. CASE p = q /\ Rng(store'.edges) = Rng(store.edges)
  <2> HIDE DEF Kept
  <2> QED BY <1>1, <1>3, <1>4, Zenon
<1>5. ASSUME NEW entry \in JournalEntry, emit(entry), store.next_revision <= entry.revision,
             About(store', entry),
             \A e \in Rng(store'.edges) :
                e \in Rng(store.edges) \/ e.pred = "OWNS" \/ entry = EdgeEntry(e)
      PROVE  /\ Len(p) <= JOURNAL_CAPACITY /\ InOrder(p)
             /\ \A x \in Rng(p) : About(store', x)
             /\ \A e \in Rng(store'.edges) : e.pred # "OWNS" => Kept(e, p)
  <2>1. JOURNAL_CAPACITY \in Nat \ {0} /\ p = push_bounded(q, entry, JOURNAL_CAPACITY)
    BY <1>5, ConstantsAssumption, Zenon DEF emit
  <2>2. store.next_revision \in Nat /\ store.edges \in Seq(Edge)
    BY Zenon DEF IndInv, TypeOK, Store
  <2>3. \A e \in Rng(store.edges) : e.revision \in Nat /\ e.revision < store.next_revision
    <3>1. \A e \in Rng(store.edges) : e \in Edge
      BY <2>2 DEF Rng
    <3> QED BY <3>1, Zenon DEF Edge, IndInv, Sound, Core, RevisionsAssigned
  <2>4. \A x \in Rng(q) : x.revision < store.next_revision
    <3> SUFFICES ASSUME NEW x \in Rng(q) PROVE x.revision < store.next_revision
      BY Zenon
    <3>1. x \in JournalEntry
      BY <1>1 DEF Rng
    <3>2. x.subject \in Ids
      BY <3>1 DEF JournalEntry
    <3> QED BY <1>1, <2>3, <3>2, Zenon DEF About, IndInv, Sound, Core, RevisionsAssigned
  <2> HIDE DEF p, q
  <2>5. /\ Len(p) <= JOURNAL_CAPACITY /\ InOrder(p)
        /\ Rng(p) \subseteq Rng(q) \cup {entry} /\ entry \in Rng(p)
        /\ Len(q) = JOURNAL_CAPACITY =>
              /\ Len(p) = JOURNAL_CAPACITY /\ q # <<>> /\ p # <<>>
              /\ \A n \in Nat : n <= q[1].revision => n < p[1].revision
        /\ \A x \in Rng(q) : x \in Rng(p) \/ (Len(q) = JOURNAL_CAPACITY /\ x = q[1])
    <3>1. q \in Seq(JournalEntry) /\ Len(q) <= JOURNAL_CAPACITY /\ InOrder(q)
      BY <1>1 DEF q
    <3> QED BY <1>5, <2>1, <2>2, <2>4, <3>1, PushInOrder
  <2>6. \A x \in Rng(p) : About(store', x)
    BY <1>3, <1>5, <2>5, Zenon DEF q
  <2>7. ASSUME NEW e \in Rng(store'.edges), e.pred # "OWNS" PROVE Kept(e, p)
    <3>1. CASE entry = EdgeEntry(e)
      BY <2>5, <3>1, Zenon
    <3>2. CASE e \in Rng(store.edges)
      <4>1. e.revision \in Nat /\ Kept(e, q)
        BY <1>1, <2>3, <2>7, <3>2, Zenon DEF q
      <4>2. CASE Len(q) = JOURNAL_CAPACITY /\ e.revision < (IF q = <<>> THEN 0 ELSE q[1].revision)
        <5>1. q # <<>> /\ e.revision < q[1].revision
          BY <2>5, <4>2, Zenon
        <5>2. q[1].revision \in Nat
          <6>1. q \in Seq(JournalEntry)
            BY <1>1 DEF q
          <6>2. 1 \in 1..Len(q)
            BY <5>1, <6>1
          <6> QED BY <6>1, <6>2, EntryOf
        <5>3. e.revision <= q[1].revision
          BY <4>1, <5>1, <5>2
        <5> QED BY <2>5, <4>1, <4>2, <5>3, Zenon
      <4>3. CASE EdgeEntry(e) \in Rng(q)
        <5>1. CASE EdgeEntry(e) \in Rng(p)
          BY <5>1, Zenon
        <5>2. CASE Len(q) = JOURNAL_CAPACITY /\ EdgeEntry(e) = q[1]
          <6>1. e.revision = q[1].revision
            BY <5>2 DEF EdgeEntry
          <6>2. e.revision <= q[1].revision
            BY <4>1, <6>1
          <6> QED BY <2>5, <4>1, <5>2, <6>2, Zenon
        <5> QED BY <2>5, <4>3, <5>1, <5>2, Zenon
      <4> QED BY <4>1, <4>2, <4>3, Zenon
    <3> QED BY <1>5, <2>7, <3>1, <3>2, Zenon
  <2> HIDE DEF Kept
  <2> QED BY <2>5, <2>6, <2>7, Zenon
<1> HIDE DEF Kept
<1> QED BY <1>4, <1>5, Zenon DEF JournalStep

(* The journal is the recent history of the edges, whatever its capacity and
   however many operations came between: emit drops the oldest entry only, and
   every operation that adds an edge other than an ownership edge journals it
   with the revision it has in the store. *)
THEOREM JournalKeepsUp == Spec => []JournalIsRecentHistory
<1>1. Init => JournalIsRecentHistory
  <2> SUFFICES ASSUME Init PROVE JournalIsRecentHistory
    OBVIOUS
  <2>1. journal = <<>> /\ store.edges = <<>>
    BY DEF Init, EmptyStore
  <2>2. Len(journal) = 0 /\ Rng(journal) = {} /\ Rng(store.edges) = {}
    BY <2>1 DEF Rng
  <2>3. 1..Len(journal) = {} /\ Len(journal) <= JOURNAL_CAPACITY
    BY <2>2, ConstantsAssumption
  <2>4. \A i, j \in 1..Len(journal) : i < j => journal[i].revision < journal[j].revision
    BY <2>3, Zenon
  <2> QED BY <2>2, <2>3, <2>4, Zenon DEF JournalIsRecentHistory
<1>2. IndInv /\ JournalIsRecentHistory /\ [Next]_vars => JournalIsRecentHistory'
  BY StepsRecord, JournalStepInv, Zenon
<1> QED BY <1>1, <1>2, Invariance, PTL DEF Spec

(* Whoever watches for its own things is told of each version, at the end of its
   queue, when the version is made: visibility is checked after the ownership
   edge is in place, and a full queue drops its oldest change. *)
THEOREM OwnersAreNotified == Spec => OwnerIsNotified
<1>1. IndInv /\ [Next]_vars => Announced(store, store')
  BY StepsRecord, Zenon
<1> DEFINE A == Announced(store, store')
<1>2. A => [\A id \in Ids :
         (Len(store'.things[id]) > Len(store.things[id])
            /\ ~(latest(store', id).kind = BUNDLE /\ latest(store', id).owner = id))
           => \A w \in Live(store)' :
                LET v == latest(store', id) IN
                (store'.watches[w].owner = v.owner
                   /\ matches_pattern(store'.watches[w].pattern, v, ThingChange(v)))
                  => /\ store'.watches[w].queue # <<>>
                     /\ Last(store'.watches[w].queue) = ThingChange(v)]_vars
  BY Zenon DEF Announced, Live
<1> QED BY <1>1, <1>2, Invariance, PTL DEF Spec, OwnerIsNotified
============================================================================
