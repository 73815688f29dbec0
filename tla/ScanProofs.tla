----------------------------- MODULE ScanProofs ------------------------------
(***************************************************************************)
(* Theorems about ChunkScan: for any devices, whatever lies on them and    *)
(* however the threads take turns, chunk-recover ends up with the newest   *)
(* records.                                                                *)
(***************************************************************************)
EXTENDS ChunkScan, TLAPS

Kinds == {"eb", "chunk", "bg", "devext"}

IsRecord(r) ==
  /\ r = Record(r.dev, r.start, r.size, r.gen, r.data, r.places)
  /\ r.start \in Nat /\ r.size \in Nat /\ r.gen \in Nat

(* What the threads have given to a cache: the blocks that are behind them *)
(* or that they are at the items of, and the items that are behind them.   *)
BlockDone(d, i) == i < pos[d].block \/ (i = pos[d].block /\ pos[d].item > 0)
ItemDone(d, i, j) == i < pos[d].block \/ (i = pos[d].block /\ j < pos[d].item)

GivenBlocks ==
  UNION {{BlockRecord(d, disk[d][i]) : i \in {n \in DOMAIN disk[d] : BlockDone(d, n)}} : d \in Dev}
ItemsOf(d, i, kind) ==
  {j \in DOMAIN disk[d][i].items : /\ ItemDone(d, i, j) /\ Wanted(disk[d][i])
                                   /\ disk[d][i].items[j].kind = kind}
GivenItems(kind) ==
  UNION {UNION {{ItemRecord(disk[d][i], disk[d][i].items[j]) : j \in ItemsOf(d, i, kind)} :
                i \in DOMAIN disk[d]} : d \in Dev}
Given(kind) == IF kind = "eb" THEN GivenBlocks ELSE GivenItems(kind)

(* A cache S and what was given to it, G: the records in it do not overlap *)
(* and were all given, up to their places; and a record that nothing given *)
(* contradicts is in it, with the places of all that are like it.          *)
Cached(S, G) ==
  /\ \A c \in S : IsRecord(c) /\ c.size > 0 /\ \E g \in G : Same(c, g)
  /\ \A c, e \in S : Overlap(c, e) => c = e
Standing(G, r) ==
  r.size > 0 /\ \A o \in G : Overlap(o, r) => o.gen < r.gen \/ Same(o, r)
Places(G, r) == UNION {o.places : o \in {x \in G : Same(x, r)}}
Full(G, r) == [r EXCEPT !.places = Places(G, r)]
Complete(S, G) == \A r \in G : Standing(G, r) => Full(G, r) \in S

---------------------------------------------------------------------------
(* The inductive invariant.                                                *)

PosInv ==
  /\ disk \in Disks
  /\ pos \in [Dev -> [block : Nat, item : Nat]]
  /\ \A d \in Dev :
       /\ pos[d].block \in 1 .. Len(disk[d]) + 1
       /\ pos[d].item > 0 => /\ pos[d].block <= Len(disk[d])
                             /\ Wanted(disk[d][pos[d].block])
                             /\ pos[d].item <= Len(disk[d][pos[d].block].items)

ThreadInv ==
  /\ thread \in [Dev -> {"none", "new", "run", "ok", "err", "gone"}]
  /\ \A d \in Dev : thread[d] = "ok" => pos[d].item = 0
  /\ joined \subseteq Dev /\ \A d \in joined : thread[d] = "ok"
  /\ main = "scanned" => joined = Dev

CacheInv ==
  /\ cache = [kind \in Kinds |-> cache[kind]]
  /\ \A kind \in Kinds : Cached(cache[kind], Given(kind))
  /\ (\A d \in Dev : thread[d] # "err") =>
       \A kind \in Kinds : Complete(cache[kind], Given(kind))

ScanInv == PosInv /\ ThreadInv /\ CacheInv

---------------------------------------------------------------------------
(* Records.                                                                *)

LEMMA RecordIs ==
  ASSUME NEW dev, NEW start \in Nat, NEW size \in Nat, NEW gen \in Nat, NEW data, NEW places
  PROVE  IsRecord(Record(dev, start, size, gen, data, places))
<1>1. PICK r : r = Record(dev, start, size, gen, data, places)
  OBVIOUS
<1>2. r.dev = dev /\ r.start = start /\ r.size = size /\ r.gen = gen /\ r.data = data /\ r.places = places
  BY <1>1 DEF Record
<1> QED BY <1>1, <1>2, Zenon DEF IsRecord

LEMMA PlacesReplaced ==
  ASSUME NEW r, IsRecord(r), NEW P, NEW s, s = [r EXCEPT !.places = P]
  PROVE  /\ s = Record(r.dev, r.start, r.size, r.gen, r.data, P)
         /\ IsRecord(s) /\ s.places = P
         /\ s.dev = r.dev /\ s.start = r.start /\ s.size = r.size /\ s.gen = r.gen
         /\ s.data = r.data
<1> DEFINE t == Record(r.dev, r.start, r.size, r.gen, r.data, P)
<1>1. r = Record(r.dev, r.start, r.size, r.gen, r.data, r.places)
  BY Zenon DEF IsRecord
<1>2. s = t
  BY <1>1 DEF Record
<1>3. /\ t.dev = r.dev /\ t.start = r.start /\ t.size = r.size /\ t.gen = r.gen /\ t.data = r.data
      /\ t.places = P
  BY DEF Record
<1> HIDE DEF t
<1>4. IsRecord(t)
  <2>1. t = Record(t.dev, t.start, t.size, t.gen, t.data, t.places)
    BY <1>3, Zenon DEF t
  <2> QED BY <2>1, <1>3, Zenon DEF IsRecord
<1>5. t = Record(r.dev, r.start, r.size, r.gen, r.data, P)
  BY DEF t
<1> QED BY <1>2, <1>3, <1>4, <1>5, Zenon

LEMMA SameFields ==
  ASSUME NEW a, NEW b, IsRecord(a), IsRecord(b)
  PROVE  Same(a, b) <=> /\ a.dev = b.dev /\ a.start = b.start /\ a.size = b.size
                        /\ a.gen = b.gen /\ a.data = b.data
<1> DEFINE s == [a EXCEPT !.places = {}]
           t == [b EXCEPT !.places = {}]
<1>0. s = [a EXCEPT !.places = {}] /\ t = [b EXCEPT !.places = {}] /\ (Same(a, b) <=> s = t)
  BY Zenon DEF Same
<1> HIDE DEF s, t
<1>1. /\ s = Record(a.dev, a.start, a.size, a.gen, a.data, {})
      /\ s.dev = a.dev /\ s.start = a.start /\ s.size = a.size /\ s.gen = a.gen /\ s.data = a.data
  BY <1>0, PlacesReplaced
<1>2. /\ t = Record(b.dev, b.start, b.size, b.gen, b.data, {})
      /\ t.dev = b.dev /\ t.start = b.start /\ t.size = b.size /\ t.gen = b.gen /\ t.data = b.data
  BY <1>0, PlacesReplaced
<1> QED BY <1>0, <1>1, <1>2, Zenon

LEMMA SameOverlap ==
  ASSUME NEW a, NEW b, NEW o, IsRecord(a), IsRecord(b), Same(a, b)
  PROVE  /\ Same(b, a) /\ a.gen = b.gen /\ a.size = b.size
         /\ Overlap(o, a) <=> Overlap(o, b)
         /\ Overlap(a, o) <=> Overlap(b, o)
         /\ Overlap(a, o) <=> Overlap(o, a)
         /\ IsRecord(o) => (Same(o, a) <=> Same(o, b))
<1>1. a.dev = b.dev /\ a.start = b.start /\ a.size = b.size /\ a.gen = b.gen /\ a.data = b.data
  BY SameFields, Zenon
<1>2. Same(b, a)
  BY <1>1, SameFields, Zenon
<1>3. IsRecord(o) => (Same(o, a) <=> Same(o, b))
  BY <1>1, SameFields, Zenon
<1>4. /\ Overlap(o, a) <=> Overlap(o, b)
      /\ Overlap(a, o) <=> Overlap(b, o)
  BY <1>1, Zenon DEF Overlap
<1>5. Overlap(a, o) <=> Overlap(o, a)
  BY Zenon DEF Overlap
<1> QED BY <1>1, <1>2, <1>3, <1>4, <1>5, Zenon

LEMMA OverlapsItself ==
  ASSUME NEW a, IsRecord(a), a.size > 0
  PROVE  Overlap(a, a) /\ Same(a, a)
<1>1. a.start \in Nat /\ a.size \in Nat
  BY Zenon DEF IsRecord
<1>2. a.start < a.start + a.size
  BY <1>1
<1> QED BY <1>2, Zenon DEF Overlap, Same

LEMMA FullFields ==
  ASSUME NEW G, NEW r, IsRecord(r)
  PROVE  /\ IsRecord(Full(G, r)) /\ Same(Full(G, r), r)
         /\ Full(G, r).places = Places(G, r)
         /\ Full(G, r) = Record(r.dev, r.start, r.size, r.gen, r.data, Places(G, r))
<1>1. /\ Full(G, r) = Record(r.dev, r.start, r.size, r.gen, r.data, Places(G, r))
      /\ IsRecord(Full(G, r)) /\ Full(G, r).places = Places(G, r)
      /\ Full(G, r).dev = r.dev /\ Full(G, r).start = r.start /\ Full(G, r).size = r.size
      /\ Full(G, r).gen = r.gen /\ Full(G, r).data = r.data
  <2>1. Full(G, r) = [r EXCEPT !.places = Places(G, r)]
    BY Zenon DEF Full
  <2> QED BY <2>1, PlacesReplaced
<1> QED BY <1>1, SameFields, Zenon

LEMMA AddedFields ==
  ASSUME NEW e, NEW x, IsRecord(e)
  PROVE  /\ AddPlaces(e, x) = Record(e.dev, e.start, e.size, e.gen, e.data, e.places \cup x.places)
         /\ IsRecord(AddPlaces(e, x))
         /\ AddPlaces(e, x).dev = e.dev /\ AddPlaces(e, x).start = e.start
         /\ AddPlaces(e, x).size = e.size /\ AddPlaces(e, x).gen = e.gen
         /\ AddPlaces(e, x).data = e.data
<1>1. PICK P : P = e.places \cup x.places
  OBVIOUS
<1>2. PICK s : s = AddPlaces(e, x)
  OBVIOUS
<1>3. s = [e EXCEPT !.places = P]
  BY <1>1, <1>2 DEF AddPlaces
<1>4. /\ s = Record(e.dev, e.start, e.size, e.gen, e.data, P)
      /\ IsRecord(s) /\ s.places = P
      /\ s.dev = e.dev /\ s.start = e.start /\ s.size = e.size /\ s.gen = e.gen /\ s.data = e.data
  BY <1>3, PlacesReplaced
<1> QED BY <1>1, <1>2, <1>4, Zenon

---------------------------------------------------------------------------
(* One record is given to a cache.                                         *)

LEMMA ProcessCases ==
  ASSUME NEW S, NEW x, IsRecord(x), \A c \in S : IsRecord(c), NEW out \in Process(S, x)
  PROVE  \/ x.size = 0 /\ out.S = S /\ out.ret = "ok"
         \/ x.size > 0 /\ Hits(S, x) = Older(S, x) /\ out.S = (S \ Older(S, x)) \cup {x} /\ out.ret = "ok"
         \/ \E e \in Hits(S, x) \ Older(S, x), gone \in SUBSET Older(S, x) :
              \/ e.gen > x.gen /\ out.S = S \ gone /\ out.ret = "ok"
              \/ out.S = S \ gone /\ out.ret # "ok"
              \/ /\ Same(e, x) /\ out.ret = "ok"
                 /\ out.S = (S \ (gone \cup {e})) \cup {AddPlaces(e, x)}
<1>1. out \in IF x.size = 0 THEN {[S |-> S, ret |-> "ok"]}
              ELSE IF Hits(S, x) = Older(S, x) THEN {[S |-> (S \ Older(S, x)) \cup {x}, ret |-> "ok"]}
              ELSE {Kept(S, x, e, gone) : e \in Hits(S, x) \ Older(S, x), gone \in SUBSET Older(S, x)}
  BY DEF Process
<1>2. x.size \in Nat /\ x.gen \in Nat
  BY Zenon DEF IsRecord
<1>3. CASE x.size = 0
  <2>1. out = [S |-> S, ret |-> "ok"]
    BY <1>1, <1>3
  <2> QED BY <2>1, <1>3, Zenon
<1>4. CASE x.size # 0 /\ Hits(S, x) = Older(S, x)
  <2>1. out = [S |-> (S \ Older(S, x)) \cup {x}, ret |-> "ok"]
    BY <1>1, <1>4
  <2>2. x.size > 0
    BY <1>2, <1>4
  <2> QED BY <2>1, <2>2, <1>4, Zenon
<1>5. CASE x.size # 0 /\ Hits(S, x) # Older(S, x)
  <2>1. PICK e \in Hits(S, x) \ Older(S, x), gone \in SUBSET Older(S, x) : out = Kept(S, x, e, gone)
    BY <1>1, <1>5
  <2>2. e.gen \in Nat /\ ~(e.gen < x.gen)
    <3>1. e \in S /\ ~(e.gen < x.gen)
      BY <2>1, Zenon DEF Hits, Older
    <3> QED BY <3>1, Zenon DEF IsRecord
  <2>3. CASE e.gen > x.gen
    <3>1. out = [S |-> S \ gone, ret |-> "ok"]
      <4>1. e.gen # x.gen
        BY <2>2, <2>3, <1>2
      <4> QED BY <2>1, <2>3, <4>1, Zenon DEF Kept
    <3>2. out.S = S \ gone /\ out.ret = "ok"
      BY <3>1
    <3> QED BY <3>2, <2>3, Zenon
  <2>4. CASE e.gen = x.gen /\ ~Same(e, x)
    <3>1. ~(e.gen > x.gen)
      BY <2>4, <1>2
    <3>2. out = [S |-> S \ gone, ret |-> "EEXIST"]
      BY <2>1, <2>4, <3>1, Zenon DEF Kept
    <3>3. out.S = S \ gone /\ out.ret # "ok"
      BY <3>2
    <3> QED BY <3>3, <2>1, Zenon
  <2>5. CASE e.gen = x.gen /\ Same(e, x) /\ Cardinality(e.places) >= MaxMirrors
    <3>1. ~(e.gen > x.gen)
      BY <2>5, <1>2
    <3>2. out = [S |-> S \ gone, ret |-> "BUG"]
      BY <2>1, <2>5, <3>1, Zenon DEF Kept
    <3>3. out.S = S \ gone /\ out.ret # "ok"
      BY <3>2
    <3> QED BY <3>3, <2>1, Zenon
  <2>6. CASE e.gen = x.gen /\ Same(e, x) /\ ~(Cardinality(e.places) >= MaxMirrors)
    <3>1. ~(e.gen > x.gen)
      BY <2>6, <1>2
    <3>2. out = [S |-> (S \ (gone \cup {e})) \cup {AddPlaces(e, x)},
                 ret |-> "ok"]
      BY <2>1, <2>6, <3>1, Zenon DEF Kept
    <3>3. out.S = (S \ (gone \cup {e})) \cup {AddPlaces(e, x)} /\ out.ret = "ok"
      BY <3>2
    <3> QED BY <3>3, <2>6, Zenon
  <2>7. e.gen > x.gen \/ e.gen = x.gen
    BY <2>2, <1>2
  <2> QED BY <2>3, <2>4, <2>5, <2>6, <2>7, Zenon
<1> QED BY <1>3, <1>4, <1>5, Zenon

LEMMA CachedProcess ==
  ASSUME NEW S, NEW G, NEW x, IsRecord(x), \A g \in G : IsRecord(g), Cached(S, G),
         NEW out \in Process(S, x)
  PROVE  Cached(out.S, G \cup {x}) /\ (out.ret # "ok" => Cached(out.S, G))
<1>1. /\ \A c \in S : IsRecord(c) /\ c.size > 0 /\ \E g \in G : Same(c, g)
      /\ \A c, e \in S : Overlap(c, e) => c = e
  BY Zenon DEF Cached
<1>2. \/ x.size = 0 /\ out.S = S /\ out.ret = "ok"
      \/ x.size > 0 /\ Hits(S, x) = Older(S, x) /\ out.S = (S \ Older(S, x)) \cup {x} /\ out.ret = "ok"
      \/ \E e \in Hits(S, x) \ Older(S, x), gone \in SUBSET Older(S, x) :
           \/ e.gen > x.gen /\ out.S = S \ gone /\ out.ret = "ok"
           \/ out.S = S \ gone /\ out.ret # "ok"
           \/ /\ Same(e, x) /\ out.ret = "ok"
              /\ out.S = (S \ (gone \cup {e})) \cup {AddPlaces(e, x)}
  BY <1>1, ProcessCases
<1>3. ASSUME NEW T \in SUBSET S
      PROVE  Cached(T, G) /\ Cached(T, G \cup {x})
  BY <1>1, Zenon DEF Cached
<1>4. CASE x.size > 0 /\ Hits(S, x) = Older(S, x) /\ out.S = (S \ Older(S, x)) \cup {x} /\ out.ret = "ok"
  <2>1. \A c \in S \ Older(S, x) : ~Overlap(c, x)
    BY <1>4, Zenon DEF Hits, Older
  <2>2. Same(x, x) /\ \A c \in S \ Older(S, x) : ~Overlap(x, c)
    BY <2>1, <1>4, OverlapsItself, SameOverlap, Zenon
  <2>3. \A c \in out.S : IsRecord(c) /\ c.size > 0 /\ \E g \in G \cup {x} : Same(c, g)
    BY <1>1, <1>4, <2>2, Zenon
  <2>4. \A c, e \in out.S : Overlap(c, e) => c = e
    BY <1>1, <1>4, <2>1, <2>2, Zenon
  <2> QED BY <2>3, <2>4, <1>4, Zenon DEF Cached
<1>5. ASSUME NEW e \in Hits(S, x) \ Older(S, x), NEW gone \in SUBSET Older(S, x), out.ret = "ok",
             out.S = (S \ (gone \cup {e})) \cup {AddPlaces(e, x)}
      PROVE  Cached(out.S, G \cup {x})
  <2> DEFINE f == AddPlaces(e, x)
  <2>1. e \in S /\ IsRecord(e)
    BY <1>1, Zenon DEF Hits, Older
  <2>2. /\ IsRecord(f) /\ f.dev = e.dev /\ f.start = e.start /\ f.size = e.size /\ f.gen = e.gen
        /\ f.data = e.data
    BY <2>1, AddedFields, Zenon
  <2>3. out.S = (S \ (gone \cup {e})) \cup {f}
    BY <1>5, Zenon
  <2> HIDE DEF f
  <2>4. Same(f, e)
    BY <2>1, <2>2, SameFields, Zenon
  <2>5. f.size > 0 /\ \E g \in G : Same(f, g)
    <3>1. PICK g \in G : Same(e, g)
      BY <2>1, <1>1, Zenon
    <3>2. Same(f, g)
      BY <3>1, <2>1, <2>2, <2>4, SameFields, Zenon
    <3> QED BY <3>2, <2>1, <2>2, <1>1, Zenon
  <2>6. ASSUME NEW c \in S, c # e
        PROVE  ~Overlap(c, f) /\ ~Overlap(f, c)
    <3>1. ~Overlap(c, e) /\ ~Overlap(e, c)
      BY <2>1, <2>6, <1>1, Zenon
    <3> QED BY <3>1, <2>1, <2>2, <2>4, SameOverlap, Zenon
  <2>7. \A c \in out.S : IsRecord(c) /\ c.size > 0 /\ \E g \in G \cup {x} : Same(c, g)
    BY <1>1, <2>2, <2>3, <2>5, Zenon
  <2>8. \A c, h \in out.S : Overlap(c, h) => c = h
    BY <1>1, <2>3, <2>6, Zenon
  <2> QED BY <2>7, <2>8, Zenon DEF Cached
<1> QED
  <2>1. CASE x.size = 0 /\ out.S = S /\ out.ret = "ok"
    BY <2>1, <1>3, Zenon
  <2>2. ASSUME NEW e \in Hits(S, x) \ Older(S, x), NEW gone \in SUBSET Older(S, x), out.S = S \ gone
        PROVE  Cached(out.S, G \cup {x}) /\ Cached(out.S, G)
    BY <2>2, <1>3, Zenon
  <2> QED BY <2>1, <2>2, <1>2, <1>4, <1>5, Zenon

LEMMA CompleteProcess ==
  ASSUME NEW S, NEW G, NEW x, IsRecord(x), \A g \in G : IsRecord(g), Cached(S, G), Complete(S, G),
         NEW out \in Process(S, x), out.ret = "ok"
  PROVE  Complete(out.S, G \cup {x})
<1> DEFINE H == G \cup {x}
<1>1. /\ \A c \in S : IsRecord(c) /\ c.size > 0 /\ \E g \in G : Same(c, g)
      /\ \A c, e \in S : Overlap(c, e) => c = e
  BY Zenon DEF Cached
<1>2. \/ x.size = 0 /\ out.S = S
      \/ x.size > 0 /\ Hits(S, x) = Older(S, x) /\ out.S = (S \ Older(S, x)) \cup {x}
      \/ \E e \in Hits(S, x) \ Older(S, x), gone \in SUBSET Older(S, x) :
           \/ e.gen > x.gen /\ out.S = S \ gone
           \/ /\ Same(e, x)
              /\ out.S = (S \ (gone \cup {e})) \cup {AddPlaces(e, x)}
  <2>1. \/ x.size = 0 /\ out.S = S /\ out.ret = "ok"
        \/ x.size > 0 /\ Hits(S, x) = Older(S, x) /\ out.S = (S \ Older(S, x)) \cup {x} /\ out.ret = "ok"
        \/ \E e \in Hits(S, x) \ Older(S, x), gone \in SUBSET Older(S, x) :
             \/ e.gen > x.gen /\ out.S = S \ gone /\ out.ret = "ok"
             \/ out.S = S \ gone /\ out.ret # "ok"
             \/ /\ Same(e, x) /\ out.ret = "ok"
                /\ out.S = (S \ (gone \cup {e})) \cup {AddPlaces(e, x)}
    BY ONLY <1>1, ProcessCases, IsRecord(x), out \in Process(S, x)
  <2> QED BY <2>1, Zenon
<1>3. \A r \in H : IsRecord(r) /\ r.gen \in Nat
  BY Zenon DEF IsRecord
\* a record unlike x that x does not contradict stays
<1>4. ASSUME NEW r \in H, Standing(H, r), ~Same(x, r)
      PROVE  Full(H, r) \in S \ Older(S, x) /\ ~Same(Full(H, r), x)
  <2>1. r \in G
    BY <1>4, Zenon DEF Same
  <2>2. Standing(G, r)
    BY <1>4, Zenon DEF Standing
  <2>3. {y \in H : Same(y, r)} = {y \in G : Same(y, r)}
    BY <1>4, Zenon
  <2>4. Full(H, r) = Full(G, r)
    BY <2>3, Zenon DEF Full, Places
  <2> DEFINE F == Full(G, r)
  <2>5. F \in S
    BY <2>1, <2>2, Zenon DEF Complete
  <2>6. IsRecord(F) /\ Same(F, r)
    BY <2>1, <1>3, FullFields, Zenon
  <2> HIDE DEF F
  <2>7. ~Same(F, x)
    BY <2>6, <1>4, Zenon DEF Same
  <2>8. F \notin Older(S, x)
    <3>1. SUFFICES ASSUME Overlap(F, x), F.gen < x.gen PROVE FALSE
      BY Zenon DEF Hits, Older
    <3>2. F.gen = r.gen /\ Overlap(x, r)
      BY <3>1, <2>1, <2>6, <1>3, SameOverlap, Zenon
    <3>3. x.gen < r.gen
      BY <3>2, <1>4, Zenon DEF Standing
    <3>4. x.gen \in Nat /\ r.gen \in Nat
      BY <2>1, <1>3, Zenon
    <3> QED BY <3>1, <3>2, <3>3, <3>4
  <2> QED BY <2>4, <2>5, <2>7, <2>8, Zenon DEF F
\* of the records like x that were given before, one would be in the cache
<1>5. ASSUME NEW r \in H, Standing(H, r), Same(x, r), NEW g \in G, Same(g, x)
      PROVE  /\ Full(G, g) \in S /\ Same(Full(G, g), x) /\ IsRecord(Full(G, g))
             /\ Full(G, g).places = Places(G, g)
             /\ Overlap(Full(G, g), x) /\ ~(Full(G, g).gen < x.gen)
  <2>1. /\ IsRecord(r) /\ IsRecord(g) /\ Same(g, r) /\ g.gen = r.gen /\ g.size = r.size
        /\ \A o : Overlap(o, g) <=> Overlap(o, r)
    BY <1>3, <1>5, SameFields, SameOverlap, Zenon
  <2>2. \A o \in G : Same(o, r) => Same(o, g)
    BY <2>1, <1>3, SameOverlap, Zenon
  <2>3. Standing(G, g)
    BY <1>5, <2>1, <2>2, Zenon DEF Standing
  <2> DEFINE F == Full(G, g)
  <2>4. F \in S /\ IsRecord(F) /\ Same(F, g) /\ F.places = Places(G, g)
    BY <2>1, <2>3, <1>5, FullFields, Zenon DEF Complete
  <2> HIDE DEF F
  <2>5. Same(F, x) /\ F.gen = x.gen
    <3>1. Same(F, x)
      BY <2>4, <1>5, Zenon DEF Same
    <3> QED BY <3>1, <2>4, <1>3, SameOverlap, Zenon
  <2>6. Overlap(F, F)
    BY <2>4, <1>1, OverlapsItself, Zenon
  <2>7. Overlap(F, x)
    BY <2>4, <2>5, <2>6, SameOverlap, Zenon
  <2>8. ~(F.gen < x.gen)
    <3>1. x.gen \in Nat
      BY <1>3, Zenon
    <3> QED BY <3>1, <2>5
  <2> QED BY <2>4, <2>5, <2>7, <2>8, Zenon DEF F
<1>6. CASE x.size = 0 /\ out.S = S
  <2>1. ASSUME NEW r \in H, Standing(H, r) PROVE ~Same(x, r)
    <3>1. SUFFICES ASSUME Same(x, r) PROVE FALSE
      OBVIOUS
    <3>2. r.size = 0 /\ r.size > 0
      BY <2>1, <3>1, <1>3, <1>6, SameFields, Zenon DEF Standing
    <3> QED BY <3>2
  <2> QED BY <2>1, <1>4, <1>6, Zenon DEF Complete
<1>7. CASE x.size > 0 /\ Hits(S, x) = Older(S, x) /\ out.S = (S \ Older(S, x)) \cup {x}
  <2>1. ASSUME NEW r \in H, Standing(H, r), Same(x, r) PROVE Full(H, r) = x
    <3>1. \A g \in G : ~Same(g, x)
      BY <2>1, <1>5, <1>7, Zenon DEF Hits, Older
    <3>2. \A y \in G : Same(y, r) => Same(y, x)
      BY <2>1, <1>3, SameOverlap, Zenon
    <3>3. {y \in H : Same(y, r)} = {x}
      BY <3>1, <3>2, <2>1, Zenon
    <3>4. Places(H, r) = x.places
      BY <3>3, Zenon DEF Places
    <3>5. Full(H, r) = Record(r.dev, r.start, r.size, r.gen, r.data, x.places)
      BY <2>1, <3>4, <1>3, FullFields, Zenon
    <3>6. r.dev = x.dev /\ r.start = x.start /\ r.size = x.size /\ r.gen = x.gen /\ r.data = x.data
      BY <2>1, <1>3, SameFields, Zenon
    <3>7. x = Record(x.dev, x.start, x.size, x.gen, x.data, x.places)
      BY Zenon DEF IsRecord
    <3> QED BY <3>5, <3>6, <3>7, Zenon
  <2> QED BY <2>1, <1>4, <1>7, Zenon DEF Complete
<1>8. ASSUME NEW e \in Hits(S, x) \ Older(S, x), NEW gone \in SUBSET Older(S, x), e.gen > x.gen, out.S = S \ gone
      PROVE  Complete(out.S, H)
  <2>1. ASSUME NEW r \in H, Standing(H, r) PROVE ~Same(x, r)
    <3>1. SUFFICES ASSUME Same(x, r) PROVE FALSE
      OBVIOUS
    <3>2. PICK g \in G : Same(e, g)
      BY <1>1, Zenon DEF Hits, Older
    <3>3. IsRecord(e) /\ IsRecord(g) /\ IsRecord(r) /\ Overlap(e, x)
      BY <1>1, <1>3, Zenon DEF Hits, Older
    <3>4. e.gen = g.gen /\ x.gen = r.gen /\ Overlap(g, r)
      BY <3>1, <3>2, <3>3, SameOverlap, Zenon
    <3>5. g.gen < r.gen \/ Same(g, r)
      BY <2>1, <3>4, Zenon DEF Standing
    <3>6. g.gen < r.gen \/ g.gen = r.gen
      BY <3>3, <3>5, SameFields, Zenon
    <3>7. g.gen \in Nat /\ r.gen \in Nat
      BY <1>3, Zenon
    <3> QED BY <3>4, <3>6, <3>7, <1>8
  <2> QED BY <2>1, <1>4, <1>8, Zenon DEF Complete
<1>9. ASSUME NEW e \in Hits(S, x) \ Older(S, x), NEW gone \in SUBSET Older(S, x), Same(e, x),
             out.S = (S \ (gone \cup {e})) \cup {AddPlaces(e, x)}
      PROVE  Complete(out.S, H)
  <2>1. ASSUME NEW r \in H, Standing(H, r), Same(x, r)
        PROVE  Full(H, r) = AddPlaces(e, x)
    <3>1. PICK g \in G : Same(e, g)
      BY <1>1, Zenon DEF Hits, Older
    <3>2. IsRecord(e) /\ IsRecord(g) /\ IsRecord(r) /\ e \in S
      BY <1>1, <1>3, Zenon DEF Hits, Older
    <3>3. Same(g, x) /\ Same(g, r)
      BY <3>1, <1>9, <2>1, Zenon DEF Same
    <3>4. /\ Full(G, g) \in S /\ Same(Full(G, g), x) /\ IsRecord(Full(G, g))
          /\ Full(G, g).places = Places(G, g) /\ Overlap(Full(G, g), x)
      BY <3>3, <2>1, <1>5, Zenon
    <3>5. Overlap(Full(G, g), e)
      BY <3>2, <3>4, <1>9, SameOverlap, Zenon
    <3>6. e.places = Places(G, g)
      BY <3>2, <3>4, <3>5, <1>1, Zenon
    <3>7. Places(H, r) = Places(G, g) \cup x.places
      <4>1. \A y \in G : Same(y, r) <=> Same(y, g)
        BY <3>2, <3>3, <1>3, SameOverlap, Zenon
      <4>2. {y \in H : Same(y, r)} = {y \in G : Same(y, g)} \cup {x}
        BY <4>1, <2>1, Zenon
      <4> QED BY <4>2, Zenon DEF Places
    <3>8. Full(H, r) = Record(r.dev, r.start, r.size, r.gen, r.data, e.places \cup x.places)
      BY <3>2, <3>6, <3>7, FullFields, Zenon
    <3>9. AddPlaces(e, x) = Record(e.dev, e.start, e.size, e.gen, e.data, e.places \cup x.places)
      BY <3>2, AddedFields, Zenon
    <3>10. e.dev = r.dev /\ e.start = r.start /\ e.size = r.size /\ e.gen = r.gen /\ e.data = r.data
      <4>1. Same(e, r)
        BY <1>9, <2>1, Zenon DEF Same
      <4> QED BY <4>1, <3>2, SameFields, Zenon
    <3> QED BY <3>8, <3>9, <3>10, Zenon
  <2>2. ASSUME NEW r \in H, Standing(H, r), ~Same(x, r)
        PROVE  Full(H, r) \in S \ (gone \cup {e})
    BY <2>2, <1>4, <1>9, Zenon
  <2> QED BY <2>1, <2>2, <1>9, Zenon DEF Complete
<1> QED
  <2> QED BY <1>2, <1>6, <1>7, <1>8, <1>9, Zenon

---------------------------------------------------------------------------
(* What was given, and what a step gives.                                  *)

LEMMA GivenBlock ==
  ASSUME NEW r
  PROVE  r \in Given("eb") <=>
           \E d \in Dev : \E i \in DOMAIN disk[d] : BlockDone(d, i) /\ r = BlockRecord(d, disk[d][i])
<1>1. Given("eb") = GivenBlocks
  BY Zenon DEF Given
<1> QED BY <1>1 DEF GivenBlocks

LEMMA GivenItem ==
  ASSUME NEW r, NEW kind \in Kinds, kind # "eb"
  PROVE  r \in Given(kind) <=>
           \E d \in Dev : \E i \in DOMAIN disk[d] : \E j \in ItemsOf(d, i, kind) :
             r = ItemRecord(disk[d][i], disk[d][i].items[j])
<1>1. Given(kind) = GivenItems(kind)
  BY Zenon DEF Given
<1> QED BY <1>1 DEF GivenItems

LEMMA GivenRecords ==
  ASSUME ScanConstants, PosInv, NEW kind \in Kinds, NEW r \in Given(kind)
  PROVE  IsRecord(r)
<1>1. \A d \in Dev : \A i \in DOMAIN disk[d] : IsBlock(disk[d][i])
  BY Zenon DEF PosInv, ScanConstants
<1>2. CASE kind = "eb"
  <2>1. PICK d \in Dev : \E i \in DOMAIN disk[d] : r = BlockRecord(d, disk[d][i])
    BY <1>2, GivenBlock, Zenon
  <2>2. PICK i \in DOMAIN disk[d] : r = BlockRecord(d, disk[d][i])
    BY <2>1, Zenon
  <2> DEFINE b == disk[d][i]
  <2>3. b.start \in Nat /\ b.gen \in Nat
    BY <1>1, Zenon DEF IsBlock
  <2>4. r = Record(0, b.start, 1, b.gen, <<b.csum>>, {<<d, b.at>>})
    BY <2>2, Zenon DEF BlockRecord
  <2> HIDE DEF b
  <2> QED BY <2>3, <2>4, RecordIs
<1>3. CASE kind # "eb"
  <2>1. PICK d \in Dev : \E i \in DOMAIN disk[d] : \E j \in ItemsOf(d, i, kind) :
                           r = ItemRecord(disk[d][i], disk[d][i].items[j])
    BY <1>3, GivenItem, Zenon
  <2>2. PICK i \in DOMAIN disk[d] : \E j \in ItemsOf(d, i, kind) :
                           r = ItemRecord(disk[d][i], disk[d][i].items[j])
    BY <2>1, Zenon
  <2>3. PICK j \in ItemsOf(d, i, kind) : r = ItemRecord(disk[d][i], disk[d][i].items[j])
    BY <2>2, Zenon
  <2> DEFINE b == disk[d][i]
             it == b.items[j]
  <2>4. b.gen \in Nat /\ it.start \in Nat /\ it.size \in Nat
    BY <1>1, Zenon DEF IsBlock, ItemsOf, IsItem
  <2>5. r = Record(it.dev, it.start, it.size, b.gen, it.data, {})
    BY <2>3, Zenon DEF ItemRecord
  <2> HIDE DEF b, it
  <2> QED BY <2>4, <2>5, RecordIs
<1> QED BY <1>2, <1>3

LEMMA GivenNext ==
  ASSUME disk' = disk, NEW r
  PROVE  /\ r \in Given("eb")' <=>
              \E d \in Dev : \E i \in DOMAIN disk[d] : BlockDone(d, i)' /\ r = BlockRecord(d, disk[d][i])
         /\ \A kind \in Kinds \ {"eb"} :
              r \in Given(kind)' <=>
                \E d \in Dev : \E i \in DOMAIN disk[d] : \E j \in ItemsOf(d, i, kind)' :
                  r = ItemRecord(disk[d][i], disk[d][i].items[j])
<1>1. Given("eb")' = GivenBlocks'
  BY Zenon DEF Given
<1>2. \A kind \in Kinds \ {"eb"} : Given(kind)' = GivenItems(kind)'
  BY Zenon DEF Given
<1>3. r \in GivenBlocks' <=>
        \E d \in Dev : \E i \in DOMAIN disk[d] : BlockDone(d, i)' /\ r = BlockRecord(d, disk[d][i])
  BY DEF GivenBlocks
<1>4. \A kind \in Kinds \ {"eb"} :
        r \in GivenItems(kind)' <=>
          \E d \in Dev : \E i \in DOMAIN disk[d] : \E j \in ItemsOf(d, i, kind)' :
            r = ItemRecord(disk[d][i], disk[d][i].items[j])
  BY DEF GivenItems
<1> QED BY <1>1, <1>2, <1>3, <1>4, Zenon

LEMMA UnmovedGiven ==
  ASSUME disk' = disk, pos' = pos, NEW kind \in Kinds
  PROVE  Given(kind)' = Given(kind)
<1>1. GivenBlocks' = GivenBlocks
  BY DEF GivenBlocks, BlockDone
<1>2. GivenItems(kind)' = GivenItems(kind)
  BY DEF GivenItems, ItemsOf, ItemDone
<1> QED BY <1>1, <1>2, Zenon DEF Given

(* The thread of d goes on from block n, past all items before m.          *)
LEMMA Moved ==
  ASSUME ScanConstants, PosInv, disk' = disk, NEW d \in Dev, NEW m \in Nat \ {0},
         pos[d].block <= Len(disk[d]), GoOn(d, pos[d].block, m)
  PROVE  /\ PosInv'
         /\ \A e \in Dev \ {d} : pos'[e] = pos[e]
         /\ \A i \in Nat : BlockDone(d, i)' <=> i <= pos[d].block
         /\ \A i \in DOMAIN disk[d] : \A j \in DOMAIN disk[d][i].items : Wanted(disk[d][i]) =>
              (ItemDone(d, i, j)' <=> i < pos[d].block \/ (i = pos[d].block /\ j < m))
<1> DEFINE n == pos[d].block
           More == Wanted(disk[d][n]) /\ m <= Len(disk[d][n].items)
           q == IF m > 0 /\ Wanted(disk[d][n]) /\ m <= Len(disk[d][n].items)
                THEN [block |-> n, item |-> m] ELSE [block |-> n + 1, item |-> 0]
<1>1. /\ n \in Nat /\ pos[d].item \in Nat /\ n \in 1 .. Len(disk[d]) + 1
      /\ pos \in [Dev -> [block : Nat, item : Nat]]
  BY Zenon DEF PosInv
<1>2. /\ IsList(disk[d]) /\ \A i \in DOMAIN disk[d] : IsList(disk[d][i].items)
      /\ Len(disk[d]) \in Nat /\ DOMAIN disk[d] = 1 .. Len(disk[d])
  BY Zenon DEF PosInv, ScanConstants, IsBlock, IsList
<1>3. pos' = [pos EXCEPT ![d] = q]
  BY Zenon DEF GoOn
<1>4. /\ More => q = [block |-> n, item |-> m]
      /\ ~More => q = [block |-> n + 1, item |-> 0]
  BY m > 0
<1> HIDE DEF q
<1>5. /\ \A e \in Dev \ {d} : pos'[e] = pos[e]
      /\ pos'[d] = q
  BY <1>1, <1>3
<1>6. /\ More => pos'[d].block = n /\ pos'[d].item = m
      /\ ~More => pos'[d].block = n + 1 /\ pos'[d].item = 0
  BY <1>4, <1>5
<1>7. PosInv'
  <2>1. q \in [block : Nat, item : Nat]
    BY <1>1, <1>4
  <2>2. pos' \in [Dev -> [block : Nat, item : Nat]]
    BY <2>1, <1>1, <1>3
  <2>3. ASSUME NEW e \in Dev \ {d}
        PROVE  /\ pos'[e].block \in 1 .. Len(disk[e]) + 1
               /\ pos'[e].item > 0 => /\ pos'[e].block <= Len(disk[e])
                                      /\ Wanted(disk[e][pos'[e].block])
                                      /\ pos'[e].item <= Len(disk[e][pos'[e].block].items)
    BY <1>5, Zenon DEF PosInv
  <2>4. /\ pos'[d].block \in 1 .. Len(disk[d]) + 1
        /\ pos'[d].item > 0 => /\ pos'[d].block <= Len(disk[d])
                               /\ Wanted(disk[d][pos'[d].block])
                               /\ pos'[d].item <= Len(disk[d][pos'[d].block].items)
    <3>1. CASE More
      BY <3>1, <1>6, <1>1, Zenon
    <3>2. CASE ~More
      <4>1. n + 1 \in 1 .. Len(disk[d]) + 1
        BY <1>1, <1>2
      <4>2. ~(0 > 0)
        OBVIOUS
      <4> QED BY <3>2, <1>6, <4>1, <4>2, Zenon
    <3> QED BY <3>1, <3>2
  <2>5. \A e \in Dev : /\ pos'[e].block \in 1 .. Len(disk[e]) + 1
                       /\ pos'[e].item > 0 => /\ pos'[e].block <= Len(disk[e])
                                              /\ Wanted(disk[e][pos'[e].block])
                                              /\ pos'[e].item <= Len(disk[e][pos'[e].block].items)
    BY <2>3, <2>4, Zenon
  <2>6. disk' \in Disks
    BY Zenon DEF PosInv
  <2> QED BY <2>2, <2>5, <2>6, Zenon DEF PosInv, Wanted
<1>8. ASSUME NEW i \in Nat
      PROVE  BlockDone(d, i)' <=> i <= n
  <2>1. BlockDone(d, i)' <=> i < pos'[d].block \/ (i = pos'[d].block /\ pos'[d].item > 0)
    BY Zenon DEF BlockDone
  <2> QED BY <2>1, <1>1, <1>6
<1>9. ASSUME NEW i \in DOMAIN disk[d], NEW j \in DOMAIN disk[d][i].items, Wanted(disk[d][i])
      PROVE  ItemDone(d, i, j)' <=> i < n \/ (i = n /\ j < m)
  <2>1. ItemDone(d, i, j)' <=> i < pos'[d].block \/ (i = pos'[d].block /\ j < pos'[d].item)
    BY Zenon DEF ItemDone
  <2>2. i \in Nat /\ j \in Nat /\ j <= Len(disk[d][i].items) /\ Len(disk[d][i].items) \in Nat
    BY <1>2 DEF IsList
  <2>3. CASE More
    BY <2>1, <2>3, <1>6, Zenon
  <2>4. CASE ~More
    <3>1. i = n => j < m
      <4>1. i = n => ~(m <= Len(disk[d][i].items))
        BY <2>4, <1>9, Zenon
      <4> QED BY <4>1, <2>2
    <3>2. pos'[d].block = n + 1 /\ pos'[d].item = 0
      BY <2>4, <1>6, Zenon
    <3> QED BY <3>1, <3>2, <2>1, <2>2, <1>1
  <2> QED BY <2>3, <2>4
<1> QED BY <1>5, <1>7, <1>8, <1>9, Zenon

LEMMA GivesBlock ==
  ASSUME ScanConstants, PosInv, disk' = disk, NEW d \in Dev, AtBlock(d), GoOn(d, pos[d].block, 1)
  PROVE  /\ Given("eb")' = Given("eb") \cup {BlockRecord(d, BlockRead(d))}
         /\ \A kind \in Kinds \ {"eb"} : Given(kind)' = Given(kind)
<1> DEFINE n == pos[d].block
<1>1. /\ n \in Nat /\ pos[d].item = 0 /\ n \in 1 .. Len(disk[d]) + 1 /\ n <= Len(disk[d])
  BY Zenon DEF PosInv, AtBlock
<1>2. \A e \in Dev : /\ DOMAIN disk[e] = 1 .. Len(disk[e]) /\ Len(disk[e]) \in Nat
                     /\ \A i \in DOMAIN disk[e] : IsList(disk[e][i].items)
  BY Zenon DEF PosInv, ScanConstants, IsBlock, IsList
<1>3. /\ \A e \in Dev \ {d} : pos'[e] = pos[e]
      /\ \A i \in Nat : BlockDone(d, i)' <=> i <= n
      /\ \A i \in DOMAIN disk[d] : \A j \in DOMAIN disk[d][i].items : Wanted(disk[d][i]) =>
           (ItemDone(d, i, j)' <=> i < n \/ (i = n /\ j < 1))
  <2>1. 1 \in Nat \ {0}
    OBVIOUS
  <2> QED BY <1>1, <2>1, Moved, Zenon
<1>4. n \in DOMAIN disk[d]
  BY <1>1, <1>2
<1>5. ASSUME NEW e \in Dev, NEW i \in DOMAIN disk[e]
      PROVE  BlockDone(e, i)' <=> BlockDone(e, i) \/ (e = d /\ i = n)
  <2>1. CASE e # d
    BY <2>1, <1>3, Zenon DEF BlockDone
  <2>2. CASE e = d
    <3>1. i \in Nat
      BY <1>2
    <3>2. BlockDone(d, i)' <=> i <= n
      BY <3>1, <1>3, Zenon
    <3>3. BlockDone(d, i) <=> i < n
      BY <1>1 DEF BlockDone
    <3> QED BY <3>1, <3>2, <3>3, <2>2, <1>1
  <2> QED BY <2>1, <2>2
<1>6. Given("eb")' = Given("eb") \cup {BlockRecord(d, BlockRead(d))}
  <2>1. ASSUME NEW r
        PROVE  r \in Given("eb")' <=> r \in Given("eb") \/ r = BlockRecord(d, disk[d][n])
    BY <1>4, <1>5, GivenBlock, GivenNext, Zenon
  <2> QED BY <2>1, Zenon DEF BlockRead
<1>7. ASSUME NEW kind \in Kinds \ {"eb"}, NEW e \in Dev, NEW i \in DOMAIN disk[e]
      PROVE  ItemsOf(e, i, kind)' = ItemsOf(e, i, kind)
  <2>1. ASSUME NEW j \in DOMAIN disk[e][i].items, Wanted(disk[e][i])
        PROVE  ItemDone(e, i, j)' <=> ItemDone(e, i, j)
    <3>1. CASE e # d
      BY <3>1, <1>3, Zenon DEF ItemDone
    <3>2. CASE e = d
      <4>1. i \in Nat /\ j \in Nat \ {0}
        BY <1>2 DEF IsList
      <4>2. ItemDone(d, i, j)' <=> i < n \/ (i = n /\ j < 1)
        BY <3>2, <2>1, <1>3, Zenon
      <4>3. ItemDone(d, i, j) <=> i < n \/ (i = n /\ j < 0)
        BY <1>1, Zenon DEF ItemDone
      <4> QED BY <4>1, <4>2, <4>3, <3>2
    <3> QED BY <3>1, <3>2
  <2>2. ItemsOf(e, i, kind)' = {j \in DOMAIN disk[e][i].items :
                                  /\ ItemDone(e, i, j)' /\ Wanted(disk[e][i])
                                  /\ disk[e][i].items[j].kind = kind}
    BY Zenon DEF ItemsOf, Wanted
  <2> QED BY <2>1, <2>2, Zenon DEF ItemsOf
<1>8. ASSUME NEW kind \in Kinds \ {"eb"}
      PROVE  Given(kind)' = Given(kind)
  <2>1. ASSUME NEW r
        PROVE  r \in Given(kind)' <=> r \in Given(kind)
    <3>1. r \in Given(kind)' <=>
            \E e \in Dev : \E i \in DOMAIN disk[e] : \E j \in ItemsOf(e, i, kind)' :
              r = ItemRecord(disk[e][i], disk[e][i].items[j])
      BY GivenNext, Zenon
    <3>2. r \in Given(kind) <=>
            \E e \in Dev : \E i \in DOMAIN disk[e] : \E j \in ItemsOf(e, i, kind) :
              r = ItemRecord(disk[e][i], disk[e][i].items[j])
      BY GivenItem, Zenon
    <3> QED BY <3>1, <3>2, <1>7, Zenon
  <2> QED BY <2>1, Zenon
<1> QED BY <1>6, <1>8, Zenon

LEMMA GivesItem ==
  ASSUME ScanConstants, PosInv, disk' = disk, NEW d \in Dev, pos[d].item > 0,
         GoOn(d, pos[d].block, pos[d].item + 1),
         NEW it, it = BlockRead(d).items[pos[d].item]
  PROVE  /\ it.kind \in Kinds \ {"eb"}
         /\ Given(it.kind)' = Given(it.kind) \cup {ItemRecord(BlockRead(d), it)}
         /\ \A kind \in Kinds \ {it.kind} : Given(kind)' = Given(kind)
         /\ PosInv'
<1> DEFINE n == pos[d].block
           k == pos[d].item
<1>1. /\ n \in Nat /\ k \in Nat \ {0} /\ n \in 1 .. Len(disk[d]) + 1 /\ n <= Len(disk[d])
      /\ Wanted(disk[d][n]) /\ k <= Len(disk[d][n].items)
  <2>1. n \in Nat /\ k \in Nat /\ n \in 1 .. Len(disk[d]) + 1
    BY Zenon DEF PosInv
  <2>2. n <= Len(disk[d]) /\ Wanted(disk[d][n]) /\ k <= Len(disk[d][n].items)
    BY Zenon DEF PosInv
  <2>3. k # 0
    BY <2>1
  <2> QED BY <2>1, <2>2, <2>3, Zenon
<1>2. \A e \in Dev : /\ DOMAIN disk[e] = 1 .. Len(disk[e]) /\ Len(disk[e]) \in Nat
                     /\ \A i \in DOMAIN disk[e] : IsList(disk[e][i].items) /\ IsBlock(disk[e][i])
  BY Zenon DEF PosInv, ScanConstants, IsBlock, IsList
<1>3. /\ \A e \in Dev \ {d} : pos'[e] = pos[e]
      /\ \A i \in Nat : BlockDone(d, i)' <=> i <= n
      /\ \A i \in DOMAIN disk[d] : \A j \in DOMAIN disk[d][i].items : Wanted(disk[d][i]) =>
           (ItemDone(d, i, j)' <=> i < n \/ (i = n /\ j < k + 1))
      /\ PosInv'
  <2>1. k + 1 \in Nat \ {0}
    BY <1>1
  <2> QED BY <1>1, <2>1, Moved, Zenon
<1>4. n \in DOMAIN disk[d] /\ k \in DOMAIN disk[d][n].items
  <2>1. n \in DOMAIN disk[d]
    BY <1>1, <1>2
  <2>2. IsList(disk[d][n].items)
    BY <2>1, <1>2, Zenon
  <2> QED BY <2>1, <2>2, <1>1 DEF IsList
<1>5. it = disk[d][n].items[k] /\ it.kind \in {"chunk", "bg", "devext"}
  <2>1. it = disk[d][n].items[k]
    BY Zenon DEF BlockRead
  <2> QED BY <2>1, <1>4, <1>2, Zenon DEF IsBlock, IsItem
<1>6. it.kind \in Kinds \ {"eb"}
  BY <1>5 DEF Kinds
<1>7. ASSUME NEW e \in Dev, NEW i \in DOMAIN disk[e]
      PROVE  BlockDone(e, i)' <=> BlockDone(e, i)
  <2>1. CASE e # d
    BY <2>1, <1>3, Zenon DEF BlockDone
  <2>2. CASE e = d
    <3>1. i \in Nat
      BY <1>2
    <3>2. BlockDone(d, i)' <=> i <= n
      BY <3>1, <1>3, Zenon
    <3>3. BlockDone(d, i) <=> i < n \/ i = n
      BY Zenon DEF BlockDone
    <3> QED BY <3>1, <3>2, <3>3, <2>2, <1>1
  <2> QED BY <2>1, <2>2
<1>8. Given("eb")' = Given("eb")
  <2>1. ASSUME NEW r
        PROVE  r \in Given("eb")' <=> r \in Given("eb")
    BY <1>7, GivenBlock, GivenNext, Zenon
  <2> QED BY <2>1, Zenon
<1>9. ASSUME NEW kind \in Kinds \ {"eb"}, NEW e \in Dev, NEW i \in DOMAIN disk[e]
      PROVE  \A j : j \in ItemsOf(e, i, kind)' <=>
                      j \in ItemsOf(e, i, kind) \/ (e = d /\ i = n /\ j = k /\ kind = it.kind)
  <2>1. ASSUME NEW j \in DOMAIN disk[e][i].items, Wanted(disk[e][i])
        PROVE  ItemDone(e, i, j)' <=> ItemDone(e, i, j) \/ (e = d /\ i = n /\ j = k)
    <3>1. CASE e # d
      BY <3>1, <1>3, Zenon DEF ItemDone
    <3>2. CASE e = d
      <4>1. i \in Nat /\ j \in Nat \ {0}
        BY <1>2 DEF IsList
      <4>2. ItemDone(d, i, j)' <=> i < n \/ (i = n /\ j < k + 1)
        BY <3>2, <2>1, <1>3, Zenon
      <4>3. ItemDone(d, i, j) <=> i < n \/ (i = n /\ j < k)
        BY Zenon DEF ItemDone
      <4>4. j < k + 1 <=> j < k \/ j = k
        BY <4>1, <1>1
      <4> QED BY <4>2, <4>3, <4>4, <3>2, Zenon
    <3> QED BY <3>1, <3>2
  <2>2. ItemsOf(e, i, kind)' = {j \in DOMAIN disk[e][i].items :
                                  /\ ItemDone(e, i, j)' /\ Wanted(disk[e][i])
                                  /\ disk[e][i].items[j].kind = kind}
    BY Zenon DEF ItemsOf, Wanted
  <2>3. Wanted(disk[d][n]) /\ k \in DOMAIN disk[d][n].items /\ it = disk[d][n].items[k]
    BY <1>1, <1>4, <1>5, Zenon
  <2> QED BY <2>1, <2>2, <2>3, Zenon DEF ItemsOf
<1>10. ASSUME NEW kind \in Kinds \ {"eb"}, kind # it.kind
       PROVE  Given(kind)' = Given(kind)
  <2>1. ASSUME NEW r
        PROVE  r \in Given(kind)' <=> r \in Given(kind)
    <3>1. r \in Given(kind)' <=>
            \E e \in Dev : \E i \in DOMAIN disk[e] : \E j \in ItemsOf(e, i, kind)' :
              r = ItemRecord(disk[e][i], disk[e][i].items[j])
      BY GivenNext, Zenon
    <3>2. r \in Given(kind) <=>
            \E e \in Dev : \E i \in DOMAIN disk[e] : \E j \in ItemsOf(e, i, kind) :
              r = ItemRecord(disk[e][i], disk[e][i].items[j])
      BY GivenItem, Zenon
    <3> QED BY <3>1, <3>2, <1>9, <1>10, Zenon
  <2> QED BY <2>1, Zenon
<1>11. Given(it.kind)' = Given(it.kind) \cup {ItemRecord(BlockRead(d), it)}
  <2>0. PICK kind \in Kinds \ {"eb"} : kind = it.kind
    BY <1>6, Zenon
  <2>1. ASSUME NEW r
        PROVE  r \in Given(kind)' <=> r \in Given(kind) \/ r = ItemRecord(disk[d][n], it)
    <3>1. r \in Given(kind)' <=>
            \E e \in Dev : \E i \in DOMAIN disk[e] : \E j \in ItemsOf(e, i, kind)' :
              r = ItemRecord(disk[e][i], disk[e][i].items[j])
      BY GivenNext, Zenon
    <3>2. r \in Given(kind) <=>
            \E e \in Dev : \E i \in DOMAIN disk[e] : \E j \in ItemsOf(e, i, kind) :
              r = ItemRecord(disk[e][i], disk[e][i].items[j])
      BY GivenItem, Zenon
    <3>3. \A e \in Dev : \A i \in DOMAIN disk[e] : \A j :
            j \in ItemsOf(e, i, kind)' <=>
              j \in ItemsOf(e, i, kind) \/ (e = d /\ i = n /\ j = k)
      BY <1>9, <2>0, Zenon
    <3> QED BY <3>1, <3>2, <3>3, <1>4, <1>5, Zenon
  <2> QED BY <2>0, <2>1, Zenon DEF BlockRead
<1> QED BY <1>3, <1>6, <1>8, <1>10, <1>11, Zenon

---------------------------------------------------------------------------
(* The steps.                                                              *)

LEMMA QuietStep ==
  ASSUME ScanInv, UNCHANGED <<disk, cache, pos>>, ThreadInv',
         \A d \in Dev : thread[d] = "err" => thread'[d] = "err"
  PROVE  ScanInv'
<1>1. disk' = disk /\ cache' = cache /\ pos' = pos
  OBVIOUS
<1>2. PosInv'
  BY <1>1, Zenon DEF ScanInv, PosInv, Wanted
<1>3. \A kind \in Kinds : Given(kind)' = Given(kind)
  BY <1>1, UnmovedGiven, Zenon
<1>4. CacheInv'
  <2>1. cache' = [kind \in Kinds |-> cache'[kind]]
    BY <1>1, Zenon DEF ScanInv, CacheInv
  <2>2. \A kind \in Kinds : Cached(cache'[kind], Given(kind)')
    BY <1>1, <1>3, Zenon DEF ScanInv, CacheInv
  <2>3. (\A d \in Dev : thread'[d] # "err") =>
          \A kind \in Kinds : Complete(cache'[kind], Given(kind)')
    BY <1>1, <1>3, Zenon DEF ScanInv, CacheInv
  <2> QED BY <2>1, <2>2, <2>3, Zenon DEF CacheInv, Cached, Complete, Standing, Full, Places
<1> QED BY <1>2, <1>4, Zenon DEF ScanInv

LEMMA RecordedStep ==
  ASSUME ScanConstants, ScanInv, NEW d \in Dev, Running(d), NEW kind \in Kinds, NEW x, IsRecord(x),
         NEW out \in Process(cache[kind], x), NEW item, Recorded(d, kind, out, item),
         out.ret = "ok" => /\ PosInv' /\ Given(kind)' = Given(kind) \cup {x}
                           /\ \A k \in Kinds \ {kind} : Given(k)' = Given(k)
  PROVE  ScanInv'
<1>1. /\ cache' = [cache EXCEPT ![kind] = out.S] /\ disk' = disk /\ main' = main /\ joined' = joined
  BY DEF Recorded
<1>2. /\ cache = [k \in Kinds |-> cache[k]]
      /\ \A k \in Kinds : Cached(cache[k], Given(k))
      /\ (\A e \in Dev : thread[e] # "err") => \A k \in Kinds : Complete(cache[k], Given(k))
  BY Zenon DEF ScanInv, CacheInv
<1>3. /\ cache' = [k \in Kinds |-> cache'[k]]
      /\ cache'[kind] = out.S /\ \A k \in Kinds \ {kind} : cache'[k] = cache[k]
  BY <1>1, <1>2
<1>4. \A g \in Given(kind) : IsRecord(g)
  BY GivenRecords, Zenon DEF ScanInv
<1>5. Cached(out.S, Given(kind) \cup {x}) /\ (out.ret # "ok" => Cached(out.S, Given(kind)))
  BY <1>2, <1>4, CachedProcess, Zenon
<1>6. /\ thread \in [Dev -> {"none", "new", "run", "ok", "err", "gone"}] /\ thread[d] = "run"
      /\ \A e \in Dev : thread[e] = "ok" => pos[e].item = 0
      /\ joined \subseteq Dev /\ \A e \in joined : thread[e] = "ok"
      /\ main = "scanned" => joined = Dev
  BY Zenon DEF ScanInv, ThreadInv, Running
<1>7. CASE out.ret = "ok"
  <2>1. /\ PosInv' /\ Given(kind)' = Given(kind) \cup {x}
        /\ \A k \in Kinds \ {kind} : Given(k)' = Given(k)
    BY <1>7, Zenon
  <2>2. thread' = thread /\ GoOn(d, pos[d].block, item)
    BY <1>7, Zenon DEF Recorded
  <2>3. \A e \in Dev \ {d} : pos'[e] = pos[e]
    <3>1. pos \in [Dev -> [block : Nat, item : Nat]]
      BY Zenon DEF ScanInv, PosInv
    <3>2. \E q : pos' = [pos EXCEPT ![d] = q]
      BY <2>2, Zenon DEF GoOn
    <3> QED BY <3>1, <3>2
  <2>4. ThreadInv'
    <3>1. \A e \in Dev : thread'[e] = "ok" => pos'[e].item = 0
      <4>1. thread'[d] # "ok"
        BY <2>2, <1>6
      <4> QED BY <4>1, <2>2, <2>3, <1>6, Zenon
    <3> QED BY <3>1, <2>2, <1>1, <1>6, Zenon DEF ThreadInv
  <2>5. \A k \in Kinds : Cached(cache'[k], Given(k)')
    BY <2>1, <1>2, <1>3, <1>5, Zenon
  <2>6. ASSUME \A e \in Dev : thread'[e] # "err"
        PROVE  \A k \in Kinds : Complete(cache'[k], Given(k)')
    <3>1. \A k \in Kinds : Complete(cache[k], Given(k))
      BY <2>2, <2>6, <1>2, Zenon
    <3>2. Complete(out.S, Given(kind) \cup {x})
      BY <3>1, <1>2, <1>4, <1>7, CompleteProcess, Zenon
    <3> QED BY <3>1, <3>2, <2>1, <1>3, Zenon
  <2>7. CacheInv'
    BY <2>5, <2>6, <1>3, Zenon DEF CacheInv, Cached, Complete, Standing, Full, Places
  <2> QED BY <2>1, <2>4, <2>7, Zenon DEF ScanInv
<1>8. CASE out.ret # "ok"
  <2>1. thread' = [thread EXCEPT ![d] = "err"] /\ pos' = pos
    BY <1>8, Zenon DEF Recorded, End
  <2>2. thread'[d] = "err" /\ \A e \in Dev \ {d} : thread'[e] = thread[e]
    BY <2>1, <1>6
  <2>3. ThreadInv'
    <3>1. thread' \in [Dev -> {"none", "new", "run", "ok", "err", "gone"}]
      BY <2>1, <1>6
    <3>2. d \notin joined
      BY <1>6
    <3>3. \A e \in Dev : thread'[e] = "ok" => thread[e] = "ok"
      BY <2>2
    <3>4. \A e \in joined : thread'[e] = "ok"
      BY <3>2, <2>2, <1>6, Zenon
    <3> QED BY <3>1, <3>3, <3>4, <2>1, <1>1, <1>6, Zenon DEF ThreadInv
  <2>4. \A k \in Kinds : Given(k)' = Given(k)
    BY <2>1, <1>1, UnmovedGiven, Zenon
  <2>5. PosInv'
    BY <2>1, <1>1, Zenon DEF ScanInv, PosInv, Wanted
  <2>6. \A k \in Kinds : Cached(cache'[k], Given(k)')
    BY <2>4, <1>2, <1>3, <1>5, <1>8, Zenon
  <2>7. CacheInv'
    BY <2>2, <2>6, <1>3, Zenon DEF CacheInv, Cached, Complete, Standing, Full, Places
  <2> QED BY <2>3, <2>5, <2>7, Zenon DEF ScanInv
<1> QED BY <1>7, <1>8

LEMMA BlockStep ==
  ASSUME ScanConstants, ScanInv, NEW d \in Dev, process_extent_buffer(d)
  PROVE  ScanInv'
<1>1. AtBlock(d) /\ Running(d) /\ PosInv /\ "eb" \in Kinds
  BY Zenon DEF process_extent_buffer, AtBlock, ScanInv, Kinds
<1>2. PICK x : x = BlockRecord(d, BlockRead(d))
  OBVIOUS
<1>3. PICK out \in Process(cache["eb"], x) : Recorded(d, "eb", out, 1)
  BY <1>2 DEF process_extent_buffer
<1>4. pos[d].block \in Nat /\ pos[d].block \in DOMAIN disk[d] /\ pos[d].block <= Len(disk[d])
  <2>1. pos[d].block \in 1 .. Len(disk[d]) + 1 /\ IsList(disk[d]) /\ pos[d].block <= Len(disk[d])
    BY <1>1, Zenon DEF PosInv, ScanConstants, AtBlock
  <2> QED BY <2>1 DEF IsList
<1>5. IsRecord(x)
  <2>1. IsBlock(BlockRead(d))
    BY <1>1, <1>4, Zenon DEF PosInv, ScanConstants, BlockRead
  <2>2. BlockRead(d).start \in Nat /\ BlockRead(d).gen \in Nat /\ 1 \in Nat
    BY <2>1 DEF IsBlock
  <2> QED BY <2>2, <1>2, RecordIs, Zenon DEF BlockRecord
<1>6. ASSUME out.ret = "ok"
      PROVE  /\ PosInv' /\ Given("eb")' = Given("eb") \cup {x}
             /\ \A k \in Kinds \ {"eb"} : Given(k)' = Given(k)
  <2>1. disk' = disk /\ GoOn(d, pos[d].block, 1)
    BY <1>3, <1>6 DEF Recorded
  <2>2. 1 \in Nat \ {0}
    OBVIOUS
  <2>3. PosInv'
    BY <2>1, <2>2, <1>1, <1>4, Moved, Zenon
  <2> QED BY <2>1, <2>3, <1>1, <1>2, GivesBlock, Zenon
<1> QED BY <1>1, <1>3, <1>5, <1>6, RecordedStep, Zenon

LEMMA ItemStep ==
  ASSUME ScanConstants, ScanInv, NEW d \in Dev, extract_metadata_record(d)
  PROVE  ScanInv'
<1>1. Running(d) /\ pos[d].item > 0 /\ PosInv
  BY Zenon DEF extract_metadata_record, ScanInv
<1>2. PICK it : it = BlockRead(d).items[pos[d].item]
  OBVIOUS
<1>3. PICK kind : kind = it.kind
  OBVIOUS
<1>4. PICK x : x = ItemRecord(BlockRead(d), it)
  OBVIOUS
<1>5. PICK item : item = pos[d].item + 1
  OBVIOUS
<1>6. PICK out \in Process(cache[kind], x) : Recorded(d, kind, out, item)
  BY <1>2, <1>3, <1>4, <1>5, Zenon DEF extract_metadata_record
<1>7. IsBlock(BlockRead(d)) /\ IsItem(it)
  <2>1. /\ pos[d].block \in 1 .. Len(disk[d]) + 1 /\ IsList(disk[d]) /\ pos[d].block <= Len(disk[d])
        /\ pos[d].item \in Nat /\ pos[d].item <= Len(BlockRead(d).items)
    BY <1>1, Zenon DEF PosInv, ScanConstants, BlockRead
  <2>2. pos[d].block \in DOMAIN disk[d]
    BY <2>1 DEF IsList
  <2>3. IsBlock(BlockRead(d))
    BY <2>2, <1>1, Zenon DEF PosInv, ScanConstants, BlockRead
  <2>4. pos[d].item \in DOMAIN BlockRead(d).items
    BY <2>1, <2>3, <1>1 DEF IsBlock, IsList
  <2> QED BY <2>3, <2>4, <1>2, Zenon DEF IsBlock
<1>8. kind \in Kinds
  BY <1>7, <1>3 DEF IsItem, Kinds
<1>9. IsRecord(x)
  BY <1>7, <1>4, RecordIs, Zenon DEF ItemRecord, IsBlock, IsItem
<1>10. ASSUME out.ret = "ok"
       PROVE  /\ PosInv' /\ Given(kind)' = Given(kind) \cup {x}
              /\ \A k \in Kinds \ {kind} : Given(k)' = Given(k)
  <2>1. disk' = disk /\ GoOn(d, pos[d].block, pos[d].item + 1)
    BY <1>5, <1>6, <1>10 DEF Recorded
  <2> QED BY <2>1, <1>1, <1>2, <1>3, <1>4, GivesItem, Zenon
<1> QED BY <1>1, <1>6, <1>8, <1>9, <1>10, RecordedStep, Zenon

(* The thread of d ends, starts or is cancelled, and records nothing.      *)
LEMMA ThreadStep ==
  ASSUME ScanInv, NEW d \in Dev, NEW how \in {"new", "run", "ok", "err", "gone"},
         thread[d] \notin {"ok", "err"}, how = "ok" => pos[d].item = 0,
         thread' = [thread EXCEPT ![d] = how], UNCHANGED <<disk, cache, pos, joined>>,
         main' # "scanned" \/ main' = main
  PROVE  ScanInv'
<1>1. /\ thread \in [Dev -> {"none", "new", "run", "ok", "err", "gone"}]
      /\ \A e \in Dev : thread[e] = "ok" => pos[e].item = 0
      /\ joined \subseteq Dev /\ \A e \in joined : thread[e] = "ok"
      /\ main = "scanned" => joined = Dev
  BY Zenon DEF ScanInv, ThreadInv
<1>2. thread'[d] = how /\ \A e \in Dev \ {d} : thread'[e] = thread[e]
  BY <1>1
<1>3. thread' \in [Dev -> {"none", "new", "run", "ok", "err", "gone"}]
  BY <1>1
<1>4. \A e \in Dev : thread'[e] = "ok" => pos'[e].item = 0
  BY <1>1, <1>2, Zenon
<1>5. d \notin joined
  BY <1>1
<1>6. joined' \subseteq Dev /\ (\A e \in joined' : thread'[e] = "ok") /\ (main' = "scanned" => joined' = Dev)
  BY <1>1, <1>2, <1>5, Zenon
<1>7. ThreadInv'
  BY <1>3, <1>4, <1>6, Zenon DEF ThreadInv
<1>8. \A e \in Dev : thread[e] = "err" => thread'[e] = "err"
  BY <1>2
<1> QED BY <1>7, <1>8, QuietStep, Zenon

(* scan_devices goes on, or fails; the threads stay as they are.           *)
LEMMA MainStep ==
  ASSUME ScanInv, UNCHANGED <<disk, cache, pos, thread>>,
         joined' \subseteq Dev, \A e \in joined' : thread[e] = "ok",
         main' = "scanned" => joined' = Dev
  PROVE  ScanInv'
<1>1. ThreadInv'
  BY Zenon DEF ScanInv, ThreadInv
<1> QED BY <1>1, QuietStep, Zenon

LEMMA ScanStep ==
  ASSUME ScanConstants, ScanInv, [Next]_vars
  PROVE  ScanInv'
<1>0. /\ joined \subseteq Dev /\ (\A e \in joined : thread[e] = "ok")
      /\ main = "scanned" => joined = Dev
  BY Zenon DEF ScanInv, ThreadInv
<1>1. CASE OpenDevices
  <2>1. main' # "scanned"
    BY <1>1 DEF OpenDevices, Fail
  <2> QED BY <2>1, <1>0, <1>1, MainStep, Zenon DEF OpenDevices
<1>2. ASSUME NEW d \in Dev, CreateThread(d)
      PROVE  ScanInv'
  <2>1. main' # "scanned"
    BY <1>2 DEF CreateThread, Fail
  <2>2. CASE UNCHANGED thread
    BY <2>1, <2>2, <1>0, <1>2, MainStep, Zenon DEF CreateThread
  <2>3. CASE thread' = [thread EXCEPT ![d] = "new"]
    <3>1. "new" \in {"new", "run", "ok", "err", "gone"} /\ "new" # "ok" /\ thread[d] \notin {"ok", "err"}
      BY <1>2 DEF CreateThread
    <3> QED BY <3>1, <2>1, <2>3, <1>2, ThreadStep, Zenon DEF CreateThread
  <2> QED BY <2>2, <2>3, <1>2, Zenon DEF CreateThread
<1>3. ASSUME NEW d \in Dev, StartThread(d)
      PROVE  ScanInv'
  <2>1. PICK how \in {"run", "err"} : thread' = [thread EXCEPT ![d] = how]
    BY <1>3 DEF StartThread, End
  <2>2. how \in {"new", "run", "ok", "err", "gone"} /\ how # "ok" /\ thread[d] \notin {"ok", "err"}
    BY <1>3, <2>1 DEF StartThread
  <2> QED BY <2>1, <2>2, <1>3, ThreadStep, Zenon DEF StartThread
<1>4. ASSUME NEW d \in Dev, EndOfDevice(d)
      PROVE  ScanInv'
  <2>1. "ok" \in {"new", "run", "ok", "err", "gone"} /\ thread[d] \notin {"ok", "err"}
    BY <1>4 DEF EndOfDevice, Running
  <2> QED BY <2>1, <1>4, ThreadStep, Zenon DEF EndOfDevice, End
<1>5. ASSUME NEW d \in Dev, Cancelled(d)
      PROVE  ScanInv'
  <2>1. "gone" \in {"new", "run", "ok", "err", "gone"} /\ "gone" # "ok" /\ thread[d] \notin {"ok", "err"}
    BY <1>5 DEF Cancelled
  <2> QED BY <2>1, <1>5, ThreadStep, Zenon DEF Cancelled, End
<1>6. ASSUME NEW d \in Dev, JoinThread(d)
      PROVE  ScanInv'
  <2>1. CASE thread[d] = "ok" /\ joined' = joined \cup {d}
    <3>1. joined' \subseteq Dev /\ \A e \in joined' : thread[e] = "ok"
      BY <2>1, <1>0
    <3>2. main' = "scanned" => joined' = Dev
      BY <2>1, <1>6 DEF JoinThread, Fail
    <3> QED BY <3>1, <3>2, <1>6, MainStep, Zenon DEF JoinThread
  <2>2. CASE Fail /\ joined' = joined
    <3>1. main' # "scanned"
      BY <2>2 DEF Fail
    <3> QED BY <3>1, <2>2, <1>0, <1>6, MainStep, Zenon DEF JoinThread
  <2> QED BY <2>1, <2>2, <1>6, Zenon DEF JoinThread
<1>7. CASE UNCHANGED vars
  BY <1>7, <1>0, MainStep, Zenon DEF vars
<1>8. CASE Next
  BY <1>8, <1>1, <1>2, <1>3, <1>4, <1>5, <1>6, BlockStep, ItemStep, Zenon DEF Next
<1> QED BY <1>7, <1>8, Zenon

---------------------------------------------------------------------------
(* The theorems.                                                           *)

LEMMA ScanInit ==
  ASSUME ScanConstants, Init
  PROVE  ScanInv
<1>1. PICK f \in Disks : Start(f)
  BY Zenon DEF Init
<1>2. disk = f /\ pos = [d \in Dev |-> [block |-> 1, item |-> 0]]
  BY <1>1 DEF Start
<1>3. \A d \in Dev : pos[d].block = 1 /\ pos[d].item = 0
  BY <1>2
<1>4. PosInv
  <2>1. \A d \in Dev : Len(disk[d]) \in Nat
    BY <1>2, Zenon DEF ScanConstants, IsList
  <2>2. \A d \in Dev : pos[d].block \in 1 .. Len(disk[d]) + 1
    BY <2>1, <1>3
  <2>3. pos \in [Dev -> [block : Nat, item : Nat]]
    BY <1>2
  <2>4. \A d \in Dev : ~(pos[d].item > 0)
    BY <1>3
  <2> QED BY <2>2, <2>3, <2>4, <1>2, Zenon DEF PosInv
<1>5. ThreadInv
  <2>1. /\ thread = [d \in Dev |-> "none"] /\ main = "open" /\ joined = {}
    BY <1>1 DEF Start
  <2>2. thread \in [Dev -> {"none", "new", "run", "ok", "err", "gone"}] /\ \A d \in Dev : thread[d] # "ok"
    BY <2>1
  <2>3. main # "scanned"
    BY <2>1
  <2> QED BY <2>1, <2>2, <2>3 DEF ThreadInv
<1>6. \A kind \in Kinds : Given(kind) = {}
  <2>1. ASSUME NEW d \in Dev, NEW i \in DOMAIN disk[d]
        PROVE  /\ ~BlockDone(d, i)
               /\ \A j \in DOMAIN disk[d][i].items : ~ItemDone(d, i, j)
    <3>1. /\ DOMAIN disk[d] = 1 .. Len(disk[d]) /\ Len(disk[d]) \in Nat
          /\ IsList(disk[d][i].items)
      BY <1>2, Zenon DEF ScanConstants, IsBlock, IsList
    <3>2. i \in Nat /\ i >= 1
      BY <3>1
    <3>3. \A j \in DOMAIN disk[d][i].items : j \in Nat
      BY <3>1 DEF IsList
    <3> QED BY <3>2, <3>3, <1>3 DEF BlockDone, ItemDone
  <2>2. ASSUME NEW kind \in Kinds, NEW r \in Given(kind)
        PROVE  FALSE
    <3>1. CASE kind = "eb"
      BY <3>1, <2>1, <2>2, GivenBlock, Zenon
    <3>2. CASE kind # "eb"
      BY <3>2, <2>1, <2>2, GivenItem, Zenon DEF ItemsOf
    <3> QED BY <3>1, <3>2
  <2> QED BY <2>2, Zenon
<1>7. CacheInv
  <2>1. cache = [kind \in Kinds |-> {}]
    BY <1>1 DEF Start, Kinds
  <2>2. cache = [kind \in Kinds |-> cache[kind]] /\ \A kind \in Kinds : cache[kind] = {}
    BY <2>1
  <2>3. Cached({}, {}) /\ Complete({}, {})
    BY Zenon DEF Cached, Complete
  <2> QED BY <2>2, <2>3, <1>6, Zenon DEF CacheInv
<1> QED BY <1>4, <1>5, <1>7, Zenon DEF ScanInv

(***************************************************************************)
(* In every behaviour, each cache holds records that were found on the     *)
(* devices, no two of which overlap; and until process_extent_buffer or    *)
(* one of the process_*_item functions has failed, it holds every record   *)
(* that nothing found so far contradicts.                                  *)
(***************************************************************************)
THEOREM ScanInvariance ==
  ASSUME ScanConstants
  PROVE  Spec => []ScanInv
<1>1. Init => ScanInv
  BY ScanInit
<1>2. ScanInv /\ [Next]_vars => ScanInv'
  BY ScanStep
<1> QED BY <1>1, <1>2, PTL DEF Spec

(* When the threads have ended, all that they read was given to a cache.   *)
LEMMA OfferedIsGiven ==
  ASSUME ScanConstants, PosInv, \A d \in Dev : pos[d].item = 0, NEW kind \in Kinds
  PROVE  Offered[kind] = Given(kind)
<1>1. ASSUME NEW d \in Dev
      PROVE  /\ IsList(disk[d]) /\ pos[d].block \in Nat /\ pos[d].block <= Len(disk[d]) + 1
             /\ \A i \in DOMAIN disk[d] : IsList(disk[d][i].items)
  <2>1. /\ IsList(disk[d]) /\ pos[d].block \in 1 .. Len(disk[d]) + 1
        /\ \A i \in DOMAIN disk[d] : IsList(disk[d][i].items)
    BY <1>1, Zenon DEF PosInv, ScanConstants, IsBlock
  <2> QED BY <2>1 DEF IsList
<1>2. ASSUME NEW d \in Dev, NEW i
      PROVE  i \in 1 .. pos[d].block - 1 <=> i \in DOMAIN disk[d] /\ BlockDone(d, i)
  BY <1>1 DEF IsList, BlockDone
<1>3. ASSUME NEW d \in Dev, NEW i \in DOMAIN disk[d], NEW j \in DOMAIN disk[d][i].items
      PROVE  ItemDone(d, i, j) <=> BlockDone(d, i)
  <2>1. j \in Nat /\ j >= 1 /\ i \in Nat
    BY <1>1 DEF IsList
  <2> QED BY <2>1, <1>1 DEF ItemDone, BlockDone
<1>4. ASSUME NEW y
      PROVE  y \in BlocksRead <=>
               \E d \in Dev : \E i \in DOMAIN disk[d] : BlockDone(d, i) /\ y = <<d, disk[d][i]>>
  <2>1. y \in BlocksRead <=> \E d \in Dev : \E i \in 1 .. pos[d].block - 1 : y = <<d, disk[d][i]>>
    BY DEF BlocksRead
  <2> QED BY <2>1, <1>2, Zenon
<1>5. \A y \in BlocksRead :
        \E d \in Dev : \E i \in DOMAIN disk[d] : BlockDone(d, i) /\ y[1] = d /\ y[2] = disk[d][i]
  BY <1>4
<1>6. ASSUME NEW d \in Dev, NEW i \in DOMAIN disk[d], BlockDone(d, i)
      PROVE  \E y \in BlocksRead : y[1] = d /\ y[2] = disk[d][i]
  <2>1. PICK y : y = <<d, disk[d][i]>>
    OBVIOUS
  <2>2. y[1] = d /\ y[2] = disk[d][i]
    BY <2>1
  <2> QED BY <2>1, <2>2, <1>6, <1>4, Zenon
<1>7. CASE kind = "eb"
  <2>1. Offered[kind] = {BlockRecord(y[1], y[2]) : y \in BlocksRead}
    BY <1>7 DEF Offered
  <2>2. ASSUME NEW r \in Offered[kind]
        PROVE  r \in Given(kind)
    <3>1. PICK y \in BlocksRead : r = BlockRecord(y[1], y[2])
      BY <2>1, Zenon
    <3>0. PICK d \in Dev : \E i \in DOMAIN disk[d] : BlockDone(d, i) /\ y[1] = d /\ y[2] = disk[d][i]
      BY <1>5, Zenon
    <3>2. PICK i \in DOMAIN disk[d] : BlockDone(d, i) /\ y[1] = d /\ y[2] = disk[d][i]
      BY <3>0, Zenon
    <3>3. r = BlockRecord(d, disk[d][i])
      BY <3>1, <3>2, Zenon
    <3> QED BY <3>2, <3>3, <1>7, GivenBlock, Zenon
  <2>3. ASSUME NEW r \in Given(kind)
        PROVE  r \in Offered[kind]
    <3>0. PICK d \in Dev : \E i \in DOMAIN disk[d] : BlockDone(d, i) /\ r = BlockRecord(d, disk[d][i])
      BY <2>3, <1>7, GivenBlock, Zenon
    <3>1. PICK i \in DOMAIN disk[d] : BlockDone(d, i) /\ r = BlockRecord(d, disk[d][i])
      BY <3>0, Zenon
    <3>2. PICK y \in BlocksRead : y[1] = d /\ y[2] = disk[d][i]
      BY <3>1, <1>6, Zenon
    <3>3. r = BlockRecord(y[1], y[2])
      BY <3>1, <3>2, Zenon
    <3> QED BY <3>3, <2>1, Zenon
  <2> QED BY <2>2, <2>3, Zenon
<1>8. CASE kind # "eb"
  <2> DEFINE At(b) == {j \in DOMAIN b.items : Wanted(b) /\ b.items[j].kind = kind}
  <2>1. ASSUME NEW r
        PROVE  r \in Offered[kind] <=>
                 \E y \in BlocksRead : \E j \in At(y[2]) : r = ItemRecord(y[2], y[2].items[j])
    <3>1. Offered[kind] = UNION {{ItemRecord(y[2], y[2].items[j]) : j \in At(y[2])} : y \in BlocksRead}
      BY <1>8 DEF Offered, Kinds
    <3> QED BY <3>1
  <2>2. ASSUME NEW d \in Dev, NEW i \in DOMAIN disk[d], NEW j
        PROVE  j \in ItemsOf(d, i, kind) <=> BlockDone(d, i) /\ j \in At(disk[d][i])
    BY <1>3, Zenon DEF ItemsOf
  <2> HIDE DEF At
  <2>3. ASSUME NEW r \in Offered[kind]
        PROVE  r \in Given(kind)
    <3>1. PICK y \in BlocksRead : \E j \in At(y[2]) : r = ItemRecord(y[2], y[2].items[j])
      BY <2>1, Zenon
    <3>0. PICK d \in Dev : \E i \in DOMAIN disk[d] : BlockDone(d, i) /\ y[1] = d /\ y[2] = disk[d][i]
      BY <1>5, Zenon
    <3>2. PICK i \in DOMAIN disk[d] : BlockDone(d, i) /\ y[1] = d /\ y[2] = disk[d][i]
      BY <3>0, Zenon
    <3>3. PICK j \in At(disk[d][i]) : r = ItemRecord(disk[d][i], disk[d][i].items[j])
      BY <3>1, <3>2, Zenon
    <3>4. j \in ItemsOf(d, i, kind)
      BY <3>2, <2>2, Zenon
    <3> QED BY <3>3, <3>4, <1>8, GivenItem, Zenon
  <2>4. ASSUME NEW r \in Given(kind)
        PROVE  r \in Offered[kind]
    <3>a. PICK d \in Dev : \E i \in DOMAIN disk[d] : \E j \in ItemsOf(d, i, kind) :
            r = ItemRecord(disk[d][i], disk[d][i].items[j])
      BY <2>4, <1>8, GivenItem, Zenon
    <3>0. PICK i \in DOMAIN disk[d] : \E j \in ItemsOf(d, i, kind) :
            r = ItemRecord(disk[d][i], disk[d][i].items[j])
      BY <3>a, Zenon
    <3>1. PICK j \in ItemsOf(d, i, kind) : r = ItemRecord(disk[d][i], disk[d][i].items[j])
      BY <3>0, Zenon
    <3>2. BlockDone(d, i) /\ j \in At(disk[d][i])
      BY <2>2, Zenon
    <3>3. PICK y \in BlocksRead : y[1] = d /\ y[2] = disk[d][i]
      BY <3>2, <1>6, Zenon
    <3>4. j \in At(y[2]) /\ r = ItemRecord(y[2], y[2].items[j])
      BY <3>1, <3>2, <3>3, Zenon
    <3> QED BY <3>4, <2>1, Zenon
  <2> QED BY <2>3, <2>4, Zenon
<1> QED BY <1>7, <1>8

(***************************************************************************)
(* For any devices and whatever lies on them, when all threads of          *)
(* scan_devices have ended well, a record that nothing as new contradicts  *)
(* is in its cache, and a tree block with all the places it was found at.  *)
(***************************************************************************)
THEOREM NewestAlwaysKept ==
  ASSUME ScanConstants
  PROVE  Spec => []NewestKept
<1>1. ScanInv => NewestKept
  <2> SUFFICES ASSUME ScanInv, main = "scanned", NEW kind \in Kinds, NEW r \in Offered[kind],
                      r.size > 0, \A o \in Offered[kind] : Overlap(o, r) => o.gen < r.gen \/ Same(o, r)
               PROVE  [r EXCEPT !.places = UNION {o.places : o \in {x \in Offered[kind] : Same(x, r)}}]
                        \in cache[kind]
    BY DEF NewestKept, Kinds
  <2>1. \A d \in Dev : thread[d] = "ok" /\ pos[d].item = 0
    BY Zenon DEF ScanInv, ThreadInv
  <2>2. \A d \in Dev : thread[d] # "err"
    BY <2>1
  <2>3. Complete(cache[kind], Given(kind))
    BY <2>2, Zenon DEF ScanInv, CacheInv
  <2>4. Offered[kind] = Given(kind)
    BY <2>1, OfferedIsGiven, Zenon DEF ScanInv
  <2>5. Standing(Offered[kind], r)
    BY Zenon DEF Standing
  <2>6. Full(Offered[kind], r) \in cache[kind]
    BY <2>3, <2>4, <2>5, Zenon DEF Complete
  <2> QED BY <2>6 DEF Full, Places
<1> QED BY <1>1, ScanInvariance, PTL
=============================================================================
