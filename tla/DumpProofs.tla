----------------------------- MODULE DumpProofs ------------------------------
(***************************************************************************)
(* Theorems about ImageDump: for any walk, any number of threads and any   *)
(* failures, the image btrfs-image writes can be read by the restoring     *)
(* side, and one it reports good holds everything the walk found.          *)
(***************************************************************************)
EXTENDS ImageDump, FiniteSetTheorems, WellFoundedInduction, TLAPS

---------------------------------------------------------------------------
(* The inductive invariant.                                                *)

Buffers == [start : Int, size : Nat, bufsize : Nat, state : {"raw", "ready", "garbage"}]
Clusters == [bytenr : Nat, at : Nat, items : Seq(Buffers)]

Adding == main \in {"walk", "writeAdd", "sleepAdd"}
Ending == main \in {"destroy", "join", "exit"}

DumpTypeOK ==
  /\ main \in {"walk", "writeAdd", "sleepAdd", "out", "writeEnd", "sleepEnd",
               "destroy", "join", "exit"}
  /\ next \in 1 .. Len(Extents) + 1
  /\ pending \in [start : Int, size : Nat, data : BOOLEAN]
  /\ ordered \in Seq(Buffers) /\ list \in Seq(Nat \ {0})
  /\ numItems \in Nat /\ numReady \in Nat
  /\ header \in Nat /\ fileLen \in Nat
  /\ worker \in [Worker -> {"run", "wait", "pack", "packed", "exit"}]
  /\ holds \in [Worker -> Nat]
  /\ file \in Seq(Clusters)

InFlight == {w \in Worker : holds[w] # 0}

(* What num_items and num_ready leave open is what waits in md->list or is *)
(* in the hands of a thread, and a buffer not yet compressed is one of     *)
(* those.                                                                  *)
CountInv ==
  /\ numItems = numReady + Len(list) + Cardinality(InFlight)
  /\ \A w \in Worker : worker[w] \in {"run", "wait"} => holds[w] = 0
  /\ \A w \in Worker : worker[w] \in {"pack", "packed"} => holds[w] # 0
  /\ Range(list) \subseteq DOMAIN ordered
  /\ \A w \in InFlight : holds[w] \in DOMAIN ordered
  /\ \A i \in DOMAIN ordered : ordered[i].state = "raw" =>
       i \in Range(list) \/ \E w \in Worker : holds[w] = i /\ worker[w] # "packed"

(* Among the first n - 1 extents there is one that starts at x; there is   *)
(* one that starts at x and after it one that starts at y.                 *)
Seen(n, x) == \E m \in 1 .. n - 1 : Extents[m].start = x
Older(n, x, y) ==
  \E m, k \in 1 .. n - 1 : m < k /\ Extents[m].start = x /\ Extents[k].start = y

OrderedInv ==
  \A i \in DOMAIN ordered :
    /\ Seen(next, ordered[i].start)
    /\ pending.size > 0 => Older(next, ordered[i].start, pending.start)
    /\ \A j \in DOMAIN ordered : i < j => Older(next, ordered[i].start, ordered[j].start)

FileInv ==
  \A k \in DOMAIN file : \A i \in DOMAIN file[k].items :
    /\ Seen(next, file[k].items[i].start)
    /\ pending.size > 0 => Older(next, file[k].items[i].start, pending.start)
    /\ \A j \in DOMAIN ordered : Older(next, file[k].items[i].start, ordered[j].start)
    /\ \A l \in DOMAIN file : \A j \in DOMAIN file[l].items : k < l \/ (k = l /\ i < j) =>
         Older(next, file[k].items[i].start, file[l].items[j].start)

(* The pending extent is behind the queued buffers, and these are behind   *)
(* the clusters in the image, in the order of the walk.                    *)
OrderInv ==
  /\ pending.size > 0 => Seen(next, pending.start)
  /\ OrderedInv
  /\ FileInv

(* Until something fails num_items counts the buffers, and header.bytenr   *)
(* is where the image ends, at the end of a block.                         *)
LayoutInv ==
  /\ error => lost # "no"
  /\ lost = "no" =>
       /\ numItems = Len(ordered) /\ numItems <= ItemsPerCluster
       /\ main \in {"walk", "out"} => numItems < ItemsPerCluster
       /\ ~Ending => header = fileLen /\ \E k \in 0 .. header : header = k * BlockSize
       /\ \A k \in DOMAIN file : /\ Len(file[k].items) <= ItemsPerCluster
                                 /\ file[k].bytenr = file[k].at

WrittenOut == \A k \in DOMAIN file : \A b \in Range(file[k].items) : b.state # "raw"

Span(b) == b.start .. b.start + b.size - 1
Walked(n) == UNION {Span(Extents[i]) : i \in 1 .. n - 1}

(* What the walk has found is in the image, queued or pending, unless an   *)
(* error was or will be met: one in copy_space_cache, or a worker that     *)
(* gave up, for whose buffer write_buffers waits in vain.                  *)
CompleteInv ==
  /\ Adding => ~err
  /\ main \in {"writeEnd", "sleepEnd"} => pending.size = 0
  /\ Ending /\ ~err => pending.size = 0 /\ ordered = <<>>
  /\ error /\ ~err => \E w \in Worker : worker[w] = "exit" /\ holds[w] # 0
  /\ ~err /\ ~error /\ lost # "cache" =>
       /\ ~Adding => next = Len(Extents) + 1
       /\ Written \cup Covered(ordered) \cup Span(pending) = Walked(next)

DumpInv == DumpTypeOK /\ CountInv /\ OrderInv /\ LayoutInv /\ WrittenOut /\ CompleteInv

---------------------------------------------------------------------------
(* Numbers and sums.                                                       *)

LEMMA LeastNat ==
  ASSUME NEW T \in SUBSET Nat, T # {}
  PROVE  \E x \in T : \A y \in T : x <= y
<1> DEFINE R == {ss \in Nat \X Nat : ss[1] < ss[2]}
<1>1. IsWellFoundedOn(R, Nat)
  BY NatLessThanWellFounded, Zenon DEF OpToRel
<1> HIDE DEF R
<1>2. \E x \in T : \A y \in T : ~(<<y, x>> \in R)
  BY <1>1, WFMin, Zenon
<1>3. \A x, y \in Nat : ~(<<y, x>> \in R) => x <= y
  BY DEF R
<1> QED BY <1>2, <1>3, Zenon

LEMMA BytesNat ==
  ASSUME NEW items \in Seq(Buffers)
  PROVE  Bytes(items) \in Nat
<1> DEFINE n == Len(items)
           b(i) == items[i].bufsize
           Up(f, m) == f = [i \in 0 .. m |-> IF i = 0 THEN 0 ELSE f[i - 1] + b(i)]
           sum == CHOOSE f : Up(f, n)
<1>1. n \in Nat /\ \A i \in 1 .. n : b(i) \in Nat
  <2>1. n \in Nat /\ \A i \in 1 .. n : items[i] \in Buffers
    OBVIOUS
  <2> QED BY <2>1, Zenon DEF Buffers
<1>2. Bytes(items) = sum[n]
  BY Zenon DEF Bytes
<1> HIDE DEF n, b
<1>3. \E f : Up(f, n)
  <2> DEFINE T == {m \in 0 .. n : ~\E f : Up(f, m)}
  <2>1. SUFFICES ASSUME T # {} PROVE FALSE
    BY <1>1, T = {} => n \notin T
  <2>2. PICK m \in T : \A y \in T : m <= y
    BY <2>1, <1>1, LeastNat, T \in SUBSET Nat, Zenon
  <2>3. m # 0
    <3>1. Up([i \in 0 .. 0 |-> 0], 0)
      OBVIOUS
    <3> QED BY <3>1, <2>2, Zenon
  <2>4. m \in 1 .. n /\ m - 1 \in 0 .. n /\ ~(m <= m - 1)
    BY <2>2, <2>3, <1>1
  <2>5. PICK g : Up(g, m - 1)
    BY <2>2, <2>4, Zenon
  <2> DEFINE f == [i \in 0 .. m |-> IF i = m THEN g[m - 1] + b(m) ELSE g[i]]
  <2>6. \A i \in 0 .. m : f[i] = IF i = 0 THEN 0 ELSE f[i - 1] + b(i)
    BY <2>4, <2>5, <1>1
  <2>7. Up(f, m)
    BY <2>6
  <2> QED BY <2>2, <2>7, Zenon
<1>4. Up(sum, n)
  BY <1>3, Zenon
<1> HIDE DEF sum
<1>5. \A i \in 0 .. n : sum[i] = IF i = 0 THEN 0 ELSE sum[i - 1] + b(i)
  BY <1>4, Zenon
<1> DEFINE T == {m \in 0 .. n : sum[m] \notin Nat}
<1>6. SUFFICES ASSUME T # {} PROVE FALSE
  BY <1>1, <1>2, T = {} => n \notin T
<1>7. PICK m \in T : \A y \in T : m <= y
  BY <1>6, <1>1, LeastNat, T \in SUBSET Nat, Zenon
<1>8. m # 0
  BY <1>5, <1>1, <1>7
<1>9. m \in 1 .. n /\ m - 1 \in 0 .. n /\ ~(m <= m - 1)
  BY <1>7, <1>8, <1>1
<1>10. sum[m - 1] \in Nat
  BY <1>7, <1>9
<1> QED BY <1>10, <1>9, <1>5, <1>1, <1>7

LEMMA RoundUpMultiple ==
  ASSUME DumpConstants, NEW n \in Nat
  PROVE  \E k \in Nat : RoundUp(n) = k * BlockSize
<1>1. (n + BlockSize - 1) \div BlockSize \in Nat
  BY DEF DumpConstants
<1> QED BY <1>1, Zenon DEF RoundUp

LEMMA DivShift ==
  ASSUME NEW b \in Nat \ {0}, NEW x \in Nat, NEW k \in Nat
  PROVE  (k * b + x) \div b = k + x \div b
<1> DEFINE q == x \div b
           r == x - b * q
<1>1. q \in Nat /\ r \in 0 .. b - 1 /\ x = b * q + r
  <2>1. q \in Nat
    BY b > 0, Z3
  <2>2. b * q <= x
    OBVIOUS
  <2>3. b * q + b > x
    OBVIOUS
  <2>4. b * q \in Nat
    BY <2>1
  <2> HIDE DEF q
  <2> QED BY <2>1, <2>2, <2>3, <2>4
<1>q. x \div b = q
  OBVIOUS
<1> HIDE DEF q, r
<1>2. k * b + x = b * (k + q) + r /\ k * b + x \in Nat
  BY <1>1
<1>3. \A a, p \in Nat : a = b * p + r => a \div b = p
  BY <1>1, Z3
<1> QED BY <1>1, <1>2, <1>3, <1>q

LEMMA RoundUpShift ==
  ASSUME DumpConstants, NEW n \in Nat, NEW k \in Nat
  PROVE  RoundUp(k * BlockSize + n) = k * BlockSize + RoundUp(n)
<1>1. BlockSize \in Nat \ {0}
  BY Zenon DEF DumpConstants
<1> DEFINE x == n + BlockSize - 1
           q == x \div BlockSize
<1>2. x \in Nat /\ q \in Nat /\ k * BlockSize + n + BlockSize - 1 = k * BlockSize + x
  BY <1>1
<1>3. (k * BlockSize + x) \div BlockSize = k + q
  BY <1>1, <1>2, DivShift, Zenon
<1> HIDE DEF x, q
<1>4. (k + q) * BlockSize = k * BlockSize + q * BlockSize
  BY <1>1, <1>2
<1> QED BY <1>2, <1>3, <1>4 DEF RoundUp, x, q
---------------------------------------------------------------------------
(* Queues.                                                                 *)

LEMMA AppendFacts ==
  ASSUME NEW S, NEW q \in Seq(S), NEW x \in S
  PROVE  /\ Append(q, x) \in Seq(S) /\ Len(Append(q, x)) = Len(q) + 1 /\ Len(q) \in Nat
         /\ DOMAIN Append(q, x) = DOMAIN q \cup {Len(q) + 1} /\ Len(q) + 1 \notin DOMAIN q
         /\ \A k \in DOMAIN q : Append(q, x)[k] = q[k] /\ k < Len(q) + 1 /\ k \in Nat
         /\ Append(q, x)[Len(q) + 1] = x
         /\ Range(Append(q, x)) = Range(q) \cup {x}
<1>1. /\ Append(q, x) \in Seq(S) /\ Len(Append(q, x)) = Len(q) + 1 /\ Len(q) \in Nat
      /\ DOMAIN Append(q, x) = 1 .. Len(q) + 1 /\ DOMAIN q = 1 .. Len(q)
  OBVIOUS
<1>2. /\ \A k \in 1 .. Len(q) : Append(q, x)[k] = q[k]
      /\ Append(q, x)[Len(q) + 1] = x
  OBVIOUS
<1>3. /\ 1 .. Len(q) + 1 = 1 .. Len(q) \cup {Len(q) + 1} /\ Len(q) + 1 \notin 1 .. Len(q)
      /\ \A k \in 1 .. Len(q) : k < Len(q) + 1 /\ k \in Nat
  BY <1>1
<1>4. Range(Append(q, x)) = Range(q) \cup {x}
  BY <1>1, <1>2, <1>3, ZenonT(60) DEF Range
<1> QED BY <1>1, <1>2, <1>3, <1>4, Zenon

LEMMA TailFacts ==
  ASSUME NEW S, NEW q \in Seq(S), q # <<>>
  PROVE  /\ Head(q) \in S /\ Tail(q) \in Seq(S)
         /\ Len(q) = Len(Tail(q)) + 1 /\ Len(Tail(q)) \in Nat
         /\ Range(q) = {Head(q)} \cup Range(Tail(q))
<1>1. /\ Len(q) \in Nat \ {0} /\ DOMAIN q = 1 .. Len(q) /\ Head(q) = q[1] /\ Head(q) \in S
      /\ Tail(q) \in Seq(S) /\ Len(Tail(q)) = Len(q) - 1 /\ DOMAIN Tail(q) = 1 .. Len(q) - 1
  OBVIOUS
<1>2. \A k \in 1 .. Len(q) - 1 : Tail(q)[k] = q[k + 1]
  OBVIOUS
<1>3. Range(q) \subseteq {Head(q)} \cup Range(Tail(q))
  <2> SUFFICES ASSUME NEW k \in 1 .. Len(q), k # 1 PROVE q[k] \in Range(Tail(q))
    BY <1>1, Zenon DEF Range
  <2>1. k - 1 \in 1 .. Len(q) - 1 /\ Tail(q)[k - 1] = q[k]
    BY <1>1, <1>2
  <2> QED BY <2>1, <1>1, Zenon DEF Range
<1>4. {Head(q)} \cup Range(Tail(q)) \subseteq Range(q)
  BY <1>1, <1>2 DEF Range
<1>5. Len(q) = Len(Tail(q)) + 1 /\ Len(Tail(q)) \in Nat
  BY <1>1
<1> QED BY <1>1, <1>3, <1>4, <1>5, Zenon

LEMMA EmptyFacts ==
  ASSUME NEW S, NEW q \in Seq(S)
  PROVE  Len(q) \in Nat /\ (Len(q) = 0 <=> q = <<>>) /\ DOMAIN q = 1 .. Len(q)
         /\ (q = <<>> => DOMAIN q = {} /\ Range(q) = {})
<1>1. Len(q) \in Nat /\ (Len(q) = 0 <=> q = <<>>) /\ DOMAIN q = 1 .. Len(q)
  OBVIOUS
<1>2. q = <<>> => DOMAIN q = {}
  BY <1>1
<1> QED BY <1>1, <1>2, Zenon DEF Range

---------------------------------------------------------------------------
(* Types.                                                                  *)

(* flush_pending: a buffer with the pending extent's place, in front of    *)
(* nothing.                                                                *)
LEMMA BufferType ==
  ASSUME DumpTypeOK
  PROVE  /\ Buffer \in Buffers /\ Buffer.start = pending.start /\ Buffer.size = pending.size
         /\ Buffer.state = IF compress THEN "raw" ELSE "ready"
<1>1. pending.start \in Int /\ pending.size \in Nat
  BY Zenon DEF DumpTypeOK
<1>2. (IF compress THEN "raw" ELSE "ready") \in {"raw", "ready", "garbage"}
  BY Zenon
<1> QED BY <1>1, <1>2 DEF Buffer, Buffers

LEMMA SignalType ==
  ASSUME DumpTypeOK, Signal
  PROVE  /\ worker' \in [Worker -> {"run", "wait", "pack", "packed", "exit"}]
         /\ \A w \in Worker : worker'[w] = worker[w] \/ (worker[w] = "wait" /\ worker'[w] = "run")
<1>1. worker \in [Worker -> {"run", "wait", "pack", "packed", "exit"}]
  BY Zenon DEF DumpTypeOK
<1> QED BY <1>1, Zenon DEF Signal

LEMMA QueueType ==
  ASSUME DumpTypeOK, Queue
  PROVE  /\ ordered' = Append(ordered, Buffer) /\ ordered' \in Seq(Buffers)
         /\ list' \in Seq(Nat \ {0}) /\ numItems' \in Nat /\ numReady' \in Nat
         /\ worker' \in [Worker -> {"run", "wait", "pack", "packed", "exit"}]
         /\ pending' \in [start : Int, size : Nat, data : BOOLEAN] /\ pending'.size = 0
         /\ UNCHANGED <<header, file, fileLen>>
<1>1. ordered' = Append(ordered, Buffer) /\ UNCHANGED <<header, file, fileLen>>
  BY Zenon DEF Queue
<1>2. Append(ordered, Buffer) \in Seq(Buffers) /\ Len(ordered) \in Nat
  BY BufferType, AppendFacts, Zenon DEF DumpTypeOK
<1>3. list' \in Seq(Nat \ {0})
  <2>1. Len(ordered) + 1 \in Nat \ {0}
    BY <1>2
  <2>2. list \in Seq(Nat \ {0})
    BY Zenon DEF DumpTypeOK
  <2>3. Append(list, Len(ordered) + 1) \in Seq(Nat \ {0})
    BY <2>1, <2>2, AppendFacts, Zenon
  <2> QED BY <2>2, <2>3, Zenon DEF Queue
<1>4. numItems' \in Nat /\ numReady' \in Nat
  <2>1. numItems \in Nat /\ numReady \in Nat
    BY Zenon DEF DumpTypeOK
  <2>2. numItems' = numItems + 1 /\ (numReady' = numReady \/ numReady' = numReady + 1)
    BY Zenon DEF Queue
  <2> QED BY <2>1, <2>2
<1>5. worker' \in [Worker -> {"run", "wait", "pack", "packed", "exit"}]
  BY SignalType, Zenon DEF Queue, DumpTypeOK
<1>6. pending' = NoPending
  BY Zenon DEF Queue
<1>7. NoPending \in [start : Int, size : Nat, data : BOOLEAN] /\ NoPending.size = 0
  BY DEF NoPending
<1> QED BY <1>1, <1>2, <1>3, <1>4, <1>5, <1>6, <1>7, Zenon

(* A worker changes neither the place of a buffer nor another buffer.      *)
LEMMA PackType ==
  ASSUME DumpConstants, DumpTypeOK, CountInv, NEW w \in Worker, NEW st \in {"ready", "garbage"},
         PackAs(w, st)
  PROVE  /\ ordered' \in Seq(Buffers) /\ Len(ordered') = Len(ordered)
         /\ DOMAIN ordered' = DOMAIN ordered
         /\ \A i \in DOMAIN ordered : /\ ordered'[i].start = ordered[i].start
                                      /\ ordered'[i].size = ordered[i].size
         /\ \A i \in DOMAIN ordered : i # holds[w] => ordered'[i].state = ordered[i].state
         /\ holds[w] \in DOMAIN ordered /\ ordered'[holds[w]].state = st
<1>1. PICK n \in PackedSize :
        ordered' = [ordered EXCEPT ![holds[w]].bufsize = n, ![holds[w]].state = st]
  BY Zenon DEF PackAs
<1>2. ordered \in Seq(Buffers) /\ n \in Nat
  BY <1>1, Zenon DEF DumpTypeOK, DumpConstants
<1>3. holds[w] \in DOMAIN ordered
  <2>1. worker[w] = "pack" /\ holds[w] # 0
    BY Zenon DEF PackAs, CountInv
  <2> QED BY <2>1, Zenon DEF CountInv, InFlight
<1> DEFINE h == holds[w]
           x == [ordered[h] EXCEPT !.bufsize = n, !.state = st]
<1>4. ordered' = [ordered EXCEPT ![h] = x]
  BY <1>1, <1>2, <1>3, Zenon
<1>5. /\ x \in Buffers /\ x.start = ordered[h].start /\ x.size = ordered[h].size
      /\ x.state = st
  <2>1. ordered[h] \in Buffers
    BY <1>2, <1>3
  <2> QED BY <2>1, <1>2, Zenon DEF Buffers
<1> HIDE DEF x, h
<1>6. h \in DOMAIN ordered
  BY <1>3 DEF h
<1>7. /\ ordered' \in Seq(Buffers) /\ Len(ordered') = Len(ordered) /\ DOMAIN ordered' = DOMAIN ordered
      /\ ordered'[h] = x /\ \A i \in DOMAIN ordered : i # h => ordered'[i] = ordered[i]
  BY <1>2, <1>4, <1>5, <1>6
<1> QED BY <1>5, <1>6, <1>7, Zenon DEF h

LEMMA InitType ==
  ASSUME DumpConstants, Init
  PROVE  DumpTypeOK
<1>1. Len(Extents) \in Nat
  BY EmptyFacts DEF DumpConstants
<1>2. 1 \in 1 .. Len(Extents) + 1
  BY <1>1
<1>3. NoPending \in [start : Int, size : Nat, data : BOOLEAN]
  BY DEF NoPending
<1>4. <<>> \in Seq(Buffers) /\ <<>> \in Seq(Nat \ {0}) /\ <<>> \in Seq(Clusters) /\ 0 \in Nat
  OBVIOUS
<1>5. /\ worker \in [Worker -> {"run", "wait", "pack", "packed", "exit"}]
      /\ holds \in [Worker -> Nat]
  BY <1>4, Zenon DEF Init
<1> QED BY <1>2, <1>3, <1>4, <1>5, Zenon DEF Init, DumpTypeOK

(* write_buffers appends a cluster and starts the next one behind it.      *)
LEMMA WriteType ==
  ASSUME DumpConstants, DumpTypeOK, WriteCluster
  PROVE  /\ Bytes(ordered) \in Nat
         /\ header' = RoundUp(header + BlockSize + Bytes(ordered)) /\ header' \in Nat
         /\ fileLen' = fileLen + BlockSize + RoundUp(Bytes(ordered)) /\ fileLen' \in Nat
         /\ file' = Append(file, [bytenr |-> header, at |-> fileLen, items |-> ordered])
         /\ [bytenr |-> header, at |-> fileLen, items |-> ordered] \in Clusters
         /\ file' \in Seq(Clusters)
<1>1. ordered \in Seq(Buffers) /\ header \in Nat /\ fileLen \in Nat /\ file \in Seq(Clusters)
  BY Zenon DEF DumpTypeOK
<1>2. Bytes(ordered) \in Nat /\ BlockSize \in Nat \ {0}
  BY <1>1, BytesNat, Zenon DEF DumpConstants
<1>3. \A n \in Nat : RoundUp(n) \in Nat
  <2> TAKE n \in Nat
  <2>1. PICK k \in Nat : RoundUp(n) = k * BlockSize
    BY RoundUpMultiple
  <2> QED BY <2>1, <1>2
<1>4. /\ header' = RoundUp(header + BlockSize + Bytes(ordered))
      /\ fileLen' = fileLen + BlockSize + RoundUp(Bytes(ordered))
      /\ file' = Append(file, [bytenr |-> header, at |-> fileLen, items |-> ordered])
  BY Zenon DEF WriteCluster
<1>5. header + BlockSize + Bytes(ordered) \in Nat
  BY <1>1, <1>2
<1>6. header' \in Nat
  BY <1>3, <1>4, <1>5
<1>7. fileLen' \in Nat
  <2>1. RoundUp(Bytes(ordered)) \in Nat
    BY <1>2, <1>3
  <2> QED BY <2>1, <1>1, <1>2, <1>4
<1>8. [bytenr |-> header, at |-> fileLen, items |-> ordered] \in Clusters
  BY <1>1 DEF Clusters
<1>9. Append(file, [bytenr |-> header, at |-> fileLen, items |-> ordered]) \in Seq(Clusters)
  BY <1>1, <1>8, AppendFacts, Zenon
<1> QED BY <1>2, <1>4, <1>6, <1>7, <1>8, <1>9, Zenon

LEMMA TypeStep ==
  ASSUME DumpConstants, DumpTypeOK, CountInv, Next
  PROVE  DumpTypeOK'
<1> DEFINE Mains == {"walk", "writeAdd", "sleepAdd", "out", "writeEnd", "sleepEnd",
                     "destroy", "join", "exit"}
           Workers == [Worker -> {"run", "wait", "pack", "packed", "exit"}]
           Pendings == [start : Int, size : Nat, data : BOOLEAN]
<1>t. /\ main \in Mains /\ next \in 1 .. Len(Extents) + 1 /\ pending \in Pendings
      /\ ordered \in Seq(Buffers) /\ list \in Seq(Nat \ {0})
      /\ numItems \in Nat /\ numReady \in Nat /\ header \in Nat /\ fileLen \in Nat
      /\ worker \in Workers /\ holds \in [Worker -> Nat] /\ file \in Seq(Clusters)
  BY Zenon DEF DumpTypeOK
<1>u. ASSUME main' \in Mains, next' \in 1 .. Len(Extents) + 1, pending' \in Pendings,
             ordered' \in Seq(Buffers), list' \in Seq(Nat \ {0}),
             numItems' \in Nat, numReady' \in Nat, header' \in Nat, fileLen' \in Nat,
             worker' \in Workers, holds' \in [Worker -> Nat], file' \in Seq(Clusters)
      PROVE  DumpTypeOK'
  BY <1>u, Zenon DEF DumpTypeOK
<1>z. 0 \in Nat /\ <<>> \in Seq(Buffers) /\ Len(Extents) \in Nat
  BY EmptyFacts DEF DumpConstants
<1> HIDE DEF Workers, Pendings
<1>1. CASE AddExtent
  <2>1. /\ next \in 1 .. Len(Extents) /\ next' = next + 1
    BY <1>1, <1>t, <1>z DEF AddExtent
  <2>2. next' \in 1 .. Len(Extents) + 1
    BY <2>1, <1>z
  <2>3. Extents[next] \in Found
    BY <2>1, <1>z DEF DumpConstants
  <2>4. Extents[next] \in Pendings
    BY <2>3 DEF Found, Pendings
  <2>5. [pending EXCEPT !.size = @ + Extents[next].size, !.data = Extents[next].data] \in Pendings
    <3>1. pending.size \in Nat /\ Extents[next].size \in Nat /\ Extents[next].data \in BOOLEAN
      BY <1>t, <2>4, Zenon DEF Pendings
    <3>2. pending.size + Extents[next].size \in Nat
      BY <3>1
    <3> QED BY <3>1, <3>2, <1>t, Zenon DEF Pendings
  <2>6. pending' \in Pendings
    BY <1>1, <2>4, <2>5, Zenon DEF AddExtent, Join
  <2> QED BY <1>1, <2>2, <2>6, <1>t, <1>u, Zenon DEF AddExtent, clusterVars
<1>2. CASE WalkFails
  BY <1>2, <1>t, <1>u, Zenon DEF WalkFails, clusterVars, walkVars
<1>3. CASE WalkDone
  BY <1>3, <1>t, <1>u, Zenon DEF WalkDone, clusterVars, walkVars
<1>4. CASE FlushForAdd
  BY <1>4, <1>t, <1>u, QueueType, Zenon DEF FlushForAdd, Pendings, Workers
<1>5. CASE FlushForAddFails
  BY <1>5, <1>t, <1>u, Zenon DEF FlushForAddFails, clusterVars, walkVars
<1>6. CASE FlushAtEnd
  <2>1. main' \in Mains /\ next' = next /\ holds' = holds
    BY <1>6, Zenon DEF FlushAtEnd
  <2>2. CASE Queue
    BY <2>1, <2>2, <1>t, <1>u, QueueType, Zenon DEF Pendings, Workers
  <2>3. CASE UNCHANGED <<pending, list, worker>> /\ UNCHANGED clusterVars
    BY <2>1, <2>3, <1>t, <1>u, Zenon DEF clusterVars
  <2> QED BY <1>6, <2>2, <2>3, Zenon DEF FlushAtEnd
<1>7. CASE FlushAtEndFails
  BY <1>7, <1>t, <1>u, Zenon DEF FlushAtEndFails, clusterVars, walkVars
<1>8. CASE Sleep
  BY <1>8, <1>t, <1>u, Zenon DEF Sleep, clusterVars, walkVars
<1>9. CASE WriteCluster
  <2>1. main' \in Mains
    BY <1>9, Zenon DEF WriteCluster, After
  <2> QED BY <2>1, <1>9, <1>z, <1>t, <1>u, WriteType, Zenon DEF WriteCluster, walkVars
<1>10. CASE NothingToWrite
  BY <1>10, <1>z, <1>t, <1>u, Zenon DEF NothingToWrite, walkVars
<1>11. CASE WorkerFailed
  BY <1>11, <1>t, <1>u, Zenon DEF WorkerFailed, Failed, clusterVars, walkVars
<1>12. CASE IndexWriteFails
  BY <1>12, <1>t, <1>u, Zenon DEF IndexWriteFails, Failed, clusterVars, walkVars
<1>13. CASE BufferWriteFails
  <2>1. fileLen' \in Nat
    <3>1. fileLen' = fileLen + BlockSize /\ BlockSize \in Nat
      BY <1>13, Zenon DEF BufferWriteFails, DumpConstants
    <3> QED BY <3>1, <1>t
  <2> QED BY <2>1, <1>13, <1>z, <1>t, <1>u, Zenon DEF BufferWriteFails, Failed, walkVars
<1>14. CASE Destroy
  <2>1. worker' \in Workers
    BY <1>14, <1>t, Zenon DEF Destroy, Workers
  <2> QED BY <2>1, <1>14, <1>t, <1>u, Zenon DEF Destroy, clusterVars, walkVars
<1>15. CASE JoinWorkers
  BY <1>15, <1>t, <1>u, Zenon DEF JoinWorkers, clusterVars, walkVars
<1>16. ASSUME NEW w \in Worker, Take(w) PROVE DumpTypeOK'
  <2>1. worker' \in Workers
    BY <1>16, <1>t, Zenon DEF Take, Workers
  <2>2. list' \in Seq(Nat \ {0}) /\ holds' \in [Worker -> Nat]
    <3>1. CASE list # <<>>
      <4>1. Head(list) \in Nat \ {0} /\ Tail(list) \in Seq(Nat \ {0})
        BY <3>1, <1>t, TailFacts, Zenon
      <4>2. Head(list) \in Nat
        BY <4>1
      <4> QED BY <4>1, <4>2, <3>1, <1>16, <1>t, Zenon DEF Take
    <3>2. CASE list = <<>>
      BY <3>2, <1>16, <1>t, Zenon DEF Take
    <3> QED BY <3>1, <3>2, Zenon
  <2> QED BY <2>1, <2>2, <1>16, <1>t, <1>u, Zenon DEF Take, workerFrame
<1>17. ASSUME NEW w \in Worker, Spurious(w) PROVE DumpTypeOK'
  <2>1. worker' \in Workers
    BY <1>17, <1>t, Zenon DEF Spurious, Workers
  <2> QED BY <2>1, <1>17, <1>t, <1>u, Zenon DEF Spurious, workerFrame
<1>18. ASSUME NEW w \in Worker, NEW st \in {"ready", "garbage"}, PackAs(w, st) PROVE DumpTypeOK'
  <2>1. worker' \in Workers
    BY <1>18, <1>t, Zenon DEF PackAs, Workers
  <2>2. ordered' \in Seq(Buffers)
    BY <1>18, PackType, Zenon
  <2> QED BY <2>1, <2>2, <1>18, <1>t, <1>u, Zenon DEF PackAs, workerFrame
<1>19. ASSUME NEW w \in Worker, NoMemory(w) PROVE DumpTypeOK'
  <2>1. worker' \in Workers
    BY <1>19, <1>t, Zenon DEF NoMemory, Workers
  <2> QED BY <2>1, <1>19, <1>t, <1>u, Zenon DEF NoMemory, workerFrame
<1>20. ASSUME NEW w \in Worker, Ready(w) PROVE DumpTypeOK'
  <2>1. worker' \in Workers /\ holds' \in [Worker -> Nat]
    BY <1>20, <1>t, <1>z, Zenon DEF Ready, Workers
  <2>2. numReady' \in Nat
    BY <1>20, <1>t DEF Ready
  <2> QED BY <2>1, <2>2, <1>20, <1>t, <1>u, Zenon DEF Ready, workerFrame
<1> QED BY <1>1, <1>2, <1>3, <1>4, <1>5, <1>6, <1>7, <1>8, <1>9, <1>10, <1>11, <1>12, <1>13,
           <1>14, <1>15, <1>16, <1>17, <1>18, <1>19, <1>20, Zenon
        DEF Next, MainStep, WorkerStep, Pack, PackFails

---------------------------------------------------------------------------
(* Counting.                                                               *)

LEMMA FlightSize ==
  ASSUME DumpConstants
  PROVE  IsFiniteSet(InFlight) /\ Cardinality(InFlight) \in Nat
<1>1. IsFiniteSet(InFlight)
  BY FS_Subset, Zenon DEF InFlight, DumpConstants
<1> QED BY <1>1, FS_CardinalityType, Zenon

(* num_ready has reached num_items: nothing is queued, nothing is in the   *)
(* hands of a thread, and every buffer has been through one.               *)
LEMMA NothingOpen ==
  ASSUME DumpConstants, DumpTypeOK, CountInv, numItems <= numReady \/ ordered = <<>>
  PROVE  /\ list = <<>> /\ InFlight = {} /\ numItems = numReady
         /\ \A w \in Worker : holds[w] = 0
         /\ \A i \in DOMAIN ordered : ordered[i].state # "raw"
<1>1. Cardinality(InFlight) \in Nat /\ IsFiniteSet(InFlight)
  BY FlightSize
<1>2. /\ Len(list) \in Nat /\ (Len(list) = 0 <=> list = <<>>)
      /\ numItems \in Nat /\ numReady \in Nat
      /\ numItems = numReady + Len(list) + Cardinality(InFlight)
  BY EmptyFacts, Zenon DEF DumpTypeOK, CountInv
<1>3. list = <<>> /\ InFlight = {}
  <2>1. CASE numItems <= numReady
    <3>1. Len(list) = 0 /\ Cardinality(InFlight) = 0
      BY <2>1, <1>1, <1>2
    <3> QED BY <3>1, <1>1, <1>2, FS_EmptySet, Zenon
  <2>2. CASE ordered = <<>>
    <3>1. DOMAIN ordered = {}
      BY <2>2, EmptyFacts, Zenon DEF DumpTypeOK
    <3>2. Range(list) = {} /\ InFlight = {}
      BY <3>1, Zenon DEF CountInv
    <3>3. list = <<>>
      <4>1. list # <<>> => Head(list) \in Range(list)
        BY TailFacts, Zenon DEF DumpTypeOK
      <4> QED BY <4>1, <3>2, Zenon
    <3> QED BY <3>2, <3>3
  <2> QED BY <2>1, <2>2, Zenon
<1>4. numItems = numReady
  <2>1. Len(list) = 0 /\ Cardinality(InFlight) = 0
    BY <1>3, <1>2, FS_EmptySet, Zenon
  <2> QED BY <2>1, <1>2
<1>5. \A w \in Worker : holds[w] = 0
  BY <1>3, Zenon DEF InFlight
<1>6. \A i \in DOMAIN ordered : ordered[i].state # "raw"
  <2> SUFFICES ASSUME NEW i \in DOMAIN ordered, ordered[i].state = "raw" PROVE FALSE
    BY Zenon
  <2>1. Range(list) = {}
    BY <1>3, EmptyFacts, Zenon DEF DumpTypeOK
  <2>2. PICK w \in Worker : holds[w] = i
    BY <2>1, Zenon DEF CountInv
  <2>3. i # 0
    BY EmptyFacts DEF DumpTypeOK
  <2> QED BY <2>2, <2>3, <1>5, Zenon
<1> QED BY <1>3, <1>4, <1>5, <1>6, Zenon

LEMMA InitCount ==
  ASSUME DumpConstants, Init
  PROVE  CountInv
<1>1. InFlight = {} /\ Cardinality({}) = 0
  BY FS_EmptySet, Zenon DEF Init, InFlight
<1>2. Len(list) = 0 /\ Range(list) = {} /\ DOMAIN ordered = {}
  BY InitType, EmptyFacts, Zenon DEF DumpTypeOK, Init
<1>3. numItems = numReady + Len(list) + Cardinality(InFlight)
  BY <1>1, <1>2 DEF Init
<1>4. \A w \in Worker : worker[w] \in {"run", "exit"} /\ holds[w] = 0
  BY Zenon DEF Init
<1> QED BY <1>1, <1>2, <1>3, <1>4, Zenon DEF CountInv

(* Steps that leave the queue, the threads and what they hold alone.       *)
LEMMA CountSame ==
  ASSUME CountInv, UNCHANGED <<ordered, list, numItems, numReady, worker, holds>>
  PROVE  CountInv'
<1>1. InFlight' = InFlight
  BY Zenon DEF InFlight
<1> QED BY <1>1, Zenon DEF CountInv

LEMMA CountQueue ==
  ASSUME DumpConstants, DumpTypeOK, CountInv, Queue, UNCHANGED holds
  PROVE  CountInv'
<1>1. InFlight' = InFlight /\ Cardinality(InFlight) \in Nat
  BY FlightSize, Zenon DEF InFlight
<1>2. /\ DOMAIN ordered' = DOMAIN ordered \cup {Len(ordered) + 1}
      /\ \A i \in DOMAIN ordered : ordered'[i] = ordered[i]
      /\ ordered'[Len(ordered) + 1] = Buffer
      /\ Len(ordered) \in Nat
  <2>1. ordered \in Seq(Buffers) /\ Buffer \in Buffers /\ ordered' = Append(ordered, Buffer)
    BY QueueType, BufferType, Zenon DEF DumpTypeOK
  <2> HIDE DEF Buffers
  <2>2. /\ DOMAIN Append(ordered, Buffer) = DOMAIN ordered \cup {Len(ordered) + 1}
        /\ \A i \in DOMAIN ordered : Append(ordered, Buffer)[i] = ordered[i]
        /\ Append(ordered, Buffer)[Len(ordered) + 1] = Buffer
        /\ Len(ordered) \in Nat
    BY <2>1, AppendFacts
  <2> QED BY <2>1, <2>2, Zenon
<1>3. \A w \in Worker : worker'[w] = worker[w] \/ (worker[w] = "wait" /\ worker'[w] = "run")
  BY SignalType, Zenon DEF Queue
<1>4. /\ \A w \in Worker : worker'[w] \in {"run", "wait"} => holds'[w] = 0
      /\ \A w \in Worker : worker'[w] \in {"pack", "packed"} => holds'[w] # 0
  BY <1>3, Zenon DEF CountInv
<1>5. \A w \in InFlight' : holds'[w] \in DOMAIN ordered'
  BY <1>1, <1>2, Zenon DEF CountInv
<1>6. \A i \in DOMAIN ordered : ordered'[i].state = "raw" =>
         i \in Range(list) \/ \E w \in Worker : holds'[w] = i /\ worker'[w] # "packed"
  <2> SUFFICES ASSUME NEW i \in DOMAIN ordered, ordered'[i].state = "raw", i \notin Range(list)
               PROVE  \E w \in Worker : holds'[w] = i /\ worker'[w] # "packed"
    BY Zenon
  <2>1. ordered[i].state = "raw"
    BY <1>2, Zenon
  <2>2. PICK w \in Worker : holds[w] = i /\ worker[w] # "packed"
    BY <2>1, Zenon DEF CountInv
  <2>3. worker'[w] # "packed"
    BY <2>2, <1>3, Zenon
  <2> QED BY <2>2, <2>3, Zenon
<1>7. numItems' = numItems + 1 /\ numItems \in Nat /\ numReady \in Nat /\ list \in Seq(Nat \ {0})
      /\ Len(list) \in Nat /\ numItems = numReady + Len(list) + Cardinality(InFlight)
  BY EmptyFacts, Zenon DEF Queue, DumpTypeOK, CountInv
<1>8. CASE compress
  <2>1. list' = Append(list, Len(ordered) + 1) /\ numReady' = numReady
    BY <1>8, Zenon DEF Queue
  <2>2. Len(ordered) + 1 \in Nat \ {0}
    BY <1>2
  <2>3. Len(list') = Len(list) + 1 /\ Range(list') = Range(list) \cup {Len(ordered) + 1}
    <3>1. /\ Len(Append(list, Len(ordered) + 1)) = Len(list) + 1
          /\ Range(Append(list, Len(ordered) + 1)) = Range(list) \cup {Len(ordered) + 1}
      BY <2>2, <1>7, AppendFacts
    <3> QED BY <3>1, <2>1, Zenon
  <2>4. numItems' = numReady' + Len(list') + Cardinality(InFlight')
    BY <2>1, <2>3, <1>1, <1>7
  <2>5. Range(list') \subseteq DOMAIN ordered'
    BY <2>3, <1>2, Zenon DEF CountInv
  <2>6. \A i \in DOMAIN ordered' : ordered'[i].state = "raw" =>
         i \in Range(list') \/ \E w \in Worker : holds'[w] = i /\ worker'[w] # "packed"
    BY <2>3, <1>2, <1>6, Zenon
  <2> QED BY <2>4, <2>5, <2>6, <1>4, <1>5, Zenon DEF CountInv
<1>9. CASE ~compress
  <2>1. list' = list /\ numReady' = numReady + 1
    BY <1>9, Zenon DEF Queue
  <2>2. numItems' = numReady' + Len(list') + Cardinality(InFlight')
    BY <2>1, <1>1, <1>7
  <2>3. Range(list') \subseteq DOMAIN ordered'
    BY <2>1, <1>2, Zenon DEF CountInv
  <2>4. Buffer.state = "ready"
    BY <1>9, BufferType, Zenon
  <2>5. \A i \in DOMAIN ordered' : ordered'[i].state = "raw" =>
         i \in Range(list') \/ \E w \in Worker : holds'[w] = i /\ worker'[w] # "packed"
    BY <2>1, <2>4, <1>2, <1>6, Zenon
  <2> QED BY <2>2, <2>3, <2>5, <1>4, <1>5, Zenon DEF CountInv
<1> QED BY <1>8, <1>9, Zenon

(* The buffers are gone, and nobody had one.                               *)
LEMMA CountEmptied ==
  ASSUME DumpConstants, DumpTypeOK, CountInv, numItems <= numReady \/ ordered = <<>>,
         ordered' = <<>>, numItems' = numReady', numReady' \in Nat, UNCHANGED <<list, worker, holds>>
  PROVE  CountInv'
<1>1. list = <<>> /\ InFlight = {} /\ \A w \in Worker : holds[w] = 0
  BY NothingOpen, Zenon
<1>2. InFlight' = {} /\ Cardinality({}) = 0
  BY <1>1, FS_EmptySet, Zenon DEF InFlight
<1>3. Len(list) = 0 /\ Range(list) = {}
  BY <1>1, EmptyFacts, Zenon DEF DumpTypeOK
<1>4. numItems' = numReady' + Len(list') + Cardinality(InFlight')
  BY <1>2, <1>3
<1>5. DOMAIN ordered' = {}
  <2>1. <<>> \in Seq(Buffers)
    OBVIOUS
  <2> QED BY <2>1, EmptyFacts, Zenon
<1> QED BY <1>2, <1>3, <1>4, <1>5, Zenon DEF CountInv

LEMMA CountPack ==
  ASSUME DumpConstants, DumpTypeOK, CountInv, NEW w \in Worker, NEW st \in {"ready", "garbage"},
         PackAs(w, st)
  PROVE  CountInv'
<1>1. UNCHANGED <<list, holds, numReady, numItems>> /\ InFlight' = InFlight
  BY Zenon DEF PackAs, workerFrame, InFlight
<1>2. /\ DOMAIN ordered' = DOMAIN ordered /\ ordered'[holds[w]].state = st
      /\ \A i \in DOMAIN ordered : i # holds[w] => ordered'[i].state = ordered[i].state
  BY PackType, Zenon
<1>3. /\ worker[w] = "pack" /\ worker'[w] = "packed"
      /\ \A v \in Worker : v # w => worker'[v] = worker[v]
  BY Zenon DEF PackAs, DumpTypeOK
<1>4. /\ \A v \in Worker : worker'[v] \in {"run", "wait"} => holds'[v] = 0
      /\ \A v \in Worker : worker'[v] \in {"pack", "packed"} => holds'[v] # 0
  BY <1>1, <1>3, Zenon DEF CountInv
<1>5. \A i \in DOMAIN ordered' : ordered'[i].state = "raw" =>
         i \in Range(list') \/ \E v \in Worker : holds'[v] = i /\ worker'[v] # "packed"
  <2> SUFFICES ASSUME NEW i \in DOMAIN ordered, ordered'[i].state = "raw", i \notin Range(list)
               PROVE  \E v \in Worker : holds[v] = i /\ worker'[v] # "packed"
    BY <1>1, <1>2, Zenon
  <2>1. i # holds[w]
    BY <1>2, Zenon
  <2>2. PICK v \in Worker : holds[v] = i /\ worker[v] # "packed"
    BY <2>1, <1>2, Zenon DEF CountInv
  <2> QED BY <2>1, <2>2, <1>3, Zenon
<1> QED BY <1>1, <1>2, <1>4, <1>5, Zenon DEF CountInv

LEMMA CountTake ==
  ASSUME DumpConstants, DumpTypeOK, CountInv, NEW w \in Worker, Take(w)
  PROVE  CountInv'
<1>1. /\ UNCHANGED <<ordered, numReady, numItems>> /\ worker[w] = "run" /\ holds[w] = 0
      /\ \A v \in Worker : v # w => worker'[v] = worker[v]
  BY ZenonT(60) DEF Take, workerFrame, DumpTypeOK, CountInv
<1>2. CASE list = <<>>
  <2>1. UNCHANGED <<list, holds>> /\ worker'[w] \in {"exit", "wait"} /\ InFlight' = InFlight
    BY <1>2, Zenon DEF Take, DumpTypeOK, InFlight
  <2>2. \A v \in Worker : worker[v] # "packed" => worker'[v] # "packed"
    BY <2>1, <1>1, Zenon
  <2>3. /\ \A v \in Worker : worker'[v] \in {"run", "wait"} => holds'[v] = 0
        /\ \A v \in Worker : worker'[v] \in {"pack", "packed"} => holds'[v] # 0
    BY <2>1, <1>1, Zenon DEF CountInv
  <2> QED BY <2>1, <2>2, <2>3, <1>1, Zenon DEF CountInv
<1>3. CASE list # <<>>
  <2>1. /\ worker'[w] = "pack" /\ holds'[w] = Head(list) /\ list' = Tail(list)
        /\ \A v \in Worker : v # w => holds'[v] = holds[v]
    <3>1. worker \in [Worker -> {"run", "wait", "pack", "packed", "exit"}] /\ holds \in [Worker -> Nat]
      BY Zenon DEF DumpTypeOK
    <3>2. /\ worker' = [worker EXCEPT ![w] = "pack"] /\ holds' = [holds EXCEPT ![w] = Head(list)]
          /\ list' = Tail(list)
      BY <1>3, Zenon DEF Take
    <3> QED BY <3>1, <3>2, Zenon
  <2>2. /\ Head(list) \in Nat \ {0} /\ Len(list) = Len(list') + 1 /\ Len(list') \in Nat
        /\ Range(list) = {Head(list)} \cup Range(list')
    BY <2>1, <1>3, TailFacts, Zenon DEF DumpTypeOK
  <2>3. Head(list) # 0
    BY <2>2
  <2>4. InFlight' = InFlight \cup {w} /\ w \notin InFlight
    BY <2>1, <2>3, <1>1, Zenon DEF InFlight
  <2>5. Cardinality(InFlight') = Cardinality(InFlight) + 1 /\ Cardinality(InFlight) \in Nat
    BY <2>4, FlightSize, FS_AddElement, Zenon
  <2>6. numItems' = numReady' + Len(list') + Cardinality(InFlight')
    <3>1. numItems = numReady + Len(list) + Cardinality(InFlight) /\ numReady \in Nat
      BY Zenon DEF CountInv, DumpTypeOK
    <3> QED BY <3>1, <2>2, <2>5, <1>1
  <2>7. \A v \in InFlight' : holds'[v] \in DOMAIN ordered'
    <3>1. Head(list) \in DOMAIN ordered
      BY <2>2, Zenon DEF CountInv
    <3> TAKE v \in InFlight'
    <3>2. CASE v = w
      BY <3>1, <3>2, <2>1, <1>1, Zenon
    <3>3. CASE v # w
      <4>1. v \in InFlight /\ v \in Worker
        BY <3>3, <2>4, Zenon DEF InFlight
      <4> QED BY <4>1, <3>3, <2>1, <1>1, Zenon DEF CountInv
    <3> QED BY <3>2, <3>3, Zenon
  <2>8. Range(list') \subseteq DOMAIN ordered'
    BY <2>2, <1>1, Zenon DEF CountInv
  <2>9. /\ \A v \in Worker : worker'[v] \in {"run", "wait"} => holds'[v] = 0
        /\ \A v \in Worker : worker'[v] \in {"pack", "packed"} => holds'[v] # 0
    BY <2>1, <2>3, <1>1, ZenonT(60) DEF CountInv
  <2>10. \A i \in DOMAIN ordered' : ordered'[i].state = "raw" =>
           i \in Range(list') \/ \E v \in Worker : holds'[v] = i /\ worker'[v] # "packed"
    <3> SUFFICES ASSUME NEW i \in DOMAIN ordered, ordered[i].state = "raw", i \notin Range(list')
                 PROVE  \E v \in Worker : holds'[v] = i /\ worker'[v] # "packed"
      BY <1>1, Zenon
    <3>1. CASE i = Head(list)
      BY <3>1, <2>1, Zenon
    <3>2. CASE i # Head(list)
      <4>1. i \notin Range(list)
        BY <3>2, <2>2, Zenon
      <4>2. PICK v \in Worker : holds[v] = i /\ worker[v] # "packed"
        BY <4>1, Zenon DEF CountInv
      <4>3. v # w
        <5>1. i # 0
          BY EmptyFacts DEF DumpTypeOK
        <5> QED BY <5>1, <4>2, <1>1, Zenon
      <4> QED BY <4>2, <4>3, <2>1, <1>1, Zenon
    <3> QED BY <3>1, <3>2, Zenon
  <2> QED BY <2>6, <2>7, <2>8, <2>9, <2>10, Zenon DEF CountInv
<1> QED BY <1>2, <1>3, Zenon

LEMMA CountReady ==
  ASSUME DumpConstants, DumpTypeOK, CountInv, NEW w \in Worker, Ready(w)
  PROVE  CountInv'
<1>1. /\ UNCHANGED <<ordered, list, numItems>> /\ numReady' = numReady + 1
      /\ worker[w] = "packed" /\ worker'[w] = "run" /\ holds'[w] = 0 /\ holds[w] # 0
      /\ \A v \in Worker : v # w => worker'[v] = worker[v] /\ holds'[v] = holds[v]
  BY Zenon DEF Ready, workerFrame, DumpTypeOK, CountInv
<1>2. InFlight' = InFlight \ {w} /\ w \in InFlight
  BY <1>1, Zenon DEF InFlight
<1>3. Cardinality(InFlight') = Cardinality(InFlight) - 1 /\ Cardinality(InFlight) \in Nat
  BY <1>2, FlightSize, FS_RemoveElement, Zenon
<1>4. numItems' = numReady' + Len(list') + Cardinality(InFlight')
  <2>1. numItems = numReady + Len(list) + Cardinality(InFlight) /\ numReady \in Nat /\ Len(list) \in Nat
    BY EmptyFacts, Zenon DEF CountInv, DumpTypeOK
  <2> QED BY <2>1, <1>1, <1>3
<1>5. \A v \in InFlight' : holds'[v] \in DOMAIN ordered'
  <2> TAKE v \in InFlight'
  <2>1. v \in InFlight /\ v \in Worker /\ v # w
    BY <1>2, Zenon DEF InFlight
  <2> QED BY <2>1, <1>1, Zenon DEF CountInv
<1>6. /\ \A v \in Worker : worker'[v] \in {"run", "wait"} => holds'[v] = 0
      /\ \A v \in Worker : worker'[v] \in {"pack", "packed"} => holds'[v] # 0
  BY <1>1, Zenon DEF CountInv
<1>7. \A i \in DOMAIN ordered' : ordered'[i].state = "raw" =>
         i \in Range(list') \/ \E v \in Worker : holds'[v] = i /\ worker'[v] # "packed"
  <2> SUFFICES ASSUME NEW i \in DOMAIN ordered, ordered[i].state = "raw", i \notin Range(list)
               PROVE  \E v \in Worker : holds'[v] = i /\ worker'[v] # "packed"
    BY <1>1, Zenon
  <2>1. PICK v \in Worker : holds[v] = i /\ worker[v] # "packed"
    BY Zenon DEF CountInv
  <2> QED BY <2>1, <1>1, Zenon
<1> QED BY <1>1, <1>4, <1>5, <1>6, <1>7, Zenon DEF CountInv

(* A thread that gives up keeps its buffer.                                *)
LEMMA CountThread ==
  ASSUME DumpTypeOK, CountInv, NEW w \in Worker,
         Spurious(w) \/ NoMemory(w)
  PROVE  CountInv'
<1>1. UNCHANGED <<ordered, list, holds, numReady, numItems>> /\ InFlight' = InFlight
  BY Zenon DEF Spurious, NoMemory, workerFrame, InFlight
<1>2. /\ (worker[w] = "wait" /\ worker'[w] = "run") \/ (worker[w] = "pack" /\ worker'[w] = "exit")
      /\ \A v \in Worker : v # w => worker'[v] = worker[v]
  BY Zenon DEF Spurious, NoMemory, DumpTypeOK
<1>3. \A v \in Worker : worker[v] # "packed" => worker'[v] # "packed"
  BY <1>2, Zenon
<1>4. /\ \A v \in Worker : worker'[v] \in {"run", "wait"} => holds'[v] = 0
      /\ \A v \in Worker : worker'[v] \in {"pack", "packed"} => holds'[v] # 0
  BY <1>1, <1>2, Zenon DEF CountInv
<1> QED BY <1>1, <1>3, <1>4, Zenon DEF CountInv

LEMMA CountDestroy ==
  ASSUME DumpTypeOK, CountInv, Destroy
  PROVE  CountInv'
<1>1. UNCHANGED <<ordered, list, holds, numReady, numItems>> /\ InFlight' = InFlight
  BY Zenon DEF Destroy, clusterVars, InFlight
<1>2. \A v \in Worker : worker'[v] = worker[v] \/ (worker[v] = "wait" /\ worker'[v] = "run")
  BY Zenon DEF Destroy
<1>3. \A v \in Worker : worker[v] # "packed" => worker'[v] # "packed"
  BY <1>2, Zenon
<1>4. /\ \A v \in Worker : worker'[v] \in {"run", "wait"} => holds'[v] = 0
      /\ \A v \in Worker : worker'[v] \in {"pack", "packed"} => holds'[v] # 0
  BY <1>1, <1>2, Zenon DEF CountInv
<1> QED BY <1>1, <1>3, <1>4, Zenon DEF CountInv

LEMMA CountStep ==
  ASSUME DumpConstants, DumpTypeOK, CountInv, Next
  PROVE  CountInv'
<1>1. CASE AddExtent \/ WalkFails \/ WalkDone \/ FlushForAddFails \/ FlushAtEndFails
  BY <1>1, CountSame, Zenon
     DEF AddExtent, WalkFails, WalkDone, FlushForAddFails, FlushAtEndFails, clusterVars
<1>2. CASE Sleep \/ WorkerFailed \/ IndexWriteFails \/ JoinWorkers
  BY <1>2, CountSame, Zenon DEF Sleep, WorkerFailed, IndexWriteFails, JoinWorkers, clusterVars
<1>3. CASE FlushForAdd
  BY <1>3, CountQueue, Zenon DEF FlushForAdd
<1>4. CASE FlushAtEnd
  BY <1>4, CountQueue, CountSame, Zenon DEF FlushAtEnd, clusterVars
<1>5. CASE WriteCluster
  <2>1. numItems' = numReady' /\ numReady' \in Nat
    BY <1>5 DEF WriteCluster
  <2> QED BY <1>5, <2>1, CountEmptied, Zenon DEF WriteCluster, MayWrite
<1>6. CASE NothingToWrite
  <2>1. numItems' = numReady' /\ numReady' \in Nat
    BY <1>6 DEF NothingToWrite
  <2> QED BY <1>6, <2>1, CountEmptied, Zenon DEF NothingToWrite
<1>7. CASE BufferWriteFails
  <2>1. numItems' = numReady' /\ numReady' \in Nat
    BY <1>7, NothingOpen, Zenon DEF BufferWriteFails, MayWrite, DumpTypeOK
  <2> QED BY <1>7, <2>1, CountEmptied, Zenon DEF BufferWriteFails, MayWrite
<1>8. CASE Destroy
  BY <1>8, CountDestroy, Zenon
<1>9. ASSUME NEW w \in Worker, WorkerStep(w) \/ Spurious(w) PROVE CountInv'
  BY <1>9, CountTake, CountPack, CountReady, CountThread, Zenon DEF WorkerStep, Pack, PackFails
<1> QED BY <1>1, <1>2, <1>3, <1>4, <1>5, <1>6, <1>7, <1>8, <1>9, Zenon DEF Next, MainStep

---------------------------------------------------------------------------
(* The order of the walk.                                                  *)

LEMMA SeenLater ==
  ASSUME DumpConstants, NEW n \in 1 .. Len(Extents)
  PROVE  /\ \A x : Seen(n, x) => Seen(n + 1, x)
         /\ \A x, y : Older(n, x, y) => Older(n + 1, x, y)
         /\ Seen(n + 1, Extents[n].start)
         /\ \A x : Seen(n, x) => Older(n + 1, x, Extents[n].start)
<1>1. /\ \A m \in 1 .. n - 1 : m \in 1 .. (n + 1) - 1 /\ m < n
      /\ n \in 1 .. (n + 1) - 1
  <2>1. Len(Extents) \in Nat
    BY EmptyFacts DEF DumpConstants
  <2> QED BY <2>1
<1>2. \A x : Seen(n, x) => Seen(n + 1, x)
  BY <1>1, Zenon DEF Seen
<1>3. \A x, y : Older(n, x, y) => Older(n + 1, x, y)
  BY <1>1, Zenon DEF Older
<1>4. Seen(n + 1, Extents[n].start)
  BY <1>1, Zenon DEF Seen
<1>5. \A x : Seen(n, x) => Older(n + 1, x, Extents[n].start)
  BY <1>1, Zenon DEF Seen, Older
<1> QED BY <1>2, <1>3, <1>4, <1>5, Zenon

LEMMA InitOrder ==
  ASSUME DumpConstants, Init
  PROVE  OrderInv
<1>1. pending.size = 0
  BY DEF Init, NoPending
<1>2. ~(pending.size > 0)
  BY <1>1
<1>3. DOMAIN ordered = {} /\ DOMAIN file = {}
  BY InitType, EmptyFacts, Zenon DEF DumpTypeOK, Init
<1> QED BY <1>2, <1>3, Zenon DEF OrderInv, OrderedInv, FileInv

LEMMA OrderSame ==
  ASSUME OrderInv, UNCHANGED <<next, pending, ordered, file>>
  PROVE  OrderInv'
<1>1. OrderedInv'
  BY Zenon DEF OrderInv, OrderedInv
<1>2. FileInv'
  <2>1. FileInv
    BY Zenon DEF OrderInv
  <2>2. next' = next /\ pending' = pending /\ ordered' = ordered /\ file' = file
    BY Zenon
  <2> QED BY <2>1, <2>2 DEF FileInv
<1> QED BY <1>1, <1>2, Zenon DEF OrderInv

(* add_extent: what becomes pending is the extent the walk has come to, or *)
(* starts where the pending one did.                                       *)
LEMMA AddedStart ==
  ASSUME DumpConstants, DumpTypeOK, AddExtent
  PROVE  /\ next \in 1 .. Len(Extents) /\ next' = next + 1 /\ UNCHANGED <<ordered, file, main>>
         /\ Extents[next] \in Found
         /\ \/ pending.size > 0 /\ pending'.start = pending.start
            \/ pending'.start = Extents[next].start
<1>1. next \in 1 .. Len(Extents) + 1 /\ next <= Len(Extents) /\ Len(Extents) \in Nat
  BY EmptyFacts, Zenon DEF AddExtent, DumpTypeOK, DumpConstants
<1>2. next \in 1 .. Len(Extents)
  BY <1>1
<1>3. next' = next + 1 /\ UNCHANGED <<ordered, file, main>>
  BY Zenon DEF AddExtent, clusterVars
<1>4. Extents[next] \in Found
  BY <1>2 DEF DumpConstants
<1>5. CASE pending' = Extents[next]
  BY <1>5, <1>2, <1>3, <1>4, Zenon
<1>6. CASE Joins(Extents[next]) /\ Join(Extents[next])
  <2>1. pending.start \in Int /\ pending.size \in Nat
        /\ pending \in [start : Int, size : Nat, data : BOOLEAN]
    BY Zenon DEF DumpTypeOK
  <2>2. pending'.start = pending.start /\ pending.start + pending.size = Extents[next].start
    BY <1>6, <2>1, Zenon DEF Joins, Join
  <2>3. pending.size > 0 \/ pending'.start = Extents[next].start
    BY <2>1, <2>2
  <2> QED BY <2>2, <2>3, <1>2, <1>3, <1>4, Zenon
<1> QED BY <1>5, <1>6, Zenon DEF AddExtent

LEMMA OrderAdd ==
  ASSUME DumpConstants, DumpTypeOK, OrderInv, AddExtent
  PROVE  OrderInv'
<1>1. /\ next \in 1 .. Len(Extents) /\ next' = next + 1 /\ UNCHANGED <<ordered, file>>
      /\ \/ pending.size > 0 /\ pending'.start = pending.start
         \/ pending'.start = Extents[next].start
  BY AddedStart, Zenon
<1>2. /\ \A x : Seen(next, x) => Seen(next', x)
      /\ \A x, y : Older(next, x, y) => Older(next', x, y)
      /\ Seen(next', Extents[next].start)
      /\ \A x : Seen(next, x) => Older(next', x, Extents[next].start)
  BY <1>1, SeenLater, Zenon
<1>3. Seen(next', pending'.start)
  BY <1>1, <1>2, Zenon DEF OrderInv
<1>4. OrderedInv'
  <2> SUFFICES ASSUME NEW i \in DOMAIN ordered
               PROVE  /\ Seen(next', ordered[i].start)
                      /\ Older(next', ordered[i].start, pending'.start)
                      /\ \A j \in DOMAIN ordered : i < j =>
                           Older(next', ordered[i].start, ordered[j].start)
    BY <1>1, Zenon DEF OrderedInv
  <2>1. /\ Seen(next, ordered[i].start)
        /\ pending.size > 0 => Older(next, ordered[i].start, pending.start)
        /\ \A j \in DOMAIN ordered : i < j => Older(next, ordered[i].start, ordered[j].start)
    BY Zenon DEF OrderInv, OrderedInv
  <2> QED BY <2>1, <1>1, <1>2, Zenon
<1>5. FileInv'
  <2> SUFFICES ASSUME NEW k \in DOMAIN file, NEW i \in DOMAIN file[k].items
               PROVE  /\ Seen(next', file[k].items[i].start)
                      /\ Older(next', file[k].items[i].start, pending'.start)
                      /\ \A j \in DOMAIN ordered :
                           Older(next', file[k].items[i].start, ordered[j].start)
                      /\ \A l \in DOMAIN file : \A j \in DOMAIN file[l].items :
                           k < l \/ (k = l /\ i < j) =>
                             Older(next', file[k].items[i].start, file[l].items[j].start)
    BY <1>1 DEF FileInv
  <2>1. /\ Seen(next, file[k].items[i].start)
        /\ pending.size > 0 => Older(next, file[k].items[i].start, pending.start)
        /\ \A j \in DOMAIN ordered : Older(next, file[k].items[i].start, ordered[j].start)
        /\ \A l \in DOMAIN file : \A j \in DOMAIN file[l].items : k < l \/ (k = l /\ i < j) =>
             Older(next, file[k].items[i].start, file[l].items[j].start)
    BY Zenon DEF OrderInv, FileInv
  <2> QED BY <2>1, <1>1, <1>2, Zenon
<1> QED BY <1>3, <1>4, <1>5, Zenon DEF OrderInv

LEMMA OrderQueue ==
  ASSUME DumpConstants, DumpTypeOK, OrderInv, Queue, pending.size > 0, UNCHANGED next
  PROVE  OrderInv'
<1>1. /\ ordered \in Seq(Buffers) /\ Buffer \in Buffers /\ ordered' = Append(ordered, Buffer)
      /\ Buffer.start = pending.start /\ file' = file /\ pending'.size = 0
  BY QueueType, BufferType, Zenon DEF DumpTypeOK
<1>2. /\ DOMAIN ordered' = DOMAIN ordered \cup {Len(ordered) + 1} /\ Len(ordered) \in Nat
      /\ \A i \in DOMAIN ordered : ordered'[i] = ordered[i] /\ i < Len(ordered) + 1 /\ i \in Nat
      /\ ordered'[Len(ordered) + 1] = Buffer
  BY <1>1, AppendFacts
<1>3. ~(pending'.size > 0)
  BY <1>1
<1> DEFINE K == Len(ordered) + 1
<1>4. ~(K < K) /\ \A i \in DOMAIN ordered : ~(K < i)
  BY <1>2
<1> HIDE DEF K
<1>5. /\ DOMAIN ordered' = DOMAIN ordered \cup {K} /\ ordered'[K].start = pending.start
      /\ \A i \in DOMAIN ordered : ordered'[i] = ordered[i]
  BY <1>1, <1>2, Zenon DEF K
<1>6. OrderedInv'
  <2> SUFFICES ASSUME NEW i \in DOMAIN ordered'
               PROVE  /\ Seen(next, ordered'[i].start)
                      /\ \A j \in DOMAIN ordered' : i < j =>
                           Older(next, ordered'[i].start, ordered'[j].start)
    BY <1>3, Zenon DEF OrderedInv
  <2>1. CASE i \in DOMAIN ordered
    <3>1. /\ Seen(next, ordered[i].start)
          /\ Older(next, ordered[i].start, pending.start)
          /\ \A j \in DOMAIN ordered : i < j => Older(next, ordered[i].start, ordered[j].start)
      BY <2>1, Zenon DEF OrderInv, OrderedInv
    <3> QED BY <3>1, <2>1, <1>5, Zenon
  <2>2. CASE i = K
    BY <2>2, <1>4, <1>5, Zenon DEF OrderInv
  <2> QED BY <2>1, <2>2, <1>5, Zenon
<1>7. FileInv'
  <2> SUFFICES ASSUME NEW k \in DOMAIN file, NEW i \in DOMAIN file[k].items
               PROVE  /\ Seen(next, file[k].items[i].start)
                      /\ \A j \in DOMAIN ordered' :
                           Older(next, file[k].items[i].start, ordered'[j].start)
                      /\ \A l \in DOMAIN file : \A j \in DOMAIN file[l].items :
                           k < l \/ (k = l /\ i < j) =>
                             Older(next, file[k].items[i].start, file[l].items[j].start)
    BY <1>1, <1>3 DEF FileInv
  <2>1. /\ Seen(next, file[k].items[i].start)
        /\ Older(next, file[k].items[i].start, pending.start)
        /\ \A j \in DOMAIN ordered : Older(next, file[k].items[i].start, ordered[j].start)
        /\ \A l \in DOMAIN file : \A j \in DOMAIN file[l].items : k < l \/ (k = l /\ i < j) =>
             Older(next, file[k].items[i].start, file[l].items[j].start)
    BY Zenon DEF OrderInv, FileInv
  <2> QED BY <2>1, <1>5, Zenon
<1> QED BY <1>3, <1>6, <1>7, Zenon DEF OrderInv

(* The buffers become the last cluster.                                    *)
LEMMA OrderWrite ==
  ASSUME DumpConstants, DumpTypeOK, OrderInv, WriteCluster
  PROVE  OrderInv'
<1> DEFINE c == [bytenr |-> header, at |-> fileLen, items |-> ordered]
           K == Len(file) + 1
<1>1. /\ file \in Seq(Clusters) /\ c \in Clusters /\ file' = Append(file, c) /\ c.items = ordered
      /\ next' = next /\ pending' = pending /\ ordered' = <<>>
  BY WriteType, Zenon DEF WriteCluster, walkVars, DumpTypeOK
<1> HIDE DEF c
<1>2. /\ DOMAIN file' = DOMAIN file \cup {K} /\ Len(file) \in Nat
      /\ \A k \in DOMAIN file : file'[k] = file[k] /\ k < Len(file) + 1 /\ k \in Nat
      /\ file'[K] = c
  BY <1>1, AppendFacts
<1>3. ~(K < K) /\ \A k \in DOMAIN file : ~(K < k) /\ k # K
  BY <1>2
<1>4. DOMAIN ordered' = {}
  <2>1. <<>> \in Seq(Buffers)
    OBVIOUS
  <2> QED BY <2>1, <1>1, EmptyFacts, Zenon
<1> HIDE DEF K
<1>5. FileInv'
  <2> SUFFICES ASSUME NEW k \in DOMAIN file', NEW i \in DOMAIN file'[k].items
               PROVE  /\ Seen(next, file'[k].items[i].start)
                      /\ pending.size > 0 => Older(next, file'[k].items[i].start, pending.start)
                      /\ \A l \in DOMAIN file' : \A j \in DOMAIN file'[l].items :
                           k < l \/ (k = l /\ i < j) =>
                             Older(next, file'[k].items[i].start, file'[l].items[j].start)
    BY <1>1, <1>4 DEF FileInv
  <2>1. CASE k = K
    <3>1. file'[k].items = ordered /\ i \in DOMAIN ordered
      BY <2>1, <1>1, <1>2, Zenon
    <3>2. /\ Seen(next, ordered[i].start)
          /\ pending.size > 0 => Older(next, ordered[i].start, pending.start)
          /\ \A j \in DOMAIN ordered : i < j => Older(next, ordered[i].start, ordered[j].start)
      BY <3>1, Zenon DEF OrderInv, OrderedInv
    <3>3. ASSUME NEW l \in DOMAIN file', NEW j \in DOMAIN file'[l].items,
                 k < l \/ (k = l /\ i < j)
          PROVE  Older(next, file'[k].items[i].start, file'[l].items[j].start)
      <4>1. l = K
        BY <3>3, <2>1, <1>2, <1>3, Zenon
      <4>2. i < j /\ file'[l].items = ordered /\ j \in DOMAIN ordered
        BY <4>1, <3>1, <3>3, <2>1, <1>3, Zenon
      <4> QED BY <4>2, <3>1, <3>2, Zenon
    <3> QED BY <3>1, <3>2, <3>3, Zenon
  <2>2. CASE k # K
    <3>1. k \in DOMAIN file /\ file'[k] = file[k] /\ i \in DOMAIN file[k].items
      BY <2>2, <1>2, Zenon
    <3>2. /\ Seen(next, file[k].items[i].start)
          /\ pending.size > 0 => Older(next, file[k].items[i].start, pending.start)
          /\ \A j \in DOMAIN ordered : Older(next, file[k].items[i].start, ordered[j].start)
          /\ \A l \in DOMAIN file : \A j \in DOMAIN file[l].items : k < l \/ (k = l /\ i < j) =>
               Older(next, file[k].items[i].start, file[l].items[j].start)
      BY <3>1, Zenon DEF OrderInv, FileInv
    <3>3. ASSUME NEW l \in DOMAIN file', NEW j \in DOMAIN file'[l].items,
                 k < l \/ (k = l /\ i < j)
          PROVE  Older(next, file'[k].items[i].start, file'[l].items[j].start)
      <4>1. CASE l = K
        <5>1. file'[l].items = ordered
          BY <4>1, <1>1, <1>2, Zenon
        <5> QED BY <5>1, <3>1, <3>2, <3>3, Zenon
      <4>2. CASE l # K
        <5>1. l \in DOMAIN file /\ file'[l] = file[l]
          BY <4>2, <1>2, Zenon
        <5> QED BY <5>1, <3>1, <3>2, <3>3, Zenon
      <4> QED BY <4>1, <4>2, Zenon
    <3> QED BY <3>1, <3>2, <3>3, Zenon
  <2> QED BY <2>1, <2>2, Zenon
<1>6. OrderedInv'
  BY <1>4, Zenon DEF OrderedInv
<1> QED BY <1>1, <1>5, <1>6, Zenon DEF OrderInv

LEMMA OrderLost ==
  ASSUME OrderInv, ordered' = <<>>, UNCHANGED <<next, pending, file>>
  PROVE  OrderInv'
<1>1. DOMAIN ordered' = {}
  <2>1. <<>> \in Seq(Buffers)
    OBVIOUS
  <2> QED BY <2>1, EmptyFacts, Zenon
<1>2. FileInv'
  <2>1. FileInv
    BY Zenon DEF OrderInv
  <2> QED BY <2>1, <1>1 DEF FileInv
<1> QED BY <1>1, <1>2, Zenon DEF OrderInv, OrderedInv

LEMMA OrderPack ==
  ASSUME DumpConstants, DumpTypeOK, CountInv, OrderInv,
         NEW w \in Worker, NEW st \in {"ready", "garbage"}, PackAs(w, st)
  PROVE  OrderInv'
<1>1. next' = next /\ pending' = pending /\ file' = file
  BY Zenon DEF PackAs, workerFrame
<1>2. /\ DOMAIN ordered' = DOMAIN ordered
      /\ \A i \in DOMAIN ordered : ordered'[i].start = ordered[i].start
  BY PackType, Zenon
<1>3. OrderedInv'
  <2> SUFFICES ASSUME NEW i \in DOMAIN ordered
               PROVE  /\ Seen(next, ordered'[i].start)
                      /\ pending.size > 0 => Older(next, ordered'[i].start, pending.start)
                      /\ \A j \in DOMAIN ordered : i < j =>
                           Older(next, ordered'[i].start, ordered'[j].start)
    BY <1>1, <1>2 DEF OrderedInv
  <2>1. /\ Seen(next, ordered[i].start)
        /\ pending.size > 0 => Older(next, ordered[i].start, pending.start)
        /\ \A j \in DOMAIN ordered : i < j => Older(next, ordered[i].start, ordered[j].start)
    BY Zenon DEF OrderInv, OrderedInv
  <2> QED BY <2>1, <1>2, Zenon
<1>4. FileInv'
  <2>1. FileInv
    BY Zenon DEF OrderInv
  <2> QED BY <2>1, <1>1, <1>2 DEF FileInv
<1> QED BY <1>1, <1>3, <1>4, Zenon DEF OrderInv

LEMMA OrderStep ==
  ASSUME DumpConstants, DumpTypeOK, CountInv, OrderInv, Next
  PROVE  OrderInv'
<1>1. CASE AddExtent
  BY <1>1, OrderAdd, Zenon
<1>2. CASE WalkFails \/ WalkDone \/ FlushForAddFails \/ FlushAtEndFails
  BY <1>2, OrderSame, Zenon
     DEF WalkFails, WalkDone, FlushForAddFails, FlushAtEndFails, clusterVars, walkVars
<1>3. CASE Sleep \/ WorkerFailed \/ IndexWriteFails
  BY <1>3, OrderSame, Zenon DEF Sleep, WorkerFailed, IndexWriteFails, clusterVars, walkVars
<1>4. CASE Destroy \/ JoinWorkers \/ NothingToWrite
  BY <1>4, OrderSame, Zenon DEF Destroy, JoinWorkers, NothingToWrite, clusterVars, walkVars
<1>5. CASE FlushForAdd
  BY <1>5, OrderQueue, Zenon DEF FlushForAdd, NeedsFlush
<1>6. CASE FlushAtEnd
  BY <1>6, OrderQueue, OrderSame, Zenon DEF FlushAtEnd, clusterVars
<1>7. CASE WriteCluster
  BY <1>7, OrderWrite, Zenon
<1>8. CASE BufferWriteFails
  BY <1>8, OrderLost, Zenon DEF BufferWriteFails, walkVars
<1>9. ASSUME NEW w \in Worker, Take(w) \/ NoMemory(w) \/ Ready(w) \/ Spurious(w) PROVE OrderInv'
  BY <1>9, OrderSame, Zenon DEF Take, NoMemory, Ready, Spurious, workerFrame
<1>10. ASSUME NEW w \in Worker, Pack(w) \/ PackFails(w) PROVE OrderInv'
  BY <1>10, OrderPack, Zenon DEF Pack, PackFails
<1> QED BY <1>1, <1>2, <1>3, <1>4, <1>5, <1>6, <1>7, <1>8, <1>9, <1>10, Zenon
        DEF Next, MainStep, WorkerStep

---------------------------------------------------------------------------
(* What the clusters hold and where they lie.                              *)

LEMMA WrittenStep ==
  ASSUME DumpConstants, DumpTypeOK, CountInv, WrittenOut, Next
  PROVE  WrittenOut'
<1>1. CASE WriteCluster
  <2> DEFINE c == [bytenr |-> header, at |-> fileLen, items |-> ordered]
  <2>1. /\ file \in Seq(Clusters) /\ c \in Clusters /\ file' = Append(file, c) /\ c.items = ordered
    BY <1>1, WriteType, Zenon DEF DumpTypeOK
  <2>2. \A b \in Range(ordered) : b.state # "raw"
    <3>1. \A i \in DOMAIN ordered : ordered[i].state # "raw"
      BY <1>1, NothingOpen, Zenon DEF WriteCluster, MayWrite
    <3> QED BY <3>1, Zenon DEF Range
  <2> HIDE DEF c
  <2>3. /\ DOMAIN file' = DOMAIN file \cup {Len(file) + 1}
        /\ \A k \in DOMAIN file : file'[k] = file[k]
        /\ file'[Len(file) + 1] = c
    BY <2>1, AppendFacts
  <2> QED BY <2>1, <2>2, <2>3, Zenon DEF WrittenOut
<1>2. CASE ~WriteCluster
  <2>1. file' = file
    <3>1. CASE MainStep
      BY <3>1, <1>2, Zenon
         DEF MainStep, AddExtent, WalkFails, WalkDone, FlushForAdd, FlushForAddFails, FlushAtEnd,
             FlushAtEndFails, Sleep, NothingToWrite, WorkerFailed, IndexWriteFails,
             BufferWriteFails, Destroy, JoinWorkers, Queue, clusterVars
    <3>2. ASSUME NEW w \in Worker, WorkerStep(w) \/ Spurious(w) PROVE file' = file
      BY <3>2, Zenon DEF WorkerStep, Spurious, Take, Pack, PackFails, PackAs, NoMemory, Ready,
                         workerFrame
    <3> QED BY <3>1, <3>2, Zenon DEF Next
  <2> QED BY <2>1, Zenon DEF WrittenOut
<1> QED BY <1>1, <1>2, Zenon

(* A failure is not forgotten.                                             *)
LEMMA FailsLost ==
  ASSUME NEW f, Fails(f)
  PROVE  /\ lost' # "no" /\ (lost = "cache" => lost' = "cache")
         /\ CopyingCache /\ f # "nomem" => lost' = "cache"
BY Zenon DEF Fails

LEMMA LostStays ==
  ASSUME Next
  PROVE  /\ lost' = "no" => lost = "no"
         /\ lost = "cache" => lost' = "cache"
         /\ error' => error \/ lost' # "no"
<1>1. ASSUME AddExtent \/ WalkDone \/ FlushForAdd \/ FlushAtEnd \/ Sleep \/ WriteCluster
             \/ NothingToWrite \/ WorkerFailed \/ Destroy \/ JoinWorkers
      PROVE  lost' = lost /\ error' = error
  BY <1>1 DEF AddExtent, WalkDone, FlushForAdd, FlushAtEnd, Sleep, WriteCluster, NothingToWrite,
              WorkerFailed, Destroy, JoinWorkers, Works
<1>2. ASSUME WalkFails \/ FlushForAddFails \/ FlushAtEndFails \/ IndexWriteFails \/ BufferWriteFails
      PROVE  lost' # "no" /\ (lost = "cache" => lost' = "cache")
  <2>1. \E f \in {"walk", "read", "write"} : Fails(f)
    BY <1>2, Zenon DEF WalkFails, FlushForAddFails, FlushAtEndFails, IndexWriteFails, BufferWriteFails
  <2> QED BY <2>1, FailsLost, Zenon
<1>3. ASSUME NEW w \in Worker, Take(w) \/ Ready(w) \/ Spurious(w) \/ Pack(w)
      PROVE  lost' = lost /\ error' = error
  BY <1>3 DEF Take, Ready, Spurious, Pack, PackAs, Works
<1>4. ASSUME NEW w \in Worker, PackFails(w) \/ NoMemory(w)
      PROVE  lost' # "no" /\ (lost = "cache" => lost' = "cache")
  BY <1>4, FailsLost, Zenon DEF PackFails, NoMemory
<1>5. \/ lost' = lost /\ error' = error
      \/ lost' # "no" /\ (lost = "cache" => lost' = "cache")
  <2>1. CASE MainStep
    BY <2>1, <1>1, <1>2, Zenon DEF MainStep
  <2>2. ASSUME NEW w \in Worker, WorkerStep(w) \/ Spurious(w)
        PROVE  \/ lost' = lost /\ error' = error
               \/ lost' # "no" /\ (lost = "cache" => lost' = "cache")
    BY <2>2, <1>3, <1>4, Zenon DEF WorkerStep
  <2> QED BY <2>1, <2>2, Zenon DEF Next
<1> QED BY <1>5

(* While nothing has failed: the next header is where the image ends.      *)
LEMMA HeaderStep ==
  ASSUME DumpConstants, DumpTypeOK, WriteCluster,
         header = fileLen, \E k \in 0 .. header : header = k * BlockSize
  PROVE  header' = fileLen' /\ \E k \in 0 .. header' : header' = k * BlockSize
<1> DEFINE B == Bytes(ordered)
<1>1. /\ B \in Nat /\ header' = RoundUp(header + BlockSize + B) /\ header' \in Nat
      /\ fileLen' = fileLen + BlockSize + RoundUp(B)
  BY WriteType, Zenon
<1> HIDE DEF B
<1>2. PICK k \in 0 .. header : header = k * BlockSize
  OBVIOUS
<1>3. BlockSize \in Nat \ {0} /\ k \in Nat /\ header \in Nat
  <2>1. BlockSize \in Nat \ {0} /\ header \in Nat
    BY Zenon DEF DumpConstants, DumpTypeOK
  <2> QED BY <2>1
<1>4. header + BlockSize = (k + 1) * BlockSize /\ k + 1 \in Nat
  BY <1>2, <1>3
<1>5. RoundUp((k + 1) * BlockSize + B) = (k + 1) * BlockSize + RoundUp(B)
  BY <1>1, <1>4, RoundUpShift
<1>6. header' = (k + 1) * BlockSize + RoundUp(B)
  BY <1>1, <1>4, <1>5
<1>7. header' = fileLen'
  BY <1>6, <1>1, <1>4, Zenon
<1>8. PICK j \in Nat : RoundUp(B) = j * BlockSize
  BY <1>1, RoundUpMultiple
<1>9. header' = (k + 1 + j) * BlockSize
  BY <1>3, <1>4, <1>6, <1>8
<1>10. k + 1 + j \in 0 .. header'
  <2> DEFINE q == k + 1 + j
  <2>1. q \in Nat /\ header' = q * BlockSize
    BY <1>4, <1>8, <1>9
  <2> HIDE DEF q
  <2>2. q <= q * BlockSize
    BY <2>1, <1>3, Z3
  <2>3. q \in 0 .. header'
    BY <2>1, <2>2, <1>1
  <2> QED BY <2>3 DEF q
<1> QED BY <1>7, <1>9, <1>10

LEMMA InitLayout ==
  ASSUME DumpConstants, Init
  PROVE  LayoutInv /\ WrittenOut
<1>1. DOMAIN file = {} /\ Len(ordered) = 0
  BY InitType, EmptyFacts, Zenon DEF DumpTypeOK, Init
<1>2. ItemsPerCluster \in Nat \ {0} /\ BlockSize \in Nat
  BY Zenon DEF DumpConstants
<1>3. numItems = Len(ordered) /\ numItems < ItemsPerCluster /\ numItems <= ItemsPerCluster
  BY <1>1, <1>2 DEF Init
<1>4. header = fileLen /\ \E k \in 0 .. header : header = k * BlockSize
  BY <1>2 DEF Init
<1>5. ~error
  BY Zenon DEF Init
<1> QED BY <1>1, <1>3, <1>4, <1>5, Zenon DEF LayoutInv, WrittenOut

LEMMA LayoutStep ==
  ASSUME DumpConstants, DumpTypeOK, CountInv, LayoutInv, Next
  PROVE  LayoutInv'
<1>1. error' => lost' # "no"
  BY LostStays, Zenon DEF LayoutInv
<1> SUFFICES ASSUME lost' = "no"
             PROVE  /\ numItems' = Len(ordered') /\ numItems' <= ItemsPerCluster
                    /\ main' \in {"walk", "out"} => numItems' < ItemsPerCluster
                    /\ ~Ending' => header' = fileLen' /\ \E k \in 0 .. header' : header' = k * BlockSize
                    /\ \A k \in DOMAIN file' : /\ Len(file'[k].items) <= ItemsPerCluster
                                               /\ file'[k].bytenr = file'[k].at
  BY <1>1, Zenon DEF LayoutInv
<1>2. /\ ~error /\ numItems = Len(ordered) /\ numItems <= ItemsPerCluster
      /\ main \in {"walk", "out"} => numItems < ItemsPerCluster
      /\ ~Ending => header = fileLen /\ \E k \in 0 .. header : header = k * BlockSize
      /\ \A k \in DOMAIN file : /\ Len(file[k].items) <= ItemsPerCluster
                                /\ file[k].bytenr = file[k].at
  BY LostStays, Zenon DEF LayoutInv
<1>3. ItemsPerCluster \in Nat \ {0} /\ numItems \in Nat
  BY Zenon DEF DumpConstants, DumpTypeOK
<1>4. CASE UNCHANGED <<numItems, header, fileLen, file, main>> /\ Len(ordered') = Len(ordered)
  BY <1>4, <1>2, Zenon DEF Ending
<1>5. ASSUME Queue, main \in {"walk", "out"}
      PROVE  /\ numItems' = numItems + 1 /\ numItems' = Len(ordered') /\ numItems' <= ItemsPerCluster
             /\ header' = header /\ fileLen' = fileLen /\ file' = file
  <2>1. /\ numItems' = numItems + 1 /\ ordered' = Append(ordered, Buffer) /\ ordered \in Seq(Buffers)
        /\ Buffer \in Buffers
    BY <1>5, BufferType, Zenon DEF Queue, DumpTypeOK
  <2>2. Len(ordered') = Len(ordered) + 1
    BY <2>1, AppendFacts
  <2>3. numItems' <= ItemsPerCluster
    BY <2>1, <1>5, <1>2, <1>3
  <2> QED BY <2>1, <2>2, <2>3, <1>5, <1>2, Zenon DEF Queue
<1>6. CASE FlushForAdd
  <2>1. Queue /\ main = "walk" /\ main' = IF numItems + 1 >= ItemsPerCluster THEN "writeAdd" ELSE "walk"
    BY <1>6, Zenon DEF FlushForAdd, NeedsFlush
  <2>2. /\ numItems' = numItems + 1 /\ numItems' = Len(ordered') /\ numItems' <= ItemsPerCluster
        /\ header' = header /\ fileLen' = fileLen /\ file' = file
    BY <2>1, <1>5, Zenon
  <2>3. main' \in {"walk", "out"} => numItems' < ItemsPerCluster
    BY <2>1, <2>2, <1>3
  <2>4. ~Ending
    BY <2>1, Zenon DEF Ending
  <2> QED BY <2>2, <2>3, <2>4, <1>2, Zenon
<1>7. CASE FlushAtEnd
  <2>1. main = "out" /\ main' = "writeEnd" /\ ~Ending
    BY <1>7, Zenon DEF FlushAtEnd, Ending
  <2>2. CASE Queue
    <3>1. /\ numItems' = Len(ordered') /\ numItems' <= ItemsPerCluster
          /\ header' = header /\ fileLen' = fileLen /\ file' = file
      BY <2>1, <2>2, <1>5, Zenon
    <3> QED BY <3>1, <2>1, <1>2, Zenon
  <2>3. CASE UNCHANGED clusterVars
    <3>1. /\ numItems' = numItems /\ ordered' = ordered
          /\ header' = header /\ fileLen' = fileLen /\ file' = file
      BY <2>3, Zenon DEF clusterVars
    <3> QED BY <3>1, <2>1, <1>2, Zenon
  <2> QED BY <1>7, <2>2, <2>3, Zenon DEF FlushAtEnd
<1>8. CASE WriteCluster
  <2> DEFINE c == [bytenr |-> header, at |-> fileLen, items |-> ordered]
  <2>1. ~Ending /\ numItems' = 0 /\ ordered' = <<>>
    BY <1>8, Zenon DEF WriteCluster, MayWrite, Asleep, Ending
  <2>2. header' = fileLen' /\ \E k \in 0 .. header' : header' = k * BlockSize
    BY <2>1, <1>8, <1>2, HeaderStep, Zenon
  <2>3. /\ file \in Seq(Clusters) /\ c \in Clusters /\ file' = Append(file, c)
        /\ c.items = ordered /\ c.bytenr = header /\ c.at = fileLen
    BY <1>8, WriteType, Zenon DEF DumpTypeOK
  <2> HIDE DEF c
  <2>4. /\ DOMAIN file' = DOMAIN file \cup {Len(file) + 1}
        /\ \A k \in DOMAIN file : file'[k] = file[k]
        /\ file'[Len(file) + 1] = c
    BY <2>3, AppendFacts
  <2>5. \A k \in DOMAIN file' : /\ Len(file'[k].items) <= ItemsPerCluster
                                /\ file'[k].bytenr = file'[k].at
    BY <2>1, <2>3, <2>4, <1>2, Zenon
  <2>6. Len(<<>>) = 0 /\ 0 <= ItemsPerCluster /\ 0 < ItemsPerCluster
    BY <1>3
  <2> QED BY <2>1, <2>2, <2>5, <2>6, Zenon
<1>9. CASE NothingToWrite
  <2>1. numItems' = 0 /\ ordered' = <<>> /\ main' = "destroy" /\ file' = file
    BY <1>9, Zenon DEF NothingToWrite
  <2>2. Len(<<>>) = 0 /\ 0 <= ItemsPerCluster
    BY <1>3
  <2> QED BY <2>1, <2>2, <1>2, Zenon DEF Ending
<1>10. CASE WalkDone \/ Sleep \/ Destroy \/ JoinWorkers
  <2>1. /\ numItems' = numItems /\ ordered' = ordered
        /\ header' = header /\ fileLen' = fileLen /\ file' = file
    BY <1>10, Zenon DEF WalkDone, Sleep, Destroy, JoinWorkers, clusterVars
  <2>2. /\ Ending => Ending'
        /\ main' \in {"walk", "out"} => main \in {"walk", "out"}
    BY <1>10, Zenon DEF WalkDone, Sleep, Destroy, JoinWorkers, Ending
  <2> QED BY <2>1, <2>2, <1>2, Zenon
<1>11. CASE AddExtent
  BY <1>11, <1>4, Zenon DEF AddExtent, clusterVars
<1>12. ASSUME WalkFails \/ FlushForAddFails \/ FlushAtEndFails \/ IndexWriteFails \/ BufferWriteFails
       PROVE  FALSE
  <2>1. \E f : Fails(f)
    BY <1>12, Zenon DEF WalkFails, FlushForAddFails, FlushAtEndFails, IndexWriteFails, BufferWriteFails
  <2> QED BY <2>1, FailsLost, Zenon
<1>13. ASSUME WorkerFailed PROVE FALSE
  BY <1>13, <1>2, Zenon DEF WorkerFailed
<1>14. CASE \E w \in Worker : WorkerStep(w) \/ Spurious(w)
  <2>1. UNCHANGED <<numItems, header, fileLen, file, main>>
    BY <1>14, Zenon DEF WorkerStep, Spurious, Take, Pack, PackFails, PackAs, NoMemory, Ready,
                        workerFrame
  <2>2. Len(ordered') = Len(ordered)
    BY <1>14, PackType, Zenon DEF WorkerStep, Spurious, Take, Pack, PackFails, NoMemory, Ready
  <2> QED BY <2>1, <2>2, <1>4, Zenon
<1> QED BY <1>6, <1>7, <1>8, <1>9, <1>10, <1>11, <1>12, <1>13, <1>14, Zenon DEF Next, MainStep

---------------------------------------------------------------------------
(* Nothing is left out.                                                    *)

LEMMA CoveredIs ==
  ASSUME NEW q
  PROVE  Covered(q) = UNION {Span(q[i]) : i \in DOMAIN q}
BY Zenon DEF Covered, Range, Span

LEMMA WalkedNext ==
  ASSUME NEW n \in Nat \ {0}
  PROVE  Walked(n + 1) = Walked(n) \cup Span(Extents[n])
<1>1. 1 .. (n + 1) - 1 = (1 .. n - 1) \cup {n}
  OBVIOUS
<1> QED BY <1>1, Zenon DEF Walked

LEMMA CoveredQueue ==
  ASSUME DumpTypeOK, Queue
  PROVE  Covered(ordered') \cup Span(pending') = Covered(ordered) \cup Span(pending)
<1>1. /\ ordered \in Seq(Buffers) /\ Buffer \in Buffers /\ ordered' = Append(ordered, Buffer)
      /\ Buffer.start = pending.start /\ Buffer.size = pending.size
  BY QueueType, BufferType, Zenon DEF DumpTypeOK
<1>2. Range(ordered') = Range(ordered) \cup {Buffer}
  BY <1>1, AppendFacts
<1>3. Covered(ordered') = Covered(ordered) \cup Span(Buffer)
  BY <1>2, Zenon DEF Covered, Span
<1>4. Span(Buffer) = Span(pending)
  BY <1>1, Zenon DEF Span
<1>5. Span(pending') = {}
  <2>1. pending' = NoPending
    BY Zenon DEF Queue
  <2>2. NoPending.start = -1 /\ NoPending.size = 0
    BY DEF NoPending
  <2>3. Span(NoPending) = {}
    BY <2>2 DEF Span
  <2> QED BY <2>1, <2>3
<1> QED BY <1>3, <1>4, <1>5, Zenon

LEMMA CoveredPack ==
  ASSUME DumpConstants, DumpTypeOK, CountInv, NEW w \in Worker, NEW st \in {"ready", "garbage"},
         PackAs(w, st)
  PROVE  Covered(ordered') = Covered(ordered)
<1>1. /\ DOMAIN ordered' = DOMAIN ordered
      /\ \A i \in DOMAIN ordered : /\ ordered'[i].start = ordered[i].start
                                   /\ ordered'[i].size = ordered[i].size
  BY PackType, Zenon
<1>2. \A i \in DOMAIN ordered : Span(ordered'[i]) = Span(ordered[i])
  BY <1>1, Zenon DEF Span
<1>3. UNION {Span(ordered'[i]) : i \in DOMAIN ordered'} = UNION {Span(ordered[i]) : i \in DOMAIN ordered}
  BY <1>1, <1>2, Zenon
<1> QED BY <1>3, CoveredIs, Zenon

LEMMA CoveredWrite ==
  ASSUME DumpConstants, DumpTypeOK, WriteCluster
  PROVE  Written' \cup Covered(ordered') = Written \cup Covered(ordered)
<1> DEFINE c == [bytenr |-> header, at |-> fileLen, items |-> ordered]
<1>1. /\ file \in Seq(Clusters) /\ c \in Clusters /\ file' = Append(file, c) /\ c.items = ordered
      /\ ordered' = <<>>
  BY WriteType, Zenon DEF DumpTypeOK, WriteCluster
<1> HIDE DEF c
<1>2. /\ DOMAIN file' = DOMAIN file \cup {Len(file) + 1}
      /\ \A k \in DOMAIN file : file'[k] = file[k]
      /\ file'[Len(file) + 1] = c
  BY <1>1, AppendFacts
<1>3. Written' = Written \cup Covered(ordered)
  <2>1. \A k \in DOMAIN file : Covered(file'[k].items) = Covered(file[k].items)
    BY <1>2, Zenon
  <2>2. Covered(file'[Len(file) + 1].items) = Covered(ordered)
    BY <1>1, <1>2, Zenon
  <2>3. {Covered(file'[k].items) : k \in DOMAIN file'}
          = {Covered(file[k].items) : k \in DOMAIN file} \cup {Covered(ordered)}
    <3> DEFINE R == {Covered(file'[k].items) : k \in DOMAIN file'}
               S == {Covered(file[k].items) : k \in DOMAIN file}
    <3>1. ASSUME NEW x \in R PROVE x \in S \cup {Covered(ordered)}
      <4>1. PICK k \in DOMAIN file' : x = Covered(file'[k].items)
        BY <3>1, Zenon
      <4> QED BY <4>1, <1>2, <2>1, <2>2, Zenon
    <3>2. ASSUME NEW x \in S \cup {Covered(ordered)} PROVE x \in R
      <4>1. ASSUME NEW k \in DOMAIN file, x = Covered(file[k].items)
            PROVE  x \in R
        BY <4>1, <1>2, <2>1, Zenon
      <4>2. CASE x = Covered(ordered)
        BY <4>2, <1>2, <2>2, Zenon
      <4> QED BY <3>2, <4>1, <4>2, Zenon
    <3> QED BY <3>1, <3>2, Zenon
  <2>4. Written' = UNION {Covered(file'[k].items) : k \in DOMAIN file'}
    BY Zenon DEF Written, Covered
  <2> QED BY <2>3, <2>4, Zenon DEF Written
<1>4. Range(<<>>) = {}
  <2>1. <<>> \in Seq(Buffers)
    OBVIOUS
  <2> QED BY <2>1, EmptyFacts, Zenon
<1>5. Covered(ordered') = {}
  BY <1>1, <1>4, Zenon DEF Covered
<1> QED BY <1>3, <1>5, Zenon

LEMMA CoveredAdd ==
  ASSUME DumpConstants, DumpTypeOK, AddExtent
  PROVE  Span(pending') = Span(pending) \cup Span(Extents[next]) /\ next \in Nat \ {0}
<1>1. next \in 1 .. Len(Extents) /\ Extents[next] \in Found
  BY AddedStart, Zenon
<1> DEFINE e == Extents[next]
<1>2. /\ pending.start \in Int /\ pending.size \in Nat
      /\ e.start \in Nat /\ e.size \in Nat \ {0}
      /\ pending \in [start : Int, size : Nat, data : BOOLEAN]
  BY <1>1, Zenon DEF DumpTypeOK, Found
<1>3. next \in Nat \ {0}
  <2>1. Len(Extents) \in Nat
    BY EmptyFacts DEF DumpConstants
  <2> QED BY <2>1, <1>1
<1> HIDE DEF e
<1>4. CASE Joins(e) /\ Join(e)
  <2>1. pending' = [pending EXCEPT !.size = @ + e.size, !.data = e.data]
        /\ pending.start + pending.size = e.start
    BY <1>4, Zenon DEF Join, Joins
  <2>2. pending'.start = pending.start /\ pending'.size = pending.size + e.size
    BY <2>1, <1>2, Zenon
  <2>3. Span(pending') = Span(pending) \cup Span(e)
    BY <2>1, <2>2, <1>2 DEF Span
  <2> QED BY <2>3, <1>3 DEF e
<1>5. CASE pending.size = 0 /\ pending' = e
  <2>1. Span(pending) = {}
    BY <1>5, <1>2 DEF Span
  <2> QED BY <2>1, <1>3, <1>5, Zenon DEF e
<1> QED BY <1>4, <1>5, Zenon DEF AddExtent, e

LEMMA InitComplete ==
  ASSUME DumpConstants, Init
  PROVE  CompleteInv
<1>1. /\ main = "walk" /\ next = 1 /\ pending = NoPending /\ ordered = <<>> /\ file = <<>>
      /\ ~err /\ ~error
  BY Zenon DEF Init
<1>2. Adding /\ ~Ending /\ main \notin {"writeEnd", "sleepEnd"}
  BY <1>1 DEF Adding, Ending
<1>3. Range(<<>>) = {} /\ DOMAIN <<>> = {}
  <2>1. <<>> \in Seq(Buffers)
    OBVIOUS
  <2> QED BY <2>1, EmptyFacts, Zenon
<1>4. Written = {} /\ Covered(ordered) = {}
  BY <1>1, <1>3, Zenon DEF Written, Covered
<1>5. Span(pending) = {}
  <2>1. NoPending.start = -1 /\ NoPending.size = 0
    BY DEF NoPending
  <2>2. Span(NoPending) = {}
    BY <2>1 DEF Span
  <2> QED BY <2>2, <1>1, Zenon
<1>6. Walked(next) = {}
  <2>1. 1 .. 1 - 1 = {}
    OBVIOUS
  <2> QED BY <2>1, <1>1, Zenon DEF Walked
<1> QED BY <1>1, <1>2, <1>4, <1>5, <1>6, Zenon DEF CompleteInv

(* A thread that is gone stays gone, with what it held.                    *)
LEMMA ExitStays ==
  ASSUME DumpTypeOK, Next, NEW v \in Worker, worker[v] = "exit"
  PROVE  worker'[v] = "exit" /\ holds'[v] = holds[v]
<1> worker \in [Worker -> {"run", "wait", "pack", "packed", "exit"}] /\ holds \in [Worker -> Nat]
  BY Zenon DEF DumpTypeOK
<1>1. CASE UNCHANGED <<worker, holds>>
  BY <1>1, Zenon
<1>2. CASE Queue /\ UNCHANGED holds
  <2>1. CASE UNCHANGED worker
    BY <2>1, <1>2, Zenon
  <2>2. CASE Signal
    BY <2>2, <1>2 DEF Signal
  <2> QED BY <2>1, <2>2, <1>2, Zenon DEF Queue
<1>3. CASE Destroy
  BY <1>3 DEF Destroy
<1>4. ASSUME NEW w \in Worker, WorkerStep(w) \/ Spurious(w)
      PROVE  worker'[v] = "exit" /\ holds'[v] = holds[v]
  <2>1. worker[w] # "exit" /\ v # w
    BY <1>4 DEF WorkerStep, Take, Pack, PackFails, PackAs, NoMemory, Ready, Spurious
  <2>2. \E s : worker' = [worker EXCEPT ![w] = s]
    BY <1>4, Zenon DEF WorkerStep, Take, Pack, PackFails, PackAs, NoMemory, Ready, Spurious
  <2>3. holds' = holds \/ \E n : holds' = [holds EXCEPT ![w] = n]
    BY <1>4, Zenon DEF WorkerStep, Take, Pack, PackFails, PackAs, NoMemory, Ready, Spurious
  <2> QED BY <2>1, <2>2, <2>3
<1>5. CASE MainStep /\ ~Destroy /\ ~FlushForAdd /\ ~FlushAtEnd
  <2>1. UNCHANGED <<worker, holds>>
    BY <1>5 DEF MainStep, AddExtent, WalkFails, WalkDone, FlushForAddFails, FlushAtEndFails, Sleep,
                WriteCluster, NothingToWrite, WorkerFailed, IndexWriteFails, BufferWriteFails, JoinWorkers
  <2> QED BY <2>1, <1>1
<1>6. CASE FlushForAdd \/ FlushAtEnd
  <2>1. UNCHANGED holds /\ (Queue \/ UNCHANGED worker)
    BY <1>6, Zenon DEF FlushForAdd, FlushAtEnd
  <2> QED BY <2>1, <1>1, <1>2, Zenon
<1> QED BY <1>3, <1>4, <1>5, <1>6, Zenon DEF Next

(* What a failure does to err: the main thread has none while it walks,    *)
(* and one outside of copy_space_cache sets it.                            *)
LEMMA ErrStays ==
  ASSUME Next, Adding => ~err
  PROVE  (~err' => ~err) /\ (error => error')
<1>1. CASE WalkFails \/ FlushForAddFails
  <2>1. main = "walk" /\ error' = error
    BY <1>1, Zenon DEF WalkFails, FlushForAddFails, NeedsFlush
  <2> QED BY <2>1, Zenon DEF Adding
<1>2. CASE FlushAtEndFails
  BY <1>2, Zenon DEF FlushAtEndFails
<1>3. CASE WorkerFailed \/ IndexWriteFails \/ BufferWriteFails
  <2>1. error' = error /\ err' = (err \/ main \in {"writeEnd", "sleepEnd"} \/ next < CacheFrom)
    BY <1>3 DEF WorkerFailed, IndexWriteFails, BufferWriteFails, Failed
  <2> QED BY <2>1, Zenon
<1>4. CASE AddExtent \/ WalkDone \/ FlushForAdd \/ FlushAtEnd \/ Sleep \/ WriteCluster
           \/ NothingToWrite \/ Destroy \/ JoinWorkers
  <2>1. err' = err /\ error' = error
    BY <1>4 DEF AddExtent, WalkDone, FlushForAdd, FlushAtEnd, Sleep, WriteCluster, NothingToWrite,
                Destroy, JoinWorkers
  <2> QED BY <2>1
<1>5. ASSUME NEW w \in Worker, WorkerStep(w) \/ Spurious(w)
      PROVE  (~err' => ~err) /\ (error => error')
  <2>1. err' = err /\ (error' = error \/ error' = TRUE)
    BY <1>5 DEF WorkerStep, Take, Ready, Spurious, Pack, PackFails, PackAs, NoMemory, workerFrame
  <2> QED BY <2>1
<1> QED BY <1>1, <1>2, <1>3, <1>4, <1>5, Zenon DEF Next, MainStep

LEMMA FailureTold ==
  ASSUME DumpConstants, DumpTypeOK,
         WalkFails \/ FlushForAddFails \/ FlushAtEndFails \/ IndexWriteFails \/ BufferWriteFails
  PROVE  err' \/ lost' = "cache"
<1>1. next \in Nat /\ CacheFrom \in Nat
  <2>1. next \in 1 .. Len(Extents) + 1 /\ CacheFrom \in Nat /\ Len(Extents) \in Nat
    BY EmptyFacts, Zenon DEF DumpTypeOK, DumpConstants
  <2> QED BY <2>1
<1>2. ~(next < CacheFrom) => next >= CacheFrom
  BY <1>1
<1>3. CASE WalkFails \/ FlushForAddFails
  <2>1. /\ main = "walk" /\ err' = (next < CacheFrom)
        /\ \E f \in {"walk", "read"} : Fails(f)
    BY <1>3, Zenon DEF WalkFails, FlushForAddFails, NeedsFlush
  <2> QED BY <2>1, <1>2, FailsLost, Zenon DEF CopyingCache
<1>4. CASE FlushAtEndFails
  BY <1>4, Zenon DEF FlushAtEndFails
<1>5. CASE IndexWriteFails \/ BufferWriteFails
  <2>1. MayWrite /\ Failed /\ Fails("write")
    BY <1>5, Zenon DEF IndexWriteFails, BufferWriteFails
  <2>2. main \in {"writeAdd", "sleepAdd"} \/ main \in {"writeEnd", "sleepEnd"}
    BY <2>1 DEF MayWrite, Asleep
  <2>3. err' = (err \/ main \in {"writeEnd", "sleepEnd"} \/ next < CacheFrom)
    BY <2>1 DEF Failed
  <2>4. main \in {"writeAdd", "sleepAdd"} /\ next >= CacheFrom => lost' = "cache"
    <3>1. CopyingCache => lost' = "cache"
      BY <2>1 DEF Fails
    <3> QED BY <3>1 DEF CopyingCache
  <2> QED BY <2>2, <2>3, <2>4, <1>2, Zenon
<1> QED BY <1>3, <1>4, <1>5

LEMMA CompleteFlags ==
  ASSUME DumpConstants, DumpTypeOK, CountInv, CompleteInv, Next
  PROVE  /\ Adding' => ~err'
         /\ main' \in {"writeEnd", "sleepEnd"} => pending'.size = 0
         /\ Ending' /\ ~err' => pending'.size = 0 /\ ordered' = <<>>
<1> DEFINE Goal == /\ Adding' => ~err'
                   /\ main' \in {"writeEnd", "sleepEnd"} => pending'.size = 0
                   /\ Ending' /\ ~err' => pending'.size = 0 /\ ordered' = <<>>
<1>1. /\ Adding => ~err
      /\ main \in {"writeEnd", "sleepEnd"} => pending.size = 0
      /\ Ending /\ ~err => pending.size = 0 /\ ordered = <<>>
  BY Zenon DEF CompleteInv
<1>2. pending.size \in Nat
  BY Zenon DEF DumpTypeOK
<1>3. CASE UNCHANGED <<main, err, pending>> /\ (Ending /\ ordered = <<>> => ordered' = <<>>)
  BY <1>1, <1>3, Zenon DEF Adding, Ending
<1>4. CASE AddExtent
  <2>1. main' = "walk" /\ main = "walk" /\ err' = err
    BY <1>4, Zenon DEF AddExtent
  <2> QED BY <2>1, <1>1 DEF Adding, Ending
<1>5. CASE WalkFails \/ FlushForAddFails \/ WalkDone
  <2>1. main' = "out"
    BY <1>5, Zenon DEF WalkFails, FlushForAddFails, WalkDone
  <2> QED BY <2>1 DEF Adding, Ending
<1>6. CASE FlushForAdd
  <2>1. main' \in {"walk", "writeAdd"} /\ main = "walk" /\ err' = err
    BY <1>6 DEF FlushForAdd, NeedsFlush
  <2> QED BY <2>1, <1>1 DEF Adding, Ending
<1>7. CASE FlushAtEnd
  <2>1. main' = "writeEnd" /\ (Queue \/ (~(pending.size > 0) /\ pending' = pending))
    BY <1>7 DEF FlushAtEnd
  <2>2. Queue => pending'.size = 0
    <3>1. NoPending.size = 0
      BY DEF NoPending
    <3> QED BY <3>1, Zenon DEF Queue
  <2>3. pending'.size = 0
    BY <2>1, <2>2, <1>2
  <2> QED BY <2>1, <2>3 DEF Adding, Ending
<1>8. CASE FlushAtEndFails
  <2>1. main' = "destroy" /\ err' = TRUE
    BY <1>8, Zenon DEF FlushAtEndFails
  <2> QED BY <2>1 DEF Adding, Ending
<1>9. CASE Sleep
  <2>1. /\ err' = err /\ pending' = pending
        /\ \/ main = "writeAdd" /\ main' = "sleepAdd"
           \/ main = "writeEnd" /\ main' = "sleepEnd"
    BY <1>9 DEF Sleep, walkVars
  <2> QED BY <2>1, <1>1 DEF Adding, Ending
<1>10. CASE WriteCluster \/ NothingToWrite
  <2>1. /\ err' = err /\ pending' = pending /\ ordered' = <<>>
        /\ \/ main \in {"writeAdd", "sleepAdd"} /\ main' = "walk"
           \/ main \in {"writeEnd", "sleepEnd"} /\ main' = "destroy"
    BY <1>10 DEF WriteCluster, NothingToWrite, After, MayWrite, Asleep, walkVars
  <2> QED BY <2>1, <1>1 DEF Adding, Ending
<1>11. CASE WorkerFailed \/ IndexWriteFails \/ BufferWriteFails
  <2>1. Failed /\ main \in {"writeAdd", "sleepAdd", "writeEnd", "sleepEnd"}
    BY <1>11 DEF WorkerFailed, IndexWriteFails, BufferWriteFails, MayWrite, Asleep
  <2>2. \/ main' = "out"
        \/ main' = "destroy" /\ main \in {"writeEnd", "sleepEnd"}
    BY <2>1 DEF Failed
  <2>3. err' = (err \/ main \in {"writeEnd", "sleepEnd"} \/ next < CacheFrom)
    BY <2>1 DEF Failed
  <2> QED BY <2>2, <2>3, Zenon DEF Adding, Ending
<1>12. CASE Destroy \/ JoinWorkers
  <2>1. main \in {"destroy", "join"} /\ main' \in {"join", "exit"} /\ UNCHANGED <<err, pending, ordered>>
    BY <1>12 DEF Destroy, JoinWorkers, walkVars, clusterVars
  <2> QED BY <2>1, <1>1 DEF Adding, Ending
<1>13. ASSUME NEW w \in Worker, Take(w) \/ Ready(w) \/ Spurious(w) \/ NoMemory(w)
       PROVE  UNCHANGED <<main, err, pending>> /\ (Ending /\ ordered = <<>> => ordered' = <<>>)
  BY <1>13 DEF Take, Ready, Spurious, NoMemory, workerFrame
<1>14. ASSUME NEW w \in Worker, Pack(w) \/ PackFails(w)
       PROVE  UNCHANGED <<main, err, pending>> /\ (Ending /\ ordered = <<>> => ordered' = <<>>)
  <2>1. UNCHANGED <<main, err, pending>> /\ worker[w] = "pack"
    BY <1>14 DEF Pack, PackFails, PackAs, workerFrame
  <2>2. ordered # <<>>
    <3>1. ordered = <<>> => holds[w] = 0
      BY NothingOpen, Zenon
    <3>2. holds[w] # 0
      BY <2>1 DEF CountInv
    <3> QED BY <3>1, <3>2, Zenon
  <2> QED BY <2>1, <2>2, Zenon
<1>15. ASSUME NEW w \in Worker, WorkerStep(w) \/ Spurious(w)
       PROVE  Goal
  BY <1>15, <1>3, <1>13, <1>14, Zenon DEF WorkerStep
<1>16. CASE MainStep
  BY <1>16, <1>4, <1>5, <1>6, <1>7, <1>8, <1>9, <1>10, <1>11, <1>12, Zenon DEF MainStep
<1> QED BY <1>15, <1>16, Zenon DEF Next

LEMMA CompleteDead ==
  ASSUME DumpConstants, DumpTypeOK, CountInv, CompleteInv, Next, error', ~err'
  PROVE  \E w \in Worker : worker'[w] = "exit" /\ holds'[w] # 0
<1>1. ~err
  BY ErrStays, Zenon DEF CompleteInv
<1>2. CASE error
  <2>1. PICK w \in Worker : worker[w] = "exit" /\ holds[w] # 0
    BY <1>1, <1>2, Zenon DEF CompleteInv
  <2> QED BY <2>1, ExitStays, Zenon
<1>3. CASE ~error
  <2>1. ~MainStep
    <3>1. MainStep => error' = error
      BY Zenon DEF MainStep, AddExtent, WalkDone, WalkFails, FlushForAdd, FlushForAddFails, FlushAtEnd,
             FlushAtEndFails, Sleep, WriteCluster, NothingToWrite, WorkerFailed, IndexWriteFails,
             BufferWriteFails, Destroy, JoinWorkers
    <3> QED BY <3>1, <1>3, Zenon
  <2>2. PICK w \in Worker : WorkerStep(w) \/ Spurious(w)
    BY <2>1, Zenon DEF Next
  <2>3. NoMemory(w)
    <3>1. Take(w) \/ Ready(w) \/ Spurious(w) \/ Pack(w) \/ PackFails(w) => error' = error
      BY Zenon DEF Take, Ready, Spurious, Pack, PackFails, PackAs
    <3>2. ~(Take(w) \/ Ready(w) \/ Spurious(w) \/ Pack(w) \/ PackFails(w))
      BY <3>1, <1>3, Zenon
    <3> QED BY <3>2, <2>2, Zenon DEF WorkerStep
  <2>4. holds[w] # 0 /\ holds' = holds
    BY <2>3 DEF NoMemory, CountInv
  <2>5. worker'[w] = "exit"
    BY <2>3 DEF NoMemory, DumpTypeOK
  <2> QED BY <2>4, <2>5, Zenon
<1> QED BY <1>2, <1>3

LEMMA CompleteCover ==
  ASSUME DumpConstants, DumpTypeOK, CountInv, CompleteInv, Next,
         ~err', ~error', lost' # "cache"
  PROVE  /\ ~Adding' => next' = Len(Extents) + 1
         /\ Written' \cup Covered(ordered') \cup Span(pending') = Walked(next')
<1> DEFINE Goal == /\ ~Adding' => next' = Len(Extents) + 1
                   /\ Written' \cup Covered(ordered') \cup Span(pending') = Walked(next')
           All == Written \cup Covered(ordered) \cup Span(pending)
<1>1. /\ ~err /\ ~error /\ lost # "cache"
      /\ ~Adding => next = Len(Extents) + 1
      /\ All = Walked(next)
  <2>1. ~err /\ ~error /\ lost # "cache"
    BY ErrStays, LostStays, Zenon DEF CompleteInv
  <2> QED BY <2>1, Zenon DEF CompleteInv
<1>2. ~(WalkFails \/ FlushForAddFails \/ FlushAtEndFails \/ IndexWriteFails \/ BufferWriteFails)
  BY FailureTold, Zenon
<1>3. ~WorkerFailed
  BY <1>1, Zenon DEF WorkerFailed
<1>4. CASE UNCHANGED <<next, pending, ordered, file>> /\ (Adding => Adding' \/ next = Len(Extents) + 1)
  <2>1. Written' = Written /\ Covered(ordered') = Covered(ordered) /\ Span(pending') = Span(pending)
    BY <1>4, Zenon DEF Written, Covered, Span
  <2> QED BY <2>1, <1>4, <1>1, Zenon
<1>5. CASE AddExtent
  <2>1. Span(pending') = Span(pending) \cup Span(Extents[next]) /\ next \in Nat \ {0}
    BY <1>5, CoveredAdd, Zenon
  <2>2. /\ next' = next + 1 /\ main' = "walk"
        /\ ordered' = ordered /\ file' = file
    BY <1>5 DEF AddExtent, clusterVars
  <2>3. Written' = Written /\ Covered(ordered') = Covered(ordered)
    BY <2>2, Zenon DEF Written, Covered
  <2>4. Walked(next') = Walked(next) \cup Span(Extents[next])
    BY <2>1, <2>2, WalkedNext, Zenon
  <2>5. Adding'
    BY <2>2 DEF Adding
  <2> QED BY <2>1, <2>3, <2>4, <2>5, <1>1, Zenon
<1>6. CASE WalkDone
  <2>1. UNCHANGED <<next, pending, ordered, file>> /\ next > Len(Extents)
    BY <1>6 DEF WalkDone, walkVars, clusterVars
  <2>2. next \in 1 .. Len(Extents) + 1 /\ Len(Extents) \in Nat
    BY EmptyFacts, Zenon DEF DumpTypeOK, DumpConstants
  <2>3. next = Len(Extents) + 1
    BY <2>1, <2>2
  <2> QED BY <2>1, <2>3, <1>4, Zenon
<1>7. ASSUME Queue, UNCHANGED next, Adding <=> Adding'
      PROVE  Goal
  <2>1. Covered(ordered') \cup Span(pending') = Covered(ordered) \cup Span(pending)
    BY <1>7, CoveredQueue, Zenon
  <2>2. Written' = Written
    BY <1>7, Zenon DEF Queue, Written, Covered
  <2> QED BY <2>1, <2>2, <1>7, <1>1, Zenon
<1>8. CASE FlushForAdd
  <2>1. main = "walk" /\ main' \in {"walk", "writeAdd"}
    BY <1>8 DEF FlushForAdd, NeedsFlush
  <2>2. Adding /\ Adding'
    BY <2>1 DEF Adding
  <2> QED BY <2>2, <1>8, <1>7, Zenon DEF FlushForAdd
<1>9. CASE FlushAtEnd
  <2>1. main = "out" /\ main' = "writeEnd" /\ UNCHANGED next
    BY <1>9, Zenon DEF FlushAtEnd
  <2>2. ~Adding /\ ~Adding'
    BY <2>1 DEF Adding
  <2>3. Queue \/ UNCHANGED <<next, pending, ordered, file>>
    BY <1>9 DEF FlushAtEnd, clusterVars
  <2> QED BY <2>1, <2>2, <2>3, <1>4, <1>7, Zenon
<1>10. CASE Sleep \/ NothingToWrite \/ Destroy \/ JoinWorkers
  <2>1. UNCHANGED <<next, pending, ordered, file>>
    BY <1>10 DEF Sleep, NothingToWrite, Destroy, JoinWorkers, walkVars, clusterVars
  <2>2. Adding => Adding'
    BY <1>10 DEF Sleep, NothingToWrite, Destroy, JoinWorkers, Adding
  <2> QED BY <2>1, <2>2, <1>4, Zenon
<1>11. CASE WriteCluster
  <2>1. UNCHANGED <<next, pending>>
    BY <1>11 DEF WriteCluster, walkVars
  <2>2. Adding => Adding'
    BY <1>11 DEF WriteCluster, MayWrite, After, Asleep, Adding
  <2>3. Written' \cup Covered(ordered') = Written \cup Covered(ordered)
    BY <1>11, CoveredWrite, Zenon
  <2>4. Span(pending') = Span(pending)
    BY <2>1, Zenon DEF Span
  <2> QED BY <2>1, <2>2, <2>3, <2>4, <1>1, Zenon
<1>12. ASSUME NEW w \in Worker, Take(w) \/ Ready(w) \/ Spurious(w)
       PROVE  Goal
  <2>1. UNCHANGED <<next, pending, ordered, file, main>>
    BY <1>12 DEF Take, Ready, Spurious, workerFrame
  <2> QED BY <2>1, <1>4, Zenon DEF Adding
<1>13. ASSUME NEW w \in Worker, Pack(w) \/ PackFails(w)
       PROVE  Goal
  <2>1. PICK st \in {"ready", "garbage"} : PackAs(w, st)
    BY <1>13, Zenon DEF Pack, PackFails
  <2>2. Covered(ordered') = Covered(ordered)
    BY <2>1, CoveredPack, Zenon
  <2>3. UNCHANGED <<next, pending, file, main>>
    BY <2>1 DEF PackAs, workerFrame
  <2>4. Written' = Written /\ Span(pending') = Span(pending) /\ (Adding <=> Adding')
    BY <2>3, Zenon DEF Written, Covered, Span, Adding
  <2> QED BY <2>2, <2>3, <2>4, <1>1, Zenon
<1>14. ASSUME NEW w \in Worker, NoMemory(w)
       PROVE  Goal
  BY <1>14, Zenon DEF NoMemory
<1>15. CASE MainStep
  BY <1>15, <1>2, <1>3, <1>5, <1>6, <1>8, <1>9, <1>10, <1>11, Zenon DEF MainStep
<1>16. ASSUME NEW w \in Worker, WorkerStep(w) \/ Spurious(w)
       PROVE  Goal
  BY <1>16, <1>12, <1>13, <1>14, Zenon DEF WorkerStep
<1> QED BY <1>15, <1>16, Zenon DEF Next

LEMMA CompleteStep ==
  ASSUME DumpConstants, DumpTypeOK, CountInv, CompleteInv, Next
  PROVE  CompleteInv'
BY CompleteFlags, CompleteDead, CompleteCover, Zenon DEF CompleteInv

---------------------------------------------------------------------------
(* The theorems.                                                           *)

(* DumpInv is an inductive invariant of create_metadump and its threads.   *)
THEOREM DumpInvariance ==
  ASSUME DumpConstants
  PROVE  Spec => []DumpInv
<1>1. Init => DumpInv
  BY InitType, InitCount, InitOrder, InitLayout, InitComplete, Zenon DEF DumpInv
<1>2. DumpInv /\ [Next]_vars => DumpInv'
  <2>1. DumpInv /\ Next => DumpInv'
    BY TypeStep, CountStep, OrderStep, LayoutStep, WrittenStep, CompleteStep, Zenon DEF DumpInv
  <2>2. ASSUME DumpInv, UNCHANGED vars
        PROVE  DumpInv'
    <3>1. /\ main' = main /\ next' = next /\ pending' = pending /\ ordered' = ordered
          /\ list' = list /\ numItems' = numItems /\ numReady' = numReady /\ header' = header
          /\ error' = error /\ worker' = worker /\ holds' = holds /\ file' = file
          /\ fileLen' = fileLen /\ err' = err /\ lost' = lost
      BY <2>2 DEF vars, clusterVars, walkVars
    <3>a. DumpTypeOK'
      BY <2>2, <3>1, Zenon DEF DumpInv, DumpTypeOK
    <3>b. CountInv'
      <4>1. InFlight' = InFlight /\ Range(list)' = Range(list)
        BY <3>1, Zenon DEF InFlight, Range
      <4> QED BY <2>2, <3>1, <4>1, Zenon DEF DumpInv, CountInv
    <3>2. OrderInv'
      <4>1. OrderedInv'
        BY <2>2, <3>1 DEF DumpInv, OrderInv, OrderedInv, Seen, Older
      <4>2. FileInv'
        BY <2>2, <3>1 DEF DumpInv, OrderInv, FileInv, Seen, Older
      <4> QED BY <2>2, <3>1, <4>1, <4>2, Zenon DEF DumpInv, OrderInv, Seen
    <3>3. WrittenOut'
      BY <2>2, <3>1 DEF DumpInv, WrittenOut, Range
    <3>4. LayoutInv'
      BY <2>2, <3>1, Zenon DEF DumpInv, LayoutInv, Ending
    <3>5. CompleteInv'
      <4>1. Adding' = Adding /\ Ending' = Ending
        BY <3>1, Zenon DEF Adding, Ending
      <4>2. /\ Written' = Written /\ Covered(ordered') = Covered(ordered) /\ Span(pending') = Span(pending)
            /\ Walked(next') = Walked(next)
        BY <3>1, Zenon DEF Written, Covered, Span, Walked
      <4> QED BY <2>2, <3>1, <4>1, <4>2, Zenon DEF DumpInv, CompleteInv
    <3> QED BY <3>a, <3>b, <3>2, <3>3, <3>4, <3>5, Zenon DEF DumpInv
  <2> QED BY <2>1, <2>2, Zenon
<1> QED BY <1>1, <1>2, PTL DEF Spec

(* The restoring side can read every image, whatever failed: no buffer in  *)
(* it is one that a worker has not finished with and, until a failure,     *)
(* every cluster fits its index block, lies where its header says and      *)
(* holds extents in the order of the walk.                                 *)
THEOREM ClustersAlwaysWellFormed ==
  ASSUME DumpConstants
  PROVE  Spec => []ClustersWellFormed
<1>1. ASSUME DumpInv
      PROVE  ClustersWellFormed
  <2>1. next \in 1 .. Len(Extents) + 1 /\ DOMAIN Extents = 1 .. Len(Extents) /\ Len(Extents) \in Nat
    <3>1. DOMAIN Extents = 1 .. Len(Extents) /\ Len(Extents) \in Nat
      BY DEF DumpConstants
    <3> QED BY <3>1, <1>1, Zenon DEF DumpInv, DumpTypeOK
  <2>2. 1 .. next - 1 \subseteq DOMAIN Extents
    BY <2>1
  <2>3. ASSUME NEW k \in DOMAIN file
        PROVE  InWalkOrder(k)
    <3>1. ASSUME NEW l \in DOMAIN file, NEW i \in DOMAIN file[k].items, NEW j \in DOMAIN file[l].items,
                 k < l \/ (k = l /\ i < j)
          PROVE  Older(next, file[k].items[i].start, file[l].items[j].start)
      BY <1>1, <3>1, Zenon DEF DumpInv, OrderInv, FileInv
    <3> QED BY <3>1, <2>2, Zenon DEF InWalkOrder, Older
  <2>4. \A k \in DOMAIN file : \A b \in Range(file[k].items) : b.state # "raw"
    BY <1>1, Zenon DEF DumpInv, WrittenOut
  <2>5. \A k \in DOMAIN file :
          lost = "no" => Len(file[k].items) <= ItemsPerCluster /\ file[k].bytenr = file[k].at
    BY <1>1, Zenon DEF DumpInv, LayoutInv
  <2> QED BY <2>3, <2>4, <2>5, Zenon DEF ClustersWellFormed
<1>2. Spec => []DumpInv
  BY DumpInvariance
<1> QED BY <1>1, <1>2, PTL

(* An image that create_metadump reports good holds every extent the walk  *)
(* found, whatever failed outside of copy_space_cache: the failures it     *)
(* does not report are the ones copy_space_cache meets.                    *)
THEOREM ReportedGoodAlwaysComplete ==
  ASSUME DumpConstants
  PROVE  Spec => []ReportedGoodIsComplete
<1>1. ASSUME DumpInv, main = "exit", ~err, lost # "cache"
      PROVE  Written = Covered(Extents)
  <2>1. pending.size = 0 /\ ordered = <<>> /\ ~Adding
    BY <1>1 DEF DumpInv, CompleteInv, Ending, Adding
  <2>2. ~error
    <3>1. \A w \in Worker : holds[w] = 0
      BY <1>1, <2>1, NothingOpen, Zenon DEF DumpInv
    <3> QED BY <1>1, <3>1, Zenon DEF DumpInv, CompleteInv
  <2>3. next = Len(Extents) + 1 /\ Written \cup Covered(ordered) \cup Span(pending) = Walked(next)
    BY <1>1, <2>1, <2>2, Zenon DEF DumpInv, CompleteInv
  <2>4. Covered(ordered) = {}
    <3>1. <<>> \in Seq(Buffers)
      OBVIOUS
    <3>2. Range(<<>>) = {}
      BY <3>1, EmptyFacts, Zenon
    <3> QED BY <3>2, <2>1, Zenon DEF Covered
  <2>5. Span(pending) = {}
    <3>1. pending.start \in Int
      BY <1>1, Zenon DEF DumpInv, DumpTypeOK
    <3> QED BY <2>1, <3>1 DEF Span
  <2>6. 1 .. next - 1 = DOMAIN Extents
    <3>1. DOMAIN Extents = 1 .. Len(Extents) /\ Len(Extents) \in Nat
      BY DEF DumpConstants
    <3> QED BY <3>1, <2>3
  <2>7. Walked(next) = Covered(Extents)
    BY <2>6, CoveredIs, Zenon DEF Walked
  <2> QED BY <2>3, <2>4, <2>5, <2>7, Zenon
<1>2. DumpInv => ReportedGoodIsComplete
  BY <1>1, Zenon DEF ReportedGoodIsComplete
<1>3. Spec => []DumpInv
  BY DumpInvariance
<1> QED BY <1>2, <1>3, PTL
=============================================================================
