---------------------------- MODULE RestoreProofs ----------------------------
(***************************************************************************)
(* Theorems about ImageRestore: for any image, any number of threads and   *)
(* any failures, what btrfs-image -r reports restored is on the target.    *)
(***************************************************************************)
EXTENDS ImageRestore, FiniteSetTheorems, TLAPS

(* Queues: what Head, Tail and Append do to the items in a sequence.       *)
LEMMA RangeAppend ==
  ASSUME NEW S, NEW s \in Seq(S), NEW x \in S
  PROVE  Range(Append(s, x)) = Range(s) \cup {x}
<1>1. DOMAIN Append(s, x) = 1 .. Len(s) + 1 /\ DOMAIN s = 1 .. Len(s) /\ Len(s) \in Nat
  OBVIOUS
<1>2. \A k \in 1 .. Len(s) : Append(s, x)[k] = s[k]
  OBVIOUS
<1>3. Append(s, x)[Len(s) + 1] = x
  OBVIOUS
<1> QED BY <1>1, <1>2, <1>3 DEF Range

LEMMA RangeHeadTail ==
  ASSUME NEW S, NEW s \in Seq(S), s # <<>>
  PROVE  /\ Head(s) \in S /\ Tail(s) \in Seq(S) /\ Len(Tail(s)) = Len(s) - 1 /\ Len(s) \in Nat \ {0}
         /\ Range(s) = {Head(s)} \cup Range(Tail(s))
<1>1. /\ Len(s) \in Nat \ {0} /\ DOMAIN s = 1 .. Len(s) /\ Head(s) = s[1]
      /\ Tail(s) \in Seq(S) /\ Len(Tail(s)) = Len(s) - 1 /\ DOMAIN Tail(s) = 1 .. Len(s) - 1
      /\ Head(s) \in S
  OBVIOUS
<1>2. \A k \in 1 .. Len(s) - 1 : Tail(s)[k] = s[k + 1]
  OBVIOUS
<1>3. Range(s) \subseteq {Head(s)} \cup Range(Tail(s))
  <2> SUFFICES ASSUME NEW k \in 1 .. Len(s), k # 1 PROVE s[k] \in Range(Tail(s))
    BY <1>1, Zenon DEF Range
  <2>1. k - 1 \in 1 .. Len(s) - 1 /\ Tail(s)[k - 1] = s[k]
    BY <1>1, <1>2
  <2> QED BY <2>1, <1>1, Zenon DEF Range
<1>4. {Head(s)} \cup Range(Tail(s)) \subseteq Range(s)
  BY <1>1, <1>2 DEF Range
<1> QED BY <1>1, <1>3, <1>4, Zenon

LEMMA FlightSize ==
  ASSUME RestoreTypeOK
  PROVE  IsFiniteSet(InFlight) /\ Cardinality(InFlight) \in Nat
<1>1. IsFiniteSet(InFlight)
  BY RestoreAssumption, FS_Subset, Zenon DEF InFlight
<1> QED BY <1>1, FS_CardinalityType, Zenon

LEMMA InitRestore == Init => RestoreInv
<1> SUFFICES ASSUME Init PROVE RestoreInv
  BY Zenon
<1>1. RestoreTypeOK
  <2>1. Len(Clusters) \in Nat
    BY RestoreAssumption
  <2>2. <<>> \in Seq(Items) /\ <<>> \in Seq(Faults)
    OBVIOUS
  <2>3. /\ worker \in [Worker -> {"start", "run", "wait", "inflate", "write", "exit"}]
        /\ holds \in [Worker -> Items]
        /\ out \in [Items -> {"nothing", "good", "garbled"}]
    BY RestoreAssumption, Zenon DEF Init
  <2> QED BY <2>1, <2>2, <2>3 DEF Init, RestoreTypeOK
<1>2. InFlight = {} /\ Len(list) = 0 /\ Cardinality({}) = 0
  BY FS_EmptySet, Zenon DEF Init, InFlight
<1> QED BY <1>1, <1>2 DEF Init, RestoreInv, Counted, Phase

(* A failure is remembered, and nothing is forgotten.                      *)
LEMMA LostGrows ==
  ASSUME RestoreTypeOK, Works \/ \E f \in Faults : Fails(f)
  PROVE  lost' \in Seq(Faults) /\ Range(lost) \subseteq Range(lost')
<1>0. lost \in Seq(Faults)
  BY Zenon DEF RestoreTypeOK
<1>1. CASE Works
  BY <1>0, <1>1, Zenon DEF Works
<1>2. ASSUME NEW f \in Faults, Fails(f) PROVE lost' \in Seq(Faults) /\ Range(lost) \subseteq Range(lost')
  <2>1. lost' = Append(lost, f)
    BY <1>2, Zenon DEF Fails
  <2>2. Range(lost') = Range(lost) \cup {f}
    BY <1>0, <2>1, RangeAppend
  <2> QED BY <1>0, <2>1, <2>2
<1> QED BY <1>1, <1>2, Zenon

(* The steps of the main thread that neither queue nor take anything       *)
QueueStill ==
  /\ UNCHANGED <<mode, cluster, todo, list, numItems, holds, out, error>>
  /\ worker' \in [Worker -> {"start", "run", "wait", "inflate", "write", "exit"}]
  /\ InFlight' = InFlight
  /\ Works \/ \E f \in Faults : Fails(f)
  /\ main' \in {"build", "read", "wait", "fixup", "destroy", "stop", "join", "others", "exit"}

LEMMA StillKeeps ==
  ASSUME RestoreTypeOK, Counted, QueueStill
  PROVE  /\ RestoreTypeOK' /\ Counted' /\ (Complete => Complete')
         /\ \A i \in Items : Accounted(i) => Accounted(i)'
<1>1. lost' \in Seq(Faults) /\ Range(lost) \subseteq Range(lost')
  BY LostGrows, Zenon DEF QueueStill
<1>2. RestoreTypeOK'
  BY <1>1, Zenon DEF QueueStill, RestoreTypeOK
<1>3. Counted'
  BY Zenon DEF QueueStill, Counted
<1>4. Complete => Complete'
  BY <1>1, Zenon DEF QueueStill, Complete
<1>5. \A i \in Items : Accounted(i) => Accounted(i)'
  BY Zenon DEF QueueStill, Accounted
<1> QED BY <1>2, <1>3, <1>4, <1>5, Zenon

LEMMA ClusterItems ==
  ASSUME NEW k \in 1 .. Len(Clusters)
  PROVE  Range(Clusters[k]) \subseteq Items /\ Clusters[k] \in Seq(Items)
<1>1. Len(Clusters) \in Nat /\ DOMAIN Clusters = 1 .. Len(Clusters)
  BY RestoreAssumption
<1>2. Clusters[k] \in Seq(Items)
  BY <1>1, RestoreAssumption
<1>3. Range(Clusters[k]) \subseteq Items
  BY <1>1, Zenon DEF Items
<1> QED BY <1>2, <1>3, Zenon

(* Every item of the image has been read.                                  *)
LEMMA AllRead ==
  ASSUME NEW i \in Items
  PROVE  \E k \in 1 .. Len(Clusters) : i \in Range(Clusters[k])
<1>1. DOMAIN Clusters = 1 .. Len(Clusters)
  BY RestoreAssumption
<1> QED BY <1>1, Zenon DEF Items

LEMMA NoneInFlight ==
  ASSUME RestoreTypeOK, Counted, numItems = 0
  PROVE  list = <<>> /\ InFlight = {}
<1>1. Len(list) \in Nat /\ list \in Seq(Items)
  BY DEF RestoreTypeOK
<1>2. IsFiniteSet(InFlight) /\ Cardinality(InFlight) \in Nat
  BY FlightSize, Zenon
<1>3. Len(list) = 0 /\ Cardinality(InFlight) = 0
  BY <1>1, <1>2 DEF Counted
<1>4. InFlight = {}
  BY <1>2, <1>3, FS_EmptySet, Zenon
<1>5. list = <<>>
  BY <1>1, <1>3
<1> QED BY <1>4, <1>5, Zenon

(* The main thread before and after the loop                               *)
LEMMA QuietRestore ==
  ASSUME RestoreInv,
         \/ BuildChunkTree \/ BuildFails \/ ReadFails \/ Waited \/ FixupDevices \/ FreeChunkTree
         \/ StopWorkers \/ JoinWorkers \/ UpdateOtherDevices
  PROVE  RestoreInv'
<1>t. RestoreTypeOK /\ Counted /\ Phase
  BY Zenon DEF RestoreInv
<1>1. CASE BuildChunkTree
  <2>1. QueueStill /\ main' = "read" /\ main = "build" /\ (mode = "single" => mapped')
    BY <1>1, <1>t, Zenon DEF BuildChunkTree, QueueStill, workers, InFlight, RestoreTypeOK
  <2>2. cluster = 0 /\ cluster' = 0
    BY <2>1, <1>t, Zenon DEF Phase, QueueStill
  <2>3. Phase'
    BY <2>1, <2>2 DEF Phase, QueueStill
  <2> QED BY <2>1, <2>3, <1>t, StillKeeps, Zenon DEF RestoreInv
<1>2. CASE BuildFails
  <2>1. QueueStill /\ main' = "destroy" /\ err'
    BY <1>2, <1>t, Zenon DEF BuildFails, QueueStill, workers, shared, InFlight, RestoreTypeOK, Fails
  <2>2. Phase'
    BY <2>1, Zenon DEF Phase
  <2> QED BY <2>1, <2>2, <1>t, StillKeeps, Zenon DEF RestoreInv
<1>3. CASE ReadFails
  <2>1. QueueStill /\ main = "read" /\ main' = "wait" /\ UNCHANGED mapped
    BY <1>3, <1>t, Zenon DEF ReadFails, QueueStill, workers, shared, InFlight, RestoreTypeOK, Fails
  <2>2. "read" \in Range(lost')
    <3>1. lost' = Append(lost, "read") /\ "read" \in Faults /\ lost \in Seq(Faults)
      BY <1>3, <1>t, Zenon DEF ReadFails, Fails, RestoreTypeOK
    <3> QED BY <3>1, RangeAppend
  <2>3. error' \/ \A k \in 1 .. cluster' : \A i \in Range(Clusters[k]) : Accounted(i)'
    <3>1. \A k \in 1 .. cluster : Range(Clusters[k]) \subseteq Items
      BY <1>t, ClusterItems, RestoreAssumption DEF RestoreTypeOK
    <3>2. \A i \in Items : Accounted(i) => Accounted(i)'
      BY <2>1, <1>t, StillKeeps, Zenon
    <3> QED BY <3>1, <3>2, <2>1, <1>t, Zenon DEF Phase, QueueStill
  <2>4. Phase'
    BY <2>1, <2>2, <2>3, <1>t, Zenon DEF Phase, QueueStill
  <2> QED BY <2>1, <2>4, <1>t, StillKeeps, Zenon DEF RestoreInv
<1>4. CASE Waited
  <2>1. /\ QueueStill /\ main = "wait" /\ main' = AfterWait /\ err' = error
        /\ error \/ numItems = 0
    BY <1>4, <1>t, Zenon DEF Waited, WaitForWorker, QueueStill, workers, shared, InFlight, RestoreTypeOK,
                      AfterWait
  <2>2. ASSUME ~error PROVE Complete
    <3>1. list = <<>> /\ InFlight = {}
      BY <2>1, <2>2, <1>t, NoneInFlight, Zenon
    <3>2. ASSUME "read" \notin Range(lost), NEW i \in Items PROVE out[i] = "good"
      <4>1. cluster = Len(Clusters) /\ todo = <<>>
        BY <2>1, <2>2, <3>2, <1>t, Zenon DEF Phase
      <4>2. PICK k \in 1 .. cluster : i \in Range(Clusters[k])
        BY <4>1, AllRead, Zenon
      <4>3. Accounted(i)
        BY <2>1, <2>2, <4>2, <1>t, Zenon DEF Phase
      <4>4. Range(<<>>) = {}
        BY DEF Range
      <4> QED BY <3>1, <4>1, <4>3, <4>4, Zenon DEF Accounted
    <3> QED BY <3>1, <3>2, Zenon DEF Complete
  <2>3. Complete => Complete'
    BY <2>1, <1>t, StillKeeps, Zenon
  <2>4. Phase'
    BY <2>1, <2>2, <2>3, Zenon DEF Phase, AfterWait
  <2> QED BY <2>1, <2>4, <1>t, StillKeeps, Zenon DEF RestoreInv
<1>5. CASE FixupDevices \/ FreeChunkTree \/ StopWorkers \/ JoinWorkers \/ UpdateOtherDevices
  <2>1. /\ QueueStill
        /\ main \in {"fixup", "destroy", "stop", "join", "others"}
        /\ main' \in {"destroy", "stop", "join", "others", "exit"}
        /\ main # "fixup" /\ err => err'
    <3>1. CASE FixupDevices
      BY <3>1, <1>t, Zenon DEF FixupDevices, QueueStill, workers, shared, InFlight, RestoreTypeOK, Fails
    <3>2. CASE FreeChunkTree
      BY <3>2, <1>t, Zenon DEF FreeChunkTree, QueueStill, workers, shared, InFlight, RestoreTypeOK
    <3>3. CASE StopWorkers
      <4>1. InFlight' = InFlight
        BY <3>3, <1>t, Zenon DEF StopWorkers, InFlight, RestoreTypeOK
      <4> QED BY <4>1, <3>3, <1>t, Zenon DEF StopWorkers, QueueStill, RestoreTypeOK
    <3>4. CASE JoinWorkers
      BY <3>4, <1>t, Zenon DEF JoinWorkers, QueueStill, workers, shared, InFlight, RestoreTypeOK
    <3>5. CASE UpdateOtherDevices
      BY <3>5, <1>t DEF UpdateOtherDevices, QueueStill, workers, shared, InFlight, RestoreTypeOK, Fails
    <3> QED BY <1>5, <3>1, <3>2, <3>3, <3>4, <3>5, Zenon
  <2>2. Complete => Complete'
    BY <2>1, <1>t, StillKeeps, Zenon
  <2>3. Phase'
    BY <2>1, <2>2, <1>t, Zenon DEF Phase
  <2> QED BY <2>1, <2>3, <1>t, StillKeeps, Zenon DEF RestoreInv
<1> QED BY <1>1, <1>2, <1>3, <1>4, <1>5, Zenon

(* The loop of restore_metadump: the items of the next cluster are still   *)
(* to be queued, and add_cluster moves them to the list one by one.        *)
LEMMA ReadClusterRestore ==
  ASSUME RestoreInv, ReadCluster
  PROVE  RestoreInv'
<1>t. RestoreTypeOK /\ Counted /\ Phase
  BY Zenon DEF RestoreInv
<1>1. /\ main = "read" /\ todo = <<>> /\ main' \in {"read", "wait"}
      /\ UNCHANGED <<mode, mapped, list, numItems, error, worker, holds, out, lost>>
  BY Zenon DEF ReadCluster, shared, workers, Works
<1>2. InFlight' = InFlight
  BY <1>1, Zenon DEF InFlight
<1>3. Len(Clusters) \in Nat /\ cluster \in 0 .. Len(Clusters)
  BY <1>t, RestoreAssumption DEF RestoreTypeOK
<1>4. Range(<<>>) = {}
  BY DEF Range
<1>5. \A i : Accounted(i) => Accounted(i)'
  BY <1>1, <1>2, <1>4, Zenon DEF Accounted
<1>6. CASE cluster < Len(Clusters) /\ ~error
  <2>1. cluster' = cluster + 1 /\ todo' = Clusters[cluster + 1] /\ main' = "read"
    BY <1>6, <1>1, Zenon DEF ReadCluster
  <2>2. cluster + 1 \in 1 .. Len(Clusters) /\ todo' \in Seq(Items)
    BY <1>3, <1>6, <2>1, ClusterItems
  <2>3. \A i \in Range(Clusters[cluster + 1]) : Accounted(i)'
    BY <2>1, Zenon DEF Accounted
  <2>4. \A k \in 1 .. cluster' : \A i \in Range(Clusters[k]) : Accounted(i)'
    <3> SUFFICES ASSUME NEW k \in 1 .. cluster', NEW i \in Range(Clusters[k]) PROVE Accounted(i)'
      BY Zenon
    <3>1. k = cluster + 1 \/ k \in 1 .. cluster
      BY <2>1, <1>3
    <3>2. \A j \in 1 .. cluster : \A x \in Range(Clusters[j]) : Accounted(x)
      BY <1>6, <1>1, <1>t, Zenon DEF Phase
    <3> QED BY <3>1, <3>2, <2>3, <1>5, Zenon
  <2>5. RestoreTypeOK'
    BY <1>t, <1>1, <1>3, <2>1, <2>2 DEF RestoreTypeOK
  <2>6. Phase'
    BY <1>1, <1>t, <2>1, <2>4, Zenon DEF Phase
  <2> QED BY <2>5, <2>6, <1>1, <1>2, <1>t, Zenon DEF RestoreInv, Counted
<1>7. CASE ~(cluster < Len(Clusters) /\ ~error)
  <2>1. UNCHANGED <<cluster, todo>> /\ main' = "wait"
    BY <1>7, Zenon DEF ReadCluster
  <2>2. RestoreTypeOK'
    BY <1>t, <1>1, <2>1, Zenon DEF RestoreTypeOK
  <2>3. error \/ cluster = Len(Clusters)
    BY <1>3, <1>7
  <2>4. Phase'
    BY <1>1, <1>t, <1>5, <2>1, <2>3, Zenon DEF Phase
  <2> QED BY <2>2, <2>4, <1>1, <1>2, <1>t, Zenon DEF RestoreInv, Counted
<1> QED BY <1>6, <1>7, Zenon

LEMMA AddItemRestore ==
  ASSUME RestoreInv, AddItem
  PROVE  RestoreInv'
<1>t. RestoreTypeOK /\ Counted /\ Phase
  BY Zenon DEF RestoreInv
<1>1. /\ main = "read" /\ todo # <<>> /\ list' = Append(list, Head(todo)) /\ todo' = Tail(todo)
      /\ numItems' = numItems + 1
      /\ UNCHANGED <<mode, main, cluster, mapped, error, holds, out, lost>>
  BY Zenon DEF AddItem, Works
<1>2. InFlight' = InFlight /\ worker' \in [Worker -> {"start", "run", "wait", "inflate", "write", "exit"}]
  <2>1. CASE UNCHANGED worker
    BY <2>1, <1>t, Zenon DEF InFlight, RestoreTypeOK
  <2>2. ASSUME NEW w \in Worker, worker[w] = "wait", worker' = [worker EXCEPT ![w] = "run"]
        PROVE  InFlight' = InFlight
               /\ worker' \in [Worker -> {"start", "run", "wait", "inflate", "write", "exit"}]
    BY <2>2, <1>t, Zenon DEF InFlight, RestoreTypeOK
  <2> QED BY <2>1, <2>2, Zenon DEF AddItem
<1>3. todo \in Seq(Items) /\ list \in Seq(Items) /\ numItems \in Nat
  BY <1>t, Zenon DEF RestoreTypeOK
<1>4. /\ Head(todo) \in Items /\ Tail(todo) \in Seq(Items)
      /\ Range(todo) = {Head(todo)} \cup Range(Tail(todo))
  BY <1>1, <1>3, RangeHeadTail, Zenon
<1>5. Range(list') = Range(list) \cup {Head(todo)} /\ list' \in Seq(Items) /\ Len(list') = Len(list) + 1
  BY <1>1, <1>3, <1>4, RangeAppend
<1>6. \A i : Accounted(i) => Accounted(i)'
  BY <1>1, <1>2, <1>4, <1>5, Zenon DEF Accounted
<1>7. RestoreTypeOK'
  BY <1>t, <1>1, <1>2, <1>3, <1>4, <1>5 DEF RestoreTypeOK
<1>8. Counted'
  <2>1. Cardinality(InFlight) \in Nat /\ Len(list) \in Nat
    BY <1>t, <1>3, FlightSize
  <2> QED BY <2>1, <1>1, <1>2, <1>5, <1>t DEF Counted
<1>9. Phase'
  BY <1>1, <1>6, <1>t, Zenon DEF Phase
<1> QED BY <1>7, <1>8, <1>9, Zenon DEF RestoreInv

(* Worker steps that take nothing and finish nothing                       *)
LEMMA IdleWorkerRestore ==
  ASSUME RestoreInv,
         UNCHANGED <<mode, main, todo, cluster, mapped, err, list, numItems, holds, out>>,
         Works \/ \E f \in Faults : Fails(f),
         worker' \in [Worker -> {"start", "run", "wait", "inflate", "write", "exit"}],
         InFlight' = InFlight,
         error => error'
  PROVE  RestoreInv'
<1>t. RestoreTypeOK /\ Counted /\ Phase
  BY Zenon DEF RestoreInv
<1>1. lost' \in Seq(Faults) /\ Range(lost) \subseteq Range(lost')
  BY <1>t, LostGrows, Zenon
<1>2. \A i : Accounted(i) => Accounted(i)'
  BY Zenon DEF Accounted
<1>3. Complete => Complete'
  BY <1>1, Zenon DEF Complete
<1>4. RestoreTypeOK'
  BY <1>t, <1>1, Zenon DEF RestoreTypeOK
<1>5. Counted'
  BY <1>t, Zenon DEF Counted
<1>6. Phase'
  BY <1>t, <1>1, <1>2, <1>3, Zenon DEF Phase
<1> QED BY <1>4, <1>5, <1>6, Zenon DEF RestoreInv

(* A worker takes the first item: from the list into its hands.            *)
LEMMA TakeRestore ==
  ASSUME RestoreInv, NEW w \in Worker, Take(w)
  PROVE  RestoreInv'
<1>t. RestoreTypeOK /\ Counted /\ Phase
  BY Zenon DEF RestoreInv
<1>1. /\ worker[w] = "run" /\ Works
      /\ UNCHANGED <<mode, main, todo, cluster, mapped, err, numItems, error, out>>
  BY Zenon DEF Take, mainVars
<1>2. CASE nodesize /\ list # <<>>
  <2>1. /\ holds' = [holds EXCEPT ![w] = Head(list)] /\ list' = Tail(list)
        /\ \/ worker' = [worker EXCEPT ![w] = "inflate"]
           \/ worker' = [worker EXCEPT ![w] = "write"]
    BY <1>2, Zenon DEF Take
  <2>2. list \in Seq(Items) /\ w \notin InFlight
    BY <1>t, <1>1, Zenon DEF RestoreTypeOK, InFlight
  <2>3. /\ Head(list) \in Items /\ list' \in Seq(Items) /\ Len(list') = Len(list) - 1
        /\ Len(list) \in Nat \ {0} /\ Range(list) = {Head(list)} \cup Range(list')
    BY <1>2, <2>1, <2>2, RangeHeadTail, Zenon
  <2>4. /\ holds' \in [Worker -> Items] /\ holds'[w] = Head(list)
        /\ \A v \in Worker \ {w} : holds'[v] = holds[v]
    BY <1>t, <2>1, <2>3, Zenon DEF RestoreTypeOK
  <2>5. /\ worker' \in [Worker -> {"start", "run", "wait", "inflate", "write", "exit"}]
        /\ worker'[w] \in {"inflate", "write"}
        /\ \A v \in Worker \ {w} : worker'[v] = worker[v]
    BY <1>t, <2>1, Zenon DEF RestoreTypeOK
  <2>6. InFlight' = InFlight \cup {w}
    BY <2>5, Zenon DEF InFlight
  <2>7. Cardinality(InFlight') = Cardinality(InFlight) + 1 /\ Cardinality(InFlight) \in Nat
    BY <1>t, <2>2, <2>6, FlightSize, FS_AddElement, Zenon
  <2>8. Counted'
    BY <1>t, <1>1, <2>3, <2>7 DEF Counted
  <2>9. \A i : Accounted(i) => Accounted(i)'
    <3> SUFFICES ASSUME NEW i, Accounted(i) PROVE Accounted(i)'
      BY Zenon
    <3>1. CASE i = Head(list)
      BY <3>1, <2>4, <2>6, Zenon DEF Accounted
    <3>2. CASE i \in Range(todo) \/ out[i] = "good" \/ i \in Range(list')
      BY <3>2, <1>1, Zenon DEF Accounted
    <3>3. ASSUME NEW v \in InFlight, holds[v] = i PROVE Accounted(i)'
      <4>1. v \in Worker \ {w}
        BY <2>2, Zenon DEF InFlight
      <4> QED BY <4>1, <3>3, <2>4, <2>6, Zenon DEF Accounted
    <3> QED BY <3>1, <3>2, <3>3, <2>3, Zenon DEF Accounted
  <2>10. ~Complete
    BY <1>2, Zenon DEF Complete
  <2>11. RestoreTypeOK'
    BY <1>t, <1>1, <2>3, <2>4, <2>5, Zenon DEF RestoreTypeOK, Works
  <2>12. Phase'
    BY <1>t, <1>1, <2>9, <2>10, Zenon DEF Phase, Works
  <2> QED BY <2>8, <2>11, <2>12, Zenon DEF RestoreInv
<1>3. CASE ~(nodesize /\ list # <<>>)
  <2>1. /\ UNCHANGED <<holds, list>>
        /\ \/ worker' = [worker EXCEPT ![w] = "exit"]
           \/ worker' = [worker EXCEPT ![w] = "wait"]
    BY <1>3, Zenon DEF Take
  <2>2. /\ worker' \in [Worker -> {"start", "run", "wait", "inflate", "write", "exit"}]
        /\ worker'[w] \in {"exit", "wait"}
        /\ \A v \in Worker \ {w} : worker'[v] = worker[v]
    BY <1>t, <2>1, Zenon DEF RestoreTypeOK
  <2>3. InFlight' = InFlight
    BY <1>1, <2>2, Zenon DEF InFlight
  <2> QED BY <1>1, <2>1, <2>2, <2>3, IdleWorkerRestore, Zenon
<1> QED BY <1>2, <1>3, Zenon

(* A worker has written an item: it is there as it should be, or the error *)
(* is known to the main thread.                                            *)
LEMMA WriteRestore ==
  ASSUME RestoreInv, NEW w \in Worker, Write(w)
  PROVE  RestoreInv'
<1>t. RestoreTypeOK /\ Counted /\ Phase
  BY Zenon DEF RestoreInv
<1>1. /\ worker[w] = "write" /\ worker' = [worker EXCEPT ![w] = "run"]
      /\ error' = (error \/ werr[w]) /\ numItems' = numItems - 1 /\ Works
      /\ UNCHANGED <<mode, main, todo, cluster, mapped, err, list, holds>>
  BY Zenon DEF Write, mainVars
<1>2. PICK o \in Outcome(w) : out' = [out EXCEPT ![holds[w]] = o]
  BY Zenon DEF Write
<1>3. w \in InFlight /\ InFlight' = InFlight \ {w}
  BY <1>1, <1>t, Zenon DEF InFlight, RestoreTypeOK
<1>4. /\ Cardinality(InFlight') = Cardinality(InFlight) - 1
      /\ Cardinality(InFlight) \in Nat /\ Cardinality(InFlight') \in Nat
  BY <1>3, <1>t, FlightSize, FS_RemoveElement, FS_CardinalityType, Zenon
<1>5. Len(list) \in Nat
  BY <1>t DEF RestoreTypeOK
<1>6. Counted' /\ numItems' \in Nat
  BY <1>t, <1>1, <1>4, <1>5 DEF Counted
<1>7. o \in {"good", "garbled"} /\ holds[w] \in Items
  BY <1>t, Zenon DEF Outcome, RestoreTypeOK
<1>8. /\ out' \in [Items -> {"nothing", "good", "garbled"}] /\ out'[holds[w]] = o
      /\ \A i \in Items \ {holds[w]} : out'[i] = out[i]
  BY <1>t, <1>2, <1>7, Zenon DEF RestoreTypeOK
<1>9. RestoreTypeOK'
  BY <1>t, <1>1, <1>6, <1>8, Zenon DEF RestoreTypeOK, Works
<1>10. ~Complete
  BY <1>3, Zenon DEF Complete
<1>11. ASSUME main \in {"read", "wait"}, ~error', NEW i \in Items, Accounted(i)
       PROVE  Accounted(i)'
  <2>1. o = "good"
    BY <1>1, <1>11, <1>t, Zenon DEF Outcome, Phase
  <2>2. CASE i = holds[w]
    BY <2>1, <2>2, <1>8, Zenon DEF Accounted
  <2>3. CASE i # holds[w]
    BY <2>3, <1>11, <1>8, <1>1, <1>3, Zenon DEF Accounted
  <2> QED BY <2>2, <2>3, Zenon
<1>12. ASSUME main \in {"read", "wait"}, ~error'
       PROVE  \A k \in 1 .. cluster : \A i \in Range(Clusters[k]) : Accounted(i)'
  <2>1. \A k \in 1 .. cluster : \A i \in Range(Clusters[k]) : i \in Items /\ Accounted(i)
    <3>1. ~error
      BY <1>12, <1>1, Zenon
    <3>2. \A k \in 1 .. cluster : \A i \in Range(Clusters[k]) : Accounted(i)
      BY <3>1, <1>12, <1>t, Zenon DEF Phase
    <3>3. \A k \in 1 .. cluster : k \in 1 .. Len(Clusters)
      BY <1>t, RestoreAssumption DEF RestoreTypeOK
    <3> QED BY <3>2, <3>3, ClusterItems, Zenon
  <2> QED BY <2>1, <1>11, <1>12, Zenon
<1>13. numItems # 0
  BY <1>6, <1>1, <1>t DEF RestoreTypeOK
<1>14. Phase'
  BY <1>t, <1>1, <1>10, <1>12, <1>13, Zenon DEF Phase, Works
<1> QED BY <1>6, <1>9, <1>14, Zenon DEF RestoreInv

LEMMA OtherWorkerRestore ==
  ASSUME RestoreInv, NEW w \in Worker, Begin(w) \/ BeginFails(w) \/ Inflate(w) \/ WriteFails(w)
  PROVE  RestoreInv'
<1>t. RestoreTypeOK
  BY Zenon DEF RestoreInv
<1>1. /\ UNCHANGED <<mode, main, todo, cluster, mapped, err, list, numItems, holds, out>>
      /\ error => error'
  BY DEF Begin, BeginFails, Inflate, WriteFails, mainVars
<1>2. Works \/ \E f \in Faults : Fails(f)
  BY Zenon DEF Begin, BeginFails, Inflate, WriteFails, Fails
<1>3. \/ UNCHANGED worker
      \/ /\ worker[w] = "start"
         /\ worker' = [worker EXCEPT ![w] = "run"] \/ worker' = [worker EXCEPT ![w] = "exit"]
      \/ worker[w] = "inflate" /\ worker' = [worker EXCEPT ![w] = "write"]
  BY Zenon DEF Begin, BeginFails, Inflate, WriteFails
<1>4. /\ worker' \in [Worker -> {"start", "run", "wait", "inflate", "write", "exit"}]
      /\ InFlight' = InFlight
  BY <1>t, <1>3, Zenon DEF RestoreTypeOK, InFlight
<1> QED BY <1>1, <1>2, <1>4, IdleWorkerRestore, Zenon

(* One step of any thread                                                  *)
LEMMA StepRestore == RestoreInv /\ [Next]_vars => RestoreInv'
<1> SUFFICES ASSUME RestoreInv, [Next]_vars PROVE RestoreInv'
  BY Zenon
<1>1. CASE MainStep
  BY <1>1, QuietRestore, ReadClusterRestore, AddItemRestore, Zenon DEF MainStep
<1>2. ASSUME NEW w \in Worker, WorkerStep(w) PROVE RestoreInv'
  BY <1>2, TakeRestore, WriteRestore, OtherWorkerRestore, Zenon DEF WorkerStep
<1>3. CASE UNCHANGED vars
  <2>1. UNCHANGED <<mode, main, todo, cluster, mapped, err, list, numItems, holds, out, error, worker, lost>>
    BY <1>3, Zenon DEF vars
  <2>2. InFlight' = InFlight /\ worker' \in [Worker -> {"start", "run", "wait", "inflate", "write", "exit"}]
    BY <2>1, Zenon DEF InFlight, RestoreInv, RestoreTypeOK
  <2> QED BY <2>1, <2>2, IdleWorkerRestore, Zenon DEF Works
<1> QED BY <1>1, <1>2, <1>3, Zenon DEF Next

(* RestoreInv is inductive: num_items is exact, and no item of a cluster   *)
(* that was read is lost between add_cluster and the workers' writes.      *)
THEOREM RestoreInvariance == Spec => []RestoreInv
<1>1. Init => RestoreInv
  BY InitRestore, Zenon
<1>2. RestoreInv /\ [Next]_vars => RestoreInv'
  BY StepRestore, Zenon
<1> QED BY <1>1, <1>2, PTL DEF Spec

(* restore_metadump and restore_worker (image/main.c): the filesystem is   *)
(* opened for fixup_devices only when nothing is queued or in a worker's   *)
(* hands, and an exit status of 0 after all clusters were read means that  *)
(* every item is on the target.                                            *)
THEOREM ReportedGoodAlwaysRestored == Spec => []ReportedGoodIsRestored
<1>1. RestoreInv => ReportedGoodIsRestored
  BY Zenon DEF RestoreInv, Phase, Complete, ReportedGoodIsRestored, FixupSeesAll
<1> QED BY <1>1, RestoreInvariance, PTL

=============================================================================
