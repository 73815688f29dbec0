--------------------------- MODULE ImageChunkMap ----------------------------
(***************************************************************************)
(* Before a single-device restore btrfs-image reads the chunk tree out of  *)
(* the image (image/main.c: build_chunk_tree, search_for_chunk_blocks,     *)
(* read_chunk_block) and gives a new place to every chunk that overlaps an *)
(* earlier one, as chunks of different devices do.                         *)
(***************************************************************************)
EXTENDS Integers, Sequences, FiniteSets, SequencesExt, FiniteSetsExt

CONSTANTS
  Block, Root,   \* blocks of the chunk tree
  Children,      \* of each node, in order; none for a leaf
  Chunks,        \* chunk items of each leaf, in order
  Chunk,
  NClusters,     \* clusters of the image
  Physical,      \* where the first stripe of a chunk may be
  Bytes,         \* how long a chunk may be
  Dup,           \* where the second stripe of a DUP chunk may be; 0: none
  Mirror         \* offsets of the superblock copies

VARIABLES
  place,      \* the cluster that holds each block; 0: the image has it not
  geo,        \* physical, bytes and dup of every chunk
  main,       \* "search", "remap", "done", "bug" or "error"
  stack,      \* calls of search_for_chunk_blocks and read_chunk_block
  tree,       \* chunks in physical_tree
  found,      \* chunks in chunk_tree
  overlapping, last, alloced,
  physical,   \* fs_chunk->physical
  clear       \* clear_space_cache

vars == <<place, geo, main, stack, tree, found, overlapping, last, alloced, physical, clear>>

Geo == [physical : Physical, bytes : Bytes, dup : Dup]
(* A call of search_for_chunk_blocks for b that starts in cluster c.       *)
Call(b, c) == [block |-> b, start |-> c, at |-> c, next |-> 0]

Init ==
  /\ place \in [Block -> 0 .. NClusters] /\ geo \in [Chunk -> Geo]
  /\ main = "search" /\ stack = <<Call(Root, 1)>>
  /\ tree = {} /\ found = {} /\ overlapping = <<>> /\ last = 0 /\ alloced = 0
  /\ physical = [c \in Chunk |-> geo[c].physical] /\ clear = FALSE

Top == stack[Len(stack)]
SetTop(f) == [stack EXCEPT ![Len(stack)] = f]
mapVars == <<tree, found, overlapping, last, alloced, physical, clear>>

(* The clusters from the one the parent was found in to the last one; then *)
(* once more from the first one, unless the search began there.            *)
Searching == main = "search" /\ Top.next = 0
NextCluster ==
  /\ Searching /\ Top.at <= NClusters /\ place[Top.block] # Top.at
  /\ stack' = SetTop([Top EXCEPT !.at = @ + 1])
  /\ UNCHANGED <<place, geo, main>> /\ UNCHANGED mapVars

WrapAlways ==
  /\ Searching /\ Top.at > NClusters
  /\ stack' = SetTop([Top EXCEPT !.at = 1]) /\ UNCHANGED main
  /\ UNCHANGED <<place, geo>> /\ UNCHANGED mapVars
NeverWrap ==
  /\ Searching /\ Top.at > NClusters
  /\ main' = "error" /\ UNCHANGED stack
  /\ UNCHANGED <<place, geo>> /\ UNCHANGED mapVars
Wrap ==
  /\ Searching /\ Top.at > NClusters
  /\ IF Top.start # 1
     THEN stack' = SetTop([Top EXCEPT !.at = 1, !.start = 1]) /\ UNCHANGED main
     ELSE main' = "error" /\ UNCHANGED stack
  /\ UNCHANGED <<place, geo>> /\ UNCHANGED mapVars

Hit ==
  /\ Searching /\ place[Top.block] = Top.at
  /\ stack' = SetTop([Top EXCEPT !.next = 1])
  /\ UNCHANGED <<place, geo, main>> /\ UNCHANGED mapVars

(* read_chunk_block: a node's children one after another.                  *)
Reading == main = "search" /\ Top.next > 0
Descend ==
  /\ Reading /\ Top.next <= Len(Children[Top.block])
  /\ stack' = Append(SetTop([Top EXCEPT !.next = @ + 1]),
                     Call(Children[Top.block][Top.next], Top.at))
  /\ UNCHANGED <<place, geo, main>> /\ UNCHANGED mapVars

(* physical_cmp: a chunk of the tree overlaps chunk c placed at p.          *)
Taken(c, p) ==
  \E d \in tree :
    \/ p >= physical[d] /\ p < physical[d] + geo[d].bytes
    \/ physical[d] >= p /\ physical[d] < p + geo[c].bytes

(* A leaf's chunks: those that overlap a chunk of the tree are put aside.  *)
AllocedOnce(c) == alloced + geo[c].bytes
Alloced(c) == alloced + (IF geo[c].dup = 0 THEN 1 ELSE 2) * geo[c].bytes
LastOffset(c) ==
  IF geo[c].dup + geo[c].bytes > last THEN geo[c].dup + geo[c].bytes
  ELSE IF physical[c] + geo[c].bytes > last THEN physical[c] + geo[c].bytes
  ELSE last

ReadChunk ==
  /\ Reading /\ Children[Top.block] = <<>> /\ Top.next <= Len(Chunks[Top.block])
  /\ LET c == Chunks[Top.block][Top.next]
     IN /\ IF Taken(c, physical[c])
           THEN overlapping' = <<c>> \o overlapping /\ UNCHANGED tree
           ELSE tree' = tree \cup {c} /\ UNCHANGED overlapping
        /\ last' = LastOffset(c) /\ alloced' = Alloced(c)
        /\ found' = found \cup {c}
  /\ stack' = SetTop([Top EXCEPT !.next = @ + 1])
  /\ UNCHANGED <<place, geo, main, physical, clear>>

Return ==
  /\ Reading /\ Top.next > Len(Children[Top.block])
  /\ Children[Top.block] = <<>> => Top.next > Len(Chunks[Top.block])
  /\ IF Len(stack) = 1 THEN main' = "remap" /\ UNCHANGED stack
     ELSE stack' = Front(stack) /\ UNCHANGED main
  /\ UNCHANGED <<place, geo>> /\ UNCHANGED mapVars

(* remap_overlapping_chunks; tree_insert stops the program with BUG() when *)
(* the new place is taken.                                                 *)
ContainsSuper(c) ==
  \E m \in Mirror : m >= physical[c] /\ m < physical[c] + geo[c].bytes
Remap ==
  /\ main = "remap" /\ overlapping # <<>>
  /\ LET c == Head(overlapping)
     IN /\ clear' = (clear \/ ContainsSuper(c))
        /\ physical' = [physical EXCEPT ![c] = last]
        /\ IF Taken(c, last)
           THEN main' = "bug" /\ UNCHANGED <<tree, last>>
           ELSE tree' = tree \cup {c} /\ last' = last + geo[c].bytes /\ UNCHANGED main
  /\ overlapping' = Tail(overlapping)
  /\ UNCHANGED <<place, geo, stack, found, alloced>>

Remapped ==
  /\ main = "remap" /\ overlapping = <<>>
  /\ main' = "done"
  /\ UNCHANGED <<place, geo, stack>> /\ UNCHANGED mapVars

Next ==
  \/ NextCluster \/ Wrap \/ Hit \/ Descend \/ ReadChunk \/ Return
  \/ Remap \/ Remapped

Spec == Init /\ [][Next]_vars /\ WF_vars(Next)

----------------------------------------------------------------------------
(* Properties *)

(* When the map is built, each chunk has a place, bytes_used of the only   *)
(* device, which fixup_devices sets from alloced_chunks, counts each       *)
(* stripe that was kept, and the free space cache is dropped if a chunk    *)
(* that had a superblock copy in it was moved: the cache knows of the hole.*)
MapComplete ==
  main = "done" =>
    /\ tree = Chunk
    /\ alloced = FoldSet(LAMBDA c, n : n + (IF geo[c].dup = 0 THEN 1 ELSE 2) * geo[c].bytes,
                         0, Chunk)
    /\ \A c \in Chunk :
         /\ physical[c] # geo[c].physical
         /\ \E m \in Mirror : m \in geo[c].physical .. geo[c].physical + geo[c].bytes - 1
         => clear

(* Whatever the order the dump met the blocks of the chunk tree in, the    *)
(* search finds all of them if the image has them, and fails otherwise;    *)
(* the map it builds is complete (MapComplete).                            *)
AllChunksFound ==
  /\ MapComplete
  /\ main \in {"remap", "done", "bug"} => found = Chunk
  /\ main = "error" => \E b \in Block : place[b] = 0

(* The search ends although every call may go through the image twice.     *)
SearchEnds == <>(main \in {"done", "bug", "error"})

(* image/main.c:198: tree_insert calls BUG() on two chunks that overlap.   *)
NeverBug == main # "bug"
=============================================================================
