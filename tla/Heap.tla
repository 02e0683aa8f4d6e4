-------------------------------- MODULE Heap ---------------------------------
(***************************************************************************)
(* The allocator of the freestanding runtime: stdlib/src/heap.c over       *)
(* stdlib/src/ordered_array.c, behind _malloc and _free of                 *)
(* stdlib/src/stdlib.c. The heap is a row of blocks, each with a header at *)
(* its first address and a footer at its last; a hole is also listed in    *)
(* an index, an array of at most MaxHoles addresses that insertion keeps   *)
(* in order of size.                                                       *)
(*                                                                         *)
(* One address of the model that holds a tag stands for the tag's first    *)
(* byte. Tags a merge leaves behind stay in memory, and what a client      *)
(* stores in its payload may look like a tag.                              *)
(***************************************************************************)
EXTENDS Integers, Sequences, SequencesExt

CONSTANTS
  HeapSize,   (* heap_size of create_heap                                   *)
  HSize,      (* sizeof(header_t)                                           *)
  FSize,      (* sizeof(footer_t)                                           *)
  MaxHoles,   (* heap_index_size of create_heap                             *)
  Sizes,      (* the sizes clients ask for                                  *)
  Words       (* what clients store in their payload                        *)

Overhead == HSize + FSize

Addr == 0 .. HeapSize - 1

(* What an address holds, read as the first byte of a tag. *)
Blank == [kind |-> "blank"]
HeaderCell(hole, size) == [kind |-> "header", hole |-> hole, size |-> size]
FooterCell(header) == [kind |-> "footer", header |-> header]

Headers == [kind : {"header"}, hole : BOOLEAN, size : 0 .. HeapSize]
Footers == [kind : {"footer"}, header : Addr]
Cells == {Blank} \cup Headers \cup Footers

ASSUME HeapAssumption ==
  /\ HSize \in Nat \ {0}
  /\ FSize \in Nat \ {0}
  /\ HeapSize \in Nat
  /\ Overhead <= HeapSize
  /\ MaxHoles \in Nat \ {0}
  /\ Sizes \subseteq Nat
  /\ Words \subseteq Cells

VARIABLES
  mem,      (* address -> what it holds                                    *)
  index,    (* heap->index: the headers of the holes                       *)
  live,     (* pointer a client holds -> the size it asked for             *)
  status    (* "running", or how the process ended                         *)

vars == <<mem, index, live, status>>

Magic(a) == mem[a].kind /= "blank"
Size(b) == mem[b].size

Init ==
  /\ mem = [a \in Addr |-> IF a = 0 THEN HeaderCell(TRUE, HeapSize) ELSE Blank]
  /\ index = <<0>>
  /\ live = [p \in {} |-> 0]
  /\ status = "running"

(* find_smallest_hole: the first entry of the index that is large enough.  *)
FirstFit(i, size) ==
  /\ Size(index[i]) >= size
  /\ \A j \in 1 .. i - 1 : Size(index[j]) < size

NoFit(size) == \A i \in 1 .. Len(index) : Size(index[i]) < size

(* insert_ordered_array into idx, with the sizes memory m holds: before    *)
(* the first entry that is not smaller.                                    *)
InsertPoint(k, item, idx, m) ==
  /\ \A j \in 1 .. k - 1 : m[idx[j]].size < m[item].size
  /\ k <= Len(idx) => m[idx[k]].size >= m[item].size

Insert(item, idx, m) ==
  \E k \in 1 .. Len(idx) + 1 :
    /\ InsertPoint(k, item, idx, m)
    /\ index' = InsertAt(idx, k, item)

(* _malloc when no hole is large enough: it returns 0.                     *)
MallocFails(n) ==
  /\ status = "running"
  /\ NoFit(n + Overhead)
  /\ UNCHANGED vars

(* _malloc serves n bytes from the hole at i. What is left over becomes a  *)
(* hole, unless it could not hold a header and a footer: then the block    *)
(* takes it all.                                                           *)
Left(n, i) == Size(index[i]) - (n + Overhead)
TakesWhole(n, i) == Left(n, i) < Overhead

MallocWhole(n, i) ==
  LET b == index[i]
  IN  /\ TakesWhole(n, i)
      /\ mem' = [mem EXCEPT ![b] = HeaderCell(FALSE, Size(b)),
                            ![b + Size(b) - FSize] = FooterCell(b)]
      /\ index' = RemoveAt(index, i)

MemAfterSplitNoFooter(n, i) ==        \* a slip: block_footer not written
  LET b    == index[i]
      rest == b + n + Overhead
  IN  [mem EXCEPT ![b] = HeaderCell(FALSE, n + Overhead),
                  ![rest - FSize] = Blank,
                  ![rest] = HeaderCell(TRUE, Left(n, i)),
                  ![rest + Left(n, i) - FSize] = FooterCell(rest)]

MemAfterSplit(n, i) ==
  LET b    == index[i]
      rest == b + n + Overhead
  IN  [mem EXCEPT ![b] = HeaderCell(FALSE, n + Overhead),
                  ![rest - FSize] = FooterCell(b),
                  ![rest] = HeaderCell(TRUE, Left(n, i)),
                  ![rest + Left(n, i) - FSize] = FooterCell(rest)]

MallocSplit(n, i) ==
  /\ ~TakesWhole(n, i)
  /\ mem' = MemAfterSplit(n, i)
  /\ Insert(index[i] + n + Overhead, RemoveAt(index, i), MemAfterSplit(n, i))

Malloc(n) ==
  /\ status = "running"
  /\ \E i \in 1 .. Len(index) :
       /\ FirstFit(i, n + Overhead)
       /\ MallocWhole(n, i) \/ MallocSplit(n, i)
       /\ live' = [p \in DOMAIN live \cup {index[i] + HSize} |->
                     IF p = index[i] + HSize THEN n ELSE live[p]]
  /\ UNCHANGED status

(* free_heap, the block of pointer p. *)
Header(p) == p - HSize
Footer(p) == Header(p) + Size(Header(p)) - FSize

(* The block before p's is a hole: its footer is just below p's header.    *)
LeftIsHole(p) ==
  LET foot == Header(p) - FSize
  IN  foot >= 0 /\ Magic(foot) /\ mem[mem[foot].header].hole

(* The block after p's is a hole. *)
Right(p) == Footer(p) + FSize
RightIsBigHole(p) ==                   \* a slip: the last tags are not looked at
  Right(p) < HeapSize - Overhead /\ Magic(Right(p)) /\ mem[Right(p)].hole
RightIsHole(p) == Right(p) < HeapSize /\ Magic(Right(p)) /\ mem[Right(p)].hole

(* The hole that p's block becomes, merged with the holes on both sides.   *)
Base(p) == IF LeftIsHole(p) THEN mem[Header(p) - FSize].header ELSE Header(p)
End(p) == IF RightIsHole(p) THEN Right(p) + Size(Right(p)) ELSE Right(p)
MergedSizeNoRight(p) ==                \* a slip: the right hole not counted
  (IF LeftIsHole(p) THEN Size(Base(p)) ELSE 0) + Size(Header(p))
MergedSizeTwoTags(p) ==                \* a slip: overhead added again
  (IF LeftIsHole(p) THEN Size(Base(p)) ELSE 0) + Size(Header(p)) + Overhead
    + (IF RightIsHole(p) THEN Size(Right(p)) ELSE 0)
MergedSize(p) ==
  (IF LeftIsHole(p) THEN Size(Base(p)) ELSE 0) + Size(Header(p))
    + (IF RightIsHole(p) THEN Size(Right(p)) ELSE 0)

(* The headers and footers free writes. The tags between the merged blocks *)
(* stay, and so does the stale size in p's header.                         *)
MemAfterFreeStillUsed(p) ==            \* a slip: is_hole not set
  [mem EXCEPT ![Header(p)] = HeaderCell(FALSE, Size(Header(p))),
              ![Base(p)] = HeaderCell(LeftIsHole(p), MergedSize(p)),
              ![Footer(p)] = FooterCell(Base(p)),
              ![End(p) - FSize] = FooterCell(Base(p))]
MemAfterFree(p) ==
  [mem EXCEPT ![Header(p)] = HeaderCell(TRUE, Size(Header(p))),
              ![Base(p)] = HeaderCell(TRUE, MergedSize(p)),
              ![Footer(p)] = FooterCell(Base(p)),
              ![End(p) - FSize] = FooterCell(Base(p))]

(* The linear search for the hole on the right. *)
FirstAt(i, b) == index[i] = b /\ \A j \in 1 .. i - 1 : index[j] /= b

(* A hole on the left keeps its place in the index although it grows;      *)
(* otherwise the freed block is inserted, which needs room in the index.   *)
AddHoleAlways(p, idx) ==               \* a slip: no test for a full index
  IF LeftIsHole(p)
  THEN index' = idx
  ELSE Insert(Header(p), idx, MemAfterFree(p))
AddHoleUnmerged(p, idx) ==             \* a slip: do_add cleared by either merge
  IF LeftIsHole(p) \/ RightIsHole(p)
  THEN index' = idx
  ELSE Len(idx) < MaxHoles /\ Insert(Header(p), idx, MemAfterFree(p))
AddHole(p, idx) ==
  IF LeftIsHole(p)
  THEN index' = idx
  ELSE Len(idx) < MaxHoles /\ Insert(Header(p), idx, MemAfterFree(p))

Free(p) ==
  /\ status = "running"
  /\ Magic(Header(p)) /\ Magic(Footer(p))
  /\ mem' = MemAfterFree(p)
  /\ IF RightIsHole(p)
     THEN \E i \in 1 .. Len(index) :
            FirstAt(i, Right(p)) /\ AddHole(p, RemoveAt(index, i))
     ELSE AddHole(p, index)
  /\ live' = [q \in DOMAIN live \ {p} |-> live[q]]
  /\ UNCHANGED status

(* The _asserts of malloc_heap and free_heap; _assert exits the process.   *)
(* After a removal the index has room, so only a free that merges with     *)
(* neither side can find it full.                                          *)
MallocAsserts(n, i) ==
  TakesWhole(n, i) \/ index[i] + Size(index[i]) - FSize < HeapSize

FreeAsserts(p) ==
  /\ Magic(Header(p))
  /\ Magic(Footer(p))
  /\ IF RightIsHole(p)
     THEN \E i \in 1 .. Len(index) : index[i] = Right(p)
     ELSE LeftIsHole(p) \/ Len(index) < MaxHoles

AssertFails ==
  /\ status = "running"
  /\ \/ \E p \in DOMAIN live : ~FreeAsserts(p)
     \/ \E n \in Sizes, i \in 1 .. Len(index) :
          FirstFit(i, n + Overhead) /\ ~MallocAsserts(n, i)
  /\ status' = "aborted"
  /\ UNCHANGED <<mem, index, live>>

(* remove_ordered_array reads one entry past the last. With a full index   *)
(* that is past the end of the array's mapping: either some value nobody   *)
(* uses, or a fault.                                                       *)
RemovesEntry ==
  \/ \E n \in Sizes : ~NoFit(n + Overhead)
  \/ \E p \in DOMAIN live : RightIsHole(p)

RemovalFaults ==
  /\ status = "running"
  /\ Len(index) = MaxHoles
  /\ RemovesEntry
  /\ status' = "faulted"
  /\ UNCHANGED <<mem, index, live>>

(* A client writes what it likes in the bytes it asked for.                *)
Payload(p) == p .. p + live[p] - 1

Store(p, w) ==
  /\ status = "running"
  /\ mem' = [a \in Addr |-> IF a \in Payload(p) THEN w ELSE mem[a]]
  /\ UNCHANGED <<index, live, status>>

Next ==
  \/ \E n \in Sizes : Malloc(n)
  \/ \E n \in Sizes : MallocFails(n)
  \/ \E p \in DOMAIN live : Free(p)
  \/ \E p \in DOMAIN live, w \in Words : Store(p, w)
  \/ AssertFails
  \/ RemovalFaults

Spec == Init /\ [][Next]_vars

(***************************************************************************)
(* Properties.                                                             *)
(***************************************************************************)
Holes == Range(index)
LiveBlocks == {Header(p) : p \in DOMAIN live}
Blocks == Holes \cup LiveBlocks

(* Type correctness of the allocator's memory, index and clients.          *)
TypeOK ==
  /\ mem \in [Addr -> Cells]
  /\ index \in Seq(Addr)
  /\ Len(index) <= MaxHoles
  /\ DOMAIN live \subseteq Addr
  /\ LiveBlocks \subseteq Addr
  /\ live \in [DOMAIN live -> Sizes]
  /\ status \in {"running", "aborted", "faulted"}

(* Every block has an intact header that says whether it is a hole, and an *)
(* allocated one is large enough for what its client asked for: no client  *)
(* store and no merge leaves a block with a wrong size or flag.            *)
TagsIntact ==
  /\ \A b \in Blocks :
       /\ mem[b] = HeaderCell(b \in Holes, Size(b))
       /\ Overhead <= Size(b)
       /\ b + Size(b) <= HeapSize
  /\ \A p \in DOMAIN live : live[p] + Overhead <= Size(Header(p))

(* Every block that has a right neighbour has a footer that leads back to  *)
(* its header: what free_heap reads below a header is its left neighbour.  *)
FootersIntact ==
  \A b \in Blocks :
    b + Size(b) < HeapSize \/ b \in LiveBlocks
      => mem[b + Size(b) - FSize] = FooterCell(b)

(* The blocks tile the heap: they do not overlap, and each starts where    *)
(* another ends. No byte is lost to malloc_heap or free_heap, and every    *)
(* hole is in the index once.                                              *)
Tiling ==
  /\ 0 \in Blocks
  /\ Holes \cap LiveBlocks = {}
  /\ \A b \in Blocks : b + Size(b) \in Blocks \cup {HeapSize}
  /\ \A b \in Blocks \ {0} : \E c \in Blocks : c + Size(c) = b
  /\ \A b, c \in Blocks : b < c => b + Size(b) <= c
  /\ \A i, j \in 1 .. Len(index) : index[i] = index[j] => i = j

(* free_heap merges on both sides, so two holes are never neighbours.      *)
NoAdjacentHoles == \A b \in Holes : b + Size(b) \notin Holes

(* malloc_heap refuses a request only if no run of free addresses is long  *)
(* enough: each such run lies within one hole of the index.                *)
FreeRunsAreHoles ==
  \A a, c \in Addr :
    (a <= c /\ \A b \in LiveBlocks : c < b \/ b + Size(b) <= a)
      => \E h \in Holes : h <= a /\ c < h + Size(h)

(* Once the clients have freed all they had, the heap is as created: one   *)
(* hole of the full size.                                                  *)
AllFreedIsOneHole ==
  DOMAIN live = {} => index = <<0>> /\ Size(0) = HeapSize

(* A process ends on an _assert of the allocator only when the index is    *)
(* full: tags are never found damaged and a hole is never missing from it. *)
AbortsOnlyWhenIndexFull == status = "aborted" => Len(index) = MaxHoles

(* The heap does what its clients rely on.                                 *)
A == INSTANCE Allocator WITH
       owned <- [p \in DOMAIN live |-> Payload(p)],
       data  <- [a \in UNION {Payload(p) : p \in DOMAIN live} |-> mem[a]]

ImplementsAllocator == A!Spec

==============================================================================
