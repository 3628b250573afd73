------------------------------- MODULE ArtMem -------------------------------
(***************************************************************************)
(* The memory pools of ArtNet/ArtMem.c.  A pool is a row of blocks, each a *)
(* header followed by its data; the headers of the free ones are doubly    *)
(* linked.  An address is the number of a unit, 0 is NULL; a block is      *)
(* named by the address of its header.                                     *)
(***************************************************************************)
EXTENDS Naturals, Folds

CONSTANTS Total, HeadSize, Sizes    (* as in PoolSpec *)

ASSUME PoolAssumption ==
  /\ HeadSize \in Nat \ {0}
  /\ Total \in Nat /\ Total > HeadSize
  /\ Sizes \subseteq Nat \ {0}

VARIABLES
  pfree,     (* the first block of the free list                             *)
  mem,       (* the header that an address holds, if a block begins there    *)
  freeSize,
  live,      (* history: the blocks the callers have and the size they asked *)
  out        (* history: how many times a block was given to a caller, less  *)
             (* the times one came back; a block given twice counts twice    *)

vars == <<pfree, mem, freeSize, live, out>>

Addr == 1..Total
NULL == 0
Header(next, prev, size, used) ==
  [pNext |-> next, pPrev |-> prev, size |-> size, used |-> used]

(* initMem: one free block behind the handle. *)
Init ==
  /\ pfree = 1
  /\ mem = [a \in Addr |-> IF a = 1 THEN Header(NULL, NULL, Total - HeadSize, FALSE)
                           ELSE Header(NULL, NULL, 0, FALSE)]
  /\ freeSize = Total - HeadSize
  /\ live = {}
  /\ out = 0

(* Writes through a pointer that may be NULL. *)
SetNext(m, b, to) == IF b = NULL THEN m ELSE [m EXCEPT ![b].pNext = to]
SetPrev(m, b, to) == IF b = NULL THEN m ELSE [m EXCEPT ![b].pPrev = to]

(* The k-th block of the free list, NULL behind its end. *)
After(b) == IF b = NULL THEN NULL ELSE mem[b].pNext
Nth == LET nth[k \in 0..Total] == IF k = 0 THEN pfree ELSE After(nth[k - 1]) IN nth
FreeList == {Nth[k] : k \in 0..Total} \ {NULL}

(* The block getMem stops at: the first of the list that is large enough.   *)
Fits(b, size) == b # NULL /\ mem[b].size >= size
FirstFit(b, size) == \E k \in 0..Total : /\ b = Nth[k] /\ Fits(b, size)
                                         /\ \A j \in 0..(k - 1) : ~Fits(Nth[j], size)

----------------------------------------------------------------------------
(* A slip: the block after the remainder keeps pointing back to the old block. *)
GetFrontLeavesBack(b, size) ==
  LET old == mem[b]
      rest == b + HeadSize + size
      cut == [mem EXCEPT ![b] = [old EXCEPT !.used = TRUE, !.size = size],
                         ![rest] = Header(old.pNext, old.pPrev, old.size - size - HeadSize, FALSE)]
  IN  /\ old.size > HeadSize + size
      /\ pfree' = IF old.pPrev = NULL THEN rest ELSE pfree
      /\ mem' = SetNext(cut, old.pPrev, rest)
      /\ freeSize' = freeSize - (size + HeadSize)

(* getMem cuts the front of the block off; the rest takes its place in the list. *)
GetFront(b, size) ==
  LET old == mem[b]
      rest == b + HeadSize + size
      cut == [mem EXCEPT ![b] = [old EXCEPT !.used = TRUE, !.size = size],
                         ![rest] = Header(old.pNext, old.pPrev, old.size - size - HeadSize, FALSE)]
  IN  /\ old.size > HeadSize + size
      /\ pfree' = IF old.pPrev = NULL THEN rest ELSE pfree
      /\ mem' = SetPrev(SetNext(cut, old.pPrev, rest), old.pNext, rest)
      /\ freeSize' = freeSize - (size + HeadSize)

(* A slip: the handle keeps pointing to the first block when it is the one taken. *)
GetWholeStaysListed(b, size) ==
  LET used == [mem EXCEPT ![b].used = TRUE]
  IN  /\ mem[b].size <= HeadSize + size
      /\ pfree' = pfree
      /\ mem' = SetPrev(SetNext(used, mem[b].pPrev, mem[b].pNext), mem[b].pNext, mem[b].pPrev)
      /\ freeSize' = freeSize - mem[b].size

(* getMem takes the whole block out of the list. *)
GetWhole(b, size) ==
  LET old == mem[b]
      used == [mem EXCEPT ![b].used = TRUE]
      second == used[pfree].pNext
  IN  /\ old.size <= HeadSize + size
      /\ pfree' = IF old.pPrev = NULL THEN second ELSE pfree
      /\ mem' = SetPrev(IF old.pPrev = NULL THEN SetPrev(used, second, NULL)
                        ELSE SetNext(used, old.pPrev, old.pNext),
                        old.pNext, old.pPrev)
      /\ freeSize' = freeSize - old.size

(* A request that finds no block returns NULL and changes nothing. *)
Get(size) ==
  \E b \in FreeList :
    /\ FirstFit(b, size)
    /\ GetFront(b, size) \/ GetWhole(b, size)
    /\ live' = live \cup {[at |-> b, size |-> size]}
    /\ out' = out + 1

----------------------------------------------------------------------------
(* putMem on a used block. Where the block behind it begins, ...            *)
Behind(b) == b + HeadSize + mem[b].size
Freed(b) == [mem EXCEPT ![b].used = FALSE]

(* A slip: the size of the header between the two is lost. *)
PutMergeShort(b) ==
  LET n == mem[Behind(b)]
      merged == [Freed(b) EXCEPT ![b].pNext = n.pNext, ![b].pPrev = n.pPrev,
                                 ![b].size = @ + n.size]
  IN  /\ Behind(b) <= Total /\ ~n.used
      /\ pfree' = IF n.pPrev = NULL THEN b ELSE pfree
      /\ mem' = SetPrev(SetNext(merged, n.pPrev, b), n.pNext, b)
      /\ freeSize' = freeSize + mem[b].size + HeadSize

(* ... a free block there is merged with this one, which takes its place, ... *)
PutMerge(b) ==
  LET n == mem[Behind(b)]
      merged == [Freed(b) EXCEPT ![b].pNext = n.pNext, ![b].pPrev = n.pPrev,
                                 ![b].size = @ + n.size + HeadSize]
  IN  /\ Behind(b) <= Total /\ ~n.used
      /\ pfree' = IF n.pPrev = NULL THEN b ELSE pfree
      /\ mem' = SetPrev(SetNext(merged, n.pPrev, b), n.pNext, b)
      /\ freeSize' = freeSize + mem[b].size + HeadSize

(* A slip: the size that is counted back includes a header. *)
PutFirstCountsHead(b) ==
  /\ Behind(b) <= Total /\ mem[Behind(b)].used
  /\ pfree' = b
  /\ mem' = SetPrev([Freed(b) EXCEPT ![b].pNext = pfree, ![b].pPrev = NULL], pfree, b)
  /\ freeSize' = freeSize + mem[b].size + HeadSize

(* ... before a used one this one becomes the head of the list, ...          *)
PutFirst(b) ==
  /\ Behind(b) <= Total /\ mem[Behind(b)].used
  /\ pfree' = b
  /\ mem' = SetPrev([Freed(b) EXCEPT ![b].pNext = pfree, ![b].pPrev = NULL], pfree, b)
  /\ freeSize' = freeSize + mem[b].size

(* ... and so does the last block of the pool, but its own links are left as  *)
(* they were when it was handed out.                                         *)
PutLast(b) ==
  /\ Behind(b) > Total
  /\ pfree' = b
  /\ mem' = SetPrev(Freed(b), pfree, b)
  /\ freeSize' = freeSize + mem[b].size

Put(block) ==
  /\ block \in live
  /\ mem[block.at].used
  /\ PutMerge(block.at) \/ PutFirst(block.at) \/ PutLast(block.at)
  /\ live' = live \ {block}
  /\ out' = out - 1

----------------------------------------------------------------------------
Next == (\E size \in Sizes : Get(size)) \/ (\E block \in live : Put(block))

Spec == Init /\ [][Next]_vars

----------------------------------------------------------------------------
(* Properties.                                                              *)

(* Every variable has its type. *)
TypeOK ==
  /\ pfree \in Addr \cup {NULL}
  /\ mem \in [Addr -> [pNext : Addr \cup {NULL}, pPrev : Addr \cup {NULL},
                       size : 0..Total, used : BOOLEAN]]
  /\ freeSize \in 0..Total
  /\ live \subseteq [at : Addr, size : Sizes]
  /\ out \in 0..Total

(* The blocks of the pool in their row, as their sizes lead from one to the next. *)
Neighbour(b) == IF b \in Addr THEN Behind(b) ELSE b
Row == LET row[k \in 0..Total] == IF k = 0 THEN 1 ELSE Neighbour(row[k - 1]) IN row
Blocks == {Row[k] : k \in 0..Total} \cap Addr

(* The sizes lead from the start of the pool exactly to its end, over a header  *)
(* for every block in use and every block of the free list and nothing else,    *)
(* and every link forward has its link back.                                    *)
RowIsSound ==
  /\ Row[Total] = Total + 1
  /\ {b \in Blocks : mem[b].used} = {block.at : block \in live}
  /\ {b \in Blocks : ~mem[b].used} = FreeList
  /\ pfree # NULL => mem[pfree].pPrev = NULL
  /\ \A b \in FreeList : mem[b].pNext # NULL => mem[mem[b].pNext].pPrev = b

(* getFreeSize tells the size of the free blocks, though headers come and go.   *)
FreeSizeExact ==
  freeSize = MapThenFoldSet(LAMBDA x, y : x + y, 0, LAMBDA b : mem[b].size,
                            LAMBDA S : CHOOSE b \in S : TRUE, FreeList)

Pool == INSTANCE PoolSpec

(* The pool hands out no unit twice. *)
KeepsPromise == Pool!Spec

(* No two blocks in use share a unit. *)
NoOverlap ==
  \A b, c \in live : b # c => Pool!Units(b) \cap Pool!Units(c) = {}

(* A pool from which one size is taken, as timeMemPool, holds as many blocks as  *)
(* fit in it side by side, and whatever the order in which they come and go a   *)
(* request fails only when that many are in use: this is HasRoom of TimerList.  *)
HasRoomExact ==
  \A size \in Sizes :
    (\E b \in FreeList : Fits(b, size)) <=> out < Total \div (HeadSize + size)

============================================================================
