-------------------------------- MODULE Heap --------------------------------
(***************************************************************************)
(* The heap all tasks share: pvPortMalloc and vPortFree of                 *)
(* src/src/mem/lib_mem.c, first fit over a free list kept in order of      *)
(* address, whose blocks are split and merged.                             *)
(*                                                                         *)
(* Memory is counted in units of portBYTE_ALIGNMENT bytes, the size of a   *)
(* block's header too.  A header is known as long as a block starts where  *)
(* it stands; the memory of a block in a caller's hands is the caller's.   *)
(* Each call is one action: the tasks do not interrupt each other in one   *)
(* (task_socket allocates once, before task_tcpserver first runs).         *)
(***************************************************************************)
EXTENDS Integers, FiniteSets

CONSTANTS
    Units,      \* size of the aligned heap, pxEnd's header included
    Requests    \* sizes in bytes that are asked for

ASSUME HeapAssumption ==
    /\ Units \in Nat /\ Units > 1
    /\ Requests \subseteq Nat

Start == -1         \* &xStart, which lies below the heap
End == Units - 1    \* pxEnd
NULL == -2
HeaderSize == 1     \* xHeapStructSize
MinimumBlock == 2   \* heapMINIMUM_BLOCK_SIZE
Alignment == 8      \* portBYTE_ALIGNMENT

VARIABLES
    block,      \* the header of every block: next, size, used
    free,       \* xFreeBytesRemaining
    minFree,    \* xMinimumEverFreeBytesRemaining
    last        \* what the last call of pvPortMalloc wanted and the block it
                \* returned, or NULL (history)

vars == <<block, free, minFree, last>>

Header(next, size, used) == [next |-> next, size |-> size, used |-> used]

\* prvHeapInit: one free block of everything below pxEnd.
Initial ==
    [a \in {Start, 0, End} |->
        CASE a = Start -> Header(0, 0, FALSE)
          [] a = 0     -> Header(End, End, FALSE)
          [] a = End   -> Header(NULL, 0, FALSE)]

\* Static storage: pxEnd is NULL until the first pvPortMalloc.
Init ==
    /\ block = [a \in {} |-> Header(NULL, 0, FALSE)]
    /\ free = 0 /\ minFree = 0
    /\ last = [want |-> 0, at |-> NULL]

Ready == End \in DOMAIN block

-----------------------------------------------------------------------------
(* The free list.                                                          *)

\* The n-th element, the first being xStart; pxEnd for good once reached.
Nth(b) ==
    LET f[n \in 0 .. Units] ==
            IF n = 0 THEN Start
            ELSE LET prior == f[n - 1] IN
                 IF b[prior].next = NULL THEN prior ELSE b[prior].next
    IN f

\* The first element of the list that is one of those the loop stops at.
First(b, stops) ==
    LET nth == Nth(b)
        n   == CHOOSE n \in 0 .. Units :
                  nth[n] \in stops /\ \A k \in 0 .. n - 1 : nth[k] \notin stops
    IN nth[n]

\* Bug: a block is not merged with the one before it.
NotAdjacent(b, a, at) == FALSE

\* puc + pxIterator->xBlockSize == pxBlockToInsert
Adjacent(b, a, at) == a + b[a].size = at

\* Bug: a block is merged with the next one, whose size is forgotten.
MergedSizeLost(b, a, next) == b[a].size

\* The two blocks form one big block.
MergedSize(b, a, next) == b[a].size + b[next].size

\* prvInsertBlockIntoFreeList, in its two halves.  The block is merged into
\* the one before it, or stays where it is ...
Before(b, new) == First(b, {a \in DOMAIN b : b[a].next >= new})

MergePrevious(b, new) ==
    LET it == Before(b, new) IN
    IF Adjacent(b, it, new)
      THEN [a \in DOMAIN b \ {new} |->
              IF a = it THEN [b[it] EXCEPT !.size = @ + b[new].size] ELSE b[a]]
      ELSE [b EXCEPT ![new].next = b[it].next, ![it].next = new]

\* ... and the one after it is merged into the result, unless that is pxEnd.
MergeNext(b, at) ==
    LET next == b[at].next IN
    IF at + b[at].size = next /\ next # End
      THEN [a \in DOMAIN b \ {next} |->
              IF a = at THEN Header(b[next].next, MergedSize(b, at, next), FALSE)
                        ELSE b[a]]
      ELSE b

Insert(b, new) ==
    LET it     == Before(b, new)
        merged == MergePrevious(b, new)
    IN MergeNext(merged, IF Adjacent(b, it, new) THEN it ELSE new)

-----------------------------------------------------------------------------
(* pvPortMalloc.                                                           *)

\* The size of a request with its header, aligned; 0 stays 0.
Wanted(bytes) ==
    IF bytes = 0 THEN 0 ELSE HeaderSize + (bytes + Alignment - 1) \div Alignment

\* Bug: the block is cut before the rest's size is computed.
SplitInWrongOrder(b, at, want) ==
    [a \in DOMAIN b \cup {at + want} |->
        CASE a = at        -> [b[at] EXCEPT !.size = want]
          [] a = at + want -> Header(NULL, want, FALSE)
          [] OTHER         -> b[a]]

\* The block is cut after want units; the rest gets a header of its own.
Split(b, at, want) ==
    [a \in DOMAIN b \cup {at + want} |->
        CASE a = at        -> [b[at] EXCEPT !.size = want]
          [] a = at + want -> Header(NULL, b[at].size - want, FALSE)
          [] OTHER         -> b[a]]

\* The block is taken off the list, and split when the rest is worth it.
Unlinked(b, at) ==
    LET previous == First(b, {a \in DOMAIN b : b[a].next = at}) IN
    [b EXCEPT ![previous].next = b[at].next]

Cut(b, at, want) ==
    IF b[at].size - want > MinimumBlock
      THEN Insert(Split(Unlinked(b, at), at, want), at + want)
      ELSE Unlinked(b, at)

\* Bug: what was asked for is subtracted, not what was given.
LessRequest(count, size, want) == count - want

\* xFreeBytesRemaining -= pxBlock->xBlockSize
Less(count, size, want) == count - size

\* Bug: a block of exactly the size is passed over.
FitStrictly(b, want) ==
    First(b, {a \in DOMAIN b : b[a].size > want \/ b[a].next = NULL})

\* First fit: the first block of the list that is big enough, or pxEnd.
Fit(b, want) ==
    First(b, {a \in DOMAIN b : b[a].size >= want \/ b[a].next = NULL})

pvPortMalloc(bytes) ==
    LET want  == Wanted(bytes)
        now   == IF Ready THEN block ELSE Initial
        avail == IF Ready THEN free ELSE End
        least == IF Ready THEN minFree ELSE End
        at    == IF want > 0 /\ want <= avail THEN Fit(now, want) ELSE End
        cut   == Cut(now, at, want)
        left  == Less(avail, cut[at].size, want)
    IN IF at # End
         THEN /\ block' = [cut EXCEPT ![at].next = NULL, ![at].used = TRUE]
              /\ free' = left
              /\ minFree' = IF left < least THEN left ELSE least
              /\ last' = [want |-> want, at |-> at]
         ELSE /\ block' = now /\ free' = avail /\ minFree' = least
              /\ last' = [want |-> want, at |-> NULL]

-----------------------------------------------------------------------------
(* vPortFree, of a block that pvPortMalloc gave and that was not freed.    *)

vPortFree(at) ==
    /\ block' = Insert([block EXCEPT ![at].used = FALSE], at)
    /\ free' = free + block[at].size
    /\ UNCHANGED <<minFree, last>>

Used == { a \in DOMAIN block : block[a].used }

Next ==
    \/ \E bytes \in Requests : pvPortMalloc(bytes)
    \/ \E at \in Used : vPortFree(at)

Spec == Init /\ [][Next]_vars
-----------------------------------------------------------------------------
(* Type invariant.                                                         *)

TypeOK ==
    /\ DOMAIN block \subseteq {Start, End} \cup 0 .. End
    /\ \A a \in DOMAIN block :
          block[a] \in [next : {NULL} \cup 0 .. End, size : 0 .. End, used : BOOLEAN]
    /\ free \in 0 .. End /\ minFree \in 0 .. End
    /\ last \in [want : { Wanted(bytes) : bytes \in Requests } \cup {0},
                at : {NULL} \cup 0 .. End - 1]

-----------------------------------------------------------------------------
(* Properties.                                                             *)

Blocks == DOMAIN block \ {Start, End}
FreeBlocks == Blocks \ Used

\* Every unit of the heap belongs to exactly one block: each block ends where
\* the next one, or pxEnd, begins, and the first begins at 0.
Tiled ==
    Ready =>
        /\ 0 \in Blocks
        /\ \A a \in Blocks :
              LET end == a + block[a].size IN
              /\ end > a
              /\ end \in Blocks \cup {End}
              /\ \A c \in Blocks : c <= a \/ end <= c

\* The list runs through all the free blocks, and no others, in order of
\* address; two of them are never adjacent, whatever the order in which the
\* blocks between them were freed.
FreeListOK ==
    Ready =>
        LET nth == Nth(block)
            list == { nth[n] : n \in 0 .. Units }
        IN /\ list = FreeBlocks \cup {Start, End}
           /\ \A a \in list \ {End} : a < block[a].next
           /\ \A a \in FreeBlocks : block[a].next = End \/ a + block[a].size < block[a].next

FreeUnits == UNION { a .. a + block[a].size - 1 : a \in FreeBlocks }

\* xFreeBytesRemaining is what the free blocks cover, and the minimum never
\* exceeds it.
FreeCount ==
    Ready => /\ free = Cardinality(FreeUnits)
             /\ minFree <= free

\* What pvTest tests for one order of calls, for every order: once every block
\* was freed the heap is what it was at first, one block of all the bytes.
Restored ==
    Ready /\ Used = {} => block = Initial /\ free = End

\* The heap implements the promise to its callers: memory nobody else holds,
\* and NULL only when no gap between the blocks is big enough.
Promise == INSTANCE HeapSpace WITH
    Space <- 0 .. End - 1,
    Wants <- { Wanted(bytes) : bytes \in Requests },
    Slack <- MinimumBlock,
    owned <- { [at |-> a, size |-> block[a].size] : a \in Used }

KeepsPromise == Promise!Spec
=============================================================================
