-------------------------------- MODULE Heap --------------------------------
(***************************************************************************)
(* The heap (esp_heap_caps.c, esp_heap_caps_priv.h): in each region a      *)
(* doubly linked list of blocks in the order of their addresses, first fit *)
(* from the first free block, and merging with both neighbours on free.    *)
(*                                                                         *)
(* Memory is an array of words (HEAP_ALIGN_SIZE bytes).  The head of a     *)
(* block is the word prev, whose top bit says that the block is used, and  *)
(* the word next, whose top bit says that it is traced; a traced block has *)
(* two more, file and line, and the top bit of line is set.  What is not a *)
(* head holds whatever its owner has written.                              *)
(***************************************************************************)
EXTENDS Integers, FiniteSets, FiniteSetsExt

CONSTANTS
    Tasks,
    Regions,        \* the regions are 1 .. Regions
    Start, End,     \* first block and end block of each
    Caps,           \* capabilities of each
    Sizes, Needs,   \* bound: sizes asked for, capabilities asked for
    Tracing         \* heap_trace_start and _stop may be called

NULL == 0
HEAD == 2           \* MEM_HEAD_SIZE
HEAD2 == 4          \* MEM2_HEAD_SIZE
Rgns == 1 .. Regions
Words == UNION {Start[r] .. End[r] + HEAD - 1 : r \in Rgns}

ASSUME HeapAssumption ==
    /\ Regions \in Nat \ {0}
    /\ \A r \in Rgns : Start[r] \in Nat \ {NULL} /\ End[r] \in Nat /\ Start[r] + HEAD < End[r]
    /\ \A r \in Rgns \ {Regions} : End[r] + HEAD <= Start[r + 1]
    /\ Sizes \subseteq Nat /\ Tracing \in BOOLEAN

VARIABLES
    mem,                   \* [Words -> word]: value and top bit
    free_blk, free_bytes,  \* g_heap_region
    tracing,               \* s_heap_trace_mode
    live,                  \* pointers given to callers: [ptr, size, moving]
    call                   \* what each task is doing

vars == <<mem, free_blk, free_bytes, tracing, live, call>>

Junk == -1
Word(v, b) == [val |-> v, bit |-> b]

mem_blk_prev(m, b) == m[b].val
mem_blk_next(m, b) == m[b + 1].val
mem_blk_is_used(m, b) == m[b].bit
mem_blk_is_end(m, b) == mem_blk_next(m, b) = NULL
blk_link_size(m, b) == mem_blk_next(m, b) - b
head_size(trace) == IF trace THEN HEAD2 ELSE HEAD

(* The word before the data: next, or the line of a traced block.          *)
ptr_is_traced(p) == mem[p - 1].bit
ptr2blk(p) == p - head_size(ptr_is_traced(p))
get_blk_region(p) == CHOOSE r \in Rgns : p \in Start[r] .. End[r] + HEAD - 1

Idle == [op |-> "idle"]

Init ==
    /\ mem = [a \in Words |->
                IF \E r \in Rgns : a = Start[r] + 1
                  THEN Word(End[CHOOSE r \in Rgns : a = Start[r] + 1], FALSE)
                ELSE IF \E r \in Rgns : a = End[r]
                  THEN Word(Start[CHOOSE r \in Rgns : a = End[r]], FALSE)
                ELSE Word(NULL, FALSE)]
    /\ free_blk = Start
    /\ free_bytes = [r \in Rgns |-> End[r] - Start[r]]
    /\ tracing = FALSE
    /\ live = {}
    /\ call = [t \in Tasks |-> Idle]

---------------------------------------------------------------------------
(***************************************************************************)
(* _heap_caps_malloc.                                                      *)
(***************************************************************************)

(* Along the list from b to the first free block of n words, or to the end.*)
Walk(m, b, n) ==
    LET will(a) == ~mem_blk_is_used(m, a) /\ blk_link_size(m, a) >= n
        to[a \in Words] == IF mem_blk_is_end(m, a) \/ will(a) THEN a ELSE to[mem_blk_next(m, a)]
    IN  to[b]

(* A block is split if another one fits behind it.                         *)
Splits(b, n) == blk_link_size(mem, b) >= n + head_size(tracing) + 1

(* Fault: the block behind is not told of its new neighbour.               *)
LinkedOneWay(b, n) ==
    IF Splits(b, n)
      THEN [mem EXCEPT ![b + n] = Word(b, FALSE),
                       ![b + n + 1] = Word(mem_blk_next(mem, b), FALSE),
                       ![b + 1].val = b + n]
      ELSE mem

(* The links of block b with a new block behind n words.                   *)
Linked(b, n) ==
    IF Splits(b, n)
      THEN [mem EXCEPT ![b + n] = Word(b, FALSE),
                       ![b + n + 1] = Word(mem_blk_next(mem, b), FALSE),
                       ![mem_blk_next(mem, b)].val = b + n,
                       ![b + 1].val = b + n]
      ELSE mem

(* mem_blk_set_used, mem_blk_set_traced.                                   *)
Marked(m, b) ==
    [a \in Words |->
        CASE a = b -> Word(m[a].val, TRUE)
          [] a = b + 1 /\ tracing -> Word(m[a].val, TRUE)
          [] a = b + 2 /\ tracing -> Word(Junk, FALSE)
          [] a = b + 3 /\ tracing -> Word(Junk, TRUE)
          [] OTHER -> m[a]]

(* The owner fills his block.                                              *)
Filled(m, b, bit) ==
    [a \in Words |-> IF a >= b + head_size(tracing) /\ a < mem_blk_next(m, b)
                       THEN Word(Junk, bit) ELSE m[a]]

(* The block that a request for n words finds in region r.                 *)
Found(r, n) ==
    IF n > free_bytes[r] THEN End[r]
    ELSE Walk(mem, free_blk[r], n)

NextRegion(r, need) ==
    LET s == {q \in Rgns : q > r /\ need \subseteq Caps[q]} IN
    IF s = {} THEN 0 ELSE Min(s)

(* malloc, calloc and zalloc; realloc calls malloc first.                  *)
Malloc(t, size, need, old) ==
    /\ call[t] = Idle
    /\ old # NULL => \E p \in live : p.ptr = old /\ ~p.moving
    /\ NextRegion(0, need) # 0
    /\ call' = [call EXCEPT ![t] = [op |-> "malloc", size |-> size, need |-> need, old |-> old,
                                    r |-> NextRegion(0, need)]]
    /\ live' = {IF p.ptr = old THEN [p EXCEPT !.moving = TRUE] ELSE p : p \in live}
    /\ UNCHANGED <<mem, free_blk, free_bytes, tracing>>

(* The first free block is the one that is given away: on to the next.     *)
NextFree(m, r, b) ==
    IF free_blk[r] = b THEN Walk(m, b, 0) ELSE free_blk[r]

(* A region, in a critical section: a block of it is given away.           *)
Allocate(t) ==
    LET c == call[t]
        n == c.size + head_size(tracing)
        b == Found(c.r, n) IN
    /\ c.op = "malloc" /\ b # End[c.r]
    /\ \E bit \in BOOLEAN :
         LET m == Filled(Marked(Linked(b, n), b), b, bit) IN
         /\ mem' = m
         /\ free_blk' = [free_blk EXCEPT ![c.r] = NextFree(m, c.r, b)]
         /\ free_bytes' = [free_bytes EXCEPT ![c.r] = @ - blk_link_size(m, b)]
    /\ live' = live \cup {[ptr |-> b + head_size(tracing), size |-> c.size, moving |-> FALSE]}
    /\ call' = [call EXCEPT ![t] = IF c.old = NULL THEN Idle ELSE [op |-> "free", old |-> c.old]]
    /\ UNCHANGED tracing

(* The region has no such block: the next one is tried.  After the last    *)
(* one malloc returns NULL, and so does realloc, which keeps the old one.  *)
NoRoom(t) ==
    LET c == call[t] IN
    /\ c.op = "malloc"
    /\ Found(c.r, c.size + head_size(tracing)) = End[c.r]
    /\ IF NextRegion(c.r, c.need) # 0
         THEN /\ call' = [call EXCEPT ![t].r = NextRegion(c.r, c.need)]
              /\ UNCHANGED live
         ELSE /\ call' = [call EXCEPT ![t] = Idle]
              /\ live' = {IF p.ptr = c.old THEN [p EXCEPT !.moving = FALSE] ELSE p : p \in live}
    /\ UNCHANGED <<mem, free_blk, free_bytes, tracing>>

---------------------------------------------------------------------------
(***************************************************************************)
(* _heap_caps_free.                                                        *)
(***************************************************************************)

Unmarked(b) == [mem EXCEPT ![b].bit = FALSE, ![b + 1].bit = FALSE]

(* Fault: only the block behind is looked at.                              *)
MergeBehind(b) ==
    LET m == Unmarked(b)
        next == mem_blk_next(m, b)
        last == mem_blk_next(m, next) IN
    IF last # NULL /\ ~mem_blk_is_used(m, next)
      THEN [m EXCEPT ![b + 1].val = last, ![last].val = b]
      ELSE m

(* Fault: the block behind is not looked at before it is joined.           *)
MergeUsed(b) ==
    LET m == Unmarked(b)
        next == mem_blk_next(m, b)
        last == mem_blk_next(m, next) IN
    IF last # NULL THEN [m EXCEPT ![b + 1].val = last, ![last].val = b] ELSE m

(* The block joins a free block before it and a free block behind it; the  *)
(* end block is not one.                                                   *)
Merge(b) ==
    LET m == Unmarked(b)
        prev == mem_blk_prev(m, b)
        next == mem_blk_next(m, b)
        last == mem_blk_next(m, next)
        joins == prev # NULL /\ ~mem_blk_is_used(m, prev)
        tmp == IF joins THEN prev ELSE b
        m1 == IF joins THEN [m EXCEPT ![prev + 1].val = next, ![next].val = prev] ELSE m
    IN  IF last # NULL /\ ~mem_blk_is_used(m1, next)
          THEN [m1 EXCEPT ![tmp + 1].val = last, ![last].val = tmp]
          ELSE m1

(* The first free block, if b is free too.                                 *)
FirstFree(r, b) == IF b < free_blk[r] THEN b ELSE free_blk[r]

FreeBlock(p) ==
    LET b == ptr2blk(p)
        r == get_blk_region(p) IN
    /\ mem_blk_is_used(mem, b)
    /\ free_bytes' = [free_bytes EXCEPT ![r] = @ + blk_link_size(mem, b)]
    /\ mem' = Merge(b)
    /\ free_blk' = [free_blk EXCEPT ![r] = FirstFree(r, b)]
    /\ live' = {q \in live : q.ptr # p}
    /\ UNCHANGED tracing

(* free() of a pointer that is no other task's to free.                    *)
Free(t, p) ==
    /\ call[t] = Idle
    /\ p \in live /\ ~p.moving
    /\ FreeBlock(p.ptr)
    /\ UNCHANGED call

(* realloc has copied the old block to the new one.                        *)
FreeOld(t) ==
    /\ call[t].op = "free"
    /\ FreeBlock(call[t].old)
    /\ call' = [call EXCEPT ![t] = Idle]

(* heap_trace_start, heap_trace_stop.                                      *)
Trace ==
    /\ Tracing
    /\ tracing' = ~tracing
    /\ UNCHANGED <<mem, free_blk, free_bytes, live, call>>

---------------------------------------------------------------------------
Next ==
    \/ Trace
    \/ \E t \in Tasks :
         \/ \E size \in Sizes, need \in Needs, old \in {NULL} \cup {p.ptr : p \in live} :
              Malloc(t, size, need, old)
         \/ Allocate(t) \/ NoRoom(t) \/ FreeOld(t)
         \/ \E p \in live : Free(t, p)

Spec == Init /\ [][Next]_vars

---------------------------------------------------------------------------
(* The blocks of a region, as far as they are in the order of addresses.   *)
Chain(r) ==
    LET from[a \in Words] ==
          IF mem_blk_next(mem, a) \in a + HEAD .. End[r] THEN {a} \cup from[mem_blk_next(mem, a)] ELSE {a}
    IN  from[Start[r]]

Blocks(r) == Chain(r) \ {End[r]}
Unused(r) == {b \in Blocks(r) : ~mem_blk_is_used(mem, b)}
Used == UNION {Blocks(r) \ Unused(r) : r \in Rgns}

TypeOK ==
    /\ \A a \in Words : mem[a].bit \in BOOLEAN /\ mem[a].val \in Words \cup {NULL, Junk}
    /\ free_blk \in [Rgns -> Words] /\ free_bytes \in [Rgns -> Nat]
    /\ tracing \in BOOLEAN

(* The lists are whole: next leads from the first block to the end block,  *)
(* prev leads back, and two free blocks are never neighbours.              *)
ListsWhole ==
    \A r \in Rgns :
        /\ End[r] \in Chain(r) /\ mem_blk_is_end(mem, End[r])
        /\ \A b \in Blocks(r) :
             LET next == mem_blk_next(mem, b) IN
             /\ mem_blk_prev(mem, next) = b
             /\ b \in Unused(r) => next \notin Unused(r)

(* The shortcuts of malloc are right: free_blk is the first free block, or *)
(* the end block, and free_bytes is what the free blocks add up to.        *)
ShortcutsRight ==
    \A r \in Rgns :
        /\ free_blk[r] = Min(Unused(r) \cup {End[r]})
        /\ free_bytes[r] = MapThenSumSet(LAMBDA b : blk_link_size(mem, b), Unused(r))

(* The head of every pointer in use is found again, whatever the owner has *)
(* written and whether tracing was on then or is now; the block is large   *)
(* enough, and every used block belongs to one pointer.                    *)
PointersOwnBlocks ==
    /\ {ptr2blk(p.ptr) : p \in live} = Used
    /\ Cardinality(Used) = Cardinality(live)
    /\ \A p \in live : p.ptr + p.size <= mem_blk_next(mem, ptr2blk(p.ptr))

(* The heap's own records are right after every call of every task: the    *)
(* lists, the shortcuts past them, and what a pointer leads back to.       *)
RecordsRight == TypeOK /\ ListsWhole /\ ShortcutsRight /\ PointersOwnBlocks

(* The memory of the callers: what lies in used blocks behind their heads. *)
Abstract == INSTANCE Allocator
            WITH pieces <- {b .. mem_blk_next(mem, b) - 1 : b \in Used}

(* The heap gives out pieces that do not overlap, and neither splitting    *)
(* nor merging touches a piece in use.                                     *)
GivesSeparatePieces == Abstract!ASpec

(* A region refuses a request only if it has no gap that is large enough:  *)
(* no free memory is lost to it.                                           *)
RefusesOnlyWithoutGap ==
    [][\A t \in Tasks :
         NoRoom(t) =>
           LET r == call[t].r
               n == call[t].size + head_size(tracing)
               taken == UNION {b .. mem_blk_next(mem, b) - 1 : b \in Used} IN
           \A a \in Start[r] .. End[r] - n : (a .. a + n - 1) \cap taken # {}]_vars
============================================================================
