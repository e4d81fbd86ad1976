---------------------------- MODULE ImplicitQueue ----------------------------
(***************************************************************************)
(* The streams of the queue that carries the messages of the logger        *)
(* (concurentqueue.hh): for every thread that enqueues an ImplicitProducer, *)
(* its indices, its block index and its blocks, which come from a pool,    *)
(* from the free list or from the heap and go back to the free list when   *)
(* all their elements were dequeued.  One action is one access to a        *)
(* variable that other threads use; the accesses are sequentially          *)
(* consistent.                                                             *)
(***************************************************************************)
EXTENDS FreeList, SequencesExt

CONSTANTS
    Producers,     \* the threads that enqueue
    Consumers,     \* the threads that dequeue
    BLOCK_SIZE,    \* the elements of a block
    IndexSize,     \* IMPLICIT_INITIAL_INDEX_SIZE
    InitialBlocks, \* the blocks of the initial pool, in order
    Workloads,     \* bound: what each producer enqueues, and who dequeues
    MaxVain,       \* bound: the dequeues that are begun, beyond the elements
    MaxFaults      \* bound: copies that throw and allocations that fail

ASSUME QueueAssumption ==
    /\ Threads = Producers \union Consumers
    /\ Producers \intersect Consumers = {}
    /\ BLOCK_SIZE \in Nat /\ BLOCK_SIZE > 1
    /\ IndexSize \in Nat /\ IndexSize > 1
    /\ InitialBlocks \in Seq(Blocks) /\ IsInjective(InitialBlocks)
    /\ Workloads \subseteq [sent : [Producers -> Nat], by : SUBSET Consumers]
    /\ IsFiniteSet(Workloads)
    /\ MaxVain \in Nat /\ MaxFaults \in Nat
    /\ None \notin Blocks \union (Producers \X Nat)
    /\ IsFiniteSet(Threads) /\ IsFiniteSet(Blocks)

VARIABLES
    tailIndex,              \* of each producer: where it enqueues next
    headIndex,              \* where its next element is dequeued
    dequeueOptimisticCount, \* dequeues that were begun
    dequeueOvercommit,      \* those that found it empty after all
    blockIndex,             \* its block indices, the current one last
    entry,                  \* the entries that they point to
    tailBlock,              \* the block that it fills
    dequeued,               \* of each block: elementsCompletelyDequeued
    elements,               \* its elements
    initialBlockPoolIndex,  \* the blocks of the pool that were claimed
    created,                \* the blocks that were allocated
    pc,                     \* of each thread: its next access
    loc,                    \* its locals
    faults,                 \* how many faults happened
    work                    \* the workload

countVars ==
    <<tailIndex, headIndex, dequeueOptimisticCount, dequeueOvercommit>>
indexVars == <<blockIndex, entry>>
poolVars == <<initialBlockPoolIndex, created>>
blockVars == <<tailBlock, dequeued, elements>>
bounds == <<faults, work>>
vars == <<freeVars, countVars, indexVars, poolVars, blockVars, pc, loc,
          bounds>>

\* No multiple of the block size.
INVALID_BLOCK_BASE == 1
Unused == [key |-> INVALID_BLOCK_BASE, value |-> None]

\* from: the producer; seen: dequeueOvercommit; count: tailIndex, then
\* myDequeueCount, then the index of the element; header, slot: of the block
\* index; at: the entry; block: the block; item: the element.
NoLocals == [from |-> None, seen |-> 0, count |-> 0, header |-> 0, slot |-> 0,
             at |-> 0, block |-> None, item |-> None]

\* The constructor of ImplicitProducer calls new_block_index, which is taken to
\* succeed there: its result is ignored (l.2213), and the first enqueue would
\* dereference a null blockIndex (l.2683), which is undefined.
Init ==
    /\ FreeInit
    /\ tailIndex = [p \in Producers |-> 0]
    /\ headIndex = [p \in Producers |-> 0]
    /\ dequeueOptimisticCount = [p \in Producers |-> 0]
    /\ dequeueOvercommit = [p \in Producers |-> 0]
    /\ blockIndex = [p \in Producers |->
                       <<[tail |-> IndexSize - 1,
                          index |-> [i \in 0 .. IndexSize - 1 |-> i + 1]]>>]
    /\ entry = [p \in Producers |-> [i \in 1 .. IndexSize |-> Unused]]
    /\ tailBlock = [p \in Producers |-> None]
    /\ dequeued = [b \in Blocks |-> 0]
    /\ elements = [b \in Blocks |-> [i \in 0 .. BLOCK_SIZE - 1 |-> None]]
    /\ initialBlockPoolIndex = 0
    /\ created = {}
    /\ pc = [t \in Threads |-> "idle"]
    /\ loc = [t \in Threads |-> NoLocals]
    /\ faults = 0
    /\ work \in Workloads

Goto(t, l) == pc' = [pc EXCEPT ![t] = l]

Fault ==
    /\ faults < MaxFaults
    /\ faults' = faults + 1
    /\ UNCHANGED work

BlockBase(n) == n - (n % BLOCK_SIZE)
Current(p) == Len(blockIndex[p])
Capacity(header) == Cardinality(DOMAIN header.index)
NextSlot(header) == (header.tail + 1) % Capacity(header)

-----------------------------------------------------------------------------
(***************************************************************************)
(* enqueue.                                                                 *)
(***************************************************************************)

\* A new block is needed when the last one is full.
Enqueue(p) ==
    /\ pc[p] = "idle" /\ tailIndex[p] < work.sent[p]
    /\ IF tailIndex[p] % BLOCK_SIZE = 0
       THEN Goto(p, "insert") /\ UNCHANGED loc
       ELSE /\ Goto(p, "construct")
            /\ loc' = [loc EXCEPT ![p].block = tailBlock[p]]
    /\ UNCHANGED <<freeVars, countVars, indexVars, poolVars, blockVars,
                   bounds>>

InsertIn(p, header) ==
    LET e == header.index[NextSlot(header)] IN
    /\ entry' = [entry EXCEPT ![p][e].key = tailIndex[p]]
    /\ loc' = [loc EXCEPT ![p].at = e]
    /\ Goto(p, "expose")

\* insert_block_index_entry: the entry after the tail is taken if it was never
\* used or its block is gone; a new block index has room.
InsertBlockIndexEntry(p) ==
    LET header == Last(blockIndex[p])
        e == entry[p][header.index[NextSlot(header)]]
    IN
    /\ pc[p] \in {"insert", "grown"}
    /\ IF pc[p] = "grown" \/ e.key = INVALID_BLOCK_BASE \/ e.value = None
       THEN InsertIn(p, header)
       ELSE Goto(p, "grow") /\ UNCHANGED <<entry, loc>>
    /\ UNCHANGED <<freeVars, countVars, blockIndex, poolVars, blockVars,
                   bounds>>

\* The new index: the old entries from the oldest on, then as many new ones.
Grown(p) ==
    LET old == Last(blockIndex[p])
        cap == Capacity(old)
    IN [tail  |-> cap - 1,
        index |-> [i \in 0 .. 2 * cap - 1 |->
                     IF i < cap THEN old.index[(old.tail + 1 + i) % cap]
                     ELSE Len(entry[p]) + i - cap + 1]]

\* Mutant of NewBlockIndex: the entries are copied in the order of their slots.
NewBlockIndexUnrotated(p) ==
    LET old == Last(blockIndex[p])
        cap == Capacity(old)
    IN
    /\ pc[p] = "grow"
    /\ blockIndex' = [blockIndex EXCEPT ![p] = Append(@,
         [Grown(p) EXCEPT !.index = [i \in DOMAIN @ |->
            IF i < cap THEN old.index[i] ELSE @[i]]])]
    /\ entry' = [entry EXCEPT ![p] = @ \o [i \in 1 .. cap |-> Unused]]
    /\ Goto(p, "grown")
    /\ UNCHANGED <<freeVars, countVars, poolVars, blockVars, loc, bounds>>

NewBlockIndex(p) ==
    /\ pc[p] = "grow"
    /\ blockIndex' = [blockIndex EXCEPT ![p] = Append(@, Grown(p))]
    /\ entry' = [entry EXCEPT ![p] =
                   @ \o [i \in 1 .. Capacity(Last(blockIndex[p])) |-> Unused]]
    /\ Goto(p, "grown")
    /\ UNCHANGED <<freeVars, countVars, poolVars, blockVars, loc, bounds>>

\* It cannot be allocated: enqueue returns false.
NewBlockIndexFails(p) ==
    /\ pc[p] = "grow"
    /\ Fault
    /\ Goto(p, "idle")
    /\ UNCHANGED <<freeVars, countVars, indexVars, poolVars, blockVars, loc>>

MoveTail(p, to) ==
    blockIndex' = [blockIndex EXCEPT ![p][Current(p)].tail = to]

Expose(p) ==
    /\ pc[p] = "expose"
    /\ MoveTail(p, NextSlot(Last(blockIndex[p])))
    /\ Goto(p, "pool")
    /\ UNCHANGED <<freeVars, countVars, entry, poolVars, blockVars, loc,
                   bounds>>

AskFreeList(p) ==
    /\ fl' = [fl EXCEPT ![p] = Getting]
    /\ Goto(p, "free_list")

\* try_get_block_from_initial_pool looks at the index before it claims a block.
AskPool(p) ==
    /\ pc[p] = "pool"
    /\ IF initialBlockPoolIndex < Len(InitialBlocks)
       THEN Goto(p, "claim") /\ UNCHANGED fl
       ELSE AskFreeList(p)
    /\ UNCHANGED <<freeListHead, freeListRefs, freeListNext, countVars,
                   indexVars, poolVars, blockVars, loc, bounds>>

ClaimFromPool(p) ==
    LET n == initialBlockPoolIndex + 1 IN
    /\ pc[p] = "claim"
    /\ initialBlockPoolIndex' = n
    /\ IF n <= Len(InitialBlocks)
       THEN /\ loc' = [loc EXCEPT ![p].block = InitialBlocks[n]]
            /\ Goto(p, "construct")
            /\ UNCHANGED fl
       ELSE AskFreeList(p) /\ UNCHANGED loc
    /\ UNCHANGED <<freeListHead, freeListRefs, freeListNext, countVars,
                   indexVars, created, blockVars, bounds>>

FromFreeList(p) ==
    /\ pc[p] = "free_list" /\ fl[p].at = "got"
    /\ loc' = [loc EXCEPT ![p].block = fl[p].node]
    /\ fl' = [fl EXCEPT ![p] = Outside]
    /\ Goto(p, "construct")
    /\ UNCHANGED <<freeListHead, freeListRefs, freeListNext, countVars,
                   indexVars, poolVars, blockVars, bounds>>

\* The free list is empty and a block is allocated.
Create(p) ==
    LET unused == Blocks \ (created \union Range(InitialBlocks))
        b == CHOOSE x \in unused : TRUE
    IN
    /\ pc[p] = "free_list" /\ fl[p].at = "empty"
    /\ unused # {}
    /\ created' = created \union {b}
    /\ loc' = [loc EXCEPT ![p].block = b]
    /\ fl' = [fl EXCEPT ![p] = Outside]
    /\ Goto(p, "construct")
    /\ UNCHANGED <<freeListHead, freeListRefs, freeListNext, countVars,
                   indexVars, initialBlockPoolIndex, blockVars, bounds>>

\* It cannot be allocated.
CreateFails(p) ==
    /\ pc[p] = "free_list" /\ fl[p].at = "empty"
    /\ Fault
    /\ fl' = [fl EXCEPT ![p] = Outside]
    /\ Goto(p, "rewind")
    /\ UNCHANGED <<freeListHead, freeListRefs, freeListNext, countVars,
                   indexVars, poolVars, blockVars, loc>>

\* The element is copied into its block, a new block after reset_empty, and a
\* new block into its entry; nobody looks before the element is published.
Construct(p) ==
    LET b == loc[p].block
        n == tailIndex[p]
    IN
    /\ pc[p] = "construct"
    /\ elements' = [elements EXCEPT ![b][n % BLOCK_SIZE] = <<p, n>>]
    /\ IF n % BLOCK_SIZE = 0
       THEN /\ dequeued' = [dequeued EXCEPT ![b] = 0]
            /\ entry' = [entry EXCEPT ![p][loc[p].at].value = b]
            /\ tailBlock' = [tailBlock EXCEPT ![p] = b]
       ELSE UNCHANGED <<dequeued, entry, tailBlock>>
    /\ Goto(p, "publish")
    /\ UNCHANGED <<freeVars, countVars, blockIndex, poolVars, loc, bounds>>

\* The copy of the message throws: nothing is enqueued, a new block is given
\* up.
ConstructThrows(p) ==
    LET b == loc[p].block IN
    /\ pc[p] = "construct"
    /\ Fault
    /\ IF tailIndex[p] % BLOCK_SIZE = 0
       THEN /\ dequeued' = [dequeued EXCEPT ![b] = 0]
            /\ Goto(p, "rewind")
            /\ UNCHANGED loc
       ELSE /\ Goto(p, "idle")
            /\ loc' = [loc EXCEPT ![p] = NoLocals]
            /\ UNCHANGED dequeued
    /\ UNCHANGED <<freeVars, countVars, indexVars, poolVars, tailBlock,
                   elements>>

\* rewind_block_index_tail, after a failure.
Rewind(p) ==
    LET header == Last(blockIndex[p]) IN
    /\ pc[p] = "rewind"
    /\ MoveTail(p, (header.tail + Capacity(header) - 1) % Capacity(header))
    /\ Goto(p, "forget")
    /\ UNCHANGED <<freeVars, countVars, entry, poolVars, blockVars, loc,
                   bounds>>

\* The entry has no block, and a block that was got goes to the free list.
Forget(p) ==
    /\ pc[p] = "forget"
    /\ entry' = [entry EXCEPT ![p][loc[p].at].value = None]
    /\ loc' = [loc EXCEPT ![p] = NoLocals]
    /\ IF loc[p].block = None
       THEN Goto(p, "idle") /\ UNCHANGED fl
       ELSE /\ fl' = [fl EXCEPT ![p] = Adding(loc[p].block)]
            /\ Goto(p, "give_back")
    /\ UNCHANGED <<freeListHead, freeListRefs, freeListNext, countVars,
                   blockIndex, poolVars, blockVars, bounds>>

Publish(p) ==
    /\ pc[p] = "publish"
    /\ tailIndex' = [tailIndex EXCEPT ![p] = @ + 1]
    /\ Goto(p, "idle")
    /\ loc' = [loc EXCEPT ![p] = NoLocals]
    /\ UNCHANGED <<freeVars, headIndex, dequeueOptimisticCount,
                   dequeueOvercommit, indexVars, poolVars, blockVars, bounds>>

-----------------------------------------------------------------------------
(***************************************************************************)
(* dequeue.                                                                 *)
(***************************************************************************)

\* A consumer tries the stream of p: tailIndex and dequeueOvercommit, and then
\* the dequeues that were begun; an older tailIndex would only end it earlier.
Dequeue(c, p) ==
    /\ pc[c] = "idle" /\ c \in work.by
    /\ loc' = [loc EXCEPT ![c].from = p, ![c].count = tailIndex[p],
                          ![c].seen = dequeueOvercommit[p]]
    /\ Goto(c, "any")
    /\ UNCHANGED <<freeVars, countVars, indexVars, poolVars, blockVars,
                   bounds>>

\* dequeue returns.
Back(c) ==
    /\ Goto(c, "idle")
    /\ loc' = [loc EXCEPT ![c] = NoLocals]

SeemsEmpty(c) ==
    LET p == loc[c].from IN
    /\ pc[c] = "any"
    /\ dequeueOptimisticCount[p] - loc[c].seen >= loc[c].count
    /\ Back(c)
    /\ UNCHANGED <<freeVars, countVars, indexVars, poolVars, blockVars,
                   bounds>>

SeemsNonEmpty(c) ==
    LET p == loc[c].from IN
    /\ pc[c] = "any"
    /\ dequeueOptimisticCount[p] - loc[c].seen < loc[c].count
    /\ loc' = [loc EXCEPT ![c].count = 0]
    /\ Goto(c, "optimistic")
    /\ UNCHANGED <<freeVars, countVars, indexVars, poolVars, blockVars,
                   bounds>>

AddOptimistic(c) ==
    LET p == loc[c].from IN
    /\ pc[c] = "optimistic"
    /\ dequeueOptimisticCount[p] < work.sent[p] + MaxVain
    /\ dequeueOptimisticCount' = [dequeueOptimisticCount EXCEPT ![p] = @ + 1]
    /\ loc' = [loc EXCEPT ![c].count = dequeueOptimisticCount[p]]
    /\ Goto(c, "recheck")
    /\ UNCHANGED <<freeVars, tailIndex, headIndex, dequeueOvercommit,
                   indexVars, poolVars, blockVars, bounds>>

\* Mutant of Recheck: what was seen before the count was taken is trusted.
RecheckNot(c) ==
    /\ pc[c] = "recheck"
    /\ Goto(c, "claim_head")
    /\ loc' = [loc EXCEPT ![c].count = 0, ![c].seen = 0]
    /\ UNCHANGED <<freeVars, countVars, indexVars, poolVars, blockVars,
                   bounds>>

Recheck(c) ==
    LET f == loc[c] IN
    /\ pc[c] = "recheck"
    /\ Goto(c, IF f.count - f.seen < tailIndex[f.from] THEN "claim_head"
               ELSE "overcommit")
    /\ loc' = [loc EXCEPT ![c].count = 0, ![c].seen = 0]
    /\ UNCHANGED <<freeVars, countVars, indexVars, poolVars, blockVars,
                   bounds>>

AddOvercommit(c) ==
    LET p == loc[c].from IN
    /\ pc[c] = "overcommit"
    /\ dequeueOvercommit' = [dequeueOvercommit EXCEPT ![p] = @ + 1]
    /\ Back(c)
    /\ UNCHANGED <<freeVars, tailIndex, headIndex, dequeueOptimisticCount,
                   indexVars, poolVars, blockVars, bounds>>

ClaimHead(c) ==
    LET p == loc[c].from IN
    /\ pc[c] = "claim_head"
    /\ headIndex' = [headIndex EXCEPT ![p] = @ + 1]
    /\ loc' = [loc EXCEPT ![c].count = headIndex[p]]
    /\ Goto(c, "block_index")
    /\ UNCHANGED <<freeVars, tailIndex, dequeueOptimisticCount,
                   dequeueOvercommit, indexVars, poolVars, blockVars, bounds>>

\* The current block index and its tail; one that is replaced keeps its tail.
LoadBlockIndex(c) ==
    LET f == loc[c] IN
    /\ pc[c] = "block_index"
    /\ loc' = [loc EXCEPT ![c].header = Current(f.from),
                          ![c].slot = Last(blockIndex[f.from]).tail]
    /\ Goto(c, "entry")
    /\ UNCHANGED <<freeVars, countVars, indexVars, poolVars, blockVars,
                   bounds>>

\* The entry that get_block_index_index_for_index comes to, by the distance of
\* the element's block from the last one.
EntryOf(f) ==
    LET header == blockIndex[f.from][f.header]
        base == entry[f.from][header.index[f.slot]].key
        offset == (BlockBase(f.count) - base) \div BLOCK_SIZE
    IN header.index[(f.slot + offset) % Capacity(header)]

\* The element is moved out of its block and destroyed.  AssertsHold says that
\* the entry of a claimed element does not change meanwhile.
MoveElement(c) ==
    LET f == loc[c]
        b == entry[f.from][EntryOf(f)].value
        i == f.count % BLOCK_SIZE
    IN
    /\ pc[c] = "entry"
    /\ loc' = [loc EXCEPT ![c] = [NoLocals EXCEPT !.from = f.from,
                 !.at = EntryOf(f), !.block = b, !.item = elements[b][i]]]
    /\ elements' = [elements EXCEPT ![b][i] = None]
    /\ Goto(c, "set_empty")
    /\ UNCHANGED <<freeVars, countVars, indexVars, poolVars, tailBlock,
                   dequeued, bounds>>

SetEmpty(c) ==
    LET b == loc[c].block IN
    /\ pc[c] = "set_empty"
    /\ dequeued' = [dequeued EXCEPT ![b] = @ + 1]
    /\ IF dequeued[b] = BLOCK_SIZE - 1
       THEN Goto(c, "release") /\ UNCHANGED loc
       ELSE Back(c)
    /\ UNCHANGED <<freeVars, countVars, indexVars, poolVars, tailBlock,
                   elements, bounds>>

\* The block leaves the index and goes to the free list.
Release(c) ==
    LET f == loc[c] IN
    /\ pc[c] = "release"
    /\ entry' = [entry EXCEPT ![f.from][f.at].value = None]
    /\ fl' = [fl EXCEPT ![c] = Adding(f.block)]
    /\ Goto(c, "give_back")
    /\ UNCHANGED <<freeListHead, freeListRefs, freeListNext, countVars,
                   blockIndex, poolVars, blockVars, loc, bounds>>

\* add_block_to_free_list returns.
GivenBack(t) ==
    /\ pc[t] = "give_back" /\ fl[t].at = "added"
    /\ fl' = [fl EXCEPT ![t] = Outside]
    /\ Back(t)
    /\ UNCHANGED <<freeListHead, freeListRefs, freeListNext, countVars,
                   indexVars, poolVars, blockVars, bounds>>

InFreeList(t) ==
    /\ FreeStep(t)
    /\ UNCHANGED <<countVars, indexVars, poolVars, blockVars, pc, loc, bounds>>

Produce(p) ==
    \/ Enqueue(p) \/ InsertBlockIndexEntry(p)
    \/ NewBlockIndex(p) \/ NewBlockIndexFails(p) \/ Expose(p)
    \/ AskPool(p) \/ ClaimFromPool(p) \/ FromFreeList(p)
    \/ Create(p) \/ CreateFails(p)
    \/ Construct(p) \/ ConstructThrows(p) \/ Rewind(p) \/ Forget(p)
    \/ Publish(p)

Consume(c) ==
    \/ \E p \in Producers : Dequeue(c, p)
    \/ SeemsEmpty(c) \/ SeemsNonEmpty(c)
    \/ AddOptimistic(c) \/ Recheck(c) \/ AddOvercommit(c) \/ ClaimHead(c)
    \/ LoadBlockIndex(c) \/ MoveElement(c) \/ SetEmpty(c) \/ Release(c)

Next ==
    \/ \E p \in Producers : Produce(p)
    \/ \E c \in Consumers : Consume(c)
    \/ \E t \in Threads : GivenBack(t) \/ InFreeList(t)

Spec == Init /\ [][Next]_vars

-----------------------------------------------------------------------------
(***************************************************************************)
(* Properties.                                                              *)
(***************************************************************************)

TypeOK ==
    /\ FreeTypeOK
    /\ tailIndex \in [Producers -> Nat] /\ headIndex \in [Producers -> Nat]
    /\ dequeueOptimisticCount \in [Producers -> Nat]
    /\ dequeueOvercommit \in [Producers -> Nat]
    /\ \A p \in Producers :
         \A i \in 1 .. Len(blockIndex[p]) :
           LET h == blockIndex[p][i] IN
           /\ h.tail \in DOMAIN h.index
           /\ \A s \in DOMAIN h.index : h.index[s] \in 1 .. Len(entry[p])
    /\ tailBlock \in [Producers -> Blocks \union {None}]
    /\ dequeued \in [Blocks -> 0 .. BLOCK_SIZE]
    /\ created \subseteq Blocks

\* The assertions of concurentqueue.hh on the way of an element hold: l.1288,
\* 1403, 2279, 2345, 2700, 2728 and 2733; the block of an element is found from
\* its index while the index grows and its entries are used again.
AssertsHold ==
    /\ \A p \in Producers :
         /\ pc[p] = "idle" /\ tailIndex[p] % BLOCK_SIZE = 0
              => headIndex[p] <= tailIndex[p]
         /\ pc[p] = "grown" =>
              LET h == Last(blockIndex[p])
              IN entry[p][h.index[NextSlot(h)]].key = INVALID_BLOCK_BASE
    /\ \A c \in Consumers :
         LET f == loc[c] IN
         /\ pc[c] = "recheck" => f.seen <= f.count
         /\ pc[c] = "entry" =>
              /\ entry[f.from][blockIndex[f.from][f.header].index[f.slot]].key
                   # INVALID_BLOCK_BASE
              /\ entry[f.from][EntryOf(f)].key = BlockBase(f.count)
              /\ entry[f.from][EntryOf(f)].value # None
         /\ pc[c] = "set_empty" => dequeued[f.block] < BLOCK_SIZE
    /\ \A t \in Threads :
         fl[t].at = "popped" =>
           freeListRefs[fl[t].node] < SHOULD_BE_ON_FREELIST

MaxElements == Max({w.sent[p] : w \in Workloads, p \in Producers})

\* What is in the streams and in the hands of the consumers.
Streams == INSTANCE MessageStreams WITH
    Messages <- [p \in Producers |-> {p} \X (0 .. MaxElements - 1)],
    NoMessage <- None,
    stream <- [p \in Producers |->
                 [i \in 1 .. tailIndex[p] - headIndex[p] |->
                    <<p, headIndex[p] + i - 1>>]],
    hand <- [c \in Consumers |->
               IF loc[c].item # None THEN loc[c].item
               ELSE IF pc[c] \in {"block_index", "entry"}
               THEN <<loc[c].from, loc[c].count>>
               ELSE None]

\* Every element that was enqueued is handed to one consumer, in the order in
\* which its thread enqueued, whatever the interleaving: enqueue and dequeue
\* implement streams that are first in, first out.
ImplementsStreams == Streams!Spec

\* The entries that hold a block.
InIndex(b) ==
    UNION {{<<p, e>> : e \in {i \in DOMAIN entry[p] : entry[p][i].value = b}} :
             p \in Producers}

\* The blocks that the destructor of p frees: those of the elements that are
\* left, and the last one if it is not full.
Destroyed(p) ==
    LET At(n) == [NoLocals EXCEPT !.from = p, !.header = Current(p),
                    !.slot = Last(blockIndex[p]).tail, !.count = n]
    IN {entry[p][EntryOf(At(n))].value :
          n \in headIndex[p] .. tailIndex[p] - 1}
         \union IF tailIndex[p] % BLOCK_SIZE # 0 THEN {tailBlock[p]} ELSE {}

\* When no operation is under way, no block is lost and none is used twice: a
\* block that was taken is in one entry of one producer, whose destructor would
\* free it, or on the free list; and the attempts that found nothing are counted
\* off.
NothingStranded ==
    (\A t \in Threads : pc[t] = "idle") =>
    /\ \A p \in Producers : dequeueOptimisticCount[p] - dequeueOvercommit[p]
                              = headIndex[p]
    /\ \A p \in Producers :
         {entry[p][e].value : e \in DOMAIN entry[p]} \ {None} = Destroyed(p)
    /\ \A b \in created \union
                {InitialBlocks[i] : i \in 1 .. Len(InitialBlocks)} :
         \/ \E i \in initialBlockPoolIndex + 1 .. Len(InitialBlocks) :
              b = InitialBlocks[i]
         \/ Cardinality(InIndex(b)) = IF b \in OnList THEN 0 ELSE 1
=============================================================================
