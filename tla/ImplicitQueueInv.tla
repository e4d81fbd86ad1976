------------------------- MODULE ImplicitQueueInv --------------------------
(***************************************************************************)
(* The inductive invariant of ImplicitQueue, IInv, in six parts: the types *)
(* of the state; the counts of a stream, which no two consumers can race   *)
(* below zero; the block index of a producer, whose entries hold the keys  *)
(* of its last blocks in the order of its slots, whatever its size was;    *)
(* the free list, whose reference counts tell for every block who has it;  *)
(* the owners of the blocks; and what the blocks hold. Its parts are       *)
(* proved in ImplicitQueueParts_proofs (types, counts, block index, free   *)
(* list) and ImplicitQueue_proofs (owners, contents), where the properties *)
(* follow from it.                                                         *)
(***************************************************************************)
EXTENDS ImplicitQueue

-----------------------------------------------------------------------------
(***************************************************************************)
(* Types.                                                                  *)
(***************************************************************************)

\* The places of a producer, and of a consumer.
ProducerPc == {"idle", "insert", "grow", "grown", "expose", "pool", "claim",
               "free_list", "construct", "rewind", "forget", "publish",
               "give_back"}

ConsumerPc == {"idle", "any", "optimistic", "recheck", "overcommit",
               "claim_head", "block_index", "entry", "set_empty", "release",
               "give_back"}

\* A block, or none.
MaybeBlock == Blocks \union {None}

\* The places in add and try_get.
FlAt == {"out", "add", "load", "count", "push", "repush", "added", "get",
         "ref", "next", "pop", "popped", "unref", "got", "empty"}

\* A thread's locals in the free list.
FlRecord == [at : FlAt, node : MaybeBlock, old : MaybeBlock,
             getting : BOOLEAN, head : MaybeBlock, next : MaybeBlock]

\* The types of a thread's locals in the free list; a head that was read is a
\* block.
Wf(f) == f \in FlRecord /\ (f.at \in {"ref", "next", "pop"} => f.head \in Blocks)

\* The slots of a block index: which entry each one points to.
Indexes == UNION {[0 .. n - 1 -> Nat] : n \in Nat}

\* A block index; an entry; the elements of a block.
Header == [tail : Nat, index : Indexes]

Entry == [key : Nat, value : MaybeBlock]

Elements == [0 .. BLOCK_SIZE - 1 -> (Producers \X Nat) \union {None}]

\* The types of the state.
CountTypes ==
    /\ tailIndex \in [Producers -> Nat]
    /\ headIndex \in [Producers -> Nat]
    /\ dequeueOptimisticCount \in [Producers -> Nat]
    /\ dequeueOvercommit \in [Producers -> Nat]

PcTypes ==
    /\ pc \in [Threads -> ProducerPc \union ConsumerPc]
    /\ \A p \in Producers : pc[p] \in ProducerPc
    /\ \A c \in Consumers : pc[c] \in ConsumerPc

\* The fields of the locals.
Shape(l) == l = [from |-> l.from, seen |-> l.seen, count |-> l.count,
                 header |-> l.header, slot |-> l.slot, at |-> l.at,
                 block |-> l.block, item |-> l.item]

\* The types of a thread's locals.
WfLoc(l) ==
    /\ Shape(l)
    /\ l.from \in Producers \union {None}
    /\ l.seen \in Nat /\ l.count \in Nat
    /\ l.header \in Nat /\ l.slot \in Nat /\ l.at \in Nat
    /\ l.block \in MaybeBlock

LocTypes ==
    /\ DOMAIN loc = Threads /\ loc = [t \in Threads |-> loc[t]]
    /\ \A t \in Threads : WfLoc(loc[t])
    /\ \A c \in Consumers :
         pc[c] \notin {"idle", "give_back"} => loc[c].from \in Producers

FreeTypes ==
    /\ freeListHead \in MaybeBlock
    /\ freeListRefs \in [Blocks -> Int]
    /\ freeListNext \in [Blocks -> MaybeBlock]
    /\ DOMAIN fl = Threads /\ fl = [t \in Threads |-> fl[t]]
    /\ \A t \in Threads : Wf(fl[t])

IndexTypes ==
    /\ blockIndex \in [Producers -> Seq(Header)]
    /\ entry \in [Producers -> Seq(Entry)]
    /\ \A p \in Producers :
         /\ Len(blockIndex[p]) >= 1
         /\ \A i \in 1 .. Len(blockIndex[p]) :
              LET h == blockIndex[p][i] IN
              /\ Capacity(h) \in Nat /\ Capacity(h) > 1
              /\ h.index \in [0 .. Capacity(h) - 1 -> 1 .. Len(entry[p])]
              /\ h.tail \in 0 .. Capacity(h) - 1
    /\ \A c \in Consumers : pc[c] = "entry" =>
         LET f == loc[c] IN
         /\ f.header \in 1 .. Len(blockIndex[f.from])
         /\ f.slot \in 0 .. Capacity(blockIndex[f.from][f.header]) - 1

BlockTypes ==
    /\ tailBlock \in [Producers -> MaybeBlock]
    /\ dequeued \in [Blocks -> Nat]
    /\ elements \in [Blocks -> Elements]
    /\ initialBlockPoolIndex \in Nat
    /\ created \subseteq Blocks
    /\ work \in Workloads

Types == CountTypes /\ PcTypes /\ LocTypes /\ FreeTypes /\ IndexTypes
           /\ BlockTypes

\* An entry gets a key; an entry gets or loses a block.
SetKey(p, e, k) == entry' = [entry EXCEPT ![p][e].key = k]

SetValue(p, e, b) == entry' = [entry EXCEPT ![p][e].value = b]

-----------------------------------------------------------------------------
(***************************************************************************)
(* The counts of a stream. The optimistic scheme of dequeue counts the     *)
(* attempt first and checks after; the theorem is that no schedule lets    *)
(* more consumers through than there are elements.                         *)
(***************************************************************************)

\* The consumers at one place of the code with the stream of p.
ConsumersAt(p, l) == {c \in Consumers : pc[c] = l /\ loc[c].from = p}

\* The consumers of p at the check whose count is below n.
Below(p, n) == {c \in Consumers : pc[c] = "recheck" /\ loc[c].from = p
                                   /\ loc[c].count < n}

NumberAt(p, l) == Cardinality(ConsumersAt(p, l))

\* The elements of p that are dequeued or certain to be.
Claimed(p) == headIndex[p] + NumberAt(p, "claim_head")

\* Every attempt is counted once: as an element, as one that was counted off,
\* or as a consumer between the two.
Conserved(p) ==
    dequeueOptimisticCount[p] = dequeueOvercommit[p] + headIndex[p]
      + NumberAt(p, "recheck") + NumberAt(p, "claim_head") + NumberAt(p, "overcommit")

\* The consumers at the check whose count is below k will pass and have
\* elements below l; one with a count of k or more passes only if enough
\* elements were enqueued, whichever of those below it passed.
Enough(p, k, l) ==
    /\ k <= dequeueOptimisticCount[p]
    /\ l <= tailIndex[p]
    /\ Claimed(p) + Cardinality(Below(p, k)) <= l
    /\ \A c \in ConsumersAt(p, "recheck") : loc[c].count >= k =>
         Claimed(p) + Cardinality(Below(p, loc[c].count)) + loc[c].seen
           <= loc[c].count

\* What the consumers at the check know: an overcommit that is not above the
\* present one, and counts that are all different.
Seen ==
    /\ \A c \in Consumers : pc[c] \in {"any", "optimistic", "recheck"} =>
         loc[c].seen <= dequeueOvercommit[loc[c].from]
    /\ \A c \in Consumers : pc[c] = "recheck" =>
         loc[c].seen <= loc[c].count
           /\ loc[c].count < dequeueOptimisticCount[loc[c].from]
    /\ \A c, d \in Consumers :
         c # d /\ pc[c] = "recheck" /\ pc[d] = "recheck"
           /\ loc[c].from = loc[d].from => loc[c].count # loc[d].count

\* The counts of the streams.
Claims ==
    /\ Seen
    /\ \A p \in Producers : Conserved(p) /\ \E k, l \in Int : Enough(p, k, l)

-----------------------------------------------------------------------------
(***************************************************************************)
(* Parts of the state.                                                     *)
(***************************************************************************)

\* The current block index of p.
Cur(p) == Last(blockIndex[p])

\* The next element of p begins a block.
New(p) == tailIndex[p] % BLOCK_SIZE = 0

\* The entry of slot s of the i-th block index of p.
EntryAt(p, i, s) == entry[p][blockIndex[p][i].index[s]]

\* The entry was used.
Valid(e) == e.key # INVALID_BLOCK_BASE

\* The entry of slot s of the current block index.
Slot(p, s) == entry[p][Cur(p).index[s]]

Slots(h) == 0 .. Capacity(h) - 1

\* The blocks that were taken from the pool or from the heap.
Taken == created \union
    {InitialBlocks[i] : i \in {j \in 1 .. Len(InitialBlocks) :
                                j <= initialBlockPoolIndex}}

\* The consumers on their way to an element of the block of p with base k.
InFlight(p, k) == {c \in Consumers :
    /\ pc[c] \in {"block_index", "entry"} /\ loc[c].from = p
    /\ k <= loc[c].count /\ loc[c].count < k + BLOCK_SIZE}

\* The consumers that are about to count an element of b as dequeued.
Emptying(b) == {c \in Consumers : pc[c] = "set_empty" /\ loc[c].block = b}

\* Element n of p is left, or on its way to a consumer.
Undone(p, n) == n >= headIndex[p] \/
    \E c \in Consumers : pc[c] \in {"block_index", "entry"}
                          /\ loc[c].from = p /\ loc[c].count = n

-----------------------------------------------------------------------------
(***************************************************************************)
(* The block index of a producer as a ring: cap slots, of which tail is    *)
(* the last one used; idx, the entry of a slot; K and V, the key and the   *)
(* block in a slot's entry; l, T and at: the stage of the producer, its    *)
(* tail index and the entry that it has taken.                             *)
(***************************************************************************)

\* The element T begins a block.
RNew(T) == T % BLOCK_SIZE = 0

\* The block of T has its entry at the tail.
RExposed(l, T) == RNew(T) /\ l \in {"pool", "claim", "free_list", "construct",
                                   "publish", "rewind"}

\* The end of the elements of the blocks that have entries.
REnd(l, T) == IF RNew(T) THEN T + (IF RExposed(l, T) THEN BLOCK_SIZE ELSE 0)
              ELSE BlockBase(T) + BLOCK_SIZE

\* How many slots s is behind the tail.
RAge(cap, tail, s) == IF s <= tail THEN tail - s ELSE tail + cap - s

\* The slot after the tail.
RNext(cap, tail) == IF tail = cap - 1 THEN 0 ELSE tail + 1

\* The key that a slot has by its age.
RExact(cap, tail, K, end, s) == K[s] = end - BLOCK_SIZE * (RAge(cap, tail, s) + 1)

\* A key that was set.
Used(k) == k # INVALID_BLOCK_BASE

\* Each slot has an entry of its own.
Injective(cap, idx) == \A s, z \in 0 .. cap - 1 : idx[s] = idx[z] => s = z

\* A used slot has the key of its age; the oldest may have been taken for the
\* next block.
Keyed(cap, tail, K, V, end) ==
    \A s \in 0 .. cap - 1 : Used(K[s]) =>
      \/ RExact(cap, tail, K, end, s)
      \/ /\ RAge(cap, tail, s) = cap - 1 /\ V[s] = None /\ K[s] = end

\* The slots younger than one with a block were used.
Filled1(cap, tail, K, V) ==
    \A s, z \in 0 .. cap - 1 :
      V[s] # None /\ RAge(cap, tail, z) <= RAge(cap, tail, s) => Used(K[z])

\* The entry of a block that is not published is at the tail.
Shown(l, cap, tail, K, V, end, at, idx) ==
    /\ at = idx[tail]
    /\ l # "publish" => V[tail] = None
    /\ \A s \in 0 .. cap - 1 : Used(K[s]) => RExact(cap, tail, K, end, s)
    /\ end > BLOCK_SIZE => \A s \in 0 .. cap - 1 :
         RAge(cap, tail, s) = 1 => Used(K[s])

\* The stages of an enqueue that begins a block.
Inserting == {"insert", "grow", "grown", "expose", "pool", "claim",
              "free_list", "rewind", "forget"}

\* What the producer knows of the ring at each stage.
Stage(l, T, at, cap, tail, idx, K, V) ==
    /\ l = "grow" => \A s \in 0 .. cap - 1 :
         Used(K[s]) /\ RExact(cap, tail, K, REnd(l, T), s)
    /\ l = "grown" => ~Used(K[RNext(cap, tail)]) /\ V[RNext(cap, tail)] = None
    /\ l = "expose" => /\ at = idx[RNext(cap, tail)] /\ K[RNext(cap, tail)] = T
                       /\ V[RNext(cap, tail)] = None
    /\ l = "forget" => \E s \in 0 .. cap - 1 : at = idx[s] /\ V[s] = None
    /\ l \in Inserting => RNew(T)

\* The ring of keys in the block index of a producer.
Ring(l, T, at, cap, tail, idx, K, V) ==
    /\ Injective(cap, idx)
    /\ Keyed(cap, tail, K, V, REnd(l, T))
    /\ Filled1(cap, tail, K, V)
    /\ RExposed(l, T) => Shown(l, cap, tail, K, V, REnd(l, T), at, idx)
    /\ REnd(l, T) > 0 => Used(K[tail])
    /\ Stage(l, T, at, cap, tail, idx, K, V)

-----------------------------------------------------------------------------
(***************************************************************************)
(* The block indices in the state.                                         *)
(***************************************************************************)

\* The keys of an old index follow its slots, with whole laps between them.
LapOf(cap, big, E) ==
    /\ \A s \in 0 .. cap - 1 : Used(E[s])
    /\ \E d \in Nat : big = cap * d
    /\ \E k \in Int : \A s \in 0 .. cap - 1 : \E m \in Int :
         E[s] = k + BLOCK_SIZE * (s + cap * m)

\* The ring in the state.
KeysOf(p) == [s \in 0 .. Capacity(Cur(p)) - 1 |-> Slot(p, s).key]

ValuesOf(p) == [s \in 0 .. Capacity(Cur(p)) - 1 |-> Slot(p, s).value]

RingOf(p) == Ring(pc[p], tailIndex[p], loc[p].at, Capacity(Cur(p)),
                  Cur(p).tail, Cur(p).index, KeysOf(p), ValuesOf(p))

\* The current block index has every entry.
Covers(p) == \A e \in 1 .. Len(entry[p]) :
               \E s \in 0 .. Capacity(Cur(p)) - 1 : Cur(p).index[s] = e

\* The keys that the i-th block index shows.
OldKeys(p, i) ==
    [s \in 0 .. Capacity(blockIndex[p][i]) - 1 |-> EntryAt(p, i, s).key]

\* The block indices that were replaced.
Laps(p) == \A i \in 1 .. Len(blockIndex[p]) - 1 :
    LapOf(Capacity(blockIndex[p][i]), Capacity(Cur(p)), OldKeys(p, i))

\* A claimed element is before the head.
Behind(c) == pc[c] \in {"block_index", "entry"} =>
               loc[c].count < headIndex[loc[c].from]

\* The tail that a consumer read with the index was used.
LoadedOne(c) == pc[c] = "entry" =>
    Used(EntryAt(loc[c].from, loc[c].header, loc[c].slot).key)

\* The block index of a producer.
Indexed1(p) == RingOf(p) /\ Covers(p) /\ Laps(p)

\* The block indices and the consumers that search them.
IndexOK == /\ \A p \in Producers : Indexed1(p)
           /\ \A c \in Consumers : Behind(c) /\ LoadedOne(c)

-----------------------------------------------------------------------------
(***************************************************************************)
(* The free list: the count of a block is the number of its readers, one   *)
(* more when the block is on the list, and has the mark when its last      *)
(* reader is to put it there.                                              *)
(***************************************************************************)

\* The mark, above every number of references.
MARK == SHOULD_BE_ON_FREELIST

\* f has a reference to b.
Reads(f, b) == \/ f.at \in {"next", "pop"} /\ f.head = b
               \/ f.at = "unref" /\ f.node = b

\* The places with a block of one's own.
Working == {"add", "load", "count", "push", "repush", "popped", "got"}

\* The thread has b to itself.
Works(f, b) == f.at \in Working /\ f.node = b

\* The threads with a reference to b.
ReadersOf(b) == {t \in Threads : Reads(fl[t], b)}

\* Their number.
Refd(b) == Cardinality(ReadersOf(b))

\* The count of a block that a thread works on, with r readers.
Fits(a, v, r) ==
    /\ a \in {"add", "got"} => v = r
    /\ a \in {"load", "count"} => v = MARK /\ r = 0
    /\ a \in {"push", "repush"} => v = r + 1
    /\ a = "popped" => v = r + 2

\* No thread is at work on b.
Free1(b) == \A t \in Threads : ~Works(fl[t], b)

\* b is off the list, and no thread is at work on it there.
LooseB(b) == Free1(b) /\ freeListRefs[b] = Refd(b)

\* b is on the list.
Listed(b) == Free1(b) /\ freeListRefs[b] = Refd(b) + 1

\* b waits for its last reader.
Waits(b) == Free1(b) /\ freeListRefs[b] = MARK + Refd(b) /\ Refd(b) > 0

\* The count of each block says where it is.
FreeRefs ==
    /\ \A t \in Threads : fl[t].at \in Working => fl[t].node \in Blocks
    /\ \A t \in Threads : \A b \in Blocks :
         Works(fl[t], b) => Fits(fl[t].at, freeListRefs[b], Refd(b))
    /\ \A t, u \in Threads : \A b \in Blocks : Works(fl[t], b) /\ Works(fl[u], b) => t = u
    /\ \A b \in Blocks : Free1(b) => LooseB(b) \/ Listed(b) \/ Waits(b)

\* The nodes of the list, from its end to its head.
ListIs(n, q) ==
    /\ \A i, j \in 1 .. n : q[i] = q[j] => i = j
    /\ freeListHead = IF n = 0 THEN None ELSE q[n]
    /\ \A i \in 1 .. n : freeListNext[q[i]] = IF i = 1 THEN None ELSE q[i - 1]
    /\ \A b \in Blocks : Listed(b) <=> \E i \in 1 .. n : q[i] = b

\* The links are a list of the blocks that are on it.
FreeLinks == \E n \in Nat : \E q \in [1 .. n -> Blocks] : ListIs(n, q)

\* What a thread knows of the links: the next of a block that it holds a
\* reference to does not change while the block is the head, nor that of a
\* block it is about to push.
FreeLocals ==
    \A t \in Threads :
      /\ fl[t].at = "unref" => fl[t].node \in Blocks
      /\ fl[t].at = "pop" => fl[t].next = freeListNext[fl[t].head]
      /\ fl[t].at = "push" => freeListNext[fl[t].node] = fl[t].old

\* The free list.
FreeOK == FreeRefs /\ FreeLinks /\ FreeLocals

-----------------------------------------------------------------------------
(***************************************************************************)
(* The owners of the blocks.                                               *)
(***************************************************************************)

\* Entry e of p has block b.
Placed(p, e, b) == e \in 1 .. Len(entry[p]) /\ entry[p][e].value = b

\* p has got block b for a new entry, and not put it there yet.
HeldBy(p, b) == pc[p] \in {"construct", "rewind", "forget"} /\ New(p) /\ loc[p].block = b

\* b is in an entry; b is held.
PlacedB(b) == \E p \in Producers : \E e \in Nat : Placed(p, e, b)

HeldB(b) == \E p \in Producers : HeldBy(p, b)

\* A block is in one entry.
Unique == \A b \in Blocks : \A p, q \in Producers : \A e, g \in Nat :
            Placed(p, e, b) /\ Placed(q, g, b) => p = q /\ e = g

\* A block is held by one producer.
HeldOnce == \A b \in Blocks : \A p, q \in Producers : HeldBy(p, b) /\ HeldBy(q, b) => p = q

\* A block in an entry is not held.
OneUse == \A b \in Blocks : ~(PlacedB(b) /\ HeldB(b))

\* The blocks in use are those that were taken and are off the free list.
UsedIs == \A b \in Blocks : (PlacedB(b) \/ HeldB(b)) <=> (b \in Taken /\ LooseB(b))

\* A block that was never taken is not on the free list.
Fresh == \A b \in Blocks : b \notin Taken => LooseB(b)

\* Each block has one owner.
OwnCore == Unique /\ HeldOnce /\ OneUse /\ UsedIs /\ Fresh

\* The heap gives other blocks than the pool.
PoolApart == created \intersect Range(InitialBlocks) = {}

\* The places where a producer has no block yet.
NoBlockYet == {"idle", "insert", "grow", "grown", "expose", "pool", "claim", "free_list"}

\* What the locals say of the owner.
OwnLocals ==
    /\ \A t \in Threads : pc[t] \notin {"free_list", "give_back"} => fl[t].at = "out"
    /\ \A p \in Producers : pc[p] \in NoBlockYet => loc[p].block = None
    /\ \A p \in Producers : pc[p] = "construct" /\ New(p) => loc[p].block \in Blocks

\* The owners of the blocks.
OwnedOK == OwnCore /\ PoolApart /\ OwnLocals

-----------------------------------------------------------------------------
(***************************************************************************)
(* What the blocks hold: each of the BLOCK_SIZE elements of a block was    *)
(* emptied, is being emptied, is on its way to a consumer, or is left.     *)
(***************************************************************************)

\* A consumer that has moved its element knows the entry of its block.
Points(c) == pc[c] \in {"set_empty", "release"} =>
               loc[c].block \in Blocks /\ Placed(loc[c].from, loc[c].at, loc[c].block)

\* Entry e of p has block b, whose first element has index k.
Stores(p, e, k, b) == Placed(p, e, b) /\ entry[p][e].key = k

\* What p has enqueued, with the element that it publishes.
Written(p) == tailIndex[p] + (IF pc[p] = "publish" THEN 1 ELSE 0)

\* The end of the elements of the blocks that are in entries.
Reach(l, T) == IF RNew(T) THEN T + (IF l = "publish" THEN BLOCK_SIZE ELSE 0)
               ELSE BlockBase(T) + BLOCK_SIZE

\* c has claimed an element and not moved it yet.
Flying(c) == pc[c] \in {"block_index", "entry"}

\* How many elements of the block with base k are not dequeued with head h.
LeftIn(h, k) == IF h <= k THEN BLOCK_SIZE ELSE IF h >= k + BLOCK_SIZE THEN 0 ELSE k + BLOCK_SIZE - h

\* The elements of a block: emptied, being emptied, on their way, left.
Sum(p, k, b) == dequeued[b] + Cardinality(Emptying(b)) + Cardinality(InFlight(p, k)) + LeftIn(headIndex[p], k)

\* Reach of p.
ReachOf(p) == Reach(pc[p], tailIndex[p])

\* The block with base k is in an entry.
HasBlock(p, k) == \E e \in Nat : \E b \in Blocks : Stores(p, e, k, b)

\* Each element that is left has its block in an entry.
LivesIn(p) == \A n \in Nat : n < ReachOf(p) /\ Undone(p, n) => HasBlock(p, BlockBase(n))

\* The elements of a block are counted once each.
CountedIn(p) == \A e \in Nat : \A k \in Nat : \A b \in Blocks : Stores(p, e, k, b) => Sum(p, k, b) = BLOCK_SIZE

\* The elements that are left are in their places.
FilledIn(p) == \A e \in Nat : \A k \in Nat : \A b \in Blocks : Stores(p, e, k, b) =>
    \A i \in 0 .. BLOCK_SIZE - 1 : Undone(p, k + i) /\ k + i < Written(p) => elements[b][i] = <<p, k + i>>

\* Two consumers with the same element, or releasing the same block.
Alike(c, d) == \/ Flying(c) /\ Flying(d) /\ loc[c].from = loc[d].from /\ loc[c].count = loc[d].count
               \/ pc[c] = "release" /\ pc[d] = "release" /\ loc[c].block = loc[d].block

\* There are no two.
NoneAlike == \A c, d \in Consumers : Alike(c, d) => c = d

\* A block that is released was emptied.
Emptied(c) == pc[c] = "release" => dequeued[loc[c].block] = BLOCK_SIZE

\* Some consumer releases b.
IsReleased(b) == \E c \in Consumers : pc[c] = "release" /\ loc[c].block = b

\* A block that is emptied is released by some consumer.
AreReleased == \A p \in Producers : \A e \in Nat : \A b \in Blocks :
                 Placed(p, e, b) /\ dequeued[b] = BLOCK_SIZE => IsReleased(b)

\* No block counts more elements than it has.
InBounds == \A b \in Blocks : dequeued[b] <= BLOCK_SIZE

\* The block that p fills is in its entry.
FillsIn(p) ==
    /\ ~New(p) \/ pc[p] = "publish" =>
         tailBlock[p] \in Blocks /\ \E e \in Nat : Stores(p, e, BlockBase(tailIndex[p]), tailBlock[p])
    /\ ~New(p) /\ pc[p] \in {"construct", "publish"} => loc[p].block = tailBlock[p]

\* The block of the element that c looks for is in the index that c read.
Finds(c) == pc[c] = "entry" =>
    \E s \in 0 .. Capacity(blockIndex[loc[c].from][loc[c].header]) - 1 : \E b \in Blocks :
      Stores(loc[c].from, blockIndex[loc[c].from][loc[c].header].index[s], BlockBase(loc[c].count), b)

\* c has an element in its hand from MoveElement until it returns.
Carries(c) == loc[c].item # None <=> pc[c] \in {"set_empty", "release", "give_back"}

\* What the blocks hold.
Counts == /\ \A p \in Producers : LivesIn(p) /\ CountedIn(p) /\ FilledIn(p)
          /\ NoneAlike /\ AreReleased /\ InBounds
          /\ \A c \in Consumers : Emptied(c)

\* The blocks and the threads that use them.
StoredOK == /\ Counts
            /\ \A p \in Producers : FillsIn(p)
            /\ \A c \in Consumers : Points(c) /\ Finds(c) /\ Carries(c)

-----------------------------------------------------------------------------
(***************************************************************************)
(* The inductive invariant.                                                *)
(***************************************************************************)

\* The invariant, of which TypeOK, AssertsHold and NothingStranded are
\* consequences.
IInv == Types /\ Claims /\ IndexOK /\ FreeOK /\ OwnedOK /\ StoredOK
=============================================================================
