----------------------- MODULE ImplicitQueue_proofs ------------------------
(***************************************************************************)
(* The queue of the logger, for any number of producers, consumers, blocks *)
(* and elements: where each block is, what it holds, and the theorems: the *)
(* assertions of concurentqueue.hh hold, no block is lost or used twice,   *)
(* and the queue implements streams that are first in, first out.          *)
(***************************************************************************)
EXTENDS ImplicitQueueParts_proofs

-----------------------------------------------------------------------------
(***************************************************************************)
(* The owners of the blocks: each one that was taken is in one entry of    *)
(* one producer, held by one producer that makes room for it, or given to  *)
(* the free list.                                                          *)
(***************************************************************************)

\* No block is put into an entry or taken out; the others: no block changes
\* its holder, no block gets on or off the list, one block is put into an
\* entry or taken out, one is held or handed on.
PlacedSame == \A p \in Producers : \A e \in Nat : \A b \in Blocks : Placed(p, e, b)' <=> Placed(p, e, b)

HeldSame == \A p \in Producers : \A b \in Blocks : HeldBy(p, b)' <=> HeldBy(p, b)

LooseSame == \A b \in Blocks : LooseB(b)' <=> LooseB(b)

PlacedAdds(p0, e0, b0) == \A p \in Producers : \A e \in Nat : \A b \in Blocks :
    Placed(p, e, b)' <=> Placed(p, e, b) \/ (p = p0 /\ e = e0 /\ b = b0)

PlacedDrops(p0, e0, b0) == \A p \in Producers : \A e \in Nat : \A b \in Blocks :
    Placed(p, e, b)' <=> Placed(p, e, b) /\ ~(p = p0 /\ e = e0 /\ b = b0)

HeldAdds(p0, b0) == \A p \in Producers : \A b \in Blocks :
    HeldBy(p, b)' <=> HeldBy(p, b) \/ (p = p0 /\ b = b0)

HeldDrops(p0, b0) == \A p \in Producers : \A b \in Blocks :
    HeldBy(p, b)' <=> HeldBy(p, b) /\ ~(p = p0 /\ b = b0)

\* No block changes its owner.
LEMMA OwnedSame ==
    ASSUME OwnCore, PlacedSame, HeldSame, LooseSame, Taken' = Taken
    PROVE  OwnCore'
<1>1. \A b \in Blocks : (PlacedB(b)' <=> PlacedB(b)) /\ (HeldB(b)' <=> HeldB(b))
  BY DEF PlacedSame, HeldSame, PlacedB, HeldB
<1>2. Unique' /\ HeldOnce'
  BY DEF Unique, HeldOnce, OwnCore, PlacedSame, HeldSame
<1>3. OneUse' /\ UsedIs' /\ Fresh'
  BY <1>1 DEF OneUse, UsedIs, Fresh, OwnCore, LooseSame
<1> QED BY <1>2, <1>3 DEF OwnCore

\* A block that nobody has is taken.
LEMMA OwnedTakes ==
    ASSUME OwnCore, NEW p0 \in Producers, NEW b0 \in Blocks, PlacedSame, HeldAdds(p0, b0),
           \/ LooseSame /\ b0 \notin Taken /\ Taken' = Taken \union {b0}
           \/ /\ ~LooseB(b0) /\ Taken' = Taken
              /\ \A b \in Blocks : LooseB(b)' <=> LooseB(b) \/ b = b0
    PROVE  OwnCore'
<1>1. ~PlacedB(b0) /\ ~HeldB(b0)
  BY DEF OwnCore, UsedIs
<1>2. \A b \in Blocks : (PlacedB(b)' <=> PlacedB(b)) /\ (HeldB(b)' <=> HeldB(b) \/ b = b0)
  BY DEF PlacedSame, HeldAdds, PlacedB, HeldB
<1>3. Unique'
  BY DEF Unique, OwnCore, PlacedSame
<1>4. HeldOnce'
  <2>1. \A p \in Producers : ~HeldBy(p, b0)
    BY <1>1 DEF HeldB
  <2> QED BY <2>1 DEF HeldOnce, OwnCore, HeldAdds
<1>5. OneUse'
  BY <1>1, <1>2 DEF OneUse, OwnCore
<1>6. b0 \in Taken' /\ LooseB(b0)'
  BY DEF LooseSame, OwnCore, Fresh
<1>7. \A b \in Blocks : b # b0 => (LooseB(b)' <=> LooseB(b)) /\ (b \in Taken' <=> b \in Taken)
  BY DEF LooseSame
<1>8. UsedIs' /\ Fresh'
  <2>1. \A b \in Blocks : (PlacedB(b)' \/ HeldB(b)') <=> (b \in Taken' /\ LooseB(b)')
    BY <1>2, <1>6, <1>7 DEF OwnCore, UsedIs
  <2>2. \A b \in Blocks : b \notin Taken' => LooseB(b)'
    BY <1>6, <1>7 DEF OwnCore, Fresh
  <2> QED BY <2>1, <2>2 DEF UsedIs, Fresh
<1> QED BY <1>3, <1>4, <1>5, <1>8 DEF OwnCore

\* It is put into its entry.
LEMMA OwnedPuts ==
    ASSUME OwnCore, NEW p0 \in Producers, NEW e0 \in Nat, NEW b0 \in Blocks, HeldBy(p0, b0),
           PlacedAdds(p0, e0, b0), HeldDrops(p0, b0), LooseSame, Taken' = Taken
    PROVE  OwnCore'
<1>1. ~PlacedB(b0) /\ HeldB(b0)
  BY DEF OwnCore, OneUse, HeldB
<1>2. \A p \in Producers : \A e \in Nat : ~Placed(p, e, b0)
  BY <1>1 DEF PlacedB
<1>3. \A p \in Producers : ~HeldBy(p, b0)'
  BY DEF HeldDrops, OwnCore, HeldOnce
<1>4. PlacedB(b0)' /\ ~HeldB(b0)'
  BY <1>3 DEF PlacedAdds, PlacedB, HeldB
<1>5. \A b \in Blocks : b # b0 => (PlacedB(b)' <=> PlacedB(b)) /\ (HeldB(b)' <=> HeldB(b))
  BY DEF PlacedAdds, HeldDrops, PlacedB, HeldB
<1>6. Unique'
  <2>1. ASSUME NEW b \in Blocks, NEW p \in Producers, NEW q \in Producers, NEW e \in Nat, NEW g \in Nat,
               Placed(p, e, b)', Placed(q, g, b)'
        PROVE  p = q /\ e = g
    <3>1. CASE b = b0
      BY <1>2, <2>1, <3>1 DEF PlacedAdds
    <3>2. CASE b # b0
      BY <2>1, <3>2 DEF PlacedAdds, OwnCore, Unique
    <3> QED BY <3>1, <3>2
  <2> QED BY <2>1 DEF Unique
<1>7. HeldOnce'
  BY DEF HeldOnce, OwnCore, HeldDrops
<1>8. OneUse' /\ UsedIs' /\ Fresh'
  BY <1>1, <1>4, <1>5 DEF OneUse, UsedIs, Fresh, OwnCore, LooseSame
<1> QED BY <1>6, <1>7, <1>8 DEF OwnCore

\* It goes to the free list.
LEMMA OwnedGives ==
    ASSUME OwnCore, NEW b0 \in Blocks, Taken' = Taken,
           \A b \in Blocks : LooseB(b)' <=> LooseB(b) /\ b # b0,
           \/ \E p \in Producers : HeldBy(p, b0) /\ HeldDrops(p, b0) /\ PlacedSame
           \/ \E p \in Producers : \E e \in Nat : Placed(p, e, b0) /\ PlacedDrops(p, e, b0) /\ HeldSame
    PROVE  OwnCore'
<1>1. /\ \A p \in Producers : \A e \in Nat : \A b \in Blocks : Placed(p, e, b)' => Placed(p, e, b)
      /\ \A p \in Producers : \A b \in Blocks : HeldBy(p, b)' => HeldBy(p, b)
  BY DEF PlacedSame, HeldSame, PlacedDrops, HeldDrops
<1>2. b0 \in Taken
  BY DEF OwnCore, UsedIs, HeldB, PlacedB
<1>3. ~PlacedB(b0)' /\ ~HeldB(b0)'
  <2>1. CASE \E p \in Producers : HeldBy(p, b0) /\ HeldDrops(p, b0) /\ PlacedSame
    <3>1. PICK p \in Producers : HeldBy(p, b0) /\ HeldDrops(p, b0) /\ PlacedSame
      BY <2>1
    <3>2. \A q \in Producers : ~HeldBy(q, b0)'
      BY <3>1 DEF HeldDrops, OwnCore, HeldOnce
    <3>3. \A q \in Producers : \A e \in Nat : ~Placed(q, e, b0)
      BY <3>1 DEF OwnCore, OneUse, HeldB, PlacedB
    <3> QED BY <1>1, <3>2, <3>3 DEF PlacedB, HeldB
  <2>2. CASE \E p \in Producers : \E e \in Nat : Placed(p, e, b0) /\ PlacedDrops(p, e, b0) /\ HeldSame
    <3>1. PICK p \in Producers : \E e \in Nat : Placed(p, e, b0) /\ PlacedDrops(p, e, b0) /\ HeldSame
      BY <2>2
    <3>2. PICK e \in Nat : Placed(p, e, b0) /\ PlacedDrops(p, e, b0) /\ HeldSame
      BY <3>1
    <3>3. \A q \in Producers : \A g \in Nat : ~Placed(q, g, b0)'
      BY <3>2 DEF PlacedDrops, OwnCore, Unique
    <3>4. \A q \in Producers : ~HeldBy(q, b0)
      BY <3>2 DEF OwnCore, OneUse, HeldB, PlacedB
    <3> QED BY <1>1, <3>3, <3>4 DEF PlacedB, HeldB
  <2> QED BY <2>1, <2>2
<1>4. \A b \in Blocks : b # b0 => (PlacedB(b)' <=> PlacedB(b)) /\ (HeldB(b)' <=> HeldB(b))
  BY DEF PlacedDrops, HeldDrops, PlacedSame, HeldSame, PlacedB, HeldB
<1>5. Unique' /\ HeldOnce'
  BY <1>1 DEF Unique, HeldOnce, OwnCore
<1>6. OneUse'
  BY <1>3, <1>4 DEF OneUse, OwnCore
<1>7. UsedIs' /\ Fresh'
  BY <1>2, <1>3, <1>4 DEF UsedIs, Fresh, OwnCore
<1> QED BY <1>5, <1>6, <1>7 DEF OwnCore

\* The blocks in the entries of q are as they were.
PlacedKept(q) == \A e \in Nat : \A b \in Blocks : Placed(q, e, b)' <=> Placed(q, e, b)

\* None is no block.
LEMMA Somes == \A b \in Blocks : b # None
BY QueueAssumption

\* The entries of q are not written.
LEMMA EntriesSame ==
    ASSUME NEW q, entry'[q] = entry[q]
    PROVE  PlacedKept(q)
BY DEF PlacedKept, Placed

\* Where the blocks are when one entry is set.
LEMMA ValuePlaced ==
    ASSUME Types, NEW p \in Producers, NEW e, NEW v \in MaybeBlock, SetValue(p, e, v), NEW q \in Producers
    PROVE  \A g \in Nat : \A b \in Blocks :
             Placed(q, g, b)' <=> IF q = p /\ g = e THEN g \in 1 .. Len(entry[q]) /\ v = b
                                  ELSE Placed(q, g, b)
<1>1. /\ Len(entry'[q]) = Len(entry[q])
      /\ \A i \in 1 .. Len(entry[q]) :
           entry'[q][i].value = IF q = p /\ i = e THEN v ELSE entry[q][i].value
  BY ValueSet
<1> QED BY <1>1 DEF Placed

\* The entry that a producer has exposed holds no block and the index of its element.
LEMMA ConstructPlace ==
    ASSUME Types, NEW p \in Producers, Indexed1(p), pc[p] = "construct", New(p)
    PROVE  /\ loc[p].at \in 1 .. Len(entry[p])
           /\ entry[p][loc[p].at].value = None
           /\ entry[p][loc[p].at].key = tailIndex[p]
<1> DEFINE cap == Capacity(Cur(p))
           tail == Cur(p).tail
           idx == Cur(p).index
           T == tailIndex[p]
           K == KeysOf(p)
           V == ValuesOf(p)
           at == loc[p].at
<1>1. Ring("construct", T, at, cap, tail, idx, K, V)
  BY DEF Indexed1, RingOf
<1>2. /\ RingTypes(T, cap, tail, K) /\ tail \in 0 .. cap - 1
      /\ idx[tail] \in 1 .. Len(entry[p])
      /\ K[tail] = entry[p][idx[tail]].key /\ V[tail] = entry[p][idx[tail]].value
  BY CurIs
<1>3. RNew(T)
  BY DEF RNew, New
<1>4. T \in Nat /\ cap \in Nat /\ cap > 1
  BY <1>2 DEF RingTypes
<1> HIDE DEF cap, tail, idx, T, K, V, at
<1>5. RExposed("construct", T) /\ REnd("construct", T) = T + BLOCK_SIZE
  BY <1>3 DEF RExposed, REnd
<1>6. Shown("construct", cap, tail, K, V, T + BLOCK_SIZE, at, idx) /\ (T + BLOCK_SIZE > 0 => Used(K[tail]))
  BY <1>1, <1>5 DEF Ring
<1>7. at = idx[tail] /\ V[tail] = None /\ Used(K[tail]) /\ RExact(cap, tail, K, T + BLOCK_SIZE, tail)
  BY <1>2, <1>4, <1>6, Size DEF Shown
<1>8. RAge(cap, tail, tail) = 0
  BY <1>2, <1>4, NextAge
<1>9. K[tail] = T
  BY <1>4, <1>7, <1>8, Size DEF RExact
<1>10. idx[tail] = at /\ at \in 1 .. Len(entry[p]) /\ entry[p][at].value = None /\ entry[p][at].key = T
  BY <1>2, <1>7, <1>9
<1> QED BY <1>10 DEF at, T

\* A failed enqueue: its entry holds no block.
LEMMA ForgetPlace ==
    ASSUME Types, NEW p \in Producers, Indexed1(p), pc[p] = "forget"
    PROVE  /\ loc[p].at \in 1 .. Len(entry[p])
           /\ entry[p][loc[p].at].value = None /\ New(p)
<1> DEFINE cap == Capacity(Cur(p))
           idx == Cur(p).index
           V == ValuesOf(p)
           at == loc[p].at
<1>1. Stage("forget", tailIndex[p], at, cap, Cur(p).tail, idx, KeysOf(p), V)
  BY DEF Indexed1, RingOf, Ring
<1>2. \A s \in 0 .. cap - 1 : idx[s] \in 1 .. Len(entry[p]) /\ V[s] = entry[p][idx[s]].value
  BY CurIs
<1>3. RNew(tailIndex[p]) /\ \E s \in 0 .. cap - 1 : at = idx[s] /\ V[s] = None
  BY <1>1 DEF Stage, Inserting
<1> HIDE DEF cap, idx, V
<1> QED BY <1>2, <1>3 DEF RNew, New

\* The steps of p that put a block into an entry.
LEMMA ProducePlaced ==
    ASSUME Types, NEW p \in Producers, Indexed1(p), Produce(p)
    PROVE  \/ PlacedKept(p)
           \/ /\ Construct(p) /\ New(p)
              /\ \A e \in Nat : \A b \in Blocks :
                   Placed(p, e, b)' <=> Placed(p, e, b) \/ (e = loc[p].at /\ b = loc[p].block)
<1>1. CASE InsertBlockIndexEntry(p)
  <2> DEFINE to == NextSlot(Cur(p))
             room == pc[p] = "grown" \/ ~Valid(Slot(p, to)) \/ Slot(p, to).value = None
             k == Cur(p).index[to]
  <2>1. /\ room => SetKey(p, k, tailIndex[p])
        /\ ~room => entry' = entry
    BY <1>1, InsertBlockIndexEntryDoes
  <2>2. tailIndex[p] \in Nat
    BY DEF Types, CountTypes
  <2>3. ASSUME SetKey(p, k, tailIndex[p])
        PROVE  /\ Len(entry'[p]) = Len(entry[p])
               /\ \A i \in 1 .. Len(entry[p]) : entry'[p][i].value = entry[p][i].value
    BY <2>2, <2>3, KeySet
  <2>4. CASE room
    BY <2>1, <2>3, <2>4 DEF PlacedKept, Placed
  <2>5. CASE ~room
    BY <2>1, <2>5, EntriesSame
  <2> QED BY <2>4, <2>5
<1>2. CASE NewBlockIndex(p)
  <2>1. /\ Len(entry'[p]) = Len(entry[p]) + Capacity(Cur(p))
        /\ \A e \in 1 .. Len(entry[p]) : entry'[p][e] = entry[p][e]
        /\ \A e \in Len(entry[p]) + 1 .. Len(entry[p]) + Capacity(Cur(p)) : entry'[p][e] = Unused
    BY <1>2, GrownIs
  <2>2. Len(entry[p]) \in Nat
    BY DEF Types, IndexTypes
  <2>3. Capacity(Cur(p)) \in Nat
    BY CurTyped DEF Cur
  <2>4. Unused.value = None
    BY DEF Unused
  <2>5. ASSUME NEW e \in Nat, NEW b \in Blocks PROVE Placed(p, e, b)' <=> Placed(p, e, b)
    <3>1. CASE e \in 1 .. Len(entry[p])
      BY <2>1, <2>2, <2>3, <3>1 DEF Placed
    <3>2. CASE e \notin 1 .. Len(entry[p])
      <4>1. e \in 1 .. Len(entry'[p]) => e \in Len(entry[p]) + 1 .. Len(entry[p]) + Capacity(Cur(p))
        BY <2>1, <2>2, <2>3, <3>2
      <4> QED BY <2>1, <2>4, <3>2, <4>1, Somes DEF Placed
    <3> QED BY <3>1, <3>2
  <2> QED BY <2>5 DEF PlacedKept
<1>3. CASE Construct(p)
  <2>1. CASE New(p)
    <3>1. loc[p].block \in MaybeBlock /\ pc[p] = "construct" /\ SetValue(p, loc[p].at, loc[p].block)
      BY <1>3, <2>1, Members, ConstructDoes DEF Types, LocTypes, WfLoc
    <3>2. loc[p].at \in 1 .. Len(entry[p]) /\ entry[p][loc[p].at].value = None
      BY <2>1, <3>1, ConstructPlace
    <3>3. \A g \in Nat : \A b \in Blocks :
             Placed(p, g, b)' <=> IF g = loc[p].at THEN g \in 1 .. Len(entry[p]) /\ loc[p].block = b
                                  ELSE Placed(p, g, b)
      BY <3>1, ValuePlaced
    <3>4. \A b \in Blocks : ~Placed(p, loc[p].at, b)
      BY <3>2, Somes DEF Placed
    <3> QED BY <1>3, <2>1, <3>2, <3>3, <3>4
  <2>2. CASE ~New(p)
    BY <1>3, <2>2, ConstructDoes, EntriesSame
  <2> QED BY <2>1, <2>2
<1>4. CASE Forget(p)
  <2>1. None \in MaybeBlock /\ pc[p] = "forget" /\ SetValue(p, loc[p].at, None)
    BY <1>4, ForgetDoes DEF MaybeBlock
  <2>2. entry[p][loc[p].at].value = None
    BY <2>1, ForgetPlace
  <2>3. \A g \in Nat : \A b \in Blocks :
           Placed(p, g, b)' <=> IF g = loc[p].at THEN g \in 1 .. Len(entry[p]) /\ None = b
                                ELSE Placed(p, g, b)
    BY <2>1, ValuePlaced
  <2>4. \A b \in Blocks : ~Placed(p, loc[p].at, b)
    BY <2>2, Somes DEF Placed
  <2> QED BY <2>3, <2>4, Somes DEF PlacedKept
<1>5. CASE ~(InsertBlockIndexEntry(p) \/ NewBlockIndex(p) \/ Construct(p) \/ Forget(p))
  <2>1. entry' = entry
    BY <1>5 DEF Produce, Enqueue, NewBlockIndexFails, AskPool, ClaimFromPool, FromFreeList, Create, CreateFails,
       ConstructThrows, Publish, indexVars, Expose, Rewind
  <2> QED BY <2>1, EntriesSame
<1> QED BY <1>1, <1>2, <1>3, <1>4, <1>5

\* The block that q holds is as it was.
HeldKept(q) == \A b \in Blocks : HeldBy(q, b)' <=> HeldBy(q, b)

\* A producer that stays where it is holds the block it held.
LEMMA HeldIs ==
    ASSUME NEW q, pc'[q] = pc[q], loc'[q] = loc[q], tailIndex'[q] = tailIndex[q]
    PROVE  HeldKept(q)
BY DEF HeldKept, HeldBy, New

\* A step of p leaves the blocks of the other producers.
LEMMA OthersOwn ==
    ASSUME Types, NEW p \in Producers, Produce(p)
    PROVE  \A q \in Producers : q # p => PlacedKept(q) /\ HeldKept(q)
<1> SUFFICES ASSUME NEW q \in Producers, q # p PROVE PlacedKept(q) /\ HeldKept(q)
  OBVIOUS
<1>1. entry'[q] = entry[q] /\ tailIndex'[q] = tailIndex[q]
  BY OthersIndex
<1>2. pc'[q] = pc[q] /\ loc'[q] = loc[q]
  BY OnlyProducer, Members
<1> QED BY <1>1, <1>2, EntriesSame, HeldIs

\* A producer that starts an index entry starts a block.
LEMMA Starts ==
    ASSUME NEW p, Indexed1(p), pc[p] \in Inserting
    PROVE  New(p)
BY DEF Indexed1, RingOf, Ring, Stage, RNew, New

\* No block is taken from the pool or from the heap.
TakenKept == created' = created /\ initialBlockPoolIndex' = initialBlockPoolIndex

\* The pool and the heap are not used.
LEMMA TakenIs == ASSUME TakenKept PROVE Taken' = Taken
BY DEF TakenKept, Taken

\* The steps of a producer that neither get a block nor give one away.
QuietOwn(p) == \/ Enqueue(p) \/ InsertBlockIndexEntry(p) \/ NewBlockIndex(p) \/ NewBlockIndexFails(p)
               \/ Expose(p) \/ AskPool(p) \/ CreateFails(p) \/ ConstructThrows(p) \/ Rewind(p) \/ Publish(p)
               \/ ClaimFromPool(p) /\ initialBlockPoolIndex >= Len(InitialBlocks)
               \/ Construct(p) /\ ~New(p)
               \/ Forget(p) /\ loc[p].block = None

\* A quiet step of p leaves the block it holds.
LEMMA QuietHeld ==
    ASSUME Types, OwnLocals, NEW p \in Producers, Indexed1(p), QuietOwn(p)
    PROVE  HeldKept(p)
<1> USE Somes DEF HeldKept, HeldBy, New
<1>1. CASE Enqueue(p)
  BY <1>1, EnqueueDoes
<1>2. CASE InsertBlockIndexEntry(p)
  BY <1>2, InsertBlockIndexEntryDoes
<1>3. CASE NewBlockIndex(p)
  BY <1>3, NewBlockIndexDoes
<1>4. CASE NewBlockIndexFails(p)
  BY <1>4, NewBlockIndexFailsDoes
<1>5. CASE Expose(p)
  BY <1>5, ExposeDoes
<1>6. CASE AskPool(p)
  BY <1>6, AskPoolDoes
<1>7. CASE CreateFails(p)
  <2>1. loc[p].block = None
    BY <1>7, CreateFailsDoes DEF OwnLocals, NoBlockYet
  <2> QED BY <1>7, <2>1, CreateFailsDoes
<1>8. CASE ConstructThrows(p)
  BY <1>8, ConstructThrowsDoes
<1>9. CASE Rewind(p)
  BY <1>9, RewindDoes
<1>10. CASE Publish(p)
  BY <1>10, PublishDoes
<1>11. CASE ClaimFromPool(p) /\ initialBlockPoolIndex >= Len(InitialBlocks)
  <2>1. ~(initialBlockPoolIndex + 1 <= Len(InitialBlocks))
    BY <1>11, QueueAssumption DEF Types, BlockTypes, IsInjective
  <2> QED BY <1>11, <2>1, ClaimFromPoolDoes
<1>12. CASE Construct(p) /\ ~New(p)
  BY <1>12, ConstructDoes
<1>13. CASE Forget(p) /\ loc[p].block = None
  BY <1>13, ForgetDoes
<1> QED BY <1>1, <1>2, <1>3, <1>4, <1>5, <1>6, <1>7, <1>8, <1>9, <1>10, <1>11, <1>12, <1>13 DEF QuietOwn

\* The block after those that were claimed is not taken.
LEMMA ClaimTakes ==
    ASSUME Types, PoolApart, initialBlockPoolIndex + 1 <= Len(InitialBlocks), created' = created,
           initialBlockPoolIndex' = initialBlockPoolIndex + 1
    PROVE  LET b == InitialBlocks[initialBlockPoolIndex + 1] IN
           b \in Blocks /\ b \notin Taken /\ Taken' = Taken \union {b}
<1> DEFINE n == initialBlockPoolIndex + 1
           b == InitialBlocks[n]
<1>1. n \in Nat /\ n >= 1 /\ initialBlockPoolIndex \in Nat
  BY DEF Types, BlockTypes
<1>2. n \in 1 .. Len(InitialBlocks) /\ DOMAIN InitialBlocks = 1 .. Len(InitialBlocks)
  BY <1>1, QueueAssumption
<1>3. b \in Blocks /\ b \in Range(InitialBlocks)
  BY <1>2, QueueAssumption DEF Range
<1>4. \A i \in 1 .. Len(InitialBlocks) : InitialBlocks[i] = b => i = n
  BY <1>2, QueueAssumption DEF IsInjective
<1>5. \A x : x \in Taken <=> x \in created \/ \E i \in 1 .. Len(InitialBlocks) :
               i <= initialBlockPoolIndex /\ x = InitialBlocks[i]
  BY DEF Taken
<1>6. \A x : x \in Taken' <=> x \in created \/ \E i \in 1 .. Len(InitialBlocks) :
               i <= n /\ x = InitialBlocks[i]
  BY DEF Taken
<1>7. b \notin created
  BY <1>3 DEF PoolApart
<1>8. b \notin Taken
  BY <1>1, <1>4, <1>5, <1>7
<1>9. \A i \in 1 .. Len(InitialBlocks) : i <= n <=> i <= initialBlockPoolIndex \/ i = n
  BY <1>1
<1>10. \A x : x \in Taken' <=> x \in Taken \/ x = b
  <2> HIDE DEF n, b
  <2>1. \A x : (\E i \in 1 .. Len(InitialBlocks) : i <= n /\ x = InitialBlocks[i])
                 <=> (\E i \in 1 .. Len(InitialBlocks) : i <= initialBlockPoolIndex /\ x = InitialBlocks[i])
                     \/ x = b
    BY <1>2, <1>9 DEF b
  <2> QED BY <1>5, <1>6, <2>1
<1> QED BY <1>3, <1>8, <1>10

\* A block from the heap was not taken.
LEMMA CreateIsNew ==
    ASSUME NEW b, b \notin created \union Range(InitialBlocks), created' = created \union {b},
           initialBlockPoolIndex' = initialBlockPoolIndex, PoolApart
    PROVE  b \notin Taken /\ Taken' = Taken \union {b} /\ PoolApart'
<1>1. \A i \in 1 .. Len(InitialBlocks) : InitialBlocks[i] \in Range(InitialBlocks)
  BY QueueAssumption DEF Range
<1>2. \A x : x \in Taken <=> x \in created \/ \E i \in 1 .. Len(InitialBlocks) :
               i <= initialBlockPoolIndex /\ x = InitialBlocks[i]
  BY DEF Taken
<1>3. \A x : x \in Taken' <=> x \in created' \/ \E i \in 1 .. Len(InitialBlocks) :
               i <= initialBlockPoolIndex /\ x = InitialBlocks[i]
  BY DEF Taken
<1>4. b \notin Taken
  BY <1>1, <1>2
<1>5. \A x : x \in Taken' <=> x \in Taken \/ x = b
  BY <1>2, <1>3
<1>6. PoolApart'
  BY DEF PoolApart
<1> QED BY <1>4, <1>5, <1>6

\* One producer adds or drops a block.
LEMMA FromOne ==
    ASSUME Types, NEW p \in Producers, Produce(p)
    PROVE  /\ PlacedKept(p) => PlacedSame
           /\ HeldKept(p) => HeldSame
           /\ \A b0 : (\A b \in Blocks : HeldBy(p, b)' <=> HeldBy(p, b) \/ b = b0) => HeldAdds(p, b0)
           /\ \A b0 : (\A b \in Blocks : HeldBy(p, b)' <=> HeldBy(p, b) /\ b # b0) => HeldDrops(p, b0)
           /\ \A e0, b0 : (\A e \in Nat : \A b \in Blocks :
                Placed(p, e, b)' <=> Placed(p, e, b) \/ (e = e0 /\ b = b0)) => PlacedAdds(p, e0, b0)
<1>1. \A q \in Producers : q # p => PlacedKept(q) /\ HeldKept(q)
  BY OthersOwn
<1>2. \A q \in Producers : q # p => \A e \in Nat : \A b \in Blocks : Placed(q, e, b)' <=> Placed(q, e, b)
  BY <1>1 DEF PlacedKept
<1>3. \A q \in Producers : q # p => \A b \in Blocks : HeldBy(q, b)' <=> HeldBy(q, b)
  BY <1>1 DEF HeldKept
<1>4. PlacedKept(p) => PlacedSame
  BY <1>2 DEF PlacedKept, PlacedSame
<1>5. HeldKept(p) => HeldSame
  BY <1>3 DEF HeldKept, HeldSame
<1>6. \A b0 : (\A b \in Blocks : HeldBy(p, b)' <=> HeldBy(p, b) \/ b = b0) => HeldAdds(p, b0)
  BY <1>3 DEF HeldAdds
<1>7. \A b0 : (\A b \in Blocks : HeldBy(p, b)' <=> HeldBy(p, b) /\ b # b0) => HeldDrops(p, b0)
  BY <1>3 DEF HeldDrops
<1>8. \A e0, b0 : (\A e \in Nat : \A b \in Blocks :
        Placed(p, e, b)' <=> Placed(p, e, b) \/ (e = e0 /\ b = b0)) => PlacedAdds(p, e0, b0)
  BY <1>2 DEF PlacedAdds
<1> QED BY <1>4, <1>5, <1>6, <1>7, <1>8

\* The block that try_get returns is not loose before it is taken.
LEMMA Unmoved == \A b \in Blocks : \A t \in Threads : (fl[t].at = "got" /\ fl[t].node = b => ~LooseB(b))
BY DEF LooseB, Free1, Works, Working

\* No block is created.
LEMMA PoolKept == ASSUME PoolApart, created' = created PROVE PoolApart'
BY DEF PoolApart

\* The free list in a step of p: its locals stay idle.
LEMMA ProduceIdle ==
    ASSUME Types, FreeOK, NEW p \in Producers, Produce(p), ListKept, fl'[p] = fl[p] \/ (Idle(fl[p]) /\ Idle(fl'[p]))
    PROVE  FreeOK' /\ LooseSame
<1>1. FreeTypes /\ p \in Threads
  BY Members DEF Types
<1>2. \A u \in Threads : u # p => fl'[u] = fl[u]
  BY OnlyProducer
<1>3. CASE fl'[p] = fl[p]
  <2>1. \A u \in Threads : fl'[u] = fl[u]
    BY <1>2, <1>3
  <2> QED BY <1>1, <2>1, FreeStill DEF LooseSame
<1>4. CASE Idle(fl[p]) /\ Idle(fl'[p])
  BY <1>1, <1>2, <1>4, FreeIdle DEF LooseSame
<1> QED BY <1>3, <1>4

\* A quiet step of p does not move in the free list.
LEMMA QuietFree ==
    ASSUME Types, OwnLocals, NEW p \in Producers, QuietOwn(p) \/ Construct(p) \/ ClaimFromPool(p) \/ Create(p)
    PROVE  ListKept /\ (fl'[p] = fl[p] \/ (Idle(fl[p]) /\ Idle(fl'[p])))
<1>0. pc[p] \notin {"free_list", "give_back"} => Idle(fl[p])
  BY Members DEF OwnLocals, Idle
<1>a. fl[p].at = "empty" => Idle(fl[p])
  BY DEF Idle
<1> USE RecordsAre DEF ListKept
<1>1. CASE Enqueue(p)
  BY <1>1, EnqueueDoes
<1>2. CASE InsertBlockIndexEntry(p)
  BY <1>2, InsertBlockIndexEntryDoes
<1>3. CASE NewBlockIndex(p)
  BY <1>3, NewBlockIndexDoes
<1>4. CASE NewBlockIndexFails(p)
  BY <1>4, NewBlockIndexFailsDoes
<1>5. CASE Expose(p)
  BY <1>5, ExposeDoes
<1>6. CASE AskPool(p)
  BY <1>0, <1>6, AskPoolDoes
<1>7. CASE CreateFails(p)
  BY <1>a, <1>7, CreateFailsDoes
<1>8. CASE ConstructThrows(p)
  BY <1>8, ConstructThrowsDoes
<1>9. CASE Rewind(p)
  BY <1>9, RewindDoes
<1>10. CASE Publish(p)
  BY <1>10, PublishDoes
<1>11. CASE ClaimFromPool(p)
  BY <1>0, <1>11, ClaimFromPoolDoes
<1>12. CASE Construct(p)
  BY <1>12, ConstructDoes
<1>13. CASE Forget(p) /\ loc[p].block = None
  BY <1>13, ForgetDoes
<1>14. CASE Create(p)
  BY <1>a, <1>14, CreateDoes
<1> QED BY <1>1, <1>2, <1>3, <1>4, <1>5, <1>6, <1>7, <1>8, <1>9, <1>10, <1>11, <1>12, <1>13, <1>14 DEF QuietOwn

\* The actions of p that take no new block.
LEMMA QuietTaken ==
    ASSUME Types, PoolApart, NEW p \in Producers, Produce(p), ~Create(p),
           ~(ClaimFromPool(p) /\ initialBlockPoolIndex < Len(InitialBlocks))
    PROVE  Taken' = Taken /\ PoolApart'
<1>1. CASE ClaimFromPool(p)
  <2>1. /\ initialBlockPoolIndex >= Len(InitialBlocks) /\ initialBlockPoolIndex \in Nat
        /\ initialBlockPoolIndex' = initialBlockPoolIndex + 1 /\ created' = created
    BY <1>1, ClaimFromPoolDoes, QueueAssumption DEF Types, BlockTypes
  <2>2. \A j \in 1 .. Len(InitialBlocks) : j <= initialBlockPoolIndex /\ j <= initialBlockPoolIndex + 1
    BY <2>1, QueueAssumption
  <2> DEFINE S == {j \in 1 .. Len(InitialBlocks) : j <= initialBlockPoolIndex}
             S2 == {j \in 1 .. Len(InitialBlocks) : j <= initialBlockPoolIndex'}
  <2>3. S = S2
    BY <2>1, <2>2
  <2>4. Taken = created \union {InitialBlocks[i] : i \in S} /\ Taken' = created' \union {InitialBlocks[i] : i \in S2}
    BY DEF Taken
  <2> HIDE DEF S, S2
  <2>5. Taken' = Taken
    BY <2>1, <2>3, <2>4
  <2> QED BY <2>1, <2>5, PoolKept
<1>2. CASE ~ClaimFromPool(p)
  <2>1. TakenKept
    BY <1>2 DEF TakenKept, Produce, Enqueue, InsertBlockIndexEntry, NewBlockIndex, NewBlockIndexFails, AskPool, FromFreeList, CreateFails,
       Construct, ConstructThrows, Publish, Expose, Rewind, Forget, poolVars
  <2> QED BY SMTT(40), <2>1, TakenIs, PoolKept DEF TakenKept
<1> QED BY <1>1, <1>2

\* The step keeps the free list and the owners.
OwnStep == FreeOK' /\ OwnCore' /\ PoolApart'

\* ClaimFromPool: a block of the pool is taken and held.
LEMMA ClaimOwned ==
    ASSUME Types, FreeOK, OwnedOK, NEW p \in Producers, Indexed1(p), ClaimFromPool(p),
           initialBlockPoolIndex + 1 <= Len(InitialBlocks)
    PROVE  OwnStep
<1> DEFINE b0 == InitialBlocks[initialBlockPoolIndex + 1]
<1>1. /\ pc[p] = "claim" /\ pc'[p] = "construct" /\ loc'[p].block = b0 /\ fl'[p] = fl[p]
      /\ initialBlockPoolIndex' = initialBlockPoolIndex + 1
      /\ created' = created /\ tailIndex' = tailIndex /\ entry' = entry
  BY ClaimFromPoolDoes DEF Locals
<1>2. b0 \in Blocks /\ b0 \notin Taken /\ Taken' = Taken \union {b0}
  BY <1>1, ClaimTakes DEF OwnedOK
<1>3. Produce(p)
  BY DEF Produce
<1>4. New(p)
  BY <1>1, Starts DEF Inserting
<1> HIDE DEF b0
<1>5. \A b \in Blocks : HeldBy(p, b)' <=> HeldBy(p, b) \/ b = b0
  BY <1>1, <1>4 DEF HeldBy, New
<1>6. HeldAdds(p, b0) /\ PlacedSame
  BY <1>1, <1>3, <1>5, FromOne, EntriesSame
<1>7. ListKept /\ (fl'[p] = fl[p] \/ (Idle(fl[p]) /\ Idle(fl'[p])))
  BY QuietFree DEF OwnedOK
<1>8. FreeOK' /\ LooseSame
  BY <1>3, <1>7, ProduceIdle
<1>9. OwnCore'
  BY <1>2, <1>6, <1>8, OwnedTakes DEF OwnedOK
<1>10. PoolApart'
  BY <1>1, PoolKept DEF OwnedOK
<1> QED BY <1>8, <1>9, <1>10 DEF OwnStep

\* Create: a new block is taken and held.
LEMMA CreateOwned ==
    ASSUME Types, FreeOK, OwnedOK, NEW p \in Producers, Indexed1(p), Create(p)
    PROVE  OwnStep
<1>1. /\ pc[p] = "free_list" /\ pc'[p] = "construct"
      /\ initialBlockPoolIndex' = initialBlockPoolIndex
      /\ tailIndex' = tailIndex /\ entry' = entry
  BY CreateDoes
<1>2. PICK b0 \in Blocks \ (created \union Range(InitialBlocks)) :
        created' = created \union {b0} /\ loc'[p].block = b0
  BY CreateTakes DEF Locals
<1>3. b0 \in Blocks /\ b0 \notin Taken /\ Taken' = Taken \union {b0} /\ PoolApart'
  BY <1>1, <1>2, CreateIsNew DEF OwnedOK
<1>4. New(p) /\ Produce(p)
  BY <1>1, Starts DEF Inserting, Produce
<1>5. \A b \in Blocks : HeldBy(p, b)' <=> HeldBy(p, b) \/ b = b0
  BY <1>1, <1>2, <1>4 DEF HeldBy, New
<1>6. HeldAdds(p, b0) /\ PlacedSame
  BY <1>1, <1>4, <1>5, FromOne, EntriesSame
<1>7. ListKept /\ (fl'[p] = fl[p] \/ (Idle(fl[p]) /\ Idle(fl'[p])))
  BY QuietFree DEF OwnedOK
<1>8. FreeOK' /\ LooseSame
  BY <1>4, <1>7, ProduceIdle
<1>9. OwnCore'
  BY <1>3, <1>6, <1>8, OwnedTakes DEF OwnedOK
<1> QED BY <1>3, <1>8, <1>9 DEF OwnStep

\* FromFreeList: a block of the list is held.
LEMMA FromFreeListOwned ==
    ASSUME Types, FreeOK, OwnedOK, NEW p \in Producers, Indexed1(p), FromFreeList(p)
    PROVE  OwnStep
<1>1. /\ pc[p] = "free_list" /\ pc'[p] = "construct" /\ loc'[p].block = fl[p].node
      /\ fl[p].at = "got" /\ fl'[p] = Outside
      /\ initialBlockPoolIndex' = initialBlockPoolIndex /\ created' = created
      /\ tailIndex' = tailIndex /\ entry' = entry /\ ListKept
  BY FromFreeListDoes DEF Locals, ListKept
<1>2. p \in Threads /\ FreeTypes /\ FreeRefs
  BY Members DEF Types, FreeOK
<1>3. fl[p].node \in Blocks
  BY <1>1, <1>2, WorksIs DEF Working
<1> PICK b0 \in Blocks : b0 = fl[p].node
  BY <1>3
<1>4. New(p) /\ Produce(p)
  BY <1>1, Starts DEF Inserting, Produce
<1>5. \A b \in Blocks : HeldBy(p, b)' <=> HeldBy(p, b) \/ b = b0
  BY <1>1, <1>4 DEF HeldBy, New
<1>6. HeldAdds(p, b0) /\ PlacedSame
  BY <1>1, <1>4, <1>5, FromOne, EntriesSame
<1>7. \A u \in Threads : u # p => fl'[u] = fl[u]
  BY <1>4, OnlyProducer
<1>8. Idle(fl'[p])
  BY <1>1, RecordsAre
<1>9. FreeOK' /\ \A b \in Blocks : LooseB(b)' <=> LooseB(b) \/ b = b0
  BY <1>1, <1>2, <1>7, <1>8, FreeTaken
<1>10. ~LooseB(b0)
  BY <1>1, <1>2, Unmoved
<1>11. Taken' = Taken /\ PoolApart'
  BY <1>1, TakenIs, PoolKept DEF TakenKept, OwnedOK
<1>12. OwnCore'
  BY <1>6, <1>9, <1>10, <1>11, OwnedTakes DEF OwnedOK
<1> QED BY <1>9, <1>11, <1>12 DEF OwnStep

\* Construct: the block that p holds is put into its entry.
LEMMA ConstructOwned ==
    ASSUME Types, FreeOK, OwnedOK, NEW p \in Producers, Indexed1(p), Construct(p), New(p)
    PROVE  OwnStep
<1>1. /\ pc[p] = "construct" /\ pc'[p] = "publish" /\ loc'[p] = loc[p] /\ tailIndex' = tailIndex
      /\ initialBlockPoolIndex' = initialBlockPoolIndex /\ created' = created
      /\ SetValue(p, loc[p].at, loc[p].block)
  BY ConstructDoes
<1>2. loc[p].block \in Blocks /\ Produce(p)
  BY <1>1 DEF OwnedOK, OwnLocals, Produce
<1> PICK b0 \in Blocks : b0 = loc[p].block
  BY <1>2
<1>3. loc[p].at \in 1 .. Len(entry[p]) /\ entry[p][loc[p].at].value = None
  BY <1>1, ConstructPlace
<1>4. loc[p].at \in Nat
  BY <1>3
<1> PICK e0 \in Nat : e0 = loc[p].at
  BY <1>4
<1>5. b0 \in MaybeBlock
  BY DEF MaybeBlock
<1>6. \A g \in Nat : \A b \in Blocks :
         Placed(p, g, b)' <=> IF g = e0 THEN g \in 1 .. Len(entry[p]) /\ b0 = b
                              ELSE Placed(p, g, b)
  BY <1>1, <1>5, ValuePlaced
<1>7. \A b \in Blocks : ~Placed(p, e0, b)
  BY <1>3, Somes DEF Placed
<1>8. \A e \in Nat : \A b \in Blocks : Placed(p, e, b)' <=> Placed(p, e, b) \/ (e = e0 /\ b = b0)
  BY <1>3, <1>6, <1>7
<1>9. \A b \in Blocks : HeldBy(p, b)' <=> HeldBy(p, b) /\ b # b0
  BY <1>1 DEF HeldBy
<1>10. PlacedAdds(p, e0, b0) /\ HeldDrops(p, b0)
  BY <1>2, <1>8, <1>9, FromOne
<1>11. HeldBy(p, b0)
  BY <1>1 DEF HeldBy
<1>12. ListKept /\ (fl'[p] = fl[p] \/ (Idle(fl[p]) /\ Idle(fl'[p])))
  BY QuietFree DEF OwnedOK
<1>13. FreeOK' /\ LooseSame
  BY <1>2, <1>12, ProduceIdle
<1>14. Taken' = Taken /\ PoolApart'
  BY <1>1, TakenIs, PoolKept DEF TakenKept, OwnedOK
<1>15. OwnCore'
  BY <1>10, <1>11, <1>13, <1>14, OwnedPuts DEF OwnedOK
<1> QED BY <1>13, <1>14, <1>15 DEF OwnStep

\* Forget: the block that p holds is given to the free list.
LEMMA ForgetOwned ==
    ASSUME Types, FreeOK, OwnedOK, NEW p \in Producers, Indexed1(p), Forget(p), loc[p].block # None
    PROVE  OwnStep
<1>1. /\ pc[p] = "forget" /\ pc'[p] = "give_back" /\ fl'[p] = Adding(loc[p].block) /\ tailIndex' = tailIndex
      /\ initialBlockPoolIndex' = initialBlockPoolIndex /\ created' = created /\ ListKept
  BY ForgetDoes DEF ListKept
<1>2. loc[p].block \in MaybeBlock /\ p \in Threads /\ FreeTypes
  BY Members DEF Types, LocTypes, WfLoc
<1>3. loc[p].block \in Blocks /\ Produce(p) /\ New(p)
  BY <1>1, <1>2, ForgetPlace DEF MaybeBlock, Produce
<1> PICK b0 \in Blocks : b0 = loc[p].block
  BY <1>3
<1>4. PlacedKept(p)
  BY <1>1, <1>3, ProducePlaced, ConstructDoes
<1>5. \A b \in Blocks : HeldBy(p, b)' <=> HeldBy(p, b) /\ b # b0
  BY <1>1 DEF HeldBy
<1>6. PlacedSame /\ HeldDrops(p, b0)
  BY <1>3, <1>4, <1>5, FromOne
<1>7. HeldBy(p, b0)
  BY <1>1, <1>3 DEF HeldBy
<1>8. LooseB(b0)
  BY <1>7 DEF OwnedOK, OwnCore, UsedIs, HeldB
<1>9. Idle(fl[p])
  BY <1>1, <1>2 DEF OwnedOK, OwnLocals, Idle
<1>10. fl'[p].at = "add" /\ fl'[p].node = b0
  BY <1>1, RecordsAre DEF MaybeBlock
<1>11. \A u \in Threads : u # p => fl'[u] = fl[u]
  BY <1>3, OnlyProducer
<1>12. FreeOK' /\ \A b \in Blocks : LooseB(b)' <=> LooseB(b) /\ b # b0
  BY <1>1, <1>2, <1>8, <1>9, <1>10, <1>11, FreeGiven
<1>13. Taken' = Taken /\ PoolApart'
  BY <1>1, TakenIs, PoolKept DEF TakenKept, OwnedOK
<1>14. OwnCore'
  BY <1>6, <1>7, <1>12, <1>13, OwnedGives DEF OwnedOK
<1> QED BY <1>12, <1>13, <1>14 DEF OwnStep

\* The steps of p that move no block.
LEMMA QuietOwned ==
    ASSUME Types, FreeOK, OwnedOK, NEW p \in Producers, Indexed1(p), QuietOwn(p)
    PROVE  OwnStep
<1>1. Produce(p)
  BY DEF QuietOwn, Produce
<1>2. HeldKept(p)
  BY QuietHeld DEF OwnedOK
<1>3. PlacedKept(p)
  <2>1. ~(Construct(p) /\ New(p))
    <3>1. SUFFICES ASSUME Construct(p), New(p) PROVE FALSE
      OBVIOUS
    <3>2. pc[p] = "construct" /\ pc'[p] = "publish"
      BY <3>1, ConstructDoes
    <3> QED BY <3>1, <3>2, EnqueueDoes, InsertBlockIndexEntryDoes, NewBlockIndexDoes, NewBlockIndexFailsDoes, ExposeDoes,
       AskPoolDoes, CreateFailsDoes, ConstructThrowsDoes, RewindDoes, PublishDoes, ClaimFromPoolDoes, ForgetDoes
       DEF QuietOwn
  <2> QED BY <1>1, <2>1, ProducePlaced
<1>4. PlacedSame /\ HeldSame
  BY <1>1, <1>2, <1>3, FromOne
<1>5. ListKept /\ (fl'[p] = fl[p] \/ (Idle(fl[p]) /\ Idle(fl'[p])))
  BY QuietFree DEF OwnedOK
<1>6. FreeOK' /\ LooseSame
  BY <1>1, <1>5, ProduceIdle
<1>7. ~Create(p) /\ ~(ClaimFromPool(p) /\ initialBlockPoolIndex < Len(InitialBlocks))
  <2>1. SUFFICES ASSUME Create(p) \/ (ClaimFromPool(p) /\ initialBlockPoolIndex < Len(InitialBlocks)) PROVE FALSE
    OBVIOUS
  <2>2. initialBlockPoolIndex \in Nat /\ Len(InitialBlocks) \in Nat
    BY QueueAssumption DEF Types, BlockTypes
  <2>3. CASE Create(p)
    BY <2>3, CreateDoes, EnqueueDoes, InsertBlockIndexEntryDoes, NewBlockIndexDoes, NewBlockIndexFailsDoes, ExposeDoes,
       AskPoolDoes, CreateFailsDoes, ConstructThrowsDoes, RewindDoes, PublishDoes, ClaimFromPoolDoes, ForgetDoes, ConstructDoes
       DEF QuietOwn
  <2>4. CASE ClaimFromPool(p) /\ initialBlockPoolIndex < Len(InitialBlocks)
    BY <2>2, <2>4, EnqueueDoes, InsertBlockIndexEntryDoes, NewBlockIndexDoes, NewBlockIndexFailsDoes, ExposeDoes,
       AskPoolDoes, CreateFailsDoes, ConstructThrowsDoes, RewindDoes, PublishDoes, ClaimFromPoolDoes, ForgetDoes, ConstructDoes
       DEF QuietOwn
  <2> QED BY <2>1, <2>3, <2>4
<1>8. Taken' = Taken /\ PoolApart'
  BY <1>1, <1>7, QuietTaken DEF OwnedOK
<1>9. OwnCore'
  BY <1>4, <1>6, <1>8, OwnedSame DEF OwnedOK
<1> QED BY <1>6, <1>8, <1>9 DEF OwnStep

\* Every step of p keeps one owner for each block.
LEMMA ProduceOwned ==
    ASSUME Types, FreeOK, OwnedOK, NEW p \in Producers, Indexed1(p), Produce(p)
    PROVE  OwnStep
<1>1. initialBlockPoolIndex \in Nat /\ Len(InitialBlocks) \in Nat
  BY QueueAssumption DEF Types, BlockTypes
<1>2. CASE ClaimFromPool(p)
  <2>1. CASE initialBlockPoolIndex + 1 <= Len(InitialBlocks)
    BY <1>2, <2>1, ClaimOwned
  <2>2. CASE ~(initialBlockPoolIndex + 1 <= Len(InitialBlocks))
    <3>1. QuietOwn(p)
      BY <1>1, <1>2, <2>2 DEF QuietOwn
    <3> QED BY <3>1, QuietOwned
  <2> QED BY <2>1, <2>2
<1>3. CASE Create(p) \/ FromFreeList(p)
  BY <1>3, CreateOwned, FromFreeListOwned
<1>4. CASE Construct(p)
  BY <1>4, ConstructOwned, QuietOwned DEF QuietOwn
<1>5. CASE Forget(p)
  BY <1>5, ForgetOwned, QuietOwned DEF QuietOwn
<1>6. CASE QuietOwn(p)
  BY <1>6, QuietOwned
<1> QED BY <1>2, <1>3, <1>4, <1>5, <1>6 DEF Produce, QuietOwn

\* The consumers leave the blocks that producers hold.
LEMMA ConsumeHeld ==
    ASSUME Types, NEW c \in Consumers, Consume(c)
    PROVE  HeldSame
<1>1. ASSUME NEW q \in Producers PROVE HeldKept(q)
  BY ConsumeIndex, HeldIs
<1> QED BY <1>1 DEF HeldKept, HeldSame

\* Release: the block leaves its entry for the free list.
LEMMA ReleaseOwned ==
    ASSUME Types, FreeOK, OwnedOK, NEW c \in Consumers, Points(c), Release(c)
    PROVE  OwnStep
<1>1. /\ pc[c] = "release" /\ pc'[c] = "give_back" /\ fl'[c] = Adding(loc[c].block)
      /\ initialBlockPoolIndex' = initialBlockPoolIndex /\ created' = created /\ ListKept
      /\ SetValue(loc[c].from, loc[c].at, None)
  BY ReleaseDoes DEF ListKept
<1>2. loc[c].block \in Blocks /\ Placed(loc[c].from, loc[c].at, loc[c].block)
  BY <1>1 DEF Points
<1>3. c \in Threads /\ FreeTypes /\ loc[c].from \in Producers /\ Consume(c) /\ None \in MaybeBlock
  BY <1>1, Members2 DEF Types, LocTypes, Consume, MaybeBlock
<1>4. loc[c].at \in Nat
  BY <1>2 DEF Placed
<1> PICK b0 \in Blocks : b0 = loc[c].block
  BY <1>2
<1> PICK p0 \in Producers : p0 = loc[c].from
  BY <1>3
<1> PICK e0 \in Nat : e0 = loc[c].at
  BY <1>4
<1>5. \A q \in Producers : \A g \in Nat : \A b \in Blocks :
        Placed(q, g, b)' <=> IF q = p0 /\ g = e0 THEN g \in 1 .. Len(entry[q]) /\ None = b ELSE Placed(q, g, b)
  BY <1>1, <1>3, ValuePlaced
<1>6. \A b \in Blocks : Placed(p0, e0, b) <=> b = b0
  BY <1>2 DEF Placed
<1>7. PlacedDrops(p0, e0, b0)
  BY <1>5, <1>6, Somes DEF PlacedDrops
<1>8. Placed(p0, e0, b0) /\ HeldSame
  BY <1>2, <1>3, ConsumeHeld
<1>9. LooseB(b0)
  BY <1>8 DEF OwnedOK, OwnCore, UsedIs, PlacedB
<1>10. Idle(fl[c])
  BY <1>1, <1>3 DEF OwnedOK, OwnLocals, Idle
<1>11. fl'[c].at = "add" /\ fl'[c].node = b0
  BY <1>1, RecordsAre DEF MaybeBlock
<1>12. \A u \in Threads : u # c => fl'[u] = fl[u]
  BY <1>3, OnlyConsumer
<1>13. FreeOK' /\ \A b \in Blocks : LooseB(b)' <=> LooseB(b) /\ b # b0
  BY <1>1, <1>3, <1>9, <1>10, <1>11, <1>12, FreeGiven
<1>14. Taken' = Taken /\ PoolApart'
  BY <1>1, TakenIs, PoolKept DEF TakenKept, OwnedOK
<1>15. OwnCore'
  BY <1>7, <1>8, <1>13, <1>14, OwnedGives DEF OwnedOK
<1> QED BY <1>13, <1>14, <1>15 DEF OwnStep

\* A step that moves no block.
LEMMA StillOwned ==
    ASSUME Types, FreeOK, OwnedOK, entry' = entry, TakenKept, HeldSame,
           \/ ListKept /\ \A u \in Threads : fl'[u] = fl[u]
           \/ \E t \in Threads : InFreeList(t)
           \/ \E t \in Threads : ListKept /\ Idle(fl[t]) /\ Idle(fl'[t]) /\ \A u \in Threads : u # t => fl'[u] = fl[u]
    PROVE  OwnStep
<1>1. FreeTypes
  BY DEF Types
<1>2. FreeOK' /\ LooseSame
  <2>1. CASE ListKept /\ \A u \in Threads : fl'[u] = fl[u]
    BY <1>1, <2>1, FreeStill DEF LooseSame
  <2>2. ASSUME NEW t \in Threads, InFreeList(t) PROVE FreeOK' /\ LooseSame
    <3>1. FreeStep(t)
      BY <2>2 DEF InFreeList
    <3> QED BY <1>1, <3>1, FreeStepOK DEF LooseSame
  <2>3. ASSUME NEW t \in Threads, ListKept, Idle(fl[t]), Idle(fl'[t]), \A u \in Threads : u # t => fl'[u] = fl[u]
        PROVE  FreeOK' /\ LooseSame
    BY <2>3, FreeIdle DEF LooseSame
  <2> QED BY <2>1, <2>2, <2>3
<1>3. PlacedSame
  <2>1. \A q \in Producers : PlacedKept(q)
    BY EntriesSame
  <2> QED BY <2>1 DEF PlacedKept, PlacedSame
<1>4. Taken' = Taken /\ PoolApart'
  BY TakenIs, PoolKept DEF TakenKept, OwnedOK
<1>5. OwnCore'
  BY <1>2, <1>3, <1>4, OwnedSame DEF OwnedOK
<1> QED BY <1>2, <1>4, <1>5 DEF OwnStep

\* Every step keeps one owner for each block.
LEMMA OwnCoreStep ==
    ASSUME Types, FreeOK, OwnedOK, \A p \in Producers : Indexed1(p), \A c \in Consumers : Points(c), [Next]_vars
    PROVE  OwnStep
<1>1. CASE UNCHANGED vars
  <2>1. /\ entry' = entry /\ fl' = fl /\ ListKept /\ TakenKept /\ pc' = pc /\ loc' = loc /\ tailIndex' = tailIndex
    BY <1>1 DEF vars, indexVars, freeVars, poolVars, countVars, ListKept, TakenKept
  <2>2. HeldSame
    BY <2>1, HeldIs DEF HeldSame, HeldKept
  <2> QED BY <2>1, <2>2, StillOwned
<1>2. ASSUME NEW p \in Producers, Produce(p) PROVE OwnStep
  BY <1>2, ProduceOwned
<1>3. ASSUME NEW c \in Consumers, Consume(c) PROVE OwnStep
  <2>1. CASE Release(c)
    BY <2>1, ReleaseOwned
  <2>2. CASE ~Release(c)
    <3>1. freeVars' = freeVars /\ entry' = entry /\ poolVars' = poolVars
      BY Zenon, <1>3, <2>2 DEF Consume, Dequeue, SeemsEmpty, SeemsNonEmpty,
       AddOptimistic, Recheck, AddOvercommit, ClaimHead, LoadBlockIndex, MoveElement, SetEmpty, indexVars
    <3>2. ListKept /\ TakenKept /\ fl' = fl
      BY <3>1 DEF freeVars, poolVars, ListKept, TakenKept
    <3>3. HeldSame
      BY <1>3, ConsumeHeld
    <3> QED BY <3>1, <3>2, <3>3, StillOwned
  <2> QED BY <2>1, <2>2
<1>4. ASSUME NEW t \in Threads, GivenBack(t) PROVE OwnStep
  <2>1. /\ fl[t].at = "added" /\ fl'[t] = Outside /\ pc[t] = "give_back" /\ pc'[t] = "idle"
        /\ entry' = entry /\ ListKept /\ TakenKept /\ tailIndex' = tailIndex
        /\ \A u \in Threads : u # t => pc'[u] = pc[u] /\ loc'[u] = loc[u] /\ fl'[u] = fl[u]
    BY <1>4, GivenBackDoes DEF ListKept, TakenKept
  <2>2. Idle(fl[t]) /\ Idle(fl'[t])
    BY <2>1, RecordsAre DEF Idle
  <2>3. \A q \in Producers : HeldKept(q)
    <3>1. ASSUME NEW q \in Producers, q # t PROVE HeldKept(q)
      BY <2>1, <3>1, Members, HeldIs
    <3>2. ASSUME t \in Producers PROVE HeldKept(t)
      BY <2>1 DEF HeldKept, HeldBy
    <3> QED BY <3>1, <3>2
  <2>4. HeldSame
    BY <2>3 DEF HeldKept, HeldSame
  <2> QED BY <2>1, <2>2, <2>4, StillOwned
<1>5. ASSUME NEW t \in Threads, InFreeList(t) PROVE OwnStep
  <2>1. entry' = entry /\ TakenKept /\ pc' = pc /\ loc' = loc /\ tailIndex' = tailIndex
    BY <1>5 DEF InFreeList, indexVars, poolVars, countVars, TakenKept
  <2>2. HeldSame
    BY <2>1, HeldIs DEF HeldSame, HeldKept
  <2> QED BY <1>5, <2>1, <2>2, StillOwned
<1> QED BY <1>1, <1>2, <1>3, <1>4, <1>5 DEF Next

\* OwnLocals of one thread.
LocalOK(t) ==
    /\ pc[t] \notin {"free_list", "give_back"} => fl[t].at = "out"
    /\ t \in Producers /\ pc[t] \in NoBlockYet => loc[t].block = None
    /\ t \in Producers /\ pc[t] = "construct" /\ New(t) => loc[t].block \in Blocks

\* The locals that tell the owner, thread by thread.
LEMMA OwnLocalsAre == OwnLocals <=> \A t \in Threads : LocalOK(t)
<1>1. OwnLocals => \A t \in Threads : LocalOK(t)
  BY DEF OwnLocals, LocalOK
<1>2. (\A t \in Threads : LocalOK(t)) => OwnLocals
  <2>1. ASSUME \A t \in Threads : LocalOK(t), NEW p \in Producers
        PROVE  /\ pc[p] \in NoBlockYet => loc[p].block = None
               /\ pc[p] = "construct" /\ New(p) => loc[p].block \in Blocks
    BY <2>1, Members DEF LocalOK
  <2>2. ASSUME \A t \in Threads : LocalOK(t), NEW t \in Threads
        PROVE  pc[t] \notin {"free_list", "give_back"} => fl[t].at = "out"
    BY <2>2 DEF LocalOK
  <2> QED BY <2>1, <2>2 DEF OwnLocals
<1> QED BY <1>1, <1>2

\* The same after a step.
LEMMA OwnLocalsNow ==
    ASSUME \A t \in Threads : LocalOK(t)'
    PROVE  OwnLocals'
<1>1. ASSUME NEW p \in Producers
      PROVE  /\ pc'[p] \in NoBlockYet => loc'[p].block = None
             /\ pc'[p] = "construct" /\ New(p)' => loc'[p].block \in Blocks
  BY Members DEF LocalOK
<1>2. ASSUME NEW t \in Threads
      PROVE  pc'[t] \notin {"free_list", "give_back"} => fl'[t].at = "out"
  BY DEF LocalOK
<1> QED BY <1>1, <1>2 DEF OwnLocals

\* A thread that stays where it is.
LEMMA LocalSame ==
    ASSUME NEW t, LocalOK(t), pc'[t] = pc[t], loc'[t] = loc[t], fl'[t] = fl[t], tailIndex'[t] = tailIndex[t]
    PROVE  LocalOK(t)'
BY DEF LocalOK, New

\* A step of a producer keeps its locals.
LEMMA LocalProduce ==
    ASSUME Types, FreeOK, OwnLocals, NEW p \in Producers, Indexed1(p), Produce(p)
    PROVE  LocalOK(p)'
<1>0. p \in Threads /\ LocalOK(p) /\ loc[p].block \in MaybeBlock /\ FreeRefs
  BY OwnLocalsAre, Members DEF Types, LocTypes, WfLoc, FreeOK
<1> USE <1>0 DEF LocalOK, New, NoBlockYet
<1>1. CASE Enqueue(p)
  <2>1. Outside.at = "out"
    BY DEF Outside
  <2> QED BY <1>1, EnqueueDoes
<1>2. CASE InsertBlockIndexEntry(p)
  <2>1. pc[p] \in {"insert", "grown"} /\ pc'[p] \in {"expose", "grow"} /\ loc'[p].block = loc[p].block /\ fl'[p] = fl[p]
    BY <1>2, InsertBlockIndexEntryDoes DEF Locals
  <2> QED BY <2>1
<1>3. CASE NewBlockIndex(p)
  BY <1>3, NewBlockIndexDoes
<1>4. CASE NewBlockIndexFails(p)
  BY <1>4, NewBlockIndexFailsDoes
<1>5. CASE Expose(p)
  BY <1>5, ExposeDoes
<1>6. CASE AskPool(p)
  BY <1>6, AskPoolDoes
<1>7. CASE CreateFails(p)
  <2>1. fl'[p].at = "out" /\ pc'[p] = "rewind"
    BY <1>7, CreateFailsDoes DEF Outside
  <2> QED BY <2>1
<1>8. CASE ConstructThrows(p)
  BY <1>8, ConstructThrowsDoes, NoneSet DEF Locals
<1>9. CASE Rewind(p)
  BY <1>9, RewindDoes
<1>10. CASE Publish(p)
  BY <1>10, PublishDoes, NoneSet DEF Locals
<1>11. CASE ClaimFromPool(p)
  <2>1. CASE initialBlockPoolIndex + 1 <= Len(InitialBlocks)
    <3>1. InitialBlocks[initialBlockPoolIndex + 1] \in Blocks
      BY <2>1, Pool DEF Types, BlockTypes
    <3>2. pc[p] = "claim" /\ pc'[p] = "construct" /\ fl'[p] = fl[p] /\ loc'[p].block \in Blocks
      BY <1>11, <2>1, <3>1, ClaimFromPoolDoes DEF Locals
    <3> QED BY <3>2
  <2>2. CASE ~(initialBlockPoolIndex + 1 <= Len(InitialBlocks))
    BY <1>11, <2>2, ClaimFromPoolDoes
  <2> QED BY <2>1, <2>2
<1>12. CASE Construct(p)
  BY <1>12, ConstructDoes
<1>13. CASE Forget(p)
  BY <1>13, ForgetDoes, NoneSet DEF Locals
<1>14. CASE Create(p)
  <2>1. PICK b \in Blocks : loc'[p].block = b
    BY <1>14, CreateTakes DEF Locals
  <2>2. fl'[p].at = "out" /\ pc'[p] = "construct"
    BY <1>14, CreateDoes DEF Outside
  <2> QED BY <2>1, <2>2
<1>15. CASE FromFreeList(p)
  <2>1. fl[p].at = "got" /\ fl'[p].at = "out" /\ pc'[p] = "construct" /\ loc'[p].block = fl[p].node
    BY <1>15, FromFreeListDoes DEF Outside, Locals
  <2>2. fl[p].node \in Blocks
    BY <2>1, WorksIs DEF Working
  <2> QED BY <2>1, <2>2
<1> QED BY <1>1, <1>2, <1>3, <1>4, <1>5, <1>6, <1>7, <1>8, <1>9, <1>10, <1>11, <1>12, <1>13, <1>14, <1>15 DEF Produce

\* A step of a consumer keeps its locals.
LEMMA LocalConsume ==
    ASSUME Types, NEW c \in Consumers, Consume(c), LocalOK(c)
    PROVE  LocalOK(c)'
<1>1. c \notin Producers /\ c \in Threads
  BY Members2
<1>2. pc[c] \notin {"free_list", "give_back"} /\ (fl'[c] = fl[c] \/ pc'[c] = "give_back")
  <2>1. CASE \E p \in Producers : Dequeue(c, p)
    BY <2>1, DequeueDoes
  <2> QED BY <2>1, SeemsEmptyDoes, SeemsNonEmptyDoes, AddOptimisticDoes, RecheckDoes, AddOvercommitDoes, ClaimHeadDoes,
             LoadBlockIndexDoes, MoveElementDoes, SetEmptyDoes, ReleaseDoes DEF Consume
<1> QED BY <1>1, <1>2 DEF LocalOK

\* Every step keeps the locals that tell the owner.
LEMMA LocalStep ==
    ASSUME Types, FreeOK, OwnLocals, \A p \in Producers : Indexed1(p), [Next]_vars
    PROVE  OwnLocals'
<1>0. \A t \in Threads : LocalOK(t)
  BY OwnLocalsAre
<1>1. CASE UNCHANGED vars
  <2>1. pc' = pc /\ loc' = loc /\ fl' = fl /\ tailIndex' = tailIndex
    BY <1>1 DEF vars, freeVars, countVars
  <2>2. \A t \in Threads : LocalOK(t)'
    BY <1>0, <2>1, LocalSame
  <2> QED BY <2>2, OwnLocalsNow
<1>2. ASSUME NEW p \in Producers, Produce(p) PROVE \A t \in Threads : LocalOK(t)'
  <2>1. LocalOK(p)'
    BY <1>2, LocalProduce
  <2>2. ASSUME NEW t \in Threads, t # p PROVE LocalOK(t)'
    <3>1. pc'[t] = pc[t] /\ loc'[t] = loc[t] /\ fl'[t] = fl[t]
      BY <1>2, <2>2, OnlyProducer
    <3>2. t \in Producers => tailIndex'[t] = tailIndex[t]
      BY <1>2, <2>2, OthersIndex
    <3> QED BY <1>0, <3>1, <3>2 DEF LocalOK, New
  <2> QED BY <2>1, <2>2
<1>3. ASSUME NEW c \in Consumers, Consume(c) PROVE \A t \in Threads : LocalOK(t)'
  <2>1. LocalOK(c)'
    BY <1>0, <1>3, Members2, LocalConsume
  <2>2. ASSUME NEW t \in Threads, t # c PROVE LocalOK(t)'
    <3>1. pc'[t] = pc[t] /\ loc'[t] = loc[t] /\ fl'[t] = fl[t] /\ tailIndex' = tailIndex
      BY <1>3, <2>2, OnlyConsumer, ConsumeIndex
    <3> QED BY <1>0, <3>1, LocalSame
  <2> QED BY <2>1, <2>2
<1>4. ASSUME NEW u \in Threads, GivenBack(u) PROVE \A t \in Threads : LocalOK(t)'
  <2>1. pc'[u] = "idle" /\ loc'[u].block = None /\ fl'[u].at = "out" /\ tailIndex' = tailIndex
    BY <1>4, GivenBackDoes, NoneSet DEF Locals, Outside
  <2>2. LocalOK(u)'
    BY <2>1 DEF LocalOK
  <2>3. ASSUME NEW t \in Threads, t # u PROVE LocalOK(t)'
    BY <1>0, <1>4, <2>1, <2>3, GivenBackDoes, LocalSame
  <2> QED BY <2>2, <2>3
<1>5. ASSUME NEW u \in Threads, InFreeList(u) PROVE \A t \in Threads : LocalOK(t)'
  <2>1. pc' = pc /\ loc' = loc /\ tailIndex' = tailIndex /\ \A t \in Threads : t # u => fl'[t] = fl[t]
    BY <1>5, OnlyInFreeList DEF InFreeList, countVars
  <2>2. fl[u].at # "out"
    BY <1>5 DEF InFreeList, FreeStep, Add, PushLoad, PushCount, Push, Repush, GetLoad, GetRef, GetNext, Pop, Got, Unref
  <2>3. LocalOK(u)'
    BY <1>0, <2>1, <2>2 DEF LocalOK, New
  <2>4. ASSUME NEW t \in Threads, t # u PROVE LocalOK(t)'
    BY <1>0, <2>1, <2>4, LocalSame
  <2> QED BY <2>3, <2>4
<1>6. CASE \A t \in Threads : LocalOK(t)'
  BY <1>6, OwnLocalsNow
<1> QED BY <1>1, <1>2, <1>3, <1>4, <1>5, <1>6 DEF Next

-----------------------------------------------------------------------------
(***************************************************************************)
(* Indices of elements and bases of blocks.                                *)
(***************************************************************************)

\* k is the base of a block.
Multiple(k) == \E q \in Int : k = q * BLOCK_SIZE

\* Two bases within a block are the same.
LEMMA Near ==
    ASSUME NEW a \in Int, NEW b \in Int, NEW n \in Int, Multiple(a), Multiple(b),
           a <= n, n < a + BLOCK_SIZE, b <= n, n < b + BLOCK_SIZE
    PROVE  a = b
<1>1. PICK q \in Int : a = q * BLOCK_SIZE
  BY DEF Multiple
<1>2. PICK r \in Int : b = r * BLOCK_SIZE
  BY DEF Multiple
<1>3. (n % BLOCK_SIZE = n - a) /\ (n % BLOCK_SIZE = n - b)
  <2>1. n - a \in 0 .. BLOCK_SIZE - 1 /\ n - b \in 0 .. BLOCK_SIZE - 1
    BY Size
  <2>2. (q * BLOCK_SIZE + (n - a)) % BLOCK_SIZE = n - a
    BY <2>1, Size, ModIs
  <2>3. (r * BLOCK_SIZE + (n - b)) % BLOCK_SIZE = n - b
    BY <2>1, Size, ModIs
  <2>4. q * BLOCK_SIZE + (n - a) = n /\ r * BLOCK_SIZE + (n - b) = n
    BY <1>1, <1>2
  <2> QED BY <2>2, <2>3, <2>4
<1> QED BY <1>3

\* The base of the block of n, and the place of n in it.
LEMMA BaseIs ==
    ASSUME NEW n \in Nat
    PROVE  /\ BlockBase(n) \in Nat /\ Multiple(BlockBase(n))
           /\ BlockBase(n) <= n /\ n < BlockBase(n) + BLOCK_SIZE
           /\ n % BLOCK_SIZE \in 0 .. BLOCK_SIZE - 1 /\ n % BLOCK_SIZE = n - BlockBase(n)
           /\ \A k \in Int : Multiple(k) /\ k <= n /\ n < k + BLOCK_SIZE => k = BlockBase(n)
<1>1. n % BLOCK_SIZE \in 0 .. BLOCK_SIZE - 1 /\ n \div BLOCK_SIZE \in Int
      /\ n = (n \div BLOCK_SIZE) * BLOCK_SIZE + (n % BLOCK_SIZE)
  BY Size
<1> DEFINE r == n % BLOCK_SIZE
           q == n \div BLOCK_SIZE
<1>2. BlockBase(n) = n - r
  BY DEF BlockBase
<1>3. r \in 0 .. BLOCK_SIZE - 1 /\ q \in Int /\ n = q * BLOCK_SIZE + r
  BY <1>1
<1> HIDE DEF r, q
<1>4. q * BLOCK_SIZE \in Int
  BY <1>3, Size
<1>5. BlockBase(n) = q * BLOCK_SIZE
  BY <1>2, <1>3, <1>4
<1>6. Multiple(BlockBase(n)) /\ BlockBase(n) \in Int
  BY <1>3, <1>4, <1>5 DEF Multiple
<1>7. q >= 0
  <2>1. SUFFICES ASSUME q <= -1 PROVE FALSE
    BY <1>3
  <2>2. q * BLOCK_SIZE <= -BLOCK_SIZE
    BY <1>3, <2>1, Size
  <2> QED BY <1>3, <1>4, <2>2, Size
<1>8. BlockBase(n) >= 0
  BY <1>3, <1>5, <1>7, Size
<1>9. BlockBase(n) \in Nat
  BY <1>6, <1>8
<1>10. BlockBase(n) <= n /\ n < BlockBase(n) + BLOCK_SIZE
  BY <1>2, <1>3, <1>9, Size
<1>11. \A k \in Int : Multiple(k) /\ k <= n /\ n < k + BLOCK_SIZE => k = BlockBase(n)
  BY <1>6, <1>10, Near
<1> QED BY <1>2, <1>3, <1>6, <1>9, <1>10, <1>11 DEF r

\* Multiples of BLOCK_SIZE are added.
LEMMA MultipleAdds ==
    ASSUME NEW k \in Int, Multiple(k), NEW n \in Int
    PROVE  Multiple(k + BLOCK_SIZE) /\ Multiple(k - BLOCK_SIZE * n)
<1>1. PICK q \in Int : k = q * BLOCK_SIZE
  BY DEF Multiple
<1>2. k + BLOCK_SIZE = (q + 1) * BLOCK_SIZE
  BY <1>1, Size
<1>3. k - BLOCK_SIZE * n = (q - n) * BLOCK_SIZE
  BY <1>1, Size
<1> QED BY <1>2, <1>3 DEF Multiple

\* The base of the next element.
LEMMA BaseNext ==
    ASSUME NEW n \in Nat
    PROVE  /\ n + 1 = BlockBase(n) + BLOCK_SIZE => BlockBase(n + 1) = n + 1
           /\ n + 1 # BlockBase(n) + BLOCK_SIZE => BlockBase(n + 1) = BlockBase(n)
<1>1. /\ BlockBase(n) \in Nat /\ Multiple(BlockBase(n))
      /\ BlockBase(n) <= n /\ n < BlockBase(n) + BLOCK_SIZE
  BY BaseIs
<1>2. \A k \in Int : Multiple(k) /\ k <= n + 1 /\ n + 1 < k + BLOCK_SIZE => k = BlockBase(n + 1)
  <2>1. n + 1 \in Nat
    OBVIOUS
  <2> QED BY <2>1, BaseIs
<1>3. 1 \in Int /\ Multiple(BlockBase(n) + BLOCK_SIZE) /\ BlockBase(n) + BLOCK_SIZE \in Int
  BY <1>1, Size, MultipleAdds
<1>4. CASE n + 1 = BlockBase(n) + BLOCK_SIZE
  <2>1. BlockBase(n) + BLOCK_SIZE = BlockBase(n + 1)
    BY <1>2, <1>3, <1>4, Size
  <2> QED BY <1>4, <2>1
<1>5. CASE n + 1 # BlockBase(n) + BLOCK_SIZE
  BY <1>1, <1>2, <1>5, Size
<1> QED BY <1>4, <1>5

\* The first element of a block.
LEMMA NewIs ==
    ASSUME NEW n \in Nat
    PROVE  n % BLOCK_SIZE = 0 <=> BlockBase(n) = n
<1> DEFINE r == n % BLOCK_SIZE
           k == BlockBase(n)
<1>1. k \in Nat /\ r = n - k
  BY BaseIs
<1> HIDE DEF r, k
<1>2. r = 0 <=> k = n
  BY <1>1
<1> QED BY <1>2 DEF r, k

-----------------------------------------------------------------------------
(***************************************************************************)
(* The blocks of a stream: which entry has the block of an element.        *)
(***************************************************************************)

\* No block in use changes its entry or its key.
StoresSame == \A p \in Producers : \A e \in Nat : \A b \in Blocks : \A k \in Nat :
                Stores(p, e, k, b)' <=> Stores(p, e, k, b)

\* The end of the keys is the base of a block.
LEMMA EndMultiple ==
    ASSUME NEW T \in Nat, NEW l
    PROVE  Multiple(REnd(l, T)) /\ REnd(l, T) \in Nat
<1>1. BlockBase(T) \in Nat /\ Multiple(BlockBase(T))
  BY BaseIs
<1>2. RNew(T) => BlockBase(T) = T
  BY NewIs DEF RNew
<1>3. 1 \in Int /\ Multiple(BlockBase(T) + BLOCK_SIZE)
  BY <1>1, MultipleAdds
<1>4. REnd(l, T) = BlockBase(T) \/ REnd(l, T) = BlockBase(T) + BLOCK_SIZE
  BY <1>2, Size DEF REnd
<1> QED BY <1>1, <1>3, <1>4, EndIs

\* Slots of one age are the same.
LEMMA AgeOne ==
    ASSUME NEW cap \in Nat, cap > 1, NEW tail \in 0 .. cap - 1, NEW s \in 0 .. cap - 1, NEW z \in 0 .. cap - 1,
           RAge(cap, tail, s) = RAge(cap, tail, z)
    PROVE  s = z
BY DEF RAge

\* A slot with a block has the key that its age says, below the end.
LEMMA RingLive ==
    ASSUME NEW l, NEW T, NEW at, NEW cap, NEW tail, NEW idx, NEW K, NEW V, RingTypes(T, cap, tail, K),
           Ring(l, T, at, cap, tail, idx, K, V), NEW s \in 0 .. cap - 1, V[s] # None
    PROVE  /\ Used(K[s]) /\ RExact(cap, tail, K, REnd(l, T), s)
           /\ K[s] \in Nat /\ Multiple(K[s]) /\ K[s] + BLOCK_SIZE <= Reach(l, T)
<1> DEFINE end == REnd(l, T)
           a == RAge(cap, tail, s)
<1>1. T \in Nat /\ cap \in Nat /\ cap > 1 /\ tail \in 0 .. cap - 1 /\ K[s] \in Nat
  BY DEF RingTypes
<1>2. a \in 0 .. cap - 1 /\ (a = 0 <=> s = tail) /\ a <= a
  BY <1>1, NextAge
<1>3. Used(K[s])
  BY <1>2 DEF Ring, Filled1
<1>4. RExact(cap, tail, K, end, s)
  BY <1>3 DEF Ring, Keyed
<1>5. K[s] = end - BLOCK_SIZE * (a + 1)
  BY <1>4 DEF RExact
<1>6. end \in Nat /\ Multiple(end) /\ a + 1 \in Int
  BY <1>1, <1>2, EndMultiple
<1>7. Multiple(K[s])
  BY <1>5, <1>6, MultipleAdds
<1>8. RExposed(l, T) /\ l # "publish" => a # 0
  BY <1>2 DEF Ring, Shown
<1> HIDE DEF end, a
<1>9. /\ BLOCK_SIZE * (a + 1) >= BLOCK_SIZE
      /\ a # 0 => BLOCK_SIZE * (a + 1) >= BLOCK_SIZE + BLOCK_SIZE
      /\ BLOCK_SIZE * (a + 1) \in Int
  <2>1. BLOCK_SIZE * a \in Int /\ BLOCK_SIZE * a >= 0
    BY <1>2, Size
  <2>2. a # 0 => BLOCK_SIZE * a >= BLOCK_SIZE
    <3>1. SUFFICES ASSUME a # 0 PROVE BLOCK_SIZE * a >= BLOCK_SIZE
      OBVIOUS
    <3>2. PICK d \in Nat : a = d + 1
      <4>1. a - 1 \in Nat /\ a = (a - 1) + 1
        BY <1>2, <3>1
      <4> QED BY <4>1
    <3>3. BLOCK_SIZE * (d + 1) = BLOCK_SIZE * d + BLOCK_SIZE /\ BLOCK_SIZE * d \in Int /\ BLOCK_SIZE * d >= 0
      BY <3>2, Size
    <3> QED BY <3>2, <3>3, Size
  <2>3. BLOCK_SIZE * (a + 1) = BLOCK_SIZE * a + BLOCK_SIZE
    BY <1>2, Size
  <2> QED BY <2>1, <2>2, <2>3, Size
<1>10. K[s] + BLOCK_SIZE <= end /\ (a # 0 => K[s] + BLOCK_SIZE <= end - BLOCK_SIZE)
  BY <1>1, <1>5, <1>6, <1>9, Size
<1>11. K[s] + BLOCK_SIZE <= Reach(l, T)
  <2>0. BlockBase(T) \in Nat
    BY <1>1, BaseIs
  <2>1. CASE ~RNew(T)
    BY <1>10, <2>1 DEF Reach, REnd, end
  <2>2. CASE RNew(T) /\ l = "publish"
    BY <1>10, <2>2 DEF Reach, REnd, RExposed, end
  <2>3. CASE RNew(T) /\ l # "publish" /\ RExposed(l, T)
    <3>1. end = T + BLOCK_SIZE /\ Reach(l, T) = T
      BY <1>1, <2>3 DEF Reach, REnd, end
    <3> QED BY <1>1, <1>8, <1>10, <2>3, <3>1, Size
  <2>4. CASE RNew(T) /\ l # "publish" /\ ~RExposed(l, T)
    <3>1. end = T /\ Reach(l, T) = T
      BY <1>1, <2>4 DEF Reach, REnd, end
    <3> QED BY <1>10, <3>1
  <2> QED BY <2>1, <2>2, <2>3, <2>4
<1> QED BY <1>1, <1>3, <1>4, <1>7, <1>11 DEF end

\* The slot of an entry that holds a block.
LEMMA SlotOf ==
    ASSUME Types, NEW p \in Producers, Indexed1(p), NEW e, NEW b \in Blocks, Placed(p, e, b)
    PROVE  \E s \in 0 .. Capacity(Cur(p)) - 1 :
             /\ Cur(p).index[s] = e /\ KeysOf(p)[s] = entry[p][e].key
             /\ ValuesOf(p)[s] = b /\ ValuesOf(p)[s] # None
<1>1. e \in 1 .. Len(entry[p]) /\ entry[p][e].value = b
  BY DEF Placed
<1>2. PICK s \in 0 .. Capacity(Cur(p)) - 1 : Cur(p).index[s] = e
  BY <1>1 DEF Indexed1, Covers
<1>3. KeysOf(p)[s] = entry[p][Cur(p).index[s]].key /\ ValuesOf(p)[s] = entry[p][Cur(p).index[s]].value
  BY CurIs
<1> QED BY <1>1, <1>2, <1>3, Somes

\* The key of a block in use is a base below the end, and no other entry has
\* it.
LEMMA LiveKeys ==
    ASSUME Types, NEW p \in Producers, Indexed1(p), NEW e, NEW k, NEW b \in Blocks, Stores(p, e, k, b)
    PROVE  /\ k \in Nat /\ Multiple(k) /\ k + BLOCK_SIZE <= Reach(pc[p], tailIndex[p]) /\ k # INVALID_BLOCK_BASE
           /\ \A g : \A d \in Blocks : Stores(p, g, k, d) => g = e /\ d = b
<1> DEFINE cap == Capacity(Cur(p))
           tail == Cur(p).tail
           idx == Cur(p).index
           T == tailIndex[p]
           l == pc[p]
           K == KeysOf(p)
           V == ValuesOf(p)
           end == REnd(l, T)
<1>1. Ring(l, T, loc[p].at, cap, tail, idx, K, V) /\ RingTypes(T, cap, tail, K)
  BY CurIs DEF Indexed1, RingOf
<1>2. \A g : \A d \in Blocks : Placed(p, g, d) => \E s \in 0 .. cap - 1 :
             idx[s] = g /\ K[s] = entry[p][g].key /\ V[s] = d /\ V[s] # None
  BY SlotOf
<1> HIDE DEF cap, tail, idx, T, l, K, V
<1>3. PICK s \in 0 .. cap - 1 : idx[s] = e /\ K[s] = k /\ V[s] = b /\ V[s] # None
  BY <1>2 DEF Stores
<1>4. /\ RExact(cap, tail, K, end, s)
      /\ K[s] \in Nat /\ Multiple(K[s]) /\ K[s] + BLOCK_SIZE <= Reach(l, T) /\ Used(K[s])
  BY <1>1, <1>3, RingLive
<1>5. ASSUME NEW g, NEW d \in Blocks, Stores(p, g, k, d)
      PROVE  g = e /\ d = b
  <2>1. PICK z \in 0 .. cap - 1 : idx[z] = g /\ K[z] = k /\ V[z] = d /\ V[z] # None
    BY <1>2, <1>5 DEF Stores
  <2>2. RExact(cap, tail, K, end, z)
    BY <1>1, <2>1, RingLive
  <2>3. cap \in Nat /\ cap > 1 /\ tail \in 0 .. cap - 1 /\ end \in Nat
    BY <1>1, EndIs DEF RingTypes
  <2> DEFINE a == RAge(cap, tail, s)
             c == RAge(cap, tail, z)
  <2>4. a \in 0 .. cap - 1 /\ c \in 0 .. cap - 1
    BY <2>3, NextAge
  <2>5. end - BLOCK_SIZE * (a + 1) = end - BLOCK_SIZE * (c + 1)
    BY <1>3, <1>4, <2>1, <2>2 DEF RExact
  <2> HIDE DEF end
  <2>6. a = c
    <3> HIDE DEF a, c
    <3>1. BLOCK_SIZE * (a + 1) = BLOCK_SIZE * (c + 1)
      <4> DEFINE x == BLOCK_SIZE * (a + 1)
                 y == BLOCK_SIZE * (c + 1)
      <4>1. x \in Int /\ y \in Int /\ end - x = end - y
        BY <2>3, <2>4, <2>5, Size
      <4> HIDE DEF x, y
      <4>2. x = y
        BY <2>3, <4>1
      <4> QED BY <4>2 DEF x, y
    <3>2. (BLOCK_SIZE * (a + 1)) \div BLOCK_SIZE = a + 1 /\ (BLOCK_SIZE * (c + 1)) \div BLOCK_SIZE = c + 1
      <4> DEFINE u == a + 1
                 v == c + 1
      <4>1. u \in Int /\ v \in Int
        BY <2>4
      <4> HIDE DEF u, v
      <4>2. (BLOCK_SIZE * u) \div BLOCK_SIZE = u /\ (BLOCK_SIZE * v) \div BLOCK_SIZE = v
        BY <4>1, Size, Cancels
      <4> QED BY <4>2 DEF u, v
    <3> QED BY <2>4, <3>1, <3>2
  <2>7. s = z
    BY <2>3, <2>6, AgeOne
  <2> QED BY <1>3, <2>1, <2>7
<1>6. k \in Nat /\ Multiple(k) /\ k + BLOCK_SIZE <= Reach(l, T) /\ k # INVALID_BLOCK_BASE
  BY <1>3, <1>4 DEF Used
<1> QED BY <1>5, <1>6 DEF l, T

\* A step that moves no block and no key in use.
LEMMA StoresKept ==
    ASSUME PlacedSame, \A q \in Producers : KeysStay(q)
    PROVE  StoresSame
<1> SUFFICES ASSUME NEW p \in Producers, NEW e \in Nat, NEW b \in Blocks, NEW k \in Nat
             PROVE  Stores(p, e, k, b)' <=> Stores(p, e, k, b)
  BY DEF StoresSame
<1>1. Placed(p, e, b)' <=> Placed(p, e, b)
  BY DEF PlacedSame
<1>2. Placed(p, e, b) => entry'[p][e].key = entry[p][e].key
  BY Somes DEF Placed, KeysStay
<1> QED BY <1>1, <1>2 DEF Stores

\* The entry of a block and of its key.
LEMMA StoresHas ==
    ASSUME Types, NEW p \in Producers, NEW e \in Nat, NEW b \in Blocks, Placed(p, e, b)
    PROVE  \E k \in Nat : Stores(p, e, k, b)
<1>1. entry[p] \in Seq(Entry) /\ e \in 1 .. Len(entry[p])
  BY DEF Types, IndexTypes, Placed
<1>2. entry[p][e].key \in Nat
  <2>1. entry[p][e] \in Entry
    BY <1>1
  <2> QED BY <2>1 DEF Entry
<1> QED BY <1>2 DEF Stores

-----------------------------------------------------------------------------
(***************************************************************************)
(* What the blocks hold. Of the BLOCK_SIZE elements of a block each was    *)
(* emptied, is being emptied, is claimed by a consumer on its way to it,   *)
(* or is left.                                                             *)
(***************************************************************************)

\* What the contents show of a consumer.
SameView(c) ==
    /\ Flying(c)' <=> Flying(c)
    /\ Flying(c) => loc'[c].from = loc[c].from /\ loc'[c].count = loc[c].count
    /\ \A l \in {"set_empty", "release"} : pc'[c] = l <=> pc[c] = l
    /\ pc[c] \in {"set_empty", "release"} => loc'[c].block = loc[c].block
                                             /\ loc'[c].from = loc[c].from /\ loc'[c].at = loc[c].at

\* A step in which no consumer is seen to move keeps the sets of consumers.
LEMMA ViewSets ==
    ASSUME \A c \in Consumers : SameView(c)
    PROVE  /\ \A p, k : InFlight(p, k)' = InFlight(p, k)
           /\ \A b : Emptying(b)' = Emptying(b)
           /\ headIndex' = headIndex => \A p, n : Undone(p, n)' <=> Undone(p, n)
<1>1. ASSUME NEW p, NEW k PROVE InFlight(p, k)' = InFlight(p, k)
  <2>1. \A c \in Consumers :
          (pc'[c] \in {"block_index", "entry"} /\ loc'[c].from = p /\ k <= loc'[c].count /\ loc'[c].count < k + BLOCK_SIZE)
      <=> (pc[c] \in {"block_index", "entry"} /\ loc[c].from = p /\ k <= loc[c].count /\ loc[c].count < k + BLOCK_SIZE)
    BY DEF SameView, Flying
  <2> QED BY <2>1 DEF InFlight
<1>2. ASSUME NEW b PROVE Emptying(b)' = Emptying(b)
  <2>1. \A c \in Consumers : (pc'[c] = "set_empty" /\ loc'[c].block = b) <=> (pc[c] = "set_empty" /\ loc[c].block = b)
    BY DEF SameView
  <2> QED BY <2>1 DEF Emptying
<1>3. ASSUME headIndex' = headIndex, NEW p, NEW n PROVE Undone(p, n)' <=> Undone(p, n)
  <2>1. \A c \in Consumers :
          (pc'[c] \in {"block_index", "entry"} /\ loc'[c].from = p /\ loc'[c].count = n)
      <=> (pc[c] \in {"block_index", "entry"} /\ loc[c].from = p /\ loc[c].count = n)
    BY DEF SameView, Flying
  <2> QED BY <1>3, <2>1 DEF Undone
<1> QED BY <1>1, <1>2, <1>3

\* A step that the contents do not see.
LEMMA CountsQuiet ==
    ASSUME Types, Counts, \A c \in Consumers : SameView(c) /\ Points(c), StoresSame, PlacedSame, headIndex' = headIndex,
           \A p \in Producers : ReachOf(p)' = ReachOf(p) /\ Written(p)' = Written(p),
           \A b \in Blocks : dequeued'[b] <= BLOCK_SIZE,
           \A b \in Blocks : PlacedB(b) => dequeued'[b] = dequeued[b] /\ elements'[b] = elements[b]
    PROVE  Counts'
<1>1. /\ \A p, k : InFlight(p, k)' = InFlight(p, k)
      /\ \A b : Emptying(b)' = Emptying(b)
      /\ \A p, n : Undone(p, n)' <=> Undone(p, n)
  BY ViewSets
<1>2. \A p \in Producers : \A e \in Nat : \A k \in Nat : \A b \in Blocks : Stores(p, e, k, b) => PlacedB(b)
  BY DEF Stores, PlacedB
<1>3. ASSUME NEW p \in Producers PROVE LivesIn(p)'
  <2>1. ASSUME NEW n \in Nat, n < ReachOf(p)', Undone(p, n)' PROVE HasBlock(p, BlockBase(n))'
    <3>1. HasBlock(p, BlockBase(n))
      BY <1>1, <2>1 DEF Counts, LivesIn
    <3>2. BlockBase(n) \in Nat
      BY BaseIs
    <3> QED BY <3>1, <3>2 DEF HasBlock, StoresSame
  <2> QED BY <2>1 DEF LivesIn
<1>4. ASSUME NEW p \in Producers PROVE CountedIn(p)'
  <2>1. ASSUME NEW e \in Nat, NEW k \in Nat, NEW b \in Blocks, Stores(p, e, k, b)' PROVE Sum(p, k, b)' = BLOCK_SIZE
    <3>1. Stores(p, e, k, b)
      BY <2>1 DEF StoresSame
    <3>2. Sum(p, k, b) = BLOCK_SIZE
      BY <3>1 DEF Counts, CountedIn
    <3>3. dequeued'[b] = dequeued[b]
      BY <1>2, <3>1
    <3> QED BY <1>1, <3>2, <3>3 DEF Sum
  <2> QED BY <2>1 DEF CountedIn
<1>5. ASSUME NEW p \in Producers PROVE FilledIn(p)'
  <2>1. ASSUME NEW e \in Nat, NEW k \in Nat, NEW b \in Blocks, Stores(p, e, k, b)', NEW i \in 0 .. BLOCK_SIZE - 1,
               Undone(p, k + i)', k + i < Written(p)'
        PROVE  elements'[b][i] = <<p, k + i>>
    <3>1. Stores(p, e, k, b) /\ Undone(p, k + i) /\ k + i < Written(p)
      BY <1>1, <2>1 DEF StoresSame
    <3>2. elements[b][i] = <<p, k + i>>
      BY <3>1 DEF Counts, FilledIn
    <3>3. elements'[b] = elements[b]
      BY <1>2, <3>1
    <3> QED BY <3>2, <3>3
  <2> QED BY <2>1 DEF FilledIn
<1>6. NoneAlike'
  BY DEF NoneAlike, Alike, Counts, SameView, Flying
<1>7. AreReleased'
  <2>1. ASSUME NEW p \in Producers, NEW e \in Nat, NEW b \in Blocks, Placed(p, e, b)', dequeued'[b] = BLOCK_SIZE
        PROVE  IsReleased(b)'
    <3>1. Placed(p, e, b) /\ PlacedB(b)
      BY <2>1 DEF PlacedSame, PlacedB
    <3>2. IsReleased(b)
      BY <2>1, <3>1 DEF Counts, AreReleased
    <3> QED BY <3>2 DEF IsReleased, SameView
  <2> QED BY <2>1 DEF AreReleased
<1>8. InBounds'
  BY DEF InBounds
<1>9. ASSUME NEW c \in Consumers PROVE Emptied(c)'
  <2>1. ASSUME pc'[c] = "release" PROVE dequeued'[loc'[c].block] = BLOCK_SIZE
    <3>1. pc[c] = "release" /\ loc'[c].block = loc[c].block
      BY <2>1 DEF SameView
    <3>2. loc[c].block \in Blocks /\ Placed(loc[c].from, loc[c].at, loc[c].block)
      BY <3>1 DEF Points
    <3>3. PlacedB(loc[c].block)
      <4>1. loc[c].from \in Producers /\ loc[c].at \in Nat
        BY <3>1, Members2 DEF Types, LocTypes, WfLoc
      <4> QED BY <3>2, <4>1 DEF PlacedB
    <3> QED BY <3>1, <3>2, <3>3 DEF Counts, Emptied
  <2> QED BY <2>1 DEF Emptied
<1> QED BY <1>3, <1>4, <1>5, <1>6, <1>7, <1>8, <1>9 DEF Counts

\* The actions of a producer that the contents do not see.
HiddenProduce(p) ==
    \/ Enqueue(p) \/ InsertBlockIndexEntry(p) \/ NewBlockIndex(p) \/ NewBlockIndexFails(p)
    \/ Expose(p) \/ AskPool(p) \/ ClaimFromPool(p) \/ FromFreeList(p) \/ Create(p) \/ CreateFails(p)
    \/ ConstructThrows(p) \/ Rewind(p) \/ Forget(p)

\* A hidden step of p leaves the contents.
LEMMA HiddenDoes ==
    ASSUME Types, NEW p \in Producers, HiddenProduce(p)
    PROVE  /\ Produce(p) /\ ~(Construct(p) /\ New(p))
           /\ pc[p] # "publish" /\ pc'[p] # "publish"
           /\ tailIndex' = tailIndex /\ headIndex' = headIndex /\ elements' = elements /\ tailBlock' = tailBlock
           /\ \/ dequeued' = dequeued
              \/ pc[p] = "construct" /\ New(p) /\ dequeued' = [dequeued EXCEPT ![loc[p].block] = 0]
           /\ \A u \in Threads : u # p => pc'[u] = pc[u] /\ loc'[u] = loc[u] /\ fl'[u] = fl[u]
<1>0. Produce(p)
  BY DEF HiddenProduce, Produce
<1>0a. pc'[p] # "publish"
  <2>1. CASE Enqueue(p)
    BY <2>1, EnqueueDoes
  <2>2. CASE InsertBlockIndexEntry(p)
    BY <2>2, InsertBlockIndexEntryDoes
  <2>3. CASE NewBlockIndex(p)
    BY <2>3, NewBlockIndexDoes
  <2>4. CASE NewBlockIndexFails(p)
    BY <2>4, NewBlockIndexFailsDoes
  <2>5. CASE Expose(p)
    BY <2>5, ExposeDoes
  <2>6. CASE AskPool(p)
    BY <2>6, AskPoolDoes
  <2>7. CASE ClaimFromPool(p)
    BY <2>7, ClaimFromPoolDoes
  <2>8. CASE FromFreeList(p)
    BY <2>8, FromFreeListDoes
  <2>9. CASE Create(p)
    BY <2>9, CreateDoes
  <2>10. CASE CreateFails(p)
    BY <2>10, CreateFailsDoes
  <2>11. CASE ConstructThrows(p)
    BY <2>11, ConstructThrowsDoes
  <2>12. CASE Rewind(p)
    BY <2>12, RewindDoes
  <2>13. CASE Forget(p)
    BY <2>13, ForgetDoes
  <2> QED BY <2>1, <2>2, <2>3, <2>4, <2>5, <2>6, <2>7, <2>8, <2>9, <2>10, <2>11, <2>12, <2>13 DEF HiddenProduce
<1>1. ~(Construct(p) /\ New(p))
  BY <1>0a, ConstructDoes
<1>2. /\ pc[p] # "publish"
      /\ tailIndex' = tailIndex /\ headIndex' = headIndex /\ elements' = elements /\ tailBlock' = tailBlock
  BY EnqueueDoes, InsertBlockIndexEntryDoes, NewBlockIndexDoes, NewBlockIndexFailsDoes, ExposeDoes, FromFreeListDoes,
     AskPoolDoes, CreateFailsDoes, ConstructThrowsDoes, RewindDoes, ClaimFromPoolDoes, ForgetDoes, CreateDoes
     DEF HiddenProduce
<1>3. \/ dequeued' = dequeued
      \/ pc[p] = "construct" /\ New(p) /\ dequeued' = [dequeued EXCEPT ![loc[p].block] = 0]
  BY EnqueueDoes, InsertBlockIndexEntryDoes, NewBlockIndexDoes, NewBlockIndexFailsDoes, ExposeDoes, FromFreeListDoes,
     AskPoolDoes, CreateFailsDoes, ConstructThrowsDoes, RewindDoes, ClaimFromPoolDoes, ForgetDoes, CreateDoes
     DEF HiddenProduce
<1>4. \A u \in Threads : u # p => pc'[u] = pc[u] /\ loc'[u] = loc[u] /\ fl'[u] = fl[u]
  BY <1>0, OnlyProducer
<1> QED BY <1>0, <1>0a, <1>1, <1>2, <1>3, <1>4

\* A consumer that stays where it is.
LEMMA ViewKept ==
    ASSUME NEW c, pc'[c] = pc[c], loc'[c] = loc[c]
    PROVE  SameView(c)
  BY DEF SameView, Flying

\* A hidden step of a producer keeps Counts.
LEMMA HiddenCounts ==
    ASSUME Types, OwnedOK, Counts, \A c \in Consumers : Points(c), \A p \in Producers : Indexed1(p),
           NEW p \in Producers, HiddenProduce(p), [Next]_vars
    PROVE  Counts'
<1>1. /\ Produce(p) /\ ~(Construct(p) /\ New(p))
      /\ pc[p] # "publish" /\ pc'[p] # "publish"
      /\ tailIndex' = tailIndex /\ headIndex' = headIndex /\ elements' = elements
      /\ \/ dequeued' = dequeued
         \/ pc[p] = "construct" /\ New(p) /\ dequeued' = [dequeued EXCEPT ![loc[p].block] = 0]
      /\ \A u \in Threads : u # p => pc'[u] = pc[u] /\ loc'[u] = loc[u] /\ fl'[u] = fl[u]
  BY HiddenDoes
<1>2. \A c \in Consumers : SameView(c)
  BY <1>1, Members2, ViewKept
<1>3. PlacedSame
  <2>1. PlacedKept(p)
    BY <1>1, ProducePlaced
  <2> QED BY <1>1, <2>1, FromOne
<1>4. StoresSame
  BY <1>3, AllStay, StoresKept
<1>5. \A q \in Producers : ReachOf(q)' = ReachOf(q) /\ Written(q)' = Written(q)
  <2>1. ASSUME NEW q \in Producers PROVE ReachOf(q)' = ReachOf(q) /\ Written(q)' = Written(q)
    <3>1. tailIndex'[q] = tailIndex[q] /\ (pc'[q] = "publish" <=> pc[q] = "publish")
      BY <1>1, Members
    <3> QED BY <3>1 DEF ReachOf, Reach, Written
  <2> QED BY <2>1
<1>6. dequeued \in [Blocks -> Nat] /\ BLOCK_SIZE \in Nat
  BY Size DEF Types, BlockTypes
<1>7. \A b \in Blocks : dequeued'[b] <= BLOCK_SIZE
  BY <1>1, <1>6 DEF Counts, InBounds
<1>8. \A b \in Blocks : PlacedB(b) => dequeued'[b] = dequeued[b] /\ elements'[b] = elements[b]
  <2>1. ASSUME NEW b \in Blocks, PlacedB(b) PROVE dequeued'[b] = dequeued[b]
    <3>1. CASE dequeued' = dequeued
      BY <3>1
    <3>2. CASE pc[p] = "construct" /\ New(p) /\ dequeued' = [dequeued EXCEPT ![loc[p].block] = 0]
      <4>1. b # loc[p].block
        BY <2>1, <3>2 DEF OwnedOK, OwnCore, OneUse, HeldB, HeldBy
      <4> QED BY <3>2, <4>1, <1>6
    <3> QED BY <3>1, <3>2, <1>1
  <2> QED BY <1>1, <2>1
<1> QED BY <1>1, <1>2, <1>3, <1>4, <1>5, <1>7, <1>8, CountsQuiet

\* The actions of a consumer that the contents do not see.
HiddenConsume(c) ==
    \/ \E p \in Producers : Dequeue(c, p)
    \/ SeemsEmpty(c) \/ SeemsNonEmpty(c) \/ AddOptimistic(c) \/ Recheck(c) \/ AddOvercommit(c) \/ LoadBlockIndex(c)

\* A hidden step of a consumer leaves the contents.
LEMMA HiddenView ==
    ASSUME Types, NEW c \in Consumers, HiddenConsume(c)
    PROVE  /\ Consume(c) /\ SameView(c) /\ pc[c] # "release"
           /\ tailIndex' = tailIndex /\ headIndex' = headIndex /\ elements' = elements /\ dequeued' = dequeued
           /\ entry' = entry /\ tailBlock' = tailBlock
<1>0. Consume(c)
  BY DEF HiddenConsume, Consume
<1>1. CASE \E p \in Producers : Dequeue(c, p)
  BY <1>0, <1>1, DequeueDoes DEF SameView, Flying
<1>2. CASE SeemsEmpty(c)
  BY <1>0, <1>2, SeemsEmptyDoes DEF SameView, Flying
<1>3. CASE SeemsNonEmpty(c)
  BY <1>0, <1>3, SeemsNonEmptyDoes DEF SameView, Flying
<1>4. CASE AddOptimistic(c)
  BY <1>0, <1>4, AddOptimisticDoes DEF SameView, Flying
<1>5. CASE Recheck(c)
  BY <1>0, <1>5, RecheckDoes DEF SameView, Flying
<1>6. CASE AddOvercommit(c)
  BY <1>0, <1>6, AddOvercommitDoes DEF SameView, Flying
<1>7. CASE LoadBlockIndex(c)
  BY <1>0, <1>7, LoadBlockIndexDoes DEF SameView, Flying, Locals
<1> QED BY <1>1, <1>2, <1>3, <1>4, <1>5, <1>6, <1>7 DEF HiddenConsume

\* A step in which nothing of the blocks moves.
LEMMA RestCounts ==
    ASSUME Types, Counts, \A c \in Consumers : Points(c), \A p \in Producers : Indexed1(p), [Next]_vars,
           \A c \in Consumers : SameView(c),
           \A p \in Producers : pc'[p] = "publish" <=> pc[p] = "publish",
           tailIndex' = tailIndex, headIndex' = headIndex, elements' = elements, dequeued' = dequeued, entry' = entry
    PROVE  Counts'
<1>1. PlacedSame
  BY EntriesSame DEF PlacedSame, PlacedKept
<1>2. StoresSame
  BY <1>1, AllStay, StoresKept
<1>3. \A q \in Producers : ReachOf(q)' = ReachOf(q) /\ Written(q)' = Written(q)
  BY DEF ReachOf, Reach, Written
<1>4. \A b \in Blocks : dequeued'[b] <= BLOCK_SIZE
  BY DEF Counts, InBounds
<1> QED BY <1>1, <1>2, <1>3, <1>4, CountsQuiet

\* A hidden step of a consumer keeps Counts.
LEMMA HiddenConsumeCounts ==
    ASSUME Types, Counts, \A c \in Consumers : Points(c), \A p \in Producers : Indexed1(p), [Next]_vars,
           NEW c \in Consumers, HiddenConsume(c)
    PROVE  Counts'
<1>1. /\ Consume(c) /\ SameView(c)
      /\ tailIndex' = tailIndex /\ headIndex' = headIndex /\ elements' = elements /\ dequeued' = dequeued
      /\ entry' = entry
  BY HiddenView
<1>2. \A u \in Threads : u # c => pc'[u] = pc[u] /\ loc'[u] = loc[u] /\ fl'[u] = fl[u]
  BY <1>1, OnlyConsumer
<1>3. \A d \in Consumers : SameView(d)
  BY <1>1, <1>2, Members2, ViewKept
<1>4. \A p \in Producers : pc'[p] = "publish" <=> pc[p] = "publish"
  BY <1>2, Members
<1> QED BY <1>1, <1>3, <1>4, RestCounts

\* A step in the free list keeps Counts.
LEMMA GivenBackCounts ==
    ASSUME Types, Counts, \A c \in Consumers : Points(c), \A p \in Producers : Indexed1(p), [Next]_vars,
           NEW t \in Threads, GivenBack(t) \/ InFreeList(t)
    PROVE  Counts'
<1>1. CASE GivenBack(t)
  <2>1. /\ pc[t] = "give_back" /\ pc'[t] = "idle"
        /\ tailIndex' = tailIndex /\ headIndex' = headIndex /\ elements' = elements /\ dequeued' = dequeued
        /\ entry' = entry
        /\ \A u \in Threads : u # t => pc'[u] = pc[u] /\ loc'[u] = loc[u]
    BY <1>1, GivenBackDoes
  <2>2. \A d \in Consumers : SameView(d)
    <3>1. ASSUME NEW d \in Consumers, d # t PROVE SameView(d)
      BY <2>1, <3>1, Members2, ViewKept
    <3>2. SameView(t)
      BY <2>1 DEF SameView, Flying
    <3> QED BY <3>1, <3>2
  <2>3. \A p \in Producers : pc'[p] = "publish" <=> pc[p] = "publish"
    BY <2>1, Members
  <2> QED BY <2>1, <2>2, <2>3, RestCounts
<1>2. CASE InFreeList(t)
  <2>1. /\ tailIndex' = tailIndex /\ headIndex' = headIndex /\ elements' = elements /\ dequeued' = dequeued
        /\ entry' = entry /\ pc' = pc /\ loc' = loc
    BY <1>2 DEF InFreeList, indexVars, blockVars, countVars
  <2>2. \A d \in Consumers : SameView(d)
    BY <2>1, ViewKept
  <2> QED BY <2>1, <2>2, RestCounts
<1> QED BY <1>1, <1>2

\* A stuttering step keeps Counts.
LEMMA StutterCounts ==
    ASSUME Types, Counts, \A c \in Consumers : Points(c), \A p \in Producers : Indexed1(p), UNCHANGED vars
    PROVE  Counts'
<1>1. /\ tailIndex' = tailIndex /\ headIndex' = headIndex /\ elements' = elements /\ dequeued' = dequeued
      /\ entry' = entry /\ pc' = pc /\ loc' = loc
  BY DEF vars, indexVars, blockVars, countVars
<1>2. \A d \in Consumers : SameView(d)
  BY <1>1, ViewKept
<1> QED BY <1>1, <1>2, RestCounts

\* The summands of a block are numbers.
LEMMA SumIs ==
    ASSUME Types, NEW p \in Producers, NEW k \in Nat, NEW b \in Blocks
    PROVE  /\ IsFiniteSet(Emptying(b)) /\ Cardinality(Emptying(b)) \in Nat
           /\ IsFiniteSet(InFlight(p, k)) /\ Cardinality(InFlight(p, k)) \in Nat
           /\ dequeued[b] \in Nat
           /\ LeftIn(headIndex[p], k) \in 0 .. BLOCK_SIZE
<1>1. Emptying(b) \subseteq Consumers /\ InFlight(p, k) \subseteq Consumers
  BY DEF Emptying, InFlight
<1>2. /\ IsFiniteSet(Emptying(b)) /\ Cardinality(Emptying(b)) \in Nat
      /\ IsFiniteSet(InFlight(p, k)) /\ Cardinality(InFlight(p, k)) \in Nat
  BY <1>1, ConsumersFinite, FS_Subset, FS_CardinalityType
<1>3. dequeued[b] \in Nat
  BY DEF Types, BlockTypes
<1>4. headIndex[p] \in Nat /\ BLOCK_SIZE \in Nat
  BY Size DEF Types, CountTypes
<1>5. LeftIn(headIndex[p], k) \in 0 .. BLOCK_SIZE
  BY <1>4 DEF LeftIn
<1> QED BY <1>2, <1>3, <1>5

\* A block with a key is in an entry.
LEMMA StoredIs ==
    ASSUME NEW p \in Producers, NEW e \in Nat, NEW k, NEW b, Stores(p, e, k, b)
    PROVE  PlacedB(b)
  BY DEF Stores, PlacedB

\* What the contents say of a consumer that stays where it is.
SameConsumers == \A c \in Consumers : pc'[c] = pc[c] /\ loc'[c] = loc[c]

\* Consumers that stay where they are are as unlike as they were.
LEMMA SameConsumersIs ==
    ASSUME SameConsumers, Counts
    PROVE  NoneAlike' /\ \A b : IsReleased(b) => IsReleased(b)'
<1>1. NoneAlike'
  BY DEF SameConsumers, NoneAlike, Alike, Flying, Counts
<1>2. \A b : IsReleased(b) => IsReleased(b)'
  BY DEF SameConsumers, IsReleased
<1> QED BY <1>1, <1>2

\* Where a new block is constructed.
LEMMA ConstructStores ==
    ASSUME Types, OwnedOK, NEW p \in Producers, Indexed1(p), Construct(p), New(p)
    PROVE  /\ loc[p].block \in Blocks /\ ~PlacedB(loc[p].block)
           /\ loc[p].at \in Nat
           /\ \A q \in Producers : \A e \in Nat : \A k \in Nat : \A b \in Blocks :
                Stores(q, e, k, b)' <=> \/ Stores(q, e, k, b)
                                        \/ q = p /\ e = loc[p].at /\ k = tailIndex[p] /\ b = loc[p].block
           /\ dequeued' = [dequeued EXCEPT ![loc[p].block] = 0]
           /\ elements' = [elements EXCEPT ![loc[p].block][tailIndex[p] % BLOCK_SIZE] = <<p, tailIndex[p]>>]
<1>1. /\ pc[p] = "construct" /\ SetValue(p, loc[p].at, loc[p].block)
      /\ dequeued' = [dequeued EXCEPT ![loc[p].block] = 0]
  BY ConstructDoes
<1>2. loc[p].block \in Blocks
  BY <1>1 DEF OwnedOK, OwnLocals
<1>3. ~PlacedB(loc[p].block)
  BY <1>1, <1>2 DEF OwnedOK, OwnCore, OneUse, HeldB, HeldBy
<1>4. loc[p].at \in 1 .. Len(entry[p]) /\ entry[p][loc[p].at].value = None /\ entry[p][loc[p].at].key = tailIndex[p]
  BY <1>1, ConstructPlace
<1>5. elements' = [elements EXCEPT ![loc[p].block][tailIndex[p] % BLOCK_SIZE] = <<p, tailIndex[p]>>]
  BY DEF Construct
<1>6. Len(entry[p]) \in Nat
  BY CurTyped
<1>7. loc[p].at \in Nat
  BY <1>4, <1>6
<1>8. ASSUME NEW q \in Producers, NEW e \in Nat, NEW k \in Nat, NEW b \in Blocks
      PROVE  Stores(q, e, k, b)' <=> \/ Stores(q, e, k, b)
                                     \/ q = p /\ e = loc[p].at /\ k = tailIndex[p] /\ b = loc[p].block
  <2>1. loc[p].block \in MaybeBlock
    BY <1>2 DEF MaybeBlock
  <2>2. Placed(q, e, b)' <=> IF q = p /\ e = loc[p].at THEN e \in 1 .. Len(entry[q]) /\ loc[p].block = b
                             ELSE Placed(q, e, b)
    BY <1>1, <2>1, ValuePlaced
  <2>3. /\ Len(entry'[q]) = Len(entry[q])
        /\ e \in 1 .. Len(entry[q]) => entry'[q][e].key = entry[q][e].key
    BY <1>1, <2>1, ValueSet
  <2>4. ~(Placed(p, loc[p].at, b))
    BY <1>4, Somes DEF Placed
  <2>5. Placed(q, e, b)' => e \in 1 .. Len(entry[q])
    BY <2>3 DEF Placed
  <2>6. Placed(q, e, b) => e \in 1 .. Len(entry[q])
    BY DEF Placed
  <2>7. CASE q = p /\ e = loc[p].at
    BY <1>4, <2>2, <2>3, <2>4, <2>7 DEF Stores
  <2>8. CASE ~(q = p /\ e = loc[p].at)
    BY <2>2, <2>3, <2>6, <2>8 DEF Stores
  <2> QED BY <2>7, <2>8
<1> QED BY <1>1, <1>2, <1>3, <1>5, <1>7, <1>8

\* Construct of the first element of a block keeps Counts: the block is
\* whole.
LEMMA ConstructNewCounts ==
    ASSUME Types, Claims, OwnedOK, Counts, \A c \in Consumers : Points(c) /\ Behind(c), NEW p \in Producers, Indexed1(p),
           Construct(p), New(p)
    PROVE  Counts'
<1> DEFINE T == tailIndex[p]
           b0 == loc[p].block
           e0 == loc[p].at
<1>1. /\ b0 \in Blocks /\ ~PlacedB(b0) /\ e0 \in Nat
      /\ \A q \in Producers : \A e \in Nat : \A k \in Nat : \A b \in Blocks :
           Stores(q, e, k, b)' <=> Stores(q, e, k, b) \/ (q = p /\ e = e0 /\ k = T /\ b = b0)
      /\ dequeued' = [dequeued EXCEPT ![b0] = 0]
      /\ elements' = [elements EXCEPT ![b0][T % BLOCK_SIZE] = <<p, T>>]
  BY ConstructStores
<1>2. /\ pc[p] = "construct" /\ pc'[p] = "publish" /\ tailIndex' = tailIndex /\ headIndex' = headIndex
      /\ \A u \in Threads : u # p => pc'[u] = pc[u] /\ loc'[u] = loc[u]
  BY ConstructDoes
<1>3. SameConsumers
  BY <1>2, Members2 DEF SameConsumers
<1>4. /\ \A q, k : InFlight(q, k)' = InFlight(q, k)
      /\ \A b : Emptying(b)' = Emptying(b)
      /\ \A q, n : Undone(q, n)' <=> Undone(q, n)
  <2>1. \A c \in Consumers : SameView(c)
    BY <1>3, ViewKept DEF SameConsumers
  <2> QED BY <1>2, <2>1, ViewSets
<1>5. T \in Nat /\ headIndex[p] \in Nat /\ headIndex[p] <= T /\ BLOCK_SIZE \in Nat /\ BLOCK_SIZE > 1
  BY ClaimsImply, Size DEF Types, CountTypes
<1>6. T % BLOCK_SIZE = 0 /\ BlockBase(T) = T /\ Multiple(T)
  <2>1. T % BLOCK_SIZE = 0
    BY DEF New
  <2>2. BlockBase(T) = T
    BY <1>5, <2>1, NewIs
  <2> QED BY <2>1, <2>2, <1>5, BaseIs
<1>7. dequeued \in [Blocks -> Nat] /\ elements \in [Blocks -> Elements]
  BY DEF Types, BlockTypes
<1>8. /\ dequeued'[b0] = 0
      /\ elements'[b0][0] = <<p, T>>
      /\ \A b \in Blocks : b # b0 => dequeued'[b] = dequeued[b] /\ elements'[b] = elements[b]
  <2>1. DOMAIN elements[b0] = 0 .. BLOCK_SIZE - 1
    BY <1>1, <1>7 DEF Elements
  <2>2. elements'[b0] = [elements[b0] EXCEPT ![T % BLOCK_SIZE] = <<p, T>>]
    BY <1>1, <1>7
  <2>3. elements'[b0][0] = <<p, T>>
    BY <1>5, <1>6, <2>1, <2>2
  <2> QED BY <1>1, <1>7, <2>3
<1>9. Emptying(b0) = {} /\ InFlight(p, T) = {} /\ LeftIn(headIndex[p], T) = BLOCK_SIZE
  <2>1. ASSUME NEW c \in Emptying(b0) PROVE FALSE
    <3>1. c \in Consumers /\ pc[c] = "set_empty" /\ loc[c].block = b0
      BY DEF Emptying
    <3>2. Placed(loc[c].from, loc[c].at, b0)
      BY <3>1 DEF Points
    <3>3. loc[c].from \in Producers /\ loc[c].at \in Nat
      BY <3>1, Members2 DEF Types, LocTypes, WfLoc
    <3> QED BY <1>1, <3>2, <3>3 DEF PlacedB
  <2>2. ASSUME NEW c \in InFlight(p, T) PROVE FALSE
    <3>1. c \in Consumers /\ pc[c] \in {"block_index", "entry"} /\ loc[c].from = p /\ T <= loc[c].count
      BY DEF InFlight
    <3>2. loc[c].count < headIndex[p] /\ loc[c].count \in Nat
      BY <3>1, Members2 DEF Behind, Types, LocTypes, WfLoc
    <3> QED BY <1>5, <3>1, <3>2
  <2> QED BY <1>5, <2>1, <2>2 DEF LeftIn
<1>10. /\ ReachOf(p) = T /\ ReachOf(p)' = T + BLOCK_SIZE
       /\ Written(p) = T /\ Written(p)' = T + 1
  BY <1>2, <1>5, <1>6 DEF ReachOf, Reach, RNew, Written
<1>11. \A q \in Producers : q # p => ReachOf(q)' = ReachOf(q) /\ Written(q)' = Written(q)
  BY <1>2, Members DEF ReachOf, Reach, Written
<1> HIDE DEF T, b0, e0
<1>12. ASSUME NEW q \in Producers PROVE LivesIn(q)'
  <2>1. ASSUME NEW n \in Nat, n < ReachOf(q)', Undone(q, n)' PROVE HasBlock(q, BlockBase(n))'
    <3>1. BlockBase(n) \in Nat
      BY BaseIs
    <3>2. CASE n < ReachOf(q)
      <4>1. HasBlock(q, BlockBase(n))
        BY <1>4, <2>1, <3>2 DEF Counts, LivesIn
      <4> QED BY <1>1, <3>1, <4>1 DEF HasBlock
    <3>3. CASE ~(n < ReachOf(q))
      <4>1. q = p
        BY <1>11, <2>1, <3>3
      <4>2. T <= n /\ n < T + BLOCK_SIZE
        BY <1>5, <1>10, <2>1, <3>3, <4>1
      <4>3. BlockBase(n) = T
        BY <1>5, <1>6, <4>2, BaseIs
      <4>4. PICK e \in Nat, k \in Nat, b \in Blocks : e = e0 /\ k = T /\ b = b0
        BY <1>1, <1>5
      <4>5. Stores(p, e, k, b)'
        BY <1>1, <4>4
      <4>6. k = BlockBase(n)
        BY <4>3, <4>4
      <4> QED BY <4>1, <4>5, <4>6 DEF HasBlock
    <3> QED BY <3>2, <3>3
  <2> QED BY <2>1 DEF LivesIn
<1>13. ASSUME NEW q \in Producers PROVE CountedIn(q)'
  <2>1. ASSUME NEW e \in Nat, NEW k \in Nat, NEW b \in Blocks, Stores(q, e, k, b)' PROVE Sum(q, k, b)' = BLOCK_SIZE
    <3>1. Sum(q, k, b)' = dequeued'[b] + Cardinality(Emptying(b)) + Cardinality(InFlight(q, k)) + LeftIn(headIndex[q], k)
      BY <1>2, <1>4 DEF Sum
    <3>2. CASE Stores(q, e, k, b)
      <4>1. Sum(q, k, b) = BLOCK_SIZE
        BY <3>2 DEF Counts, CountedIn
      <4>2. b # b0
        BY <1>1, <3>2, StoredIs
      <4> QED BY <1>8, <3>1, <4>1, <4>2 DEF Sum
    <3>3. CASE q = p /\ e = e0 /\ k = T /\ b = b0
      <4>1. Cardinality(Emptying(b)) = 0 /\ Cardinality(InFlight(q, k)) = 0 /\ LeftIn(headIndex[q], k) = BLOCK_SIZE
        BY <1>9, <3>3, FS_EmptySet
      <4> QED BY <1>5, <1>8, <3>1, <3>3, <4>1
    <3> QED BY <1>1, <2>1, <3>2, <3>3
  <2> QED BY <2>1 DEF CountedIn
<1>14. ASSUME NEW q \in Producers PROVE FilledIn(q)'
  <2>1. ASSUME NEW e \in Nat, NEW k \in Nat, NEW b \in Blocks, Stores(q, e, k, b)', NEW i \in 0 .. BLOCK_SIZE - 1,
               Undone(q, k + i)', k + i < Written(q)'
        PROVE  elements'[b][i] = <<q, k + i>>
    <3>1. CASE Stores(q, e, k, b)
      <4>1. b # b0
        BY <1>1, <3>1, StoredIs
      <4>2. k + i < Written(q)
        <5>1. CASE q = p
          <6>1. k + BLOCK_SIZE <= ReachOf(p)
            BY <3>1, <5>1, LiveKeys DEF ReachOf
          <6> QED BY <1>5, <1>10, <5>1, <6>1
        <5>2. CASE q # p
          BY <1>11, <2>1, <5>2
        <5> QED BY <5>1, <5>2
      <4>3. elements[b][i] = <<q, k + i>>
        BY <1>4, <2>1, <3>1, <4>2 DEF Counts, FilledIn
      <4> QED BY <1>8, <4>1, <4>3
    <3>2. CASE q = p /\ e = e0 /\ k = T /\ b = b0
      <4>1. i = 0 /\ k + i = T
        BY <1>5, <1>10, <2>1, <3>2
      <4> QED BY <1>8, <3>2, <4>1
    <3> QED BY <1>1, <2>1, <3>1, <3>2
  <2> QED BY <2>1 DEF FilledIn
<1>15. NoneAlike' /\ \A b : IsReleased(b) => IsReleased(b)'
  BY <1>3, SameConsumersIs
<1>16. AreReleased'
  <2>1. ASSUME NEW q \in Producers, NEW e \in Nat, NEW b \in Blocks, Placed(q, e, b)', dequeued'[b] = BLOCK_SIZE
        PROVE  IsReleased(b)'
    <3>1. b # b0
      BY <1>5, <1>8, <2>1
    <3>2. Placed(q, e, b) /\ dequeued[b] = BLOCK_SIZE
      <4>1. loc[p].block \in MaybeBlock /\ SetValue(p, loc[p].at, loc[p].block)
        BY <1>1, ConstructDoes DEF MaybeBlock, b0
      <4>2. Placed(q, e, b)' <=> IF q = p /\ e = loc[p].at THEN e \in 1 .. Len(entry[q]) /\ loc[p].block = b
                                 ELSE Placed(q, e, b)
        BY <4>1, ValuePlaced
      <4> QED BY <1>8, <2>1, <3>1, <4>2 DEF b0
    <3> QED BY <1>15, <3>2 DEF Counts, AreReleased
  <2> QED BY <2>1 DEF AreReleased
<1>17. InBounds'
  BY <1>5, <1>8 DEF InBounds, Counts
<1>18. ASSUME NEW c \in Consumers PROVE Emptied(c)'
  <2>1. ASSUME pc'[c] = "release" PROVE dequeued'[loc'[c].block] = BLOCK_SIZE
    <3>1. pc[c] = "release" /\ loc'[c] = loc[c]
      BY <1>3, <2>1 DEF SameConsumers
    <3>2. loc[c].block \in Blocks /\ Placed(loc[c].from, loc[c].at, loc[c].block)
      BY <3>1 DEF Points
    <3>3. loc[c].from \in Producers /\ loc[c].at \in Nat
      BY <3>1, Members2 DEF Types, LocTypes, WfLoc
    <3>4. loc[c].block # b0
      BY <1>1, <3>2, <3>3 DEF PlacedB
    <3> QED BY <1>8, <3>1, <3>2, <3>4 DEF Counts, Emptied
  <2> QED BY <2>1 DEF Emptied
<1> QED BY <1>12, <1>13, <1>14, <1>15, <1>16, <1>17, <1>18 DEF Counts

\* Publish keeps Counts: the element that was constructed is in the stream.
LEMMA PublishCounts ==
    ASSUME Types, Counts, \A c \in Consumers : Points(c), \A p \in Producers : Indexed1(p), NEW p \in Producers,
           Publish(p), [Next]_vars
    PROVE  Counts'
<1>1. /\ pc[p] = "publish" /\ pc'[p] = "idle" /\ headIndex' = headIndex /\ dequeued' = dequeued /\ elements' = elements
      /\ entry' = entry
      /\ \A u \in Threads : u # p => pc'[u] = pc[u] /\ loc'[u] = loc[u]
  BY PublishDoes
<1>2. tailIndex' = [tailIndex EXCEPT ![p] = @ + 1]
  BY DEF Publish
<1>3. \A c \in Consumers : SameView(c)
  BY <1>1, Members2, ViewKept
<1>4. PlacedSame
  BY <1>1, EntriesSame DEF PlacedSame, PlacedKept
<1>5. StoresSame
  BY <1>4, AllStay, StoresKept
<1>6. tailIndex[p] \in Nat /\ tailIndex'[p] = tailIndex[p] + 1
  BY <1>2 DEF Types, CountTypes
<1>7. Written(p)' = Written(p)
  BY <1>1, <1>6 DEF Written
<1>8. ReachOf(p)' = ReachOf(p)
  <2> DEFINE T == tailIndex[p]
             B == BlockBase(tailIndex[p])
  <2>1. RNew(T) <=> B = T
    BY <1>6, NewIs DEF RNew
  <2>2. RNew(T + 1) <=> BlockBase(T + 1) = T + 1
    BY <1>6, NewIs DEF RNew
  <2>3. /\ T + 1 = B + BLOCK_SIZE => BlockBase(T + 1) = T + 1
        /\ T + 1 # B + BLOCK_SIZE => BlockBase(T + 1) = B
    BY <1>6, BaseNext
  <2>4. B \in Nat /\ B <= T /\ T < B + BLOCK_SIZE /\ BLOCK_SIZE \in Nat
    BY <1>6, BaseIs, Size
  <2>5. ReachOf(p) = IF B = T THEN T + BLOCK_SIZE ELSE B + BLOCK_SIZE
    BY <1>1, <2>1 DEF ReachOf, Reach
  <2>6. ReachOf(p)' = IF BlockBase(T + 1) = T + 1 THEN T + 1 ELSE BlockBase(T + 1) + BLOCK_SIZE
    <3>1. ReachOf(p)' = IF RNew(T + 1) THEN T + 1 + 0 ELSE BlockBase(T + 1) + BLOCK_SIZE
      BY <1>1, <1>6 DEF ReachOf, Reach
    <3> QED BY <1>6, <2>2, <3>1
  <2>7. T \in Nat
    BY <1>6
  <2> HIDE DEF T, B
  <2> QED BY <2>3, <2>4, <2>5, <2>6, <2>7
<1>9. \A q \in Producers : ReachOf(q)' = ReachOf(q) /\ Written(q)' = Written(q)
  <2>1. ASSUME NEW q \in Producers, q # p PROVE ReachOf(q)' = ReachOf(q) /\ Written(q)' = Written(q)
    <3>1. pc'[q] = pc[q] /\ tailIndex'[q] = tailIndex[q]
      BY <1>1, <1>2, <2>1, Members DEF Types, CountTypes
    <3> QED BY <3>1 DEF ReachOf, Reach, Written
  <2> QED BY <1>7, <1>8, <2>1
<1>10. \A b \in Blocks : dequeued'[b] <= BLOCK_SIZE
  BY <1>1 DEF Counts, InBounds
<1> QED BY <1>1, <1>3, <1>4, <1>5, <1>9, <1>10, CountsQuiet

\* Construct of another element keeps Counts: it is written where nobody
\* reads.
LEMMA ConstructOldCounts ==
    ASSUME Types, OwnedOK, Counts, \A c \in Consumers : Points(c), \A p \in Producers : Indexed1(p), NEW p \in Producers,
           FillsIn(p), Construct(p), ~New(p), [Next]_vars
    PROVE  Counts'
<1> DEFINE T == tailIndex[p]
           b0 == loc[p].block
<1>1. /\ pc[p] = "construct" /\ pc'[p] = "publish" /\ tailIndex' = tailIndex /\ headIndex' = headIndex
      /\ entry' = entry /\ dequeued' = dequeued
      /\ \A u \in Threads : u # p => pc'[u] = pc[u] /\ loc'[u] = loc[u]
  BY ConstructDoes
<1>2. elements' = [elements EXCEPT ![b0][T % BLOCK_SIZE] = <<p, T>>]
  BY DEF Construct
<1>3. b0 \in Blocks /\ \E e \in Nat : Stores(p, e, BlockBase(T), b0)
  BY <1>1 DEF FillsIn
<1>4. SameConsumers
  BY <1>1, Members2 DEF SameConsumers
<1>5. /\ \A q, k : InFlight(q, k)' = InFlight(q, k)
      /\ \A b : Emptying(b)' = Emptying(b)
      /\ \A q, n : Undone(q, n)' <=> Undone(q, n)
  <2>1. \A c \in Consumers : SameView(c)
    BY <1>4, ViewKept DEF SameConsumers
  <2> QED BY <1>1, <2>1, ViewSets
<1>6. PlacedSame
  BY <1>1, EntriesSame DEF PlacedSame, PlacedKept
<1>7. StoresSame
  BY <1>6, AllStay, StoresKept
<1>8. T \in Nat /\ BLOCK_SIZE \in Nat /\ BLOCK_SIZE > 1
  BY Size DEF Types, CountTypes
<1>9. T % BLOCK_SIZE \in 0 .. BLOCK_SIZE - 1 /\ T % BLOCK_SIZE = T - BlockBase(T) /\ BlockBase(T) \in Nat
  BY <1>8, BaseIs
<1>10. /\ elements'[b0][T % BLOCK_SIZE] = <<p, T>>
       /\ \A i \in 0 .. BLOCK_SIZE - 1 : i # T % BLOCK_SIZE => elements'[b0][i] = elements[b0][i]
       /\ \A b \in Blocks : b # b0 => elements'[b] = elements[b]
  <2>1. elements \in [Blocks -> Elements]
    BY DEF Types, BlockTypes
  <2>2. DOMAIN elements[b0] = 0 .. BLOCK_SIZE - 1
    BY <1>3, <2>1 DEF Elements
  <2>3. elements'[b0] = [elements[b0] EXCEPT ![T % BLOCK_SIZE] = <<p, T>>]
    BY <1>2, <1>3, <2>1
  <2>4. elements'[b0][T % BLOCK_SIZE] = <<p, T>>
    BY <1>9, <2>2, <2>3
  <2>5. ASSUME NEW i \in 0 .. BLOCK_SIZE - 1, i # T % BLOCK_SIZE PROVE elements'[b0][i] = elements[b0][i]
    BY <2>2, <2>3, <2>5
  <2> QED BY SMTT(40), <1>2, <2>1, <2>4, <2>5
<1>11. /\ \A q \in Producers : ReachOf(q)' = ReachOf(q)
       /\ \A q \in Producers : q # p => Written(q)' = Written(q)
       /\ Written(p) = T /\ Written(p)' = T + 1
  <2>1. RNew(tailIndex[p]) = FALSE
    BY DEF New, RNew
  <2>2. ReachOf(p)' = ReachOf(p)
    BY <1>1, <2>1 DEF ReachOf, Reach
  <2>3. \A q \in Producers : q # p => ReachOf(q)' = ReachOf(q) /\ Written(q)' = Written(q)
    BY <1>1, Members DEF ReachOf, Reach, Written
  <2>4. Written(p) = T /\ Written(p)' = T + 1
    BY <1>1, <1>8 DEF Written
  <2> QED BY <2>2, <2>3, <2>4
<1> HIDE DEF T, b0
<1>12. ASSUME NEW q \in Producers PROVE LivesIn(q)'
  <2>1. ASSUME NEW n \in Nat, n < ReachOf(q)', Undone(q, n)' PROVE HasBlock(q, BlockBase(n))'
    <3>1. HasBlock(q, BlockBase(n))
      BY <1>5, <1>11, <2>1 DEF Counts, LivesIn
    <3>2. BlockBase(n) \in Nat
      BY BaseIs
    <3> QED BY <1>7, <3>1, <3>2 DEF HasBlock, StoresSame
  <2> QED BY <2>1 DEF LivesIn
<1>13. ASSUME NEW q \in Producers PROVE CountedIn(q)'
  <2>1. ASSUME NEW e \in Nat, NEW k \in Nat, NEW b \in Blocks, Stores(q, e, k, b)' PROVE Sum(q, k, b)' = BLOCK_SIZE
    <3>1. Stores(q, e, k, b)
      BY <1>7, <2>1 DEF StoresSame
    <3>2. Sum(q, k, b) = BLOCK_SIZE
      BY <3>1 DEF Counts, CountedIn
    <3> QED BY <1>1, <1>5, <3>2 DEF Sum
  <2> QED BY <2>1 DEF CountedIn
<1>14. ASSUME NEW q \in Producers PROVE FilledIn(q)'
  <2>1. ASSUME NEW e \in Nat, NEW k \in Nat, NEW b \in Blocks, Stores(q, e, k, b)', NEW i \in 0 .. BLOCK_SIZE - 1,
               Undone(q, k + i)', k + i < Written(q)'
        PROVE  elements'[b][i] = <<q, k + i>>
    <3>1. Stores(q, e, k, b)
      BY <1>7, <2>1 DEF StoresSame
    <3>2. PICK e1 \in Nat : Stores(p, e1, BlockBase(T), b0)
      BY <1>3
    <3>3. k + i < Written(q) => elements[b][i] = <<q, k + i>>
      BY <1>5, <2>1, <3>1 DEF Counts, FilledIn
    <3>4. CASE b = b0
      <4>1. q = p /\ e = e1
        BY <1>3, <3>1, <3>2, <3>4 DEF Stores, OwnedOK, OwnCore, Unique
      <4>2. k = BlockBase(T)
        BY <3>1, <3>2, <4>1 DEF Stores
      <4>3. CASE i = T % BLOCK_SIZE
        <5>1. k + i = T
          BY <1>8, <1>9, <4>2, <4>3
        <5> QED BY <1>10, <3>4, <4>1, <4>3, <5>1
      <4>4. CASE i # T % BLOCK_SIZE
        <5>1. k + i < T
          BY <1>8, <1>9, <1>11, <2>1, <4>1, <4>2, <4>4
        <5>2. elements[b][i] = <<q, k + i>>
          BY <1>11, <3>3, <4>1, <5>1
        <5> QED BY <1>10, <3>4, <4>4, <5>2
      <4> QED BY <4>3, <4>4
    <3>5. CASE b # b0
      <4>1. k + i < Written(q)
        <5>1. CASE q # p
          BY <1>11, <2>1, <5>1
        <5>2. CASE q = p
          <6>1. /\ Multiple(k)
                /\ \A g : \A d \in Blocks : Stores(p, g, k, d) => g = e /\ d = b
            BY <3>1, <5>2, LiveKeys
          <6>2. k + i # T
            <7>1. SUFFICES ASSUME k + i = T PROVE FALSE
              OBVIOUS
            <7>2. k <= T /\ T < k + BLOCK_SIZE
              BY <1>8, <7>1
            <7>3. BlockBase(T) = k
              BY <1>8, <6>1, <7>2, BaseIs
            <7> QED BY <1>3, <3>2, <3>5, <6>1, <7>3
          <6> QED BY <1>8, <1>11, <2>1, <5>2, <6>2
        <5> QED BY <5>1, <5>2
      <4> QED BY <1>10, <3>3, <3>5, <4>1
    <3> QED BY <3>4, <3>5
  <2> QED BY <2>1 DEF FilledIn
<1>15. NoneAlike' /\ \A b : IsReleased(b) => IsReleased(b)'
  BY <1>4, SameConsumersIs
<1>16. AreReleased'
  <2>1. ASSUME NEW q \in Producers, NEW e \in Nat, NEW b \in Blocks, Placed(q, e, b)', dequeued'[b] = BLOCK_SIZE
        PROVE  IsReleased(b)'
    BY <1>1, <1>6, <1>15, <2>1 DEF Counts, AreReleased, PlacedSame
  <2> QED BY <2>1 DEF AreReleased
<1>17. InBounds'
  BY <1>1 DEF InBounds, Counts
<1>18. ASSUME NEW c \in Consumers PROVE Emptied(c)'
  BY <1>1, <1>4 DEF Counts, Emptied, SameConsumers
<1> QED BY <1>12, <1>13, <1>14, <1>15, <1>16, <1>17, <1>18 DEF Counts

\* c has claimed an element of the block of p with base k.
FlyingIn(c, p, k) == Flying(c) /\ loc[c].from = p /\ k <= loc[c].count /\ loc[c].count < k + BLOCK_SIZE

\* The sets of consumers in a step of one of them.
LEMMA OneFlies ==
    ASSUME NEW c \in Consumers, \A d \in Consumers : d # c => pc'[d] = pc[d] /\ loc'[d] = loc[d], NEW p, NEW k
    PROVE  /\ FlyingIn(c, p, k) /\ ~FlyingIn(c, p, k)'
                => Cardinality(InFlight(p, k))' = Cardinality(InFlight(p, k)) - 1
           /\ ~FlyingIn(c, p, k) /\ FlyingIn(c, p, k)'
                => Cardinality(InFlight(p, k))' = Cardinality(InFlight(p, k)) + 1
           /\ (FlyingIn(c, p, k) <=> FlyingIn(c, p, k)') => Cardinality(InFlight(p, k))' = Cardinality(InFlight(p, k))
<1> DEFINE S == InFlight(p, k)
           Z == {d \in Consumers : pc'[d] \in {"block_index", "entry"} /\ loc'[d].from = p
                                     /\ k <= loc'[d].count /\ loc'[d].count < k + BLOCK_SIZE}
<1>1. InFlight(p, k)' = Z
  BY DEF InFlight
<1>2. IsFiniteSet(S)
  BY ConsumersFinite, FS_Subset DEF InFlight
<1>3. Z \ {c} = S \ {c}
  BY DEF InFlight
<1>4. (c \in S <=> FlyingIn(c, p, k)) /\ (c \in Z <=> FlyingIn(c, p, k)')
  BY DEF InFlight, FlyingIn, Flying
<1>5. Cardinality(InFlight(p, k))' = Cardinality(Z)
  BY <1>1
<1> HIDE DEF S, Z
<1>6. /\ c \in S /\ c \notin Z => Cardinality(Z) = Cardinality(S) - 1
      /\ c \notin S /\ c \in Z => Cardinality(Z) = Cardinality(S) + 1
      /\ (c \in S <=> c \in Z) => Z = S
  BY <1>2, <1>3, OneMoves
<1> QED BY <1>4, <1>5, <1>6 DEF S

\* The number of consumers at SetEmpty of a block in a step of one of them.
LEMMA OneEmpties ==
    ASSUME NEW c \in Consumers, \A d \in Consumers : d # c => pc'[d] = pc[d] /\ loc'[d] = loc[d], NEW b
    PROVE  LET is == pc[c] = "set_empty" /\ loc[c].block = b
               now == pc'[c] = "set_empty" /\ loc'[c].block = b
           IN /\ is /\ ~now => Cardinality(Emptying(b))' = Cardinality(Emptying(b)) - 1
              /\ ~is /\ now => Cardinality(Emptying(b))' = Cardinality(Emptying(b)) + 1
              /\ (is <=> now) => Cardinality(Emptying(b))' = Cardinality(Emptying(b))
<1> DEFINE S == Emptying(b)
           Z == {d \in Consumers : pc'[d] = "set_empty" /\ loc'[d].block = b}
<1>1. Emptying(b)' = Z
  BY DEF Emptying
<1>2. IsFiniteSet(S)
  BY ConsumersFinite, FS_Subset DEF Emptying
<1>3. Z \ {c} = S \ {c}
  BY DEF Emptying
<1>4. (c \in S <=> pc[c] = "set_empty" /\ loc[c].block = b) /\ (c \in Z <=> pc'[c] = "set_empty" /\ loc'[c].block = b)
  BY DEF Emptying
<1>5. Cardinality(Emptying(b))' = Cardinality(Z)
  BY <1>1
<1> HIDE DEF S, Z
<1>6. /\ c \in S /\ c \notin Z => Cardinality(Z) = Cardinality(S) - 1
      /\ c \notin S /\ c \in Z => Cardinality(Z) = Cardinality(S) + 1
      /\ (c \in S <=> c \in Z) => Z = S
  BY <1>2, <1>3, OneMoves
<1> QED BY <1>4, <1>5, <1>6 DEF S

\* A consumer that has passed the check finds an element.
LEMMA HeadClaimed ==
    ASSUME Types, Claims, NEW c \in Consumers, pc[c] = "claim_head"
    PROVE  loc[c].from \in Producers /\ headIndex[loc[c].from] < tailIndex[loc[c].from]
<1> DEFINE p == loc[c].from
<1>1. p \in Producers
  BY DEF Types, LocTypes
<1>2. headIndex[p] + NumberAt(p, "claim_head") <= tailIndex[p]
  BY <1>1, ClaimsImply DEF HeadBehind, Claimed
<1>3. c \in ConsumersAt(p, "claim_head")
  BY DEF ConsumersAt
<1>4. IsFiniteSet(ConsumersAt(p, "claim_head")) /\ NumberAt(p, "claim_head") \in Nat
  BY Numbers
<1>5. NumberAt(p, "claim_head") # 0
  BY <1>3, <1>4, FS_EmptySet DEF NumberAt
<1>6. headIndex[p] \in Nat /\ tailIndex[p] \in Nat
  BY <1>1 DEF Types, CountTypes
<1> HIDE DEF p
<1>7. headIndex[p] < tailIndex[p]
  BY <1>2, <1>4, <1>5, <1>6
<1> QED BY <1>1, <1>7 DEF p

\* The place of a block that a consumer points to.
LEMMA PointsIs ==
    ASSUME Types, NEW c \in Consumers, Points(c), pc[c] \in {"set_empty", "release"}
    PROVE  /\ loc[c].from \in Producers /\ loc[c].at \in Nat /\ loc[c].block \in Blocks
           /\ Placed(loc[c].from, loc[c].at, loc[c].block)
           /\ \E k \in Nat : Stores(loc[c].from, loc[c].at, k, loc[c].block)
<1>1. loc[c].from \in Producers /\ loc[c].at \in Nat
  BY Members2 DEF Types, LocTypes, WfLoc
<1>2. loc[c].block \in Blocks /\ Placed(loc[c].from, loc[c].at, loc[c].block)
  BY DEF Points
<1> QED BY <1>1, <1>2, StoresHas

\* ClaimHead keeps Counts: an element that was left is on its way.
LEMMA ClaimHeadCounts ==
    ASSUME Types, Claims, Counts, \A c \in Consumers : Points(c) /\ Behind(c), \A p \in Producers : Indexed1(p),
           NEW c \in Consumers, ClaimHead(c), [Next]_vars
    PROVE  Counts'
<1> DEFINE p == loc[c].from
           h == headIndex[p]
<1>1. /\ pc[c] = "claim_head" /\ pc'[c] = "block_index" /\ loc'[c].from = p /\ loc'[c].count = h
      /\ entry' = entry /\ dequeued' = dequeued /\ elements' = elements /\ tailIndex' = tailIndex
      /\ \A u \in Threads : u # c => pc'[u] = pc[u] /\ loc'[u] = loc[u]
  BY ClaimHeadDoes DEF Locals
<1>2. headIndex' = [headIndex EXCEPT ![p] = h + 1]
  BY DEF ClaimHead
<1>3. p \in Producers /\ h \in Nat
  BY <1>1, HeadClaimed DEF Types, CountTypes
<1>4. headIndex'[p] = h + 1 /\ \A q \in Producers : q # p => headIndex'[q] = headIndex[q]
  BY <1>2, <1>3 DEF Types, CountTypes
<1>5. PlacedSame
  BY <1>1, EntriesSame DEF PlacedSame, PlacedKept
<1>6. StoresSame
  BY <1>5, AllStay, StoresKept
<1>7. \A d \in Consumers : d # c => pc'[d] = pc[d] /\ loc'[d] = loc[d]
  BY <1>1, Members2
<1>8. \A q \in Producers : ReachOf(q)' = ReachOf(q) /\ Written(q)' = Written(q)
  BY <1>1, Members, Members2 DEF ReachOf, Reach, Written
<1> HIDE DEF p, h
<1>9. ASSUME NEW q \in Producers, NEW n \in Nat PROVE Undone(q, n)' <=> Undone(q, n)
  <2>1. \A d \in Consumers : d # c =>
          ((pc'[d] \in {"block_index", "entry"} /\ loc'[d].from = q /\ loc'[d].count = n)
            <=> (pc[d] \in {"block_index", "entry"} /\ loc[d].from = q /\ loc[d].count = n))
    BY <1>7
  <2>2. CASE q # p
    <3>1. ~(pc'[c] \in {"block_index", "entry"} /\ loc'[c].from = q /\ loc'[c].count = n)
      BY <1>1, <2>2
    <3>2. ~(pc[c] \in {"block_index", "entry"} /\ loc[c].from = q /\ loc[c].count = n)
      BY <1>1
    <3>3. headIndex'[q] = headIndex[q]
      BY <1>4, <2>2
    <3> QED BY <2>1, <3>1, <3>2, <3>3 DEF Undone
  <2>3. CASE q = p
    <3>1. pc'[c] \in {"block_index", "entry"} /\ loc'[c].from = q
      BY <1>1, <2>3
    <3>2. loc'[c].count = n <=> n = h
      BY <1>1
    <3>3. ~(pc[c] \in {"block_index", "entry"})
      BY <1>1
    <3>4. headIndex'[q] = h + 1 /\ headIndex[q] = h
      BY <1>4, <2>3 DEF h
    <3>5. n >= h <=> n >= h + 1 \/ n = h
      BY <1>3
    <3> QED BY <2>1, <3>1, <3>2, <3>3, <3>4, <3>5 DEF Undone
  <2> QED BY <2>2, <2>3
<1>10. ASSUME NEW q \in Producers PROVE LivesIn(q)'
  <2>1. ASSUME NEW n \in Nat, n < ReachOf(q)', Undone(q, n)' PROVE HasBlock(q, BlockBase(n))'
    <3>1. HasBlock(q, BlockBase(n))
      BY <1>8, <1>9, <2>1 DEF Counts, LivesIn
    <3>2. BlockBase(n) \in Nat
      BY BaseIs
    <3> QED BY <1>6, <3>1, <3>2 DEF HasBlock, StoresSame
  <2> QED BY <2>1 DEF LivesIn
<1>11. ASSUME NEW q \in Producers PROVE CountedIn(q)'
  <2>1. ASSUME NEW e \in Nat, NEW k \in Nat, NEW b \in Blocks, Stores(q, e, k, b)' PROVE Sum(q, k, b)' = BLOCK_SIZE
    <3>1. Stores(q, e, k, b)
      BY <1>6, <2>1 DEF StoresSame
    <3>2. Sum(q, k, b) = BLOCK_SIZE
      BY <3>1 DEF Counts, CountedIn
    <3>3. Cardinality(Emptying(b))' = Cardinality(Emptying(b))
      BY <1>1, <1>7, OneEmpties
    <3>4. Sum(q, k, b)' = dequeued[b] + Cardinality(Emptying(b)) + Cardinality(InFlight(q, k))' + LeftIn(headIndex'[q], k)
      BY <1>1, <3>3 DEF Sum
    <3>5. /\ Cardinality(Emptying(b)) \in Nat /\ Cardinality(InFlight(q, k)) \in Nat /\ dequeued[b] \in Nat
          /\ BLOCK_SIZE \in Nat /\ BLOCK_SIZE > 1
      BY SumIs, Size
    <3>6. ~FlyingIn(c, q, k)
      BY <1>1 DEF FlyingIn, Flying
    <3>7. CASE q # p
      <4>1. ~FlyingIn(c, q, k)'
        BY <1>1, <3>7 DEF FlyingIn
      <4>2. Cardinality(InFlight(q, k))' = Cardinality(InFlight(q, k))
        BY <1>7, <3>6, <4>1, OneFlies
      <4> QED BY <1>4, <3>2, <3>4, <3>7, <4>2 DEF Sum
    <3>8. CASE q = p /\ k <= h /\ h < k + BLOCK_SIZE
      <4>1. FlyingIn(c, q, k)'
        BY <1>1, <3>8 DEF FlyingIn, Flying
      <4>2. Cardinality(InFlight(q, k))' = Cardinality(InFlight(q, k)) + 1
        BY <1>7, <3>6, <4>1, OneFlies
      <4>3. LeftIn(headIndex'[q], k) = LeftIn(headIndex[q], k) - 1
        <5>1. headIndex'[q] = h + 1 /\ headIndex[q] = h
          BY <1>4, <3>8 DEF h
        <5> QED BY <1>3, <3>5, <3>8, <5>1 DEF LeftIn
      <4>4. LeftIn(headIndex[q], k) \in 0 .. BLOCK_SIZE
        BY SumIs
      <4> QED BY <3>2, <3>4, <3>5, <4>2, <4>3, <4>4 DEF Sum
    <3>9. CASE q = p /\ ~(k <= h /\ h < k + BLOCK_SIZE)
      <4>1. ~FlyingIn(c, q, k)'
        BY <1>1, <3>9 DEF FlyingIn
      <4>2. Cardinality(InFlight(q, k))' = Cardinality(InFlight(q, k))
        BY <1>7, <3>6, <4>1, OneFlies
      <4>3. LeftIn(headIndex'[q], k) = LeftIn(headIndex[q], k)
        <5>1. headIndex'[q] = h + 1 /\ headIndex[q] = h
          BY <1>4, <3>9 DEF h
        <5> QED BY <1>3, <3>5, <3>9, <5>1 DEF LeftIn
      <4> QED BY <3>2, <3>4, <4>2, <4>3 DEF Sum
    <3> QED BY <3>7, <3>8, <3>9
  <2> QED BY <2>1 DEF CountedIn
<1>12. ASSUME NEW q \in Producers PROVE FilledIn(q)'
  <2>1. ASSUME NEW e \in Nat, NEW k \in Nat, NEW b \in Blocks, Stores(q, e, k, b)', NEW i \in 0 .. BLOCK_SIZE - 1,
               Undone(q, k + i)', k + i < Written(q)'
        PROVE  elements'[b][i] = <<q, k + i>>
    <3>1. k + i \in Nat
      BY Size
    <3>2. Stores(q, e, k, b) /\ Undone(q, k + i) /\ k + i < Written(q)
      BY <1>6, <1>8, <1>9, <2>1, <3>1 DEF StoresSame
    <3> QED BY <1>1, <3>2 DEF Counts, FilledIn
  <2> QED BY <2>1 DEF FilledIn
<1>13. NoneAlike'
  <2>1. ASSUME NEW d \in Consumers, d # c PROVE ~Alike(c, d)' /\ ~Alike(d, c)'
    <3>1. pc'[c] # "release" /\ loc'[c].from = p /\ loc'[c].count = h
      BY <1>1
    <3>2. ~(Flying(d)' /\ loc'[d].from = p /\ loc'[d].count = h)
      <4>1. SUFFICES ASSUME Flying(d), loc[d].from = p, loc[d].count = h PROVE FALSE
        BY <1>7, <2>1 DEF Flying
      <4>2. loc[d].count < h
        BY <4>1 DEF Behind, Flying, h
      <4> QED BY <1>3, <4>1, <4>2
    <3> QED BY <3>1, <3>2 DEF Alike
  <2>2. ASSUME NEW d \in Consumers, NEW f \in Consumers, d # c, f # c, Alike(d, f)' PROVE d = f
    <3>1. Alike(d, f)
      BY <1>7, <2>2 DEF Alike, Flying
    <3> QED BY <3>1 DEF Counts, NoneAlike
  <2> QED BY <2>1, <2>2 DEF NoneAlike
<1>14. AreReleased'
  <2>1. ASSUME NEW q \in Producers, NEW e \in Nat, NEW b \in Blocks, Placed(q, e, b)', dequeued'[b] = BLOCK_SIZE
        PROVE  IsReleased(b)'
    <3>1. IsReleased(b)
      BY <1>1, <1>5, <2>1 DEF Counts, AreReleased, PlacedSame
    <3> QED BY <1>1, <1>7, <3>1 DEF IsReleased
  <2> QED BY <2>1 DEF AreReleased
<1>15. InBounds'
  BY <1>1 DEF InBounds, Counts
<1>16. ASSUME NEW d \in Consumers PROVE Emptied(d)'
  BY <1>1, <1>7 DEF Counts, Emptied
<1> QED BY <1>10, <1>11, <1>12, <1>13, <1>14, <1>15, <1>16 DEF Counts

-----------------------------------------------------------------------------
(***************************************************************************)
(* A consumer finds the entry of its element from whichever block index it *)
(* read.                                                                   *)
(***************************************************************************)

\* The keys of a block index are as far apart as their slots.
LEMMA KeysApart ==
    ASSUME Types, NEW p \in Producers, Indexed1(p), NEW i \in 1 .. Len(blockIndex[p])
    PROVE  \E k \in Int : \A s \in 0 .. Capacity(blockIndex[p][i]) - 1 :
             Used(EntryAt(p, i, s).key) => \E m \in Int :
               EntryAt(p, i, s).key = k + BLOCK_SIZE * (s + Capacity(blockIndex[p][i]) * m)
<1>1. /\ RingTypes(tailIndex[p], Capacity(Cur(p)), Cur(p).tail, KeysOf(p))
      /\ Current(p) = Len(blockIndex[p]) /\ Current(p) \in Nat
      /\ Cur(p) = blockIndex[p][Current(p)]
      /\ \A s \in 0 .. Capacity(Cur(p)) - 1 : KeysOf(p)[s] = entry[p][Cur(p).index[s]].key
  BY CurIs
<1>2. CASE i = Current(p)
  <2>1. \E k \in Int : \A s \in 0 .. Capacity(Cur(p)) - 1 : Used(KeysOf(p)[s]) => \E m \in Int :
           KeysOf(p)[s] = k + BLOCK_SIZE * (s + Capacity(Cur(p)) * m)
    <3>1. Ring(pc[p], tailIndex[p], loc[p].at, Capacity(Cur(p)), Cur(p).tail, Cur(p).index, KeysOf(p), ValuesOf(p))
      BY DEF Indexed1, RingOf
    <3>2. RingTypes(tailIndex[p], Capacity(Cur(p)), Cur(p).tail, KeysOf(p))
      BY <1>1
    <3> DEFINE l == pc[p]
               T == tailIndex[p]
               at == loc[p].at
               cap == Capacity(Cur(p))
               tail == Cur(p).tail
               idx == Cur(p).index
               K == KeysOf(p)
               V == ValuesOf(p)
    <3>3. Ring(l, T, at, cap, tail, idx, K, V) /\ RingTypes(T, cap, tail, K)
      BY <3>1, <3>2
    <3> HIDE DEF l, T, at, cap, tail, idx, K, V
    <3>4. \E k \in Int : \A s \in 0 .. cap - 1 : Used(K[s]) => \E m \in Int :
            K[s] = k + BLOCK_SIZE * (s + cap * m)
      BY SMTT(40), <3>3, RingPhase
    <3> QED BY <3>4 DEF cap, K
  <2>2. Cur(p) = blockIndex[p][i]
    BY <1>1, <1>2
  <2>3. \A s \in 0 .. Capacity(Cur(p)) - 1 : KeysOf(p)[s] = EntryAt(p, i, s).key
    BY <1>1, <2>2 DEF EntryAt
  <2>4. PICK k \in Int : \A s \in 0 .. Capacity(Cur(p)) - 1 : Used(KeysOf(p)[s]) => \E m \in Int :
           KeysOf(p)[s] = k + BLOCK_SIZE * (s + Capacity(Cur(p)) * m)
    BY <2>1
  <2>5. ASSUME NEW s \in 0 .. Capacity(Cur(p)) - 1, Used(EntryAt(p, i, s).key)
        PROVE  \E m \in Int : EntryAt(p, i, s).key = k + BLOCK_SIZE * (s + Capacity(Cur(p)) * m)
    <3>1. EntryAt(p, i, s).key = KeysOf(p)[s]
      BY <2>3
    <3>2. PICK m \in Int : KeysOf(p)[s] = k + BLOCK_SIZE * (s + Capacity(Cur(p)) * m)
      BY <2>4, <2>5, <3>1
    <3> WITNESS m \in Int
    <3> QED BY <3>1, <3>2
  <2>6. \A s \in 0 .. Capacity(Cur(p)) - 1 : Used(EntryAt(p, i, s).key) =>
           \E m \in Int : EntryAt(p, i, s).key = k + BLOCK_SIZE * (s + Capacity(Cur(p)) * m)
    BY <2>5
  <2> QED BY <2>2, <2>6
<1>3. CASE i # Current(p)
  <2>1. i \in 1 .. Len(blockIndex[p]) - 1
    BY <1>1, <1>3
  <2>2. LapOf(Capacity(blockIndex[p][i]), Capacity(Cur(p)), OldKeys(p, i))
    BY <2>1 DEF Indexed1, Laps
  <2>3. \A s \in 0 .. Capacity(blockIndex[p][i]) - 1 : OldKeys(p, i)[s] = EntryAt(p, i, s).key
    BY DEF OldKeys
  <2> QED BY <2>2, <2>3 DEF LapOf
<1> QED BY <1>2, <1>3

\* The key of slot s, m laps after k.
KeyAt(cap, k, s, m) == k + BLOCK_SIZE * (s + cap * m)

\* The slot with key y, found from slot s with key x.
SlotFrom(cap, s, x, y) == (s + ((y - x) \div BLOCK_SIZE)) % cap

\* The slot that is found from another slot's key is the one that has the
\* key.
LEMMA LapComesTo ==
    ASSUME NEW cap \in Nat, cap > 0, NEW k \in Int, NEW s \in 0 .. cap - 1, NEW z \in 0 .. cap - 1,
           NEW x \in Int, NEW y \in Int, NEW m \in Int, NEW n \in Int,
           x = KeyAt(cap, k, s, m), y = KeyAt(cap, k, z, n)
    PROVE  SlotFrom(cap, s, x, y) = z
<1>1. x = k + BLOCK_SIZE * (s + cap * m) /\ y = k + BLOCK_SIZE * (z + cap * n)
  BY DEF KeyAt
<1>2. (s + ((y - x) \div BLOCK_SIZE)) % cap = z
  <2> DEFINE u == s + cap * m
             v == z + cap * n
  <2>1. u \in Int /\ v \in Int
    BY Size
  <2>2. v - u + s = (n - m) * cap + z
    OBVIOUS
  <2>3. x = k + BLOCK_SIZE * u /\ y = k + BLOCK_SIZE * v
    BY <1>1
  <2> HIDE DEF u, v
  <2>4. y - x = BLOCK_SIZE * (v - u)
    BY <2>1, <2>3, Size
  <2>5. (y - x) \div BLOCK_SIZE = v - u
    <3> DEFINE w == v - u
    <3>1. w \in Int
      BY <2>1
    <3> HIDE DEF w
    <3>2. (BLOCK_SIZE * w) \div BLOCK_SIZE = w
      BY <3>1, Size, Cancels
    <3> QED BY <2>4, <3>2 DEF w
  <2>6. s + (v - u) = (n - m) * cap + z
    BY <2>1, <2>2
  <2>7. ((n - m) * cap + z) % cap = z
    <3> DEFINE q == n - m
    <3>1. q \in Int
      OBVIOUS
    <3> HIDE DEF q
    <3>2. (q * cap + z) % cap = z
      BY <3>1, ModIs
    <3> QED BY <3>2 DEF q
  <2> QED BY <2>5, <2>6, <2>7
<1> QED BY <1>2 DEF SlotFrom

\* The entry that a consumer comes to is the one of its element.
\* The entry that is found from the distance to the entry at a slot.
LEMMA FindsFor ==
    ASSUME Types, NEW p \in Producers, Indexed1(p), NEW f, f.from = p,
           f.header \in 1 .. Len(blockIndex[p]), f.slot \in 0 .. Capacity(blockIndex[p][f.header]) - 1,
           Used(EntryAt(p, f.header, f.slot).key), NEW b \in Blocks,
           NEW z \in 0 .. Capacity(blockIndex[p][f.header]) - 1,
           Stores(p, blockIndex[p][f.header].index[z], BlockBase(f.count), b)
    PROVE  EntryOf(f) = blockIndex[p][f.header].index[z]
<1> DEFINE h == blockIndex[p][f.header]
           cap == Capacity(h)
           n == BlockBase(f.count)
           x == entry[p][h.index[f.slot]].key
<1>3. cap \in Nat /\ cap > 1
  BY DEF Types, IndexTypes
<1>6. n # INVALID_BLOCK_BASE /\ n \in Nat /\ entry[p][h.index[z]].key = n
  <2>2. n # INVALID_BLOCK_BASE /\ n \in Nat
    BY LiveKeys
  <2> QED BY <2>2 DEF Stores
<1>7. PICK k \in Int : \A s \in 0 .. cap - 1 : Used(entry[p][h.index[s]].key) => \E m \in Int :
              entry[p][h.index[s]].key = k + BLOCK_SIZE * (s + cap * m)
  BY ZenonT(40), KeysApart DEF EntryAt
<1>8. Used(x)
  BY DEF EntryAt
<1>9. PICK m \in Int : x = k + BLOCK_SIZE * (f.slot + cap * m)
  BY Zenon, <1>7, <1>8
<1>10. PICK l \in Int : n = k + BLOCK_SIZE * (z + cap * l)
  BY Zenon, <1>6, <1>7 DEF Used
<1>11. EntryOf(f) = h.index[(f.slot + ((n - x) \div BLOCK_SIZE)) % cap]
  BY DEF EntryOf
<1>12. x \in Nat
  <2>1. h.index \in [0 .. cap - 1 -> 1 .. Len(entry[p])]
    BY DEF Types, IndexTypes
  <2>2. entry[p] \in Seq(Entry)
    BY DEF Types, IndexTypes
  <2> HIDE DEF h, cap
  <2>4. h.index[f.slot] \in 1 .. Len(entry[p])
    BY <2>1 DEF cap, h
  <2>3. entry[p][h.index[f.slot]] \in Entry
    BY <2>2, <2>4
  <2> QED BY <2>3 DEF Entry
<1>a. f.slot \in 0 .. cap - 1 /\ z \in 0 .. cap - 1
  OBVIOUS
<1> HIDE DEF x, n, h, cap
<1>13. (f.slot + ((n - x) \div BLOCK_SIZE)) % cap = z
  <2>1. cap \in Nat /\ cap > 0 /\ n \in Int /\ x \in Int
    BY <1>3, <1>6, <1>12
  <2>2. x = KeyAt(cap, k, f.slot, m) /\ n = KeyAt(cap, k, z, l)
    BY <1>9, <1>10 DEF KeyAt
  <2>3. SlotFrom(cap, f.slot, x, n) = z
    BY <1>a, <2>1, <2>2, LapComesTo
  <2> QED BY <2>3 DEF SlotFrom
<1>14. EntryOf(f) = h.index[z]
  BY <1>11, <1>13
<1> QED BY <1>14 DEF h

\* The entry that a consumer comes to is the one of its element.
LEMMA FindsIs ==
    ASSUME Types, NEW c \in Consumers, pc[c] = "entry", Finds(c), LoadedOne(c), \A p \in Producers : Indexed1(p)
    PROVE  /\ loc[c].from \in Producers /\ EntryOf(loc[c]) \in Nat
           /\ \E b \in Blocks : Stores(loc[c].from, EntryOf(loc[c]), BlockBase(loc[c].count), b)
<1>1. loc[c].from \in Producers /\ EntryOf(loc[c]) \in Nat
  BY EntryTyped
<1>2. PICK p \in Producers : p = loc[c].from
  BY <1>1
<1>3. PICK f : f = loc[c]
  OBVIOUS
<1>4. /\ f.from = p
      /\ f.header \in 1 .. Len(blockIndex[p]) /\ f.slot \in 0 .. Capacity(blockIndex[p][f.header]) - 1
  BY <1>2, <1>3 DEF Types, IndexTypes
<1>5. Used(EntryAt(p, f.header, f.slot).key) /\ Indexed1(p)
  BY <1>2, <1>3 DEF LoadedOne
<1>6. PICK z \in 0 .. Capacity(blockIndex[p][f.header]) - 1 :
        \E b \in Blocks : Stores(p, blockIndex[p][f.header].index[z], BlockBase(f.count), b)
  BY <1>2, <1>3 DEF Finds
<1>7. PICK b \in Blocks : Stores(p, blockIndex[p][f.header].index[z], BlockBase(f.count), b)
  BY <1>6
<1>8. EntryOf(f) = blockIndex[p][f.header].index[z]
  BY <1>4, <1>5, <1>7, FindsFor
<1>9. Stores(p, EntryOf(f), BlockBase(f.count), b)
  BY <1>7, <1>8
<1> QED BY <1>1, <1>2, <1>3, <1>9

\* MoveElement keeps Counts: an element on its way is being emptied.
LEMMA MoveElementCounts ==
    ASSUME Types, OwnedOK, Counts, \A c \in Consumers : Points(c) /\ Behind(c) /\ LoadedOne(c) /\ Finds(c),
           \A p \in Producers : Indexed1(p), NEW c \in Consumers, MoveElement(c), [Next]_vars
    PROVE  Counts'
<1> USE DEF Flying
<1>1. pc[c] = "entry" /\ loc[c].from \in Producers /\ EntryOf(loc[c]) \in Nat
  BY MoveElementDoes, FindsIs
<1>2. PICK b0 \in Blocks : Stores(loc[c].from, EntryOf(loc[c]), BlockBase(loc[c].count), b0)
  BY <1>1, FindsIs
<1>3. PICK p \in Producers : p = loc[c].from
  BY <1>1
<1>4. PICK e0 \in Nat : e0 = EntryOf(loc[c])
  BY <1>1
<1>5. loc[c].count \in Nat
  BY Members2 DEF Types, LocTypes, WfLoc
<1>6. PICK n \in Nat : n = loc[c].count
  BY <1>5
<1>7. Stores(p, e0, BlockBase(n), b0) /\ entry[p][e0].value = b0
  BY <1>2, <1>3, <1>4, <1>6 DEF Stores, Placed
<1>8. /\ pc'[c] = "set_empty" /\ loc'[c].block = b0
      /\ entry' = entry /\ dequeued' = dequeued /\ tailIndex' = tailIndex /\ headIndex' = headIndex
      /\ \A u \in Threads : u # c => pc'[u] = pc[u] /\ loc'[u] = loc[u]
  BY <1>3, <1>4, <1>7, MoveElementDoes DEF Locals
<1>9. elements' = [elements EXCEPT ![b0][n % BLOCK_SIZE] = None]
  BY <1>3, <1>4, <1>6, <1>7 DEF MoveElement
<1>10. PlacedSame
  BY <1>8, EntriesSame DEF PlacedSame, PlacedKept
<1>11. StoresSame
  BY <1>10, AllStay, StoresKept
<1>12. \A d \in Consumers : d # c => pc'[d] = pc[d] /\ loc'[d] = loc[d]
  BY <1>8, Members2
<1>13. \A q \in Producers : ReachOf(q)' = ReachOf(q) /\ Written(q)' = Written(q)
  BY <1>8, Members, Members2 DEF ReachOf, Reach, Written
<1>14. ASSUME NEW q \in Producers, NEW m \in Nat
       PROVE  Undone(q, m)' <=> Undone(q, m) /\ ~(q = p /\ m = n)
  <2>1. \A d \in Consumers : d # c =>
          ((pc'[d] \in {"block_index", "entry"} /\ loc'[d].from = q /\ loc'[d].count = m)
            <=> (pc[d] \in {"block_index", "entry"} /\ loc[d].from = q /\ loc[d].count = m))
    BY <1>12
  <2>2. ~(pc'[c] \in {"block_index", "entry"})
    BY <1>8
  <2>3. (pc[c] \in {"block_index", "entry"} /\ loc[c].from = q /\ loc[c].count = m) <=> (q = p /\ m = n)
    BY <1>1, <1>3, <1>6
  <2>4. n < headIndex[p] /\ headIndex[p] \in Nat
    BY <1>1, <1>3, <1>6 DEF Behind, Types, CountTypes
  <2>5. q = p /\ m = n => \A d \in Consumers : d # c =>
          ~(pc[d] \in {"block_index", "entry"} /\ loc[d].from = q /\ loc[d].count = m)
    BY <1>1, <1>3, <1>6 DEF Counts, NoneAlike, Alike
  <2>6. q = p /\ m = n => ~(m >= headIndex[q])
    BY <2>4
  <2> QED BY <1>8, <2>1, <2>2, <2>3, <2>5, <2>6 DEF Undone
<1>15. BlockBase(n) \in Nat /\ n % BLOCK_SIZE \in 0 .. BLOCK_SIZE - 1 /\ n % BLOCK_SIZE = n - BlockBase(n)
       /\ BlockBase(n) <= n /\ n < BlockBase(n) + BLOCK_SIZE
  BY BaseIs
<1>16. ASSUME NEW q \in Producers, NEW e \in Nat, NEW k \in Nat, NEW b \in Blocks, Stores(q, e, k, b)
       PROVE  /\ b = b0 <=> (q = p /\ k = BlockBase(n))
              /\ q = p /\ k <= n /\ n < k + BLOCK_SIZE => k = BlockBase(n)
  <2>1. b = b0 => q = p /\ e = e0
    BY <1>7, <1>16 DEF Stores, OwnedOK, OwnCore, Unique
  <2>2. b = b0 => k = BlockBase(n)
    BY <1>7, <1>16, <2>1 DEF Stores
  <2>3. /\ Multiple(k)
        /\ \A g : \A d \in Blocks : Stores(q, g, k, d) => g = e /\ d = b
    BY <1>16, LiveKeys
  <2>4. q = p /\ k = BlockBase(n) => b = b0
    BY <1>7, <2>3
  <2>5. k <= n /\ n < k + BLOCK_SIZE => k = BlockBase(n)
    BY <2>3, BaseIs
  <2> QED BY <2>1, <2>2, <2>4, <2>5
<1>17. /\ \A i \in 0 .. BLOCK_SIZE - 1 : i # n % BLOCK_SIZE => elements'[b0][i] = elements[b0][i]
       /\ \A b \in Blocks : b # b0 => elements'[b] = elements[b]
  <2>1. elements \in [Blocks -> Elements]
    BY DEF Types, BlockTypes
  <2>2. DOMAIN elements[b0] = 0 .. BLOCK_SIZE - 1
    BY <2>1 DEF Elements
  <2>3. elements'[b0] = [elements[b0] EXCEPT ![n % BLOCK_SIZE] = None]
    BY <1>9, <2>1
  <2>4. ASSUME NEW i \in 0 .. BLOCK_SIZE - 1, i # n % BLOCK_SIZE PROVE elements'[b0][i] = elements[b0][i]
    BY <2>2, <2>3, <2>4
  <2> QED BY <1>9, <2>1, <2>4
<1>18. ASSUME NEW q \in Producers PROVE LivesIn(q)'
  <2>1. ASSUME NEW m \in Nat, m < ReachOf(q)', Undone(q, m)' PROVE HasBlock(q, BlockBase(m))'
    <3>1. HasBlock(q, BlockBase(m))
      BY <1>13, <1>14, <2>1 DEF Counts, LivesIn
    <3>2. BlockBase(m) \in Nat
      BY BaseIs
    <3> QED BY <1>11, <3>1, <3>2 DEF HasBlock, StoresSame
  <2> QED BY <2>1 DEF LivesIn
<1>19. ASSUME NEW q \in Producers PROVE CountedIn(q)'
  <2>1. ASSUME NEW e \in Nat, NEW k \in Nat, NEW b \in Blocks, Stores(q, e, k, b)' PROVE Sum(q, k, b)' = BLOCK_SIZE
    <3>1. Stores(q, e, k, b)
      BY <1>11, <2>1 DEF StoresSame
    <3>2. Sum(q, k, b) = BLOCK_SIZE
      BY <3>1 DEF Counts, CountedIn
    <3>3. Sum(q, k, b)' = dequeued[b] + Cardinality(Emptying(b))' + Cardinality(InFlight(q, k))' + LeftIn(headIndex[q], k)
      BY <1>8 DEF Sum
    <3>4. /\ Cardinality(Emptying(b)) \in Nat /\ Cardinality(InFlight(q, k)) \in Nat /\ dequeued[b] \in Nat
          /\ LeftIn(headIndex[q], k) \in 0 .. BLOCK_SIZE
          /\ BLOCK_SIZE \in Nat /\ BLOCK_SIZE > 1
      BY SumIs, Size
    <3>5. ~FlyingIn(c, q, k)' /\ (FlyingIn(c, q, k) <=> q = p /\ k <= n /\ n < k + BLOCK_SIZE)
      BY <1>1, <1>3, <1>6, <1>8 DEF FlyingIn
    <3>6. FlyingIn(c, q, k) <=> b = b0
      BY <1>15, <1>16, <3>1, <3>5
    <3>7. pc[c] # "set_empty" /\ pc'[c] = "set_empty" /\ loc'[c].block = b0
      BY <1>1, <1>8
    <3>8. CASE b = b0
      <4>1. Cardinality(InFlight(q, k))' = Cardinality(InFlight(q, k)) - 1
        BY <1>12, <3>5, <3>6, <3>8, OneFlies
      <4>2. Cardinality(Emptying(b))' = Cardinality(Emptying(b)) + 1
        BY <1>12, <3>7, <3>8, OneEmpties
      <4> QED BY <3>2, <3>3, <3>4, <4>1, <4>2 DEF Sum
    <3>9. CASE b # b0
      <4>1. Cardinality(InFlight(q, k))' = Cardinality(InFlight(q, k))
        BY <1>12, <3>5, <3>6, <3>9, OneFlies
      <4>2. Cardinality(Emptying(b))' = Cardinality(Emptying(b))
        BY <1>12, <3>7, <3>9, OneEmpties
      <4> QED BY <3>2, <3>3, <4>1, <4>2 DEF Sum
    <3> QED BY <3>8, <3>9
  <2> QED BY <2>1 DEF CountedIn
<1>20. ASSUME NEW q \in Producers PROVE FilledIn(q)'
  <2>1. ASSUME NEW e \in Nat, NEW k \in Nat, NEW b \in Blocks, Stores(q, e, k, b)', NEW i \in 0 .. BLOCK_SIZE - 1,
               Undone(q, k + i)', k + i < Written(q)'
        PROVE  elements'[b][i] = <<q, k + i>>
    <3>1. k + i \in Nat
      BY Size
    <3>2. Stores(q, e, k, b) /\ Undone(q, k + i) /\ k + i < Written(q) /\ ~(q = p /\ k + i = n)
      BY <1>11, <1>13, <1>14, <2>1, <3>1 DEF StoresSame
    <3>3. elements[b][i] = <<q, k + i>>
      BY <3>2 DEF Counts, FilledIn
    <3>4. CASE b = b0
      <4>1. q = p /\ k = BlockBase(n)
        BY <1>16, <3>2, <3>4
      <4>2. i # n % BLOCK_SIZE
        BY <1>15, <3>2, <4>1
      <4> QED BY <1>17, <3>3, <3>4, <4>2
    <3>5. CASE b # b0
      BY <1>17, <3>3, <3>5
    <3> QED BY <3>4, <3>5
  <2> QED BY <2>1 DEF FilledIn
<1>21. NoneAlike'
  <2>1. ASSUME NEW d \in Consumers, NEW f \in Consumers, Alike(d, f)' PROVE d = f
    <3>1. d # c /\ f # c
      BY <1>8, <2>1 DEF Alike
    <3>2. Alike(d, f)
      BY <1>12, <2>1, <3>1 DEF Alike
    <3> QED BY <3>2 DEF Counts, NoneAlike
  <2> QED BY <2>1 DEF NoneAlike
<1>22. AreReleased'
  <2>1. ASSUME NEW q \in Producers, NEW e \in Nat, NEW b \in Blocks, Placed(q, e, b)', dequeued'[b] = BLOCK_SIZE
        PROVE  IsReleased(b)'
    <3>1. IsReleased(b)
      BY <1>8, <1>10, <2>1 DEF Counts, AreReleased, PlacedSame
    <3> QED BY <1>1, <1>12, <3>1 DEF IsReleased
  <2> QED BY <2>1 DEF AreReleased
<1>23. InBounds'
  BY <1>8 DEF InBounds, Counts
<1>24. ASSUME NEW d \in Consumers PROVE Emptied(d)'
  BY <1>8, <1>12 DEF Counts, Emptied
<1> QED BY <1>18, <1>19, <1>20, <1>21, <1>22, <1>23, <1>24 DEF Counts

\* What a block holds of elements while a consumer empties it.
LEMMA EmptyingOne ==
    ASSUME Types, Counts, NEW c \in Consumers, Points(c), pc[c] = "set_empty"
    PROVE  dequeued[loc[c].block] <= BLOCK_SIZE - 1
<1>1. /\ loc[c].from \in Producers /\ loc[c].at \in Nat /\ loc[c].block \in Blocks
      /\ \E k \in Nat : Stores(loc[c].from, loc[c].at, k, loc[c].block)
  BY PointsIs
<1>2. PICK k \in Nat : Stores(loc[c].from, loc[c].at, k, loc[c].block)
  BY <1>1
<1> DEFINE p == loc[c].from
           b == loc[c].block
<1>3. Sum(p, k, b) = BLOCK_SIZE
  BY <1>1, <1>2 DEF Counts, CountedIn
<1>4. c \in Emptying(b)
  BY DEF Emptying
<1>5. /\ IsFiniteSet(Emptying(b)) /\ Cardinality(Emptying(b)) \in Nat /\ Cardinality(InFlight(p, k)) \in Nat
      /\ dequeued[b] \in Nat /\ LeftIn(headIndex[p], k) \in 0 .. BLOCK_SIZE /\ BLOCK_SIZE \in Nat
  BY <1>1, SumIs, Size
<1>6. Cardinality(Emptying(b)) # 0
  BY <1>4, <1>5, FS_EmptySet
<1> HIDE DEF p, b
<1>7. dequeued[b] <= BLOCK_SIZE - 1
  BY <1>3, <1>5, <1>6 DEF Sum
<1> QED BY <1>7 DEF b

\* SetEmpty keeps Counts: the counter goes up, and the consumer that fills it
\* releases the block.
LEMMA SetEmptyCounts ==
    ASSUME Types, OwnedOK, Counts, \A c \in Consumers : Points(c), \A p \in Producers : Indexed1(p),
           NEW c \in Consumers, SetEmpty(c), [Next]_vars
    PROVE  Counts'
<1>1. /\ pc[c] = "set_empty" /\ dequeued' = [dequeued EXCEPT ![loc[c].block] = @ + 1]
      /\ dequeued[loc[c].block] = BLOCK_SIZE - 1 => pc'[c] = "release" /\ loc'[c] = loc[c]
      /\ dequeued[loc[c].block] # BLOCK_SIZE - 1 => pc'[c] = "idle" /\ loc'[c] = NoLocals
      /\ entry' = entry /\ elements' = elements /\ tailIndex' = tailIndex /\ headIndex' = headIndex
      /\ \A u \in Threads : u # c => pc'[u] = pc[u] /\ loc'[u] = loc[u]
  BY SetEmptyDoes
<1>2. loc[c].block \in Blocks /\ dequeued[loc[c].block] <= BLOCK_SIZE - 1
  BY <1>1, PointsIs, EmptyingOne
<1>3. PICK b0 \in Blocks : b0 = loc[c].block
  BY <1>2
<1>4. dequeued \in [Blocks -> Nat] /\ BLOCK_SIZE \in Nat /\ BLOCK_SIZE > 1
  BY Size DEF Types, BlockTypes
<1>5. /\ dequeued'[b0] = dequeued[b0] + 1 /\ dequeued[b0] <= BLOCK_SIZE - 1 /\ dequeued[b0] \in Nat
      /\ \A b \in Blocks : b # b0 => dequeued'[b] = dequeued[b]
  BY <1>1, <1>2, <1>3, <1>4
<1>6. PlacedSame
  BY <1>1, EntriesSame DEF PlacedSame, PlacedKept
<1>7. StoresSame
  BY <1>6, AllStay, StoresKept
<1>8. \A d \in Consumers : d # c => pc'[d] = pc[d] /\ loc'[d] = loc[d]
  BY <1>1, Members2
<1>9. \A q \in Producers : ReachOf(q)' = ReachOf(q) /\ Written(q)' = Written(q)
  BY <1>1, Members, Members2 DEF ReachOf, Reach, Written
<1>10. pc'[c] \in {"release", "idle"}
  BY <1>1
<1>11. ASSUME NEW q, NEW m PROVE Undone(q, m)' <=> Undone(q, m)
  <2>1. \A d \in Consumers :
          ((pc'[d] \in {"block_index", "entry"} /\ loc'[d].from = q /\ loc'[d].count = m)
            <=> (pc[d] \in {"block_index", "entry"} /\ loc[d].from = q /\ loc[d].count = m))
    BY <1>1, <1>8, <1>10
  <2> QED BY <1>1, <2>1 DEF Undone
<1>12. ASSUME NEW q \in Producers PROVE LivesIn(q)'
  <2>1. ASSUME NEW m \in Nat, m < ReachOf(q)', Undone(q, m)' PROVE HasBlock(q, BlockBase(m))'
    <3>1. HasBlock(q, BlockBase(m))
      BY <1>9, <1>11, <2>1 DEF Counts, LivesIn
    <3>2. BlockBase(m) \in Nat
      BY BaseIs
    <3> QED BY <1>7, <3>1, <3>2 DEF HasBlock, StoresSame
  <2> QED BY <2>1 DEF LivesIn
<1>13. ASSUME NEW q \in Producers PROVE CountedIn(q)'
  <2>1. ASSUME NEW e \in Nat, NEW k \in Nat, NEW b \in Blocks, Stores(q, e, k, b)' PROVE Sum(q, k, b)' = BLOCK_SIZE
    <3>1. Stores(q, e, k, b)
      BY <1>7, <2>1 DEF StoresSame
    <3>2. Sum(q, k, b) = BLOCK_SIZE
      BY <3>1 DEF Counts, CountedIn
    <3>3. Sum(q, k, b)' = dequeued'[b] + Cardinality(Emptying(b))' + Cardinality(InFlight(q, k))' + LeftIn(headIndex[q], k)
      BY <1>1 DEF Sum
    <3>4. /\ Cardinality(Emptying(b)) \in Nat /\ Cardinality(InFlight(q, k)) \in Nat /\ dequeued[b] \in Nat
          /\ LeftIn(headIndex[q], k) \in 0 .. BLOCK_SIZE
      BY SumIs
    <3>5. Cardinality(InFlight(q, k))' = Cardinality(InFlight(q, k))
      <4>1. ~FlyingIn(c, q, k) /\ ~FlyingIn(c, q, k)'
        BY <1>1, <1>10 DEF FlyingIn, Flying
      <4> QED BY <1>8, <4>1, OneFlies
    <3>6. pc[c] = "set_empty" /\ pc'[c] # "set_empty" /\ loc[c].block = b0
      BY <1>1, <1>3, <1>10
    <3>7. CASE b = b0
      <4>1. Cardinality(Emptying(b))' = Cardinality(Emptying(b)) - 1
        BY <1>8, <3>6, <3>7, OneEmpties
      <4> QED BY <1>4, <1>5, <3>2, <3>3, <3>4, <3>5, <3>7, <4>1 DEF Sum
    <3>8. CASE b # b0
      <4>1. Cardinality(Emptying(b))' = Cardinality(Emptying(b))
        BY <1>8, <3>6, <3>8, OneEmpties
      <4> QED BY <1>5, <3>2, <3>3, <3>5, <3>8, <4>1 DEF Sum
    <3> QED BY <3>7, <3>8
  <2> QED BY <2>1 DEF CountedIn
<1>14. ASSUME NEW q \in Producers PROVE FilledIn(q)'
  <2>1. ASSUME NEW e \in Nat, NEW k \in Nat, NEW b \in Blocks, Stores(q, e, k, b)', NEW i \in 0 .. BLOCK_SIZE - 1,
               Undone(q, k + i)', k + i < Written(q)'
        PROVE  elements'[b][i] = <<q, k + i>>
    <3>1. Stores(q, e, k, b) /\ Undone(q, k + i) /\ k + i < Written(q)
      BY <1>7, <1>9, <1>11, <2>1 DEF StoresSame
    <3> QED BY <1>1, <3>1 DEF Counts, FilledIn
  <2> QED BY <2>1 DEF FilledIn
<1>15. ASSUME NEW d \in Consumers, pc[d] = "release" PROVE loc[d].block \in Blocks /\ loc[d].block # b0
  <2>1. dequeued[loc[d].block] = BLOCK_SIZE /\ loc[d].block \in Blocks
    BY <1>15, PointsIs DEF Counts, Emptied
  <2> QED BY <1>4, <1>5, <2>1
<1>16. NoneAlike'
  <2>1. ASSUME NEW d \in Consumers, d # c PROVE ~Alike(c, d)' /\ ~Alike(d, c)'
    <3>1. ~(Flying(c)')
      BY <1>10 DEF Flying
    <3>2. pc'[c] = "release" => loc'[c].block = b0
      BY <1>1, <1>3
    <3>3. pc'[d] = "release" => loc'[d].block # b0
      BY <1>8, <1>15, <2>1
    <3> QED BY <3>1, <3>2, <3>3 DEF Alike
  <2>2. ASSUME NEW d \in Consumers, NEW f \in Consumers, d # c, f # c, Alike(d, f)' PROVE d = f
    <3>1. Alike(d, f)
      BY <1>8, <2>2 DEF Alike, Flying
    <3> QED BY <3>1 DEF Counts, NoneAlike
  <2> QED BY <2>1, <2>2 DEF NoneAlike
<1>17. AreReleased'
  <2>1. ASSUME NEW q \in Producers, NEW e \in Nat, NEW b \in Blocks, Placed(q, e, b)', dequeued'[b] = BLOCK_SIZE
        PROVE  IsReleased(b)'
    <3>1. CASE b = b0
      <4>1. dequeued[b0] = BLOCK_SIZE - 1
        BY <1>4, <1>5, <2>1, <3>1
      <4>2. pc'[c] = "release" /\ loc'[c].block = b0
        BY <1>1, <1>3, <4>1
      <4> QED BY <3>1, <4>2 DEF IsReleased
    <3>2. CASE b # b0
      <4>1. IsReleased(b)
        BY <1>5, <1>6, <2>1, <3>2 DEF Counts, AreReleased, PlacedSame
      <4> QED BY <1>1, <1>8, <4>1 DEF IsReleased
    <3> QED BY <3>1, <3>2
  <2> QED BY <2>1 DEF AreReleased
<1>18. InBounds'
  BY <1>4, <1>5 DEF InBounds, Counts
<1>19. ASSUME NEW d \in Consumers PROVE Emptied(d)'
  <2>1. CASE d # c
    BY <1>5, <1>8, <1>15, <2>1 DEF Counts, Emptied
  <2>2. CASE d = c
    <3>1. pc'[c] = "release" => loc'[c].block = b0 /\ dequeued'[b0] = BLOCK_SIZE
      BY <1>1, <1>3, <1>4, <1>5
    <3> QED BY <2>2, <3>1 DEF Emptied
  <2> QED BY <2>1, <2>2
<1> QED BY <1>12, <1>13, <1>14, <1>16, <1>17, <1>18, <1>19 DEF Counts

\* A block that is released holds nothing.
LEMMA ReleasedIs ==
    ASSUME Types, Counts, NEW c \in Consumers, Points(c), pc[c] = "release", NEW k \in Nat,
           Stores(loc[c].from, loc[c].at, k, loc[c].block)
    PROVE  /\ InFlight(loc[c].from, k) = {}
           /\ headIndex[loc[c].from] >= k + BLOCK_SIZE
<1> DEFINE p == loc[c].from
           b == loc[c].block
<1>1. p \in Producers /\ loc[c].at \in Nat /\ b \in Blocks
  BY PointsIs
<1>2. Sum(p, k, b) = BLOCK_SIZE /\ dequeued[b] = BLOCK_SIZE
  BY <1>1 DEF Counts, CountedIn, Emptied
<1>3. /\ Cardinality(Emptying(b)) \in Nat /\ IsFiniteSet(InFlight(p, k)) /\ Cardinality(InFlight(p, k)) \in Nat
      /\ LeftIn(headIndex[p], k) \in 0 .. BLOCK_SIZE /\ BLOCK_SIZE \in Nat /\ BLOCK_SIZE > 1
  BY <1>1, SumIs, Size
<1>4. headIndex[p] \in Nat
  BY <1>1 DEF Types, CountTypes
<1> HIDE DEF p, b
<1>5. Cardinality(InFlight(p, k)) = 0 /\ LeftIn(headIndex[p], k) = 0
  BY <1>2, <1>3 DEF Sum
<1>6. headIndex[p] >= k + BLOCK_SIZE
  BY <1>3, <1>4, <1>5 DEF LeftIn
<1>7. InFlight(p, k) = {}
  BY <1>3, <1>5, FS_EmptySet
<1> QED BY <1>6, <1>7 DEF p

\* Release keeps Counts: nothing of the block is left.
LEMMA ReleaseCounts ==
    ASSUME Types, OwnedOK, Counts, \A c \in Consumers : Points(c), \A p \in Producers : Indexed1(p),
           NEW c \in Consumers, Release(c), [Next]_vars
    PROVE  Counts'
<1>1. /\ pc[c] = "release" /\ SetValue(loc[c].from, loc[c].at, None)
      /\ pc'[c] = "give_back" /\ loc'[c] = loc[c]
      /\ dequeued' = dequeued /\ elements' = elements /\ tailIndex' = tailIndex /\ headIndex' = headIndex
      /\ \A u \in Threads : u # c => pc'[u] = pc[u] /\ loc'[u] = loc[u]
  BY ReleaseDoes
<1>2. /\ loc[c].from \in Producers /\ loc[c].at \in Nat /\ loc[c].block \in Blocks
      /\ \E k \in Nat : Stores(loc[c].from, loc[c].at, k, loc[c].block)
  BY <1>1, PointsIs
<1>3. PICK p \in Producers, e0 \in Nat, b0 \in Blocks : p = loc[c].from /\ e0 = loc[c].at /\ b0 = loc[c].block
  BY <1>2
<1>4. PICK k0 \in Nat : Stores(p, e0, k0, b0)
  BY <1>2, <1>3
<1>5. InFlight(p, k0) = {} /\ headIndex[p] >= k0 + BLOCK_SIZE
  BY <1>1, <1>3, <1>4, ReleasedIs
<1>6. ASSUME NEW q \in Producers, NEW e \in Nat, NEW b \in Blocks
      PROVE  /\ Placed(q, e, b)' <=> Placed(q, e, b) /\ ~(q = p /\ e = e0)
             /\ Placed(q, e, b) => (entry'[q][e].key = entry[q][e].key)
  <2>1. None \in MaybeBlock /\ SetValue(p, e0, None)
    BY <1>1, <1>3 DEF MaybeBlock
  <2>2. Placed(q, e, b)' <=> IF q = p /\ e = e0 THEN e \in 1 .. Len(entry[q]) /\ None = b ELSE Placed(q, e, b)
    BY <2>1, ValuePlaced
  <2>3. e \in 1 .. Len(entry[q]) => entry'[q][e].key = entry[q][e].key
    BY <2>1, ValueSet
  <2> QED BY <2>2, <2>3, Somes DEF Placed
<1>7. ASSUME NEW q \in Producers, NEW e \in Nat, NEW k \in Nat, NEW b \in Blocks
      PROVE  Stores(q, e, k, b)' <=> Stores(q, e, k, b) /\ ~(q = p /\ e = e0)
  <2>1. /\ Placed(q, e, b)' <=> Placed(q, e, b) /\ ~(q = p /\ e = e0)
        /\ Placed(q, e, b) => (entry'[q][e].key = entry[q][e].key)
    BY <1>6
  <2> QED BY <2>1 DEF Stores
<1>8. \A d \in Consumers : d # c => pc'[d] = pc[d] /\ loc'[d] = loc[d]
  BY <1>1, Members2
<1>9. \A q \in Producers : ReachOf(q)' = ReachOf(q) /\ Written(q)' = Written(q)
  BY <1>1, Members, Members2 DEF ReachOf, Reach, Written
<1>11. ASSUME NEW q, NEW m PROVE Undone(q, m)' <=> Undone(q, m)
  <2>1. \A d \in Consumers :
          ((pc'[d] \in {"block_index", "entry"} /\ loc'[d].from = q /\ loc'[d].count = m)
            <=> (pc[d] \in {"block_index", "entry"} /\ loc[d].from = q /\ loc[d].count = m))
    BY <1>1, <1>8
  <2> QED BY <1>1, <2>1 DEF Undone
<1>12. ASSUME NEW q \in Producers PROVE LivesIn(q)'
  <2>1. ASSUME NEW m \in Nat, m < ReachOf(q)', Undone(q, m)' PROVE HasBlock(q, BlockBase(m))'
    <3>1. HasBlock(q, BlockBase(m)) /\ Undone(q, m)
      BY <1>9, <1>11, <2>1 DEF Counts, LivesIn
    <3>2. BlockBase(m) \in Nat /\ BlockBase(m) <= m /\ m < BlockBase(m) + BLOCK_SIZE
      BY BaseIs
    <3>3. PICK e \in Nat, b \in Blocks : Stores(q, e, BlockBase(m), b)
      BY <3>1 DEF HasBlock
    <3>4. ~(q = p /\ e = e0)
      <4>1. SUFFICES ASSUME q = p, e = e0 PROVE FALSE
        OBVIOUS
      <4>2. BlockBase(m) = k0
        BY <1>4, <3>3, <4>1 DEF Stores
      <4>3. m < headIndex[q]
        <5>1. headIndex[p] \in Nat /\ BLOCK_SIZE \in Nat
          BY Size DEF Types, CountTypes
        <5> QED BY <1>5, <3>2, <4>1, <4>2, <5>1
      <4>4. ~(m >= headIndex[q])
        <5>1. headIndex[q] \in Nat
          BY DEF Types, CountTypes
        <5> QED BY <4>3, <5>1
      <4>5. PICK d \in Consumers : pc[d] \in {"block_index", "entry"} /\ loc[d].from = q /\ loc[d].count = m
        BY <3>1, <4>4 DEF Undone
      <4>6. d \in InFlight(p, k0)
        BY <3>2, <4>1, <4>2, <4>5 DEF InFlight
      <4> QED BY <1>5, <4>6
    <3>5. Stores(q, e, BlockBase(m), b)'
      <4>1. PICK k \in Nat : k = BlockBase(m)
        BY <3>2
      <4>2. Stores(q, e, k, b)'
        BY <1>7, <3>3, <3>4, <4>1
      <4> QED BY <4>1, <4>2
    <3> QED BY <3>5 DEF HasBlock
  <2> QED BY <2>1 DEF LivesIn
<1>13. ASSUME NEW q \in Producers PROVE CountedIn(q)'
  <2>1. ASSUME NEW e \in Nat, NEW k \in Nat, NEW b \in Blocks, Stores(q, e, k, b)' PROVE Sum(q, k, b)' = BLOCK_SIZE
    <3>1. Stores(q, e, k, b)
      BY <1>7, <2>1
    <3>2. Sum(q, k, b) = BLOCK_SIZE
      BY <3>1 DEF Counts, CountedIn
    <3>3. Sum(q, k, b)' = dequeued[b] + Cardinality(Emptying(b))' + Cardinality(InFlight(q, k))' + LeftIn(headIndex[q], k)
      BY <1>1 DEF Sum
    <3>5. Cardinality(InFlight(q, k))' = Cardinality(InFlight(q, k))
      <4>1. ~FlyingIn(c, q, k) /\ ~FlyingIn(c, q, k)'
        BY <1>1 DEF FlyingIn, Flying
      <4> QED BY <1>8, <4>1, OneFlies
    <3>6. Cardinality(Emptying(b))' = Cardinality(Emptying(b))
      <4>1. pc[c] # "set_empty" /\ pc'[c] # "set_empty"
        BY <1>1
      <4> QED BY <1>8, <4>1, OneEmpties
    <3> QED BY <3>2, <3>3, <3>5, <3>6 DEF Sum
  <2> QED BY <2>1 DEF CountedIn
<1>14. ASSUME NEW q \in Producers PROVE FilledIn(q)'
  <2>1. ASSUME NEW e \in Nat, NEW k \in Nat, NEW b \in Blocks, Stores(q, e, k, b)', NEW i \in 0 .. BLOCK_SIZE - 1,
               Undone(q, k + i)', k + i < Written(q)'
        PROVE  elements'[b][i] = <<q, k + i>>
    <3>1. Stores(q, e, k, b) /\ Undone(q, k + i) /\ k + i < Written(q)
      BY <1>7, <1>9, <1>11, <2>1
    <3> QED BY <1>1, <3>1 DEF Counts, FilledIn
  <2> QED BY <2>1 DEF FilledIn
<1>16. NoneAlike'
  <2>1. ASSUME NEW d \in Consumers, NEW f \in Consumers, Alike(d, f)' PROVE d = f
    <3>1. d # c /\ f # c
      BY <1>1, <2>1 DEF Alike, Flying
    <3>2. Alike(d, f)
      BY <1>8, <2>1, <3>1 DEF Alike, Flying
    <3> QED BY <3>2 DEF Counts, NoneAlike
  <2> QED BY <2>1 DEF NoneAlike
<1>17. AreReleased'
  <2>1. ASSUME NEW q \in Producers, NEW e \in Nat, NEW b \in Blocks, Placed(q, e, b)', dequeued'[b] = BLOCK_SIZE
        PROVE  IsReleased(b)'
    <3>1. Placed(q, e, b) /\ ~(q = p /\ e = e0)
      BY <1>6, <2>1
    <3>2. IsReleased(b)
      BY <1>1, <2>1, <3>1 DEF Counts, AreReleased
    <3>3. b # b0
      BY <1>4, <3>1 DEF Stores, OwnedOK, OwnCore, Unique
    <3>4. PICK d \in Consumers : pc[d] = "release" /\ loc[d].block = b
      BY <3>2 DEF IsReleased
    <3>5. d # c
      BY <1>3, <3>3, <3>4
    <3> QED BY <1>8, <3>4, <3>5 DEF IsReleased
  <2> QED BY <2>1 DEF AreReleased
<1>18. InBounds'
  BY <1>1 DEF InBounds, Counts
<1>19. ASSUME NEW d \in Consumers PROVE Emptied(d)'
  BY <1>1, <1>8 DEF Counts, Emptied
<1> QED BY <1>12, <1>13, <1>14, <1>16, <1>17, <1>18, <1>19 DEF Counts

-----------------------------------------------------------------------------
(***************************************************************************)
(* Every step keeps what the blocks hold.                                  *)
(***************************************************************************)

\* Every step keeps Counts.
LEMMA CountsStep ==
    ASSUME Types, Claims, IndexOK, OwnedOK, StoredOK, [Next]_vars
    PROVE  Counts'
<1>0. /\ Counts
      /\ \A p \in Producers : Indexed1(p) /\ FillsIn(p)
      /\ \A c \in Consumers : Points(c) /\ Behind(c) /\ LoadedOne(c) /\ Finds(c)
  BY DEF StoredOK, IndexOK
<1>1. CASE UNCHANGED vars
  BY <1>0, <1>1, StutterCounts
<1>2. ASSUME NEW p \in Producers, Produce(p) PROVE Counts'
  <2>1. CASE HiddenProduce(p)
    BY <1>0, <2>1, HiddenCounts
  <2>2. CASE Construct(p) /\ New(p)
    BY <1>0, <2>2, ConstructNewCounts
  <2>3. CASE Construct(p) /\ ~New(p)
    BY <1>0, <2>3, ConstructOldCounts
  <2>4. CASE Publish(p)
    BY <1>0, <2>4, PublishCounts
  <2> QED BY <1>2, <2>1, <2>2, <2>3, <2>4 DEF Produce, HiddenProduce
<1>3. ASSUME NEW c \in Consumers, Consume(c) PROVE Counts'
  <2>1. CASE HiddenConsume(c)
    BY <1>0, <2>1, HiddenConsumeCounts
  <2>2. CASE ClaimHead(c)
    BY <1>0, <2>2, ClaimHeadCounts
  <2>3. CASE MoveElement(c)
    BY <1>0, <2>3, MoveElementCounts
  <2>4. CASE SetEmpty(c)
    BY <1>0, <2>4, SetEmptyCounts
  <2>5. CASE Release(c)
    BY <1>0, <2>5, ReleaseCounts
  <2> QED BY <1>3, <2>1, <2>2, <2>3, <2>4, <2>5 DEF Consume, HiddenConsume
<1>4. ASSUME NEW t \in Threads, GivenBack(t) \/ InFreeList(t) PROVE Counts'
  BY <1>0, <1>4, GivenBackCounts
<1> QED BY <1>1, <1>2, <1>3, <1>4 DEF Next

\* A block stays where it is until the last of its elements is gone.
LEMMA StoresStay ==
    ASSUME Types, Counts, \A c \in Consumers : Points(c), \A p \in Producers : Indexed1(p), [Next]_vars,
           NEW p \in Producers, NEW e \in Nat, NEW k \in Nat, NEW b \in Blocks, Stores(p, e, k, b)
    PROVE  \/ Stores(p, e, k, b)'
           \/ /\ InFlight(p, k) = {} /\ headIndex[p] >= k + BLOCK_SIZE
              /\ \E c \in Consumers : /\ pc[c] = "release" /\ pc'[c] = "give_back"
                                      /\ loc[c].from = p /\ loc[c].at = e
                                      /\ \A u \in Threads : u # c => pc'[u] = pc[u] /\ loc'[u] = loc[u]
<1>1. Placed(p, e, b) /\ entry[p][e].key = k /\ e \in 1 .. Len(entry[p]) /\ entry[p][e].value # None
  BY Somes DEF Stores, Placed
<1>2. entry'[p][e].key = k
  <2>1. KeysStay(p)
    BY AllStay
  <2> QED BY <1>1, <2>1 DEF KeysStay
<1>3. Placed(p, e, b)' => Stores(p, e, k, b)'
  BY <1>2 DEF Stores
<1>4. entry'[p] = entry[p] => Placed(p, e, b)'
  BY <1>1, EntriesSame DEF PlacedKept
<1>5. CASE UNCHANGED vars
  BY <1>3, <1>4, <1>5 DEF vars, indexVars
<1>6. ASSUME NEW q \in Producers, Produce(q) PROVE Placed(p, e, b)'
  <2>1. CASE q = p
    BY <1>1, <1>6, <2>1, ProducePlaced DEF PlacedKept
  <2>2. CASE q # p
    BY <1>1, <1>6, <2>2, OthersOwn DEF PlacedKept
  <2> QED BY <2>1, <2>2
<1>7. ASSUME NEW c \in Consumers, Consume(c), ~Release(c) PROVE entry' = entry
  BY Zenon, <1>7 DEF Consume, Dequeue, SeemsEmpty, SeemsNonEmpty,
       AddOptimistic, Recheck, AddOvercommit, ClaimHead, LoadBlockIndex, MoveElement, SetEmpty, indexVars
<1>8. ASSUME NEW c \in Consumers, Release(c), ~Placed(p, e, b)'
      PROVE  /\ InFlight(p, k) = {} /\ headIndex[p] >= k + BLOCK_SIZE
             /\ pc[c] = "release" /\ pc'[c] = "give_back"
             /\ loc[c].from = p /\ loc[c].at = e
             /\ \A u \in Threads : u # c => pc'[u] = pc[u] /\ loc'[u] = loc[u]
  <2>1. /\ pc[c] = "release" /\ pc'[c] = "give_back" /\ SetValue(loc[c].from, loc[c].at, None)
        /\ \A u \in Threads : u # c => pc'[u] = pc[u] /\ loc'[u] = loc[u]
    BY <1>8, ReleaseDoes
  <2>2. /\ loc[c].from \in Producers /\ loc[c].at \in Nat /\ loc[c].block \in Blocks
        /\ Placed(loc[c].from, loc[c].at, loc[c].block)
    BY <2>1, PointsIs
  <2>3. loc[c].from = p /\ loc[c].at = e
    <3>1. None \in MaybeBlock
      BY DEF MaybeBlock
    <3>2. Placed(p, e, b)' <=> IF p = loc[c].from /\ e = loc[c].at THEN e \in 1 .. Len(entry[p]) /\ None = b
                               ELSE Placed(p, e, b)
      BY <2>1, <2>2, <3>1, ValuePlaced
    <3> QED BY <1>1, <1>8, <3>2
  <2>4. b = loc[c].block
    BY <1>1, <2>2, <2>3 DEF Placed
  <2>5. Stores(loc[c].from, loc[c].at, k, loc[c].block)
    BY <2>3, <2>4
  <2>6. InFlight(loc[c].from, k) = {} /\ headIndex[loc[c].from] >= k + BLOCK_SIZE
    BY <2>1, <2>5, ReleasedIs
  <2> QED BY <2>1, <2>3, <2>6
<1>9. ASSUME NEW t \in Threads, GivenBack(t) \/ InFreeList(t) PROVE entry' = entry
  BY <1>9 DEF GivenBack, InFreeList, indexVars
<1>10. \/ Placed(p, e, b)'
       \/ \E c \in Consumers : Release(c) /\ ~Placed(p, e, b)'
  BY <1>4, <1>5, <1>6, <1>7, <1>9 DEF Next, vars, indexVars
<1> QED BY <1>3, <1>8, <1>10

\* What a step of another thread, or none, leaves to a consumer.
LEMMA OthersStay ==
    ASSUME Types, [Next]_vars, NEW c \in Consumers
    PROVE  \/ pc'[c] = pc[c] /\ loc'[c] = loc[c]
           \/ Consume(c)
           \/ pc[c] = "give_back" /\ pc'[c] = "idle" /\ loc'[c] = NoLocals
<1>1. CASE UNCHANGED vars
  BY <1>1 DEF vars
<1>2. ASSUME NEW p \in Producers, Produce(p) PROVE pc'[c] = pc[c] /\ loc'[c] = loc[c]
  BY <1>2, OnlyProducer, Members2
<1>3. ASSUME NEW d \in Consumers, Consume(d), d # c PROVE pc'[c] = pc[c] /\ loc'[c] = loc[c]
  BY <1>3, OnlyConsumer, Members2
<1>4. ASSUME NEW t \in Threads, GivenBack(t)
      PROVE  \/ pc'[c] = pc[c] /\ loc'[c] = loc[c]
             \/ pc[c] = "give_back" /\ pc'[c] = "idle" /\ loc'[c] = NoLocals
  <2>1. CASE t = c
    BY <1>4, <2>1, GivenBackDoes
  <2>2. CASE t # c
    BY <1>4, <2>2, GivenBackDoes, Members2
  <2> QED BY <2>1, <2>2
<1>5. ASSUME NEW t \in Threads, InFreeList(t) PROVE pc'[c] = pc[c] /\ loc'[c] = loc[c]
  BY <1>5 DEF InFreeList
<1> QED BY <1>1, <1>2, <1>3, <1>4, <1>5 DEF Next

\* A consumer that has moved its element keeps the entry of its block.
LEMMA PointsStep ==
    ASSUME Types, Claims, IndexOK, OwnedOK, StoredOK, [Next]_vars, NEW c \in Consumers
    PROVE  Points(c)'
<1>0. /\ Counts
      /\ \A p \in Producers : Indexed1(p)
      /\ \A d \in Consumers : Points(d) /\ Behind(d) /\ LoadedOne(d) /\ Finds(d)
  BY DEF StoredOK, IndexOK
<1>1. CASE pc'[c] = pc[c] /\ loc'[c] = loc[c]
  <2>1. SUFFICES ASSUME pc[c] \in {"set_empty", "release"}
                 PROVE  Points(c)'
    BY <1>1 DEF Points
  <2>2. /\ loc[c].from \in Producers /\ loc[c].at \in Nat /\ loc[c].block \in Blocks
        /\ \E k \in Nat : Stores(loc[c].from, loc[c].at, k, loc[c].block)
    BY <1>0, <2>1, PointsIs
  <2>3. PICK p \in Producers, e \in Nat, b \in Blocks, k \in Nat :
          p = loc[c].from /\ e = loc[c].at /\ b = loc[c].block /\ Stores(p, e, k, b)
    BY <2>2
  <2>4. Stores(p, e, k, b)'
    <3>1. SUFFICES ASSUME ~Stores(p, e, k, b)' PROVE FALSE
      OBVIOUS
    <3>2. PICK d \in Consumers : /\ pc[d] = "release" /\ pc'[d] = "give_back"
                                 /\ loc[d].from = p /\ loc[d].at = e
      BY <1>0, <2>3, <3>1, StoresStay
    <3>3. Placed(loc[d].from, loc[d].at, loc[d].block) /\ dequeued[loc[d].block] = BLOCK_SIZE
      BY <1>0, <3>2 DEF Points, Counts, Emptied
    <3>4. loc[d].block = b
      BY <2>3, <3>2, <3>3 DEF Stores, Placed
    <3>5. CASE pc[c] = "set_empty"
      <4>1. dequeued[b] <= BLOCK_SIZE - 1
        BY <1>0, <2>3, <3>5, EmptyingOne
      <4> QED BY <3>3, <3>4, <4>1, Size
    <3>6. CASE pc[c] = "release"
      <4>1. c # d
        BY <1>1, <3>2
      <4>2. Alike(c, d)
        BY <2>3, <3>2, <3>4, <3>6 DEF Alike
      <4> QED BY <1>0, <4>1, <4>2 DEF Counts, NoneAlike
    <3> QED BY <2>1, <3>5, <3>6
  <2>5. Placed(p, e, b)'
    BY <2>4 DEF Stores
  <2>6. p = loc'[c].from /\ e = loc'[c].at /\ b = loc'[c].block
    BY <1>1, <2>3
  <2> QED BY <2>3, <2>5, <2>6 DEF Points
<1>2. CASE MoveElement(c)
  <2>1. /\ pc[c] = "entry" /\ loc'[c].from = loc[c].from /\ loc'[c].at = EntryOf(loc[c])
        /\ loc'[c].block = entry[loc[c].from][EntryOf(loc[c])].value /\ entry' = entry
    BY <1>2, MoveElementDoes DEF Locals
  <2>2. PICK b \in Blocks : Stores(loc[c].from, EntryOf(loc[c]), BlockBase(loc[c].count), b)
    BY <1>0, <2>1, FindsIs
  <2>3. PICK p, e : p = loc[c].from /\ e = EntryOf(loc[c])
    OBVIOUS
  <2>4. Placed(p, e, b) /\ entry[p][e].value = b
    BY <2>2, <2>3 DEF Stores, Placed
  <2>5. Placed(p, e, b)'
    BY <2>1, <2>4 DEF Placed
  <2>6. p = loc'[c].from /\ e = loc'[c].at /\ b = loc'[c].block
    BY <2>1, <2>3, <2>4
  <2> QED BY <2>5, <2>6 DEF Points
<1>3. CASE SetEmpty(c)
  <2>1. /\ pc[c] = "set_empty" /\ entry' = entry
        /\ dequeued[loc[c].block] = BLOCK_SIZE - 1 => pc'[c] = "release" /\ loc'[c] = loc[c]
        /\ dequeued[loc[c].block] # BLOCK_SIZE - 1 => pc'[c] = "idle"
    BY <1>3, SetEmptyDoes
  <2>2. CASE pc'[c] = "idle"
    BY <2>2 DEF Points
  <2>3. CASE pc'[c] = "release" /\ loc'[c] = loc[c]
    <3>1. loc[c].block \in Blocks /\ Placed(loc[c].from, loc[c].at, loc[c].block)
      BY <1>0, <2>1 DEF Points
    <3>2. PICK p, e, b : p = loc[c].from /\ e = loc[c].at /\ b = loc[c].block
      OBVIOUS
    <3>3. Placed(p, e, b)'
      BY <2>1, <3>1, <3>2 DEF Placed
    <3>4. p = loc'[c].from /\ e = loc'[c].at /\ b = loc'[c].block
      BY <2>3, <3>2
    <3> QED BY <3>1, <3>2, <3>3, <3>4 DEF Points
  <2> QED BY <2>1, <2>2, <2>3
<1>4. CASE HiddenConsume(c) \/ ClaimHead(c) \/ Release(c)
  <2>1. pc'[c] \notin {"set_empty", "release"}
    <3>1. CASE HiddenConsume(c)
      <4>1. SameView(c) /\ pc[c] \notin {"set_empty", "release"}
        <5>1. SameView(c)
          BY <3>1, HiddenView
        <5>2. pc[c] \notin {"set_empty", "release"}
          BY <3>1, DequeueDoes, SeemsEmptyDoes, SeemsNonEmptyDoes, AddOptimisticDoes, RecheckDoes, AddOvercommitDoes,
             LoadBlockIndexDoes DEF HiddenConsume
        <5> QED BY <5>1, <5>2
      <4> QED BY <4>1 DEF SameView
    <3>2. CASE ClaimHead(c)
      BY <3>2, ClaimHeadDoes
    <3>3. CASE Release(c)
      BY <3>3, ReleaseDoes
    <3> QED BY <1>4, <3>1, <3>2, <3>3
  <2> QED BY <2>1 DEF Points
<1>5. CASE pc'[c] = "idle"
  BY <1>5 DEF Points
<1> QED BY <1>1, <1>2, <1>3, <1>4, <1>5, OthersStay DEF Consume, HiddenConsume

\* The blocks of p reach beyond what it has enqueued.
LEMMA ReachIs ==
    ASSUME Types, NEW p \in Producers
    PROVE  tailIndex[p] <= ReachOf(p) /\ ReachOf(p) \in Nat /\ Written(p) \in Nat /\ tailIndex[p] <= Written(p)
<1>1. tailIndex[p] \in Nat /\ BLOCK_SIZE \in Nat
  BY Size DEF Types, CountTypes
<1>2. BlockBase(tailIndex[p]) \in Nat /\ tailIndex[p] < BlockBase(tailIndex[p]) + BLOCK_SIZE
  BY <1>1, BaseIs
<1>3. Written(p) \in Nat /\ tailIndex[p] <= Written(p)
  BY <1>1 DEF Written
<1>4. tailIndex[p] <= ReachOf(p) /\ ReachOf(p) \in Nat
  BY <1>1, <1>2 DEF ReachOf, Reach
<1> QED BY <1>3, <1>4

\* The block of a consumer's element stays in an entry of the index that it
\* read.
LEMMA FindsStep ==
    ASSUME Types, Claims, IndexOK, OwnedOK, StoredOK, [Next]_vars, NEW c \in Consumers
    PROVE  Finds(c)'
<1>0. /\ Counts
      /\ \A p \in Producers : Indexed1(p)
      /\ \A d \in Consumers : Points(d) /\ Behind(d) /\ LoadedOne(d) /\ Finds(d)
  BY DEF StoredOK, IndexOK
<1>a. loc[c].count \in Nat
  BY SMTT(40), Members2 DEF Types, LocTypes, WfLoc
<1>1. CASE LoadBlockIndex(c)
  <2>1. /\ pc[c] = "block_index" /\ loc'[c].from = loc[c].from /\ loc'[c].count = loc[c].count
        /\ loc'[c].header = Current(loc[c].from) /\ entry' = entry /\ blockIndex' = blockIndex
    BY <1>1, LoadBlockIndexDoes DEF Locals
  <2>2. loc[c].from \in Producers
    BY <2>1 DEF Types, LocTypes
  <2>3. PICK p \in Producers, n \in Nat : p = loc[c].from /\ n = loc[c].count
    BY <2>2, <1>a
  <2>4. n < ReachOf(p) /\ Undone(p, n)
    <3>1. n < headIndex[p] /\ headIndex[p] <= tailIndex[p] /\ tailIndex[p] <= ReachOf(p)
      BY <1>0, <2>1, <2>3, ClaimsImply, ReachIs DEF Behind
    <3>2. headIndex[p] \in Nat /\ tailIndex[p] \in Nat /\ ReachOf(p) \in Nat
      BY ReachIs DEF Types, CountTypes
    <3>3. Undone(p, n)
      BY <2>1, <2>3 DEF Undone
    <3> QED BY <3>1, <3>2, <3>3
  <2>5. PICK e \in Nat, b \in Blocks : Stores(p, e, BlockBase(n), b)
    BY <1>0, <2>4 DEF Counts, LivesIn, HasBlock
  <2>6. PICK s \in 0 .. Capacity(Cur(p)) - 1 : Cur(p).index[s] = e
    BY <1>0, <2>5, SlotOf DEF Stores
  <2>7. Cur(p) = blockIndex[p][Current(p)]
    BY CurIs
  <2>8. PICK i : i = Current(p)
    OBVIOUS
  <2>9. /\ s \in 0 .. Capacity(blockIndex[p][i]) - 1
        /\ Stores(p, blockIndex[p][i].index[s], BlockBase(n), b)
    BY <2>5, <2>6, <2>7, <2>8
  <2>10. Stores(p, blockIndex[p][i].index[s], BlockBase(n), b)'
    BY <2>1, <2>9 DEF Stores, Placed
  <2>11. p = loc'[c].from /\ n = loc'[c].count /\ i = loc'[c].header
    BY <2>1, <2>3, <2>8
  <2>12. s \in 0 .. Capacity(blockIndex'[p][i]) - 1
    BY <2>1, <2>9
  <2> QED BY <2>10, <2>11, <2>12 DEF Finds
<1>2. CASE ~LoadBlockIndex(c)
  <2>1. pc'[c] = "entry" => pc[c] = "entry" /\ loc'[c] = loc[c]
    BY <1>2, StaysOne
  <2>2. SUFFICES ASSUME pc'[c] = "entry" PROVE Finds(c)'
    BY DEF Finds
  <2>3. pc[c] = "entry" /\ loc'[c] = loc[c]
    BY <2>1, <2>2
  <2>4. loc[c].from \in Producers /\ loc[c].header \in 1 .. Len(blockIndex[loc[c].from])
    BY <2>3 DEF Types, LocTypes, IndexTypes
  <2>5a. PICK p \in Producers, n \in Nat : p = loc[c].from /\ n = loc[c].count
    BY <2>4, <1>a
  <2>5. PICK i \in 1 .. Len(blockIndex[p]) : p = loc[c].from /\ n = loc[c].count /\ i = loc[c].header
    BY <2>4, <2>5a
  <2>6. PICK s \in 0 .. Capacity(blockIndex[p][i]) - 1 :
          \E b \in Blocks : Stores(p, blockIndex[p][i].index[s], BlockBase(n), b)
    BY <1>0, <2>3, <2>5 DEF Finds
  <2>7. PICK b \in Blocks : Stores(p, blockIndex[p][i].index[s], BlockBase(n), b)
    BY <2>6
  <2>8. PICK e \in Nat, k \in Nat : e = blockIndex[p][i].index[s] /\ k = BlockBase(n)
    <3>1. BlockBase(n) \in Nat
      BY BaseIs
    <3>2. blockIndex[p][i].index[s] \in 1 .. Len(entry[p])
      BY <2>7 DEF Stores, Placed
    <3>3. Len(entry[p]) \in Nat
      BY CurTyped
    <3> QED BY <3>1, <3>2, <3>3
  <2>9. Stores(p, e, k, b)
    BY <2>7, <2>8
  <2>10. InFlight(p, k) # {}
    <3>1. k <= n /\ n < k + BLOCK_SIZE
      BY <2>8, BaseIs
    <3>2. c \in InFlight(p, k)
      BY <2>3, <2>5, <3>1 DEF InFlight
    <3> QED BY <3>2
  <2>11. Stores(p, e, k, b)'
    BY <1>0, <2>9, <2>10, StoresStay
  <2>12. blockIndex'[p][i].index = blockIndex[p][i].index
    <3>1. KeysStay(p)
      BY <1>0, AllStay
    <3> QED BY <3>1 DEF KeysStay
  <2>13. s \in 0 .. Capacity(blockIndex'[p][i]) - 1
    BY <2>12, CapacitySame
  <2>14. p = loc'[c].from /\ n = loc'[c].count /\ i = loc'[c].header
    BY <2>3, <2>5
  <2>15. e = blockIndex'[p][i].index[s] /\ k = BlockBase(n)
    BY <2>8, <2>12
  <2> QED BY Zenon, <2>11, <2>13, <2>14, <2>15 DEF Finds
<1> QED BY <1>1, <1>2

\* The element that is moved out of a block.
LEMMA ItemIs ==
    ASSUME Types, Claims, IndexOK, StoredOK, NEW c \in Consumers, MoveElement(c)
    PROVE  loc'[c].item = <<loc[c].from, loc[c].count>>
<1>0. /\ Counts
      /\ \A p \in Producers : Indexed1(p)
      /\ \A d \in Consumers : Points(d) /\ Behind(d) /\ LoadedOne(d) /\ Finds(d)
  BY DEF StoredOK, IndexOK
<1>1. /\ pc[c] = "entry"
      /\ loc'[c].item = elements[entry[loc[c].from][EntryOf(loc[c])].value][loc[c].count % BLOCK_SIZE]
  BY MoveElementDoes DEF Locals
<1>2. /\ loc[c].from \in Producers /\ EntryOf(loc[c]) \in Nat
      /\ \E b \in Blocks : Stores(loc[c].from, EntryOf(loc[c]), BlockBase(loc[c].count), b)
  BY <1>0, <1>1, FindsIs
<1>3. loc[c].count \in Nat
  BY Members2 DEF Types, LocTypes, WfLoc
<1>4. PICK p \in Producers, e \in Nat, n \in Nat, b \in Blocks :
        p = loc[c].from /\ e = EntryOf(loc[c]) /\ n = loc[c].count /\ Stores(p, e, BlockBase(n), b)
  BY <1>2, <1>3
<1>5. loc'[c].item = elements[b][n % BLOCK_SIZE]
  BY <1>1, <1>4 DEF Stores, Placed
<1>6. BlockBase(n) \in Nat /\ n % BLOCK_SIZE \in 0 .. BLOCK_SIZE - 1 /\ n % BLOCK_SIZE = n - BlockBase(n)
  BY BaseIs
<1>7. BlockBase(n) + (n % BLOCK_SIZE) = n
  BY <1>6
<1>8. Undone(p, n) /\ n < Written(p)
  <2>1. n < headIndex[p] /\ headIndex[p] <= tailIndex[p] /\ tailIndex[p] <= Written(p)
    BY <1>0, <1>1, <1>4, ClaimsImply, ReachIs DEF Behind
  <2>2. headIndex[p] \in Nat /\ tailIndex[p] \in Nat /\ Written(p) \in Nat
    BY ReachIs DEF Types, CountTypes
  <2>3. Undone(p, n)
    BY <1>1, <1>4 DEF Undone
  <2> QED BY <2>1, <2>2, <2>3
<1>9. elements[b][n % BLOCK_SIZE] = <<p, n>>
  <2>1. PICK k \in Nat : k = BlockBase(n)
    BY <1>6
  <2>2. PICK i \in 0 .. BLOCK_SIZE - 1 : i = n % BLOCK_SIZE
    BY <1>6
  <2>3. k + i = n /\ Stores(p, e, k, b)
    BY <1>4, <1>7, <2>1, <2>2
  <2>4. elements[b][i] = <<p, k + i>>
    BY <1>0, <1>8, <2>3 DEF Counts, FilledIn
  <2> QED BY <2>2, <2>3, <2>4
<1> QED BY <1>4, <1>5, <1>9

\* A consumer has an element from MoveElement until it returns.
LEMMA CarriesStep ==
    ASSUME Types, Claims, IndexOK, OwnedOK, StoredOK, [Next]_vars, NEW c \in Consumers
    PROVE  Carries(c)'
<1>0. Carries(c)
  BY DEF StoredOK
<1>1. CASE pc'[c] = pc[c] /\ loc'[c] = loc[c]
  BY <1>0, <1>1 DEF Carries
<1>2. CASE loc'[c] = NoLocals /\ pc'[c] = "idle"
  BY <1>2 DEF Carries, NoLocals
<1>3. CASE MoveElement(c)
  <2>1. pc'[c] = "set_empty" /\ loc'[c].item = <<loc[c].from, loc[c].count>>
    BY SMTT(40), <1>3, ItemIs, MoveElementDoes
  <2>2. loc[c].from \in Producers /\ loc[c].count \in Nat
    BY <1>3, MoveElementDoes, Members2 DEF Types, LocTypes, WfLoc
  <2>3. loc'[c].item # None
    BY <2>1, <2>2, QueueAssumption
  <2> QED BY <2>1, <2>3 DEF Carries
<1>4. CASE SetEmpty(c)
  <2>1. /\ pc[c] = "set_empty"
        /\ (pc'[c] = "release" /\ loc'[c] = loc[c]) \/ (pc'[c] = "idle" /\ loc'[c] = NoLocals)
    BY <1>4, SetEmptyDoes
  <2> QED BY <1>0, <1>2, <2>1 DEF Carries
<1>5. CASE Release(c)
  BY <1>0, <1>5, ReleaseDoes DEF Carries
<1>6. CASE ClaimHead(c)
  BY <1>0, <1>6, ClaimHeadDoes DEF Carries, Locals
<1>7. CASE HiddenConsume(c)
  <2>1. CASE \E p \in Producers : Dequeue(c, p)
    BY <1>0, <2>1, DequeueDoes DEF Carries, Locals
  <2>2. CASE SeemsEmpty(c)
    BY <1>2, <2>2, SeemsEmptyDoes
  <2>3. CASE SeemsNonEmpty(c)
    BY <1>0, <2>3, SeemsNonEmptyDoes DEF Carries, Locals
  <2>4. CASE AddOptimistic(c)
    BY <1>0, <2>4, AddOptimisticDoes DEF Carries, Locals
  <2>5. CASE Recheck(c)
    BY <1>0, <2>5, RecheckDoes DEF Carries, Locals
  <2>6. CASE AddOvercommit(c)
    BY <1>2, <2>6, AddOvercommitDoes
  <2>7. CASE LoadBlockIndex(c)
    BY <1>0, <2>7, LoadBlockIndexDoes DEF Carries, Locals
  <2> QED BY <1>7, <2>1, <2>2, <2>3, <2>4, <2>5, <2>6, <2>7 DEF HiddenConsume
<1> QED BY <1>1, <1>2, <1>3, <1>4, <1>5, <1>6, <1>7, OthersStay DEF Consume, HiddenConsume

\* What a step leaves to a producer that does not take it.
LEMMA ProducersStay ==
    ASSUME Types, [Next]_vars, NEW p \in Producers
    PROVE  \/ /\ pc'[p] = pc[p] /\ loc'[p] = loc[p] /\ tailIndex'[p] = tailIndex[p] /\ tailBlock'[p] = tailBlock[p]
           \/ Produce(p)
           \/ /\ pc[p] = "give_back" /\ pc'[p] = "idle" /\ tailIndex'[p] = tailIndex[p] /\ tailBlock'[p] = tailBlock[p]
<1>0. tailBlock \in [Producers -> MaybeBlock]
  BY DEF Types, BlockTypes
<1>1. CASE UNCHANGED vars
  BY <1>1 DEF vars, countVars, blockVars
<1>2. ASSUME NEW q \in Producers, Produce(q), q # p
      PROVE  pc'[p] = pc[p] /\ loc'[p] = loc[p] /\ tailIndex'[p] = tailIndex[p] /\ tailBlock'[p] = tailBlock[p]
  <2>1. pc'[p] = pc[p] /\ loc'[p] = loc[p] /\ tailIndex'[p] = tailIndex[p]
    BY <1>2, OnlyProducer, OthersIndex, Members
  <2>2. CASE Construct(q)
    <3>1. tailBlock' = tailBlock \/ tailBlock' = [tailBlock EXCEPT ![q] = loc[q].block]
      BY <2>2, ConstructDoes
    <3> QED BY <1>0, <1>2, <2>1, <3>1
  <2>3. CASE ~Construct(q)
    <3>1. tailBlock' = tailBlock
      <4>1. CASE HiddenProduce(q)
        BY <4>1, HiddenDoes
      <4>2. CASE Publish(q)
        BY <4>2, PublishDoes
      <4> QED BY <1>2, <2>3, <4>1, <4>2 DEF Produce, HiddenProduce
    <3> QED BY <2>1, <3>1
  <2> QED BY <2>2, <2>3
<1>3. ASSUME NEW d \in Consumers, Consume(d)
      PROVE  pc'[p] = pc[p] /\ loc'[p] = loc[p] /\ tailIndex'[p] = tailIndex[p] /\ tailBlock'[p] = tailBlock[p]
  <2>1. pc'[p] = pc[p] /\ loc'[p] = loc[p] /\ tailIndex'[p] = tailIndex[p]
    BY <1>3, ConsumeIndex
  <2>2. tailBlock' = tailBlock
    BY Zenon, <1>3 DEF Consume, Dequeue, SeemsEmpty, SeemsNonEmpty, Release, blockVars,
       AddOptimistic, Recheck, AddOvercommit, ClaimHead, LoadBlockIndex, MoveElement, SetEmpty
  <2> QED BY <2>1, <2>2
<1>4. ASSUME NEW t \in Threads, GivenBack(t)
      PROVE  \/ /\ pc'[p] = pc[p] /\ loc'[p] = loc[p] /\ tailIndex'[p] = tailIndex[p] /\ tailBlock'[p] = tailBlock[p]
             \/ /\ pc[p] = "give_back" /\ pc'[p] = "idle" /\ tailIndex'[p] = tailIndex[p] /\ tailBlock'[p] = tailBlock[p]
  <2>1. CASE t = p
    BY <1>4, <2>1, GivenBackDoes
  <2>2. CASE t # p
    BY <1>4, <2>2, GivenBackDoes, Members
  <2> QED BY <2>1, <2>2
<1>5. ASSUME NEW t \in Threads, InFreeList(t)
      PROVE  pc'[p] = pc[p] /\ loc'[p] = loc[p] /\ tailIndex'[p] = tailIndex[p] /\ tailBlock'[p] = tailBlock[p]
  BY <1>5 DEF InFreeList, countVars, blockVars
<1> QED BY <1>1, <1>2, <1>3, <1>4, <1>5 DEF Next

\* The entry of the block that p fills stays while it is filled.
LEMMA FillsKeep ==
    ASSUME Types, Claims, IndexOK, StoredOK, [Next]_vars, NEW p \in Producers,
           NEW k \in Nat, NEW b \in Blocks, k = BlockBase(tailIndex[p]), b = tailBlock[p],
           ~New(p) \/ pc[p] = "publish"
    PROVE  \E e \in Nat : Stores(p, e, k, b)'
<1>0. /\ Counts /\ FillsIn(p)
      /\ \A c \in Consumers : Points(c)
      /\ \A q \in Producers : Indexed1(q)
  BY DEF StoredOK, IndexOK
<1>1. PICK e \in Nat : Stores(p, e, k, b)
  BY <1>0 DEF FillsIn
<1>2. tailIndex[p] < k + BLOCK_SIZE /\ headIndex[p] <= tailIndex[p]
      /\ headIndex[p] \in Nat /\ tailIndex[p] \in Nat
  <2>1. tailIndex[p] \in Nat /\ headIndex[p] \in Nat
    BY DEF Types, CountTypes
  <2> QED BY <2>1, BaseIs, ClaimsImply
<1>3. ~(headIndex[p] >= k + BLOCK_SIZE)
  BY <1>2, Size
<1>4. Stores(p, e, k, b)'
  BY <1>0, <1>1, <1>3, StoresStay
<1> QED BY <1>4

\* Enqueue into a block that is begun takes the tail block.
LEMMA HiddenConstructs ==
    ASSUME Types, IndexOK, NEW p \in Producers, HiddenProduce(p), ~New(p), pc'[p] = "construct"
    PROVE  loc'[p].block = tailBlock[p]
<1>0. Indexed1(p)
  BY DEF IndexOK
<1>1. pc[p] \notin Inserting
  BY <1>0, Starts
<1>2. CASE Enqueue(p)
  BY <1>2, EnqueueDoes DEF Locals
<1>3. CASE ~Enqueue(p)
  <2>1. ~ConstructThrows(p)
    BY ConstructThrowsDoes
  <2>2. pc[p] \in Inserting
    BY <1>3, <2>1, InsertBlockIndexEntryDoes, NewBlockIndexDoes, NewBlockIndexFailsDoes, ExposeDoes, AskPoolDoes,
       ClaimFromPoolDoes, FromFreeListDoes, CreateDoes, CreateFailsDoes, RewindDoes, ForgetDoes
       DEF HiddenProduce, Inserting
  <2> QED BY <1>1, <2>2
<1> QED BY <1>2, <1>3

\* The block that p fills stays in its entry.
LEMMA FillsSame ==
    ASSUME Types, Claims, IndexOK, StoredOK, [Next]_vars, NEW p \in Producers,
           tailIndex'[p] = tailIndex[p], tailBlock'[p] = tailBlock[p],
           pc'[p] = "publish" => ~New(p) \/ pc[p] = "publish",
           ~New(p) /\ pc'[p] \in {"construct", "publish"} => loc'[p].block = tailBlock[p]
    PROVE  FillsIn(p)'
<1>0. tailIndex[p] \in Nat /\ FillsIn(p)
  BY DEF Types, CountTypes, StoredOK
<1>1. New(p)' <=> New(p)
  BY DEF New
<1>2. ASSUME ~New(p) \/ pc[p] = "publish"
      PROVE  tailBlock[p] \in Blocks /\ \E e \in Nat : Stores(p, e, BlockBase(tailIndex[p]), tailBlock[p])'
  <2>1. PICK k \in Nat, b \in Blocks : k = BlockBase(tailIndex[p]) /\ b = tailBlock[p]
    BY <1>0, <1>2, BaseIs DEF FillsIn
  <2>2. PICK e \in Nat : Stores(p, e, k, b)'
    BY <1>2, <2>1, FillsKeep
  <2>3. k = BlockBase(tailIndex'[p]) /\ b = tailBlock'[p]
    BY <2>1
  <2> QED BY <2>1, <2>2, <2>3
<1>3. ASSUME ~New(p)' \/ pc'[p] = "publish"
      PROVE  tailBlock'[p] \in Blocks /\ \E e \in Nat : Stores(p, e, BlockBase(tailIndex[p]), tailBlock[p])'
  BY <1>1, <1>2, <1>3
<1>4. ~New(p)' /\ pc'[p] \in {"construct", "publish"} => loc'[p].block = tailBlock'[p]
  BY <1>1
<1> QED BY <1>3, <1>4 DEF FillsIn

\* Construct of the first element: the tail block is in its entry.
LEMMA FillsConstruct ==
    ASSUME Types, OwnedOK, IndexOK, NEW p \in Producers, Construct(p), New(p)
    PROVE  FillsIn(p)'
<1>0. Indexed1(p) /\ tailIndex[p] \in Nat
  BY DEF IndexOK, Types, CountTypes
<1>1. /\ loc[p].block \in Blocks /\ loc[p].at \in Nat
      /\ Stores(p, loc[p].at, tailIndex[p], loc[p].block)'
  <2>1. PICK e \in Nat, b \in Blocks, k \in Nat : e = loc[p].at /\ b = loc[p].block /\ k = tailIndex[p]
    BY <1>0, ConstructStores
  <2>2. Stores(p, e, k, b)'
    BY <1>0, <2>1, ConstructStores
  <2>3. e = loc'[p].at /\ b = loc'[p].block /\ k = tailIndex'[p]
    BY <2>1, ConstructDoes DEF Construct, countVars
  <2> QED BY <2>1, <2>2, <2>3
<1>2. tailBlock'[p] = loc[p].block /\ loc'[p] = loc[p] /\ tailIndex' = tailIndex
  BY ConstructDoes DEF Construct, countVars, Types, BlockTypes
<1>3. BlockBase(tailIndex[p]) = tailIndex[p]
  BY <1>0, NewIs DEF New
<1>4. New(p)'
  BY <1>2 DEF New
<1>5. PICK e \in Nat, b \in Blocks, k \in Nat : e = loc[p].at /\ b = loc[p].block /\ k = tailIndex[p]
  BY <1>0, <1>1
<1>6. e = loc'[p].at /\ b = loc'[p].block /\ k = tailIndex'[p]
  BY <1>2, <1>5
<1>7. Stores(p, e, k, b)'
  BY <1>1, <1>6
<1>8. b = tailBlock'[p] /\ k = BlockBase(tailIndex'[p])
  BY <1>2, <1>3, <1>5
<1> QED BY <1>4, <1>7, <1>8 DEF FillsIn

\* Publish: the next element is in the same block, or begins a new one.
LEMMA FillsPublish ==
    ASSUME Types, Claims, IndexOK, StoredOK, [Next]_vars, NEW p \in Producers, Publish(p)
    PROVE  FillsIn(p)'
<1>0. tailIndex[p] \in Nat /\ FillsIn(p)
  BY DEF Types, CountTypes, StoredOK
<1>1. /\ pc[p] = "publish" /\ pc'[p] = "idle" /\ tailBlock' = tailBlock
      /\ tailIndex'[p] = tailIndex[p] + 1
  BY PublishDoes DEF Publish, Types, CountTypes
<1>2. SUFFICES ASSUME ~New(p)'
               PROVE  tailBlock'[p] \in Blocks
                        /\ \E e \in Nat : Stores(p, e, BlockBase(tailIndex[p]), tailBlock[p])'
  BY <1>1 DEF FillsIn
<1>3. BlockBase(tailIndex[p] + 1) = BlockBase(tailIndex[p])
  <2>1. ~((tailIndex[p] + 1) % BLOCK_SIZE = 0)
    BY <1>1, <1>2 DEF New
  <2>2. BlockBase(tailIndex[p] + 1) # tailIndex[p] + 1
    BY <1>0, <2>1, NewIs
  <2> QED BY <1>0, <2>2, BaseNext
<1>4. PICK k \in Nat, b \in Blocks : k = BlockBase(tailIndex[p]) /\ b = tailBlock[p]
  BY <1>0, <1>1, BaseIs DEF FillsIn
<1>5. PICK e \in Nat : Stores(p, e, k, b)'
  BY <1>1, <1>4, FillsKeep
<1>6. k = BlockBase(tailIndex'[p]) /\ b = tailBlock'[p]
  BY <1>1, <1>3, <1>4
<1> QED BY <1>5, <1>6

\* The tail block of p stays in its entry while p fills it.
LEMMA FillsStep ==
    ASSUME Types, Claims, IndexOK, OwnedOK, StoredOK, [Next]_vars, NEW p \in Producers
    PROVE  FillsIn(p)'
<1>0. FillsIn(p)
  BY DEF StoredOK
<1>1. CASE pc'[p] = pc[p] /\ loc'[p] = loc[p] /\ tailIndex'[p] = tailIndex[p] /\ tailBlock'[p] = tailBlock[p]
  BY <1>0, <1>1, FillsSame DEF FillsIn
<1>2. CASE pc[p] = "give_back" /\ pc'[p] = "idle" /\ tailIndex'[p] = tailIndex[p] /\ tailBlock'[p] = tailBlock[p]
  BY <1>2, FillsSame
<1>3. CASE HiddenProduce(p)
  <2>1. tailIndex' = tailIndex /\ tailBlock' = tailBlock /\ pc'[p] # "publish"
    BY <1>3, HiddenDoes
  <2> QED BY <1>3, <2>1, HiddenConstructs, FillsSame
<1>4. CASE Construct(p)
  <2>1. CASE New(p)
    BY <1>4, <2>1, FillsConstruct
  <2>2. CASE ~New(p)
    <3>1. /\ pc[p] = "construct" /\ loc'[p] = loc[p] /\ tailBlock' = tailBlock /\ tailIndex' = tailIndex
      BY <1>4, <2>2, ConstructDoes DEF Construct, countVars
    <3>2. loc[p].block = tailBlock[p]
      BY <1>0, <2>2, <3>1 DEF FillsIn
    <3> QED BY SMTT(40), <2>2, <3>1, <3>2, FillsSame
  <2> QED BY <2>1, <2>2
<1>5. CASE Publish(p)
  BY <1>5, FillsPublish
<1>6. CASE Produce(p)
  BY <1>3, <1>4, <1>5, <1>6 DEF Produce, HiddenProduce
<1> QED BY <1>1, <1>2, <1>6, ProducersStay

\* What the blocks hold agrees with the indices and with what is under way.
LEMMA StoredStep ==
    ASSUME Types, Claims, IndexOK, OwnedOK, StoredOK, [Next]_vars
    PROVE  StoredOK'
<1>1. Counts'
  BY CountsStep
<1>2. \A p \in Producers : FillsIn(p)'
  BY FillsStep
<1>3. \A c \in Consumers : Points(c)' /\ Finds(c)' /\ Carries(c)'
  BY PointsStep, FindsStep, CarriesStep
<1> QED BY <1>1, <1>2, <1>3 DEF StoredOK

-----------------------------------------------------------------------------
(***************************************************************************)
(* The inductive invariant.                                                *)
(***************************************************************************)

\* The first block index of a producer.
FirstIndex == [tail |-> IndexSize - 1, index |-> [i \in 0 .. IndexSize - 1 |-> i + 1]]

\* The block index of a producer at the start.
LEMMA FirstIs ==
    ASSUME Init, NEW p \in Producers
    PROVE  /\ IndexSize \in Nat /\ IndexSize > 1
           /\ blockIndex[p] = <<FirstIndex>> /\ Len(blockIndex[p]) = 1 /\ blockIndex[p][1] = FirstIndex
           /\ Cur(p) = FirstIndex
           /\ Capacity(FirstIndex) = IndexSize
           /\ entry[p] = [i \in 1 .. IndexSize |-> Unused] /\ Len(entry[p]) = IndexSize
<1>1. IndexSize \in Nat /\ IndexSize > 1
  BY QueueAssumption
<1>2. blockIndex[p] = <<FirstIndex>> /\ entry[p] = [i \in 1 .. IndexSize |-> Unused]
  BY DEF Init, FirstIndex
<1>3. Len(blockIndex[p]) = 1 /\ blockIndex[p][1] = FirstIndex
  BY <1>2
<1>4. Cur(p) = FirstIndex
  BY <1>3 DEF Cur, Last
<1>5. DOMAIN FirstIndex.index = 0 .. IndexSize - 1
  BY DEF FirstIndex
<1>6. Cardinality(0 .. IndexSize - 1) = IndexSize
  <2>1. IndexSize - 1 \in Int /\ 0 \in Int
    BY <1>1
  <2>2. Cardinality(0 .. IndexSize - 1) = IF 0 > IndexSize - 1 THEN 0 ELSE IndexSize - 1 - 0 + 1
    BY <2>1, FS_Interval
  <2> QED BY <1>1, <2>2
<1>7. Capacity(FirstIndex) = IndexSize
  BY <1>5, <1>6 DEF Capacity
<1>8. Len(entry[p]) = IndexSize
  BY <1>1, <1>2
<1> QED BY <1>1, <1>2, <1>3, <1>4, <1>7, <1>8

\* The types of the index at the start.
LEMMA InitIndexTypes ==
    ASSUME Init
    PROVE  IndexTypes
<1>1. IndexSize \in Nat /\ IndexSize > 1
  BY QueueAssumption
<1>2. blockIndex \in [Producers -> Seq(Header)]
  <2>1. [i \in 0 .. IndexSize - 1 |-> i + 1] \in [0 .. IndexSize - 1 -> Nat]
    BY <1>1
  <2>2. [i \in 0 .. IndexSize - 1 |-> i + 1] \in Indexes
    BY <1>1, <2>1 DEF Indexes
  <2>3. FirstIndex \in Header
    BY <1>1, <2>2 DEF FirstIndex, Header
  <2>4. <<FirstIndex>> \in Seq(Header)
    BY <2>3
  <2>5. blockIndex = [p \in Producers |-> <<FirstIndex>>]
    BY DEF Init, FirstIndex
  <2> QED BY <2>4, <2>5
<1>3. entry \in [Producers -> Seq(Entry)]
  <2>1. Unused \in Entry
    BY DEF Unused, Entry, INVALID_BLOCK_BASE, MaybeBlock
  <2>2. [i \in 1 .. IndexSize |-> Unused] \in Seq(Entry)
    BY <1>1, <2>1
  <2>3. entry = [p \in Producers |-> [i \in 1 .. IndexSize |-> Unused]]
    BY DEF Init
  <2> QED BY <2>2, <2>3
<1>4. ASSUME NEW p \in Producers
      PROVE  /\ Len(blockIndex[p]) >= 1
             /\ \A i \in 1 .. Len(blockIndex[p]) :
                  LET h == blockIndex[p][i] IN
                  /\ Capacity(h) \in Nat /\ Capacity(h) > 1
                  /\ h.index \in [0 .. Capacity(h) - 1 -> 1 .. Len(entry[p])]
                  /\ h.tail \in 0 .. Capacity(h) - 1
  <2>1. Len(blockIndex[p]) = 1 /\ blockIndex[p][1] = FirstIndex
    BY FirstIs
  <2>2. Capacity(FirstIndex) = IndexSize /\ Len(entry[p]) = IndexSize
    BY FirstIs
  <2>3. FirstIndex.tail = IndexSize - 1 /\ FirstIndex.index = [i \in 0 .. IndexSize - 1 |-> i + 1]
    BY DEF FirstIndex
  <2>4. FirstIndex.index \in [0 .. IndexSize - 1 -> 1 .. IndexSize]
    BY <1>1, <2>3
  <2>5. IndexSize - 1 \in 0 .. IndexSize - 1
    BY <1>1
  <2>6. /\ Capacity(FirstIndex) \in Nat /\ Capacity(FirstIndex) > 1
        /\ FirstIndex.index \in [0 .. Capacity(FirstIndex) - 1 -> 1 .. Len(entry[p])]
        /\ FirstIndex.tail \in 0 .. Capacity(FirstIndex) - 1
    BY <1>1, <2>2, <2>3, <2>4, <2>5
  <2>7. \A i \in 1 .. Len(blockIndex[p]) : blockIndex[p][i] = FirstIndex
    BY <2>1
  <2> QED BY <2>1, <2>6, <2>7
<1>5. \A c \in Consumers : pc[c] # "entry"
  BY Members2 DEF Init
<1> QED BY <1>2, <1>3, <1>4, <1>5 DEF IndexTypes

\* The types at the start.
LEMMA InitTypes ==
    ASSUME Init
    PROVE  Types
<1>1. CountTypes
  BY DEF Init, CountTypes
<1>2. PcTypes
  BY Members, Members2 DEF Init, PcTypes, ProducerPc, ConsumerPc
<1>3. LocTypes
  BY WfLocs, Members2 DEF Init, LocTypes
<1>4. FreeTypes
  <2>1. /\ freeListHead = None /\ freeListRefs = [b \in Blocks |-> 0]
        /\ freeListNext = [b \in Blocks |-> None] /\ fl = [t \in Threads |-> Outside]
    BY DEF Init, FreeInit
  <2>2. freeListHead \in MaybeBlock /\ freeListNext \in [Blocks -> MaybeBlock]
    BY <2>1 DEF MaybeBlock
  <2>3. freeListRefs \in [Blocks -> Int]
    BY <2>1
  <2>4. Wf(Outside)
    BY Zenon, WfRecords
  <2>5. DOMAIN fl = Threads /\ fl = [t \in Threads |-> fl[t]] /\ \A t \in Threads : fl[t] = Outside
    BY <2>1
  <2> QED BY <2>2, <2>3, <2>4, <2>5 DEF FreeTypes
<1>5. IndexTypes
  BY InitIndexTypes
<1>6. BlockTypes
  <2>1. tailBlock \in [Producers -> MaybeBlock] /\ dequeued \in [Blocks -> Nat]
        /\ initialBlockPoolIndex \in Nat /\ created \subseteq Blocks /\ work \in Workloads
    BY DEF Init, MaybeBlock
  <2>2. [i \in 0 .. BLOCK_SIZE - 1 |-> None] \in Elements
    BY DEF Elements
  <2>3. elements \in [Blocks -> Elements]
    BY <2>2 DEF Init
  <2> QED BY <2>1, <2>3 DEF BlockTypes
<1> QED BY <1>1, <1>2, <1>3, <1>4, <1>5, <1>6 DEF Types

\* No element is claimed at the start.
LEMMA InitClaims ==
    ASSUME Init
    PROVE  Claims
<1>1. \A c \in Consumers : pc[c] = "idle"
  BY Members2 DEF Init
<1>2. Seen
  BY <1>1 DEF Seen
<1>3. ASSUME NEW p \in Producers
      PROVE  Conserved(p) /\ \E k, l \in Int : Enough(p, k, l)
  <2>1. /\ dequeueOptimisticCount[p] = 0 /\ dequeueOvercommit[p] = 0 /\ headIndex[p] = 0 /\ tailIndex[p] = 0
    BY <1>3 DEF Init
  <2>2. \A l : l # "idle" => ConsumersAt(p, l) = {}
    BY <1>1 DEF ConsumersAt
  <2>3. Cardinality({}) = 0
    BY FS_EmptySet
  <2>4. NumberAt(p, "recheck") = 0 /\ NumberAt(p, "claim_head") = 0 /\ NumberAt(p, "overcommit") = 0
    BY <2>2, <2>3 DEF NumberAt
  <2>5. Below(p, 0) = {}
    BY <1>1 DEF Below
  <2>6. Conserved(p)
    BY <2>1, <2>4 DEF Conserved
  <2>7. Claimed(p) = 0
    BY <2>1, <2>4 DEF Claimed
  <2>8. Enough(p, 0, 0)
    BY <2>1, <2>2, <2>3, <2>5, <2>7 DEF Enough
  <2> QED BY <2>6, <2>8
<1> QED BY <1>2, <1>3 DEF Claims

\* The rings are empty at the start.
LEMMA InitIndex ==
    ASSUME Init
    PROVE  IndexOK
<1>1. ASSUME NEW p \in Producers
      PROVE  Indexed1(p)
  <2>1. /\ IndexSize \in Nat /\ IndexSize > 1
        /\ Len(blockIndex[p]) = 1
        /\ Cur(p) = FirstIndex
        /\ Capacity(FirstIndex) = IndexSize
        /\ entry[p] = [i \in 1 .. IndexSize |-> Unused] /\ Len(entry[p]) = IndexSize
    BY FirstIs
  <2>2. pc[p] = "idle" /\ tailIndex[p] = 0
    BY Members DEF Init
  <2>3. FirstIndex.tail = IndexSize - 1 /\ FirstIndex.index = [i \in 0 .. IndexSize - 1 |-> i + 1]
    BY DEF FirstIndex
  <2> DEFINE cap == IndexSize
             idx == FirstIndex.index
             K == KeysOf(p)
             V == ValuesOf(p)
  <2>4. \A s \in 0 .. cap - 1 : Slot(p, s) = Unused
    BY <2>1, <2>3 DEF Slot
  <2>5. \A s \in 0 .. cap - 1 : ~Used(K[s]) /\ V[s] = None
    BY <2>1, <2>4 DEF KeysOf, ValuesOf, Unused, Used
  <2>6. Injective(cap, idx)
    BY <2>1, <2>3 DEF Injective
  <2>7. REnd("idle", 0) = 0 /\ ~RExposed("idle", 0)
    <3>1. 0 % BLOCK_SIZE = 0
      BY Size
    <3> QED BY <3>1 DEF REnd, RExposed, RNew
  <2>8. Ring("idle", 0, loc[p].at, cap, cap - 1, idx, K, V)
    <3> HIDE DEF K, V, idx
    <3>1. Keyed(cap, cap - 1, K, V, REnd("idle", 0))
      BY <2>5 DEF Keyed
    <3>2. Filled1(cap, cap - 1, K, V)
      BY <2>5 DEF Filled1
    <3>3. Stage("idle", 0, loc[p].at, cap, cap - 1, idx, K, V)
      BY DEF Stage, Inserting
    <3> QED BY <2>6, <2>7, <3>1, <3>2, <3>3 DEF Ring
  <2>9. RingOf(p)
    BY <2>1, <2>2, <2>3, <2>8 DEF RingOf
  <2>10. Covers(p)
    <3>1. \A e \in 1 .. IndexSize : e - 1 \in 0 .. IndexSize - 1 /\ FirstIndex.index[e - 1] = e
      BY <2>1, <2>3
    <3> QED BY <2>1, <3>1 DEF Covers
  <2>11. Laps(p)
    BY <2>1 DEF Laps
  <2> QED BY <2>9, <2>10, <2>11 DEF Indexed1
<1>2. \A c \in Consumers : pc[c] = "idle"
  BY Members2 DEF Init
<1> QED BY <1>1, <1>2 DEF IndexOK, Behind, LoadedOne

\* No thread is in the free list at the start, and no block is on it.
LEMMA InitFree ==
    ASSUME Init
    PROVE  FreeOK /\ \A b \in Blocks : LooseB(b) /\ ~Listed(b)
<1>1. \A t \in Threads : fl[t].at = "out"
  BY DEF Init, FreeInit, Outside
<1>2. \A b : (\A t \in Threads : ~Works(fl[t], b) /\ ~Reads(fl[t], b)) /\ Free1(b)
  BY <1>1 DEF Works, Reads, Working, Free1
<1>3. \A b : Refd(b) = 0
  BY <1>2, Refds
<1>4. \A b \in Blocks : freeListRefs[b] = 0
  BY DEF Init, FreeInit
<1>5. \A b \in Blocks : LooseB(b) /\ ~Listed(b)
  BY <1>2, <1>3, <1>4 DEF LooseB, Listed
<1>6. FreeRefs
  BY <1>1, <1>2, <1>5 DEF FreeRefs, Working
<1>7. FreeLinks
  <2>1. PICK q : q = [i \in 1 .. 0 |-> None]
    OBVIOUS
  <2>2. q \in [1 .. 0 -> Blocks]
    BY <2>1
  <2>3. freeListHead = None
    BY DEF Init, FreeInit
  <2>4. ListIs(0, q)
    BY <1>5, <2>3 DEF ListIs
  <2> QED BY <2>2, <2>4 DEF FreeLinks
<1>8. FreeLocals
  BY <1>1 DEF FreeLocals
<1> QED BY <1>5, <1>6, <1>7, <1>8 DEF FreeOK

\* No entry has a block at the start.
LEMMA InitPlaced ==
    ASSUME Init
    PROVE  \A p \in Producers : \A e : \A b \in Blocks : ~Placed(p, e, b)
<1> SUFFICES ASSUME NEW p \in Producers, NEW e, NEW b \in Blocks, Placed(p, e, b) PROVE FALSE
  OBVIOUS
<1>1. e \in 1 .. IndexSize /\ entry[p][e] = Unused
  BY FirstIs DEF Placed
<1>2. entry[p][e].value = None
  BY <1>1 DEF Unused
<1> QED BY <1>2, Somes DEF Placed

\* No block is taken at the start.
LEMMA InitOwned ==
    ASSUME Init
    PROVE  OwnedOK
<1>1. \A t \in Threads : pc[t] = "idle" /\ fl[t].at = "out" /\ loc[t].block = None
  BY DEF Init, FreeInit, Outside, NoLocals
<1>2. \A p \in Producers : \A b \in Blocks : ~HeldBy(p, b)
  BY <1>1, Members DEF HeldBy
<1>3. \A b \in Blocks : ~PlacedB(b) /\ ~HeldB(b)
  BY <1>2, InitPlaced DEF PlacedB, HeldB
<1>4. Taken = {}
  BY DEF Init, Taken
<1>5. OwnCore
  BY <1>2, <1>3, <1>4, InitPlaced, InitFree DEF OwnCore, Unique, HeldOnce, OneUse, UsedIs, Fresh
<1>6. PoolApart
  BY DEF Init, PoolApart
<1>7. OwnLocals
  BY <1>1, Members DEF OwnLocals
<1> QED BY <1>5, <1>6, <1>7 DEF OwnedOK

\* The blocks hold nothing at the start.
LEMMA InitStored ==
    ASSUME Init
    PROVE  StoredOK
<1>1. \A p \in Producers : \A e, k : \A b \in Blocks : ~Stores(p, e, k, b)
  BY InitPlaced DEF Stores
<1>2. \A t \in Threads : pc[t] = "idle" /\ loc[t] = NoLocals
  BY DEF Init
<1>3. 0 % BLOCK_SIZE = 0
  BY Size
<1>4. ASSUME NEW p \in Producers
      PROVE  LivesIn(p) /\ CountedIn(p) /\ FilledIn(p) /\ FillsIn(p)
  <2>1. tailIndex[p] = 0 /\ pc[p] = "idle"
    BY <1>2, Members DEF Init
  <2>2. ReachOf(p) = 0
    BY <1>3, <2>1 DEF ReachOf, Reach, RNew
  <2>3. New(p)
    BY <1>3, <2>1 DEF New
  <2> QED BY <1>1, <2>1, <2>2, <2>3 DEF LivesIn, CountedIn, FilledIn, FillsIn
<1>5. ASSUME NEW c \in Consumers
      PROVE  Points(c) /\ Finds(c) /\ Carries(c) /\ Emptied(c)
  BY <1>2, Members2 DEF Points, Finds, Carries, Emptied, NoLocals
<1>6. NoneAlike
  BY <1>2, Members2 DEF NoneAlike, Alike, Flying
<1>7. AreReleased
  BY InitPlaced DEF AreReleased
<1>8. InBounds
  BY Size DEF Init, InBounds
<1> QED BY <1>4, <1>5, <1>6, <1>7, <1>8 DEF StoredOK, Counts

\* The invariant holds at the start.
LEMMA InitIInv == Init => IInv
BY InitTypes, InitClaims, InitIndex, InitFree, InitOwned, InitStored DEF IInv

\* Every step keeps the invariant.
LEMMA NextIInv == IInv /\ [Next]_vars => IInv'
<1> SUFFICES ASSUME IInv, [Next]_vars PROVE IInv'
  OBVIOUS
<1>0. /\ Types /\ Claims /\ IndexOK /\ FreeOK /\ OwnedOK /\ StoredOK
      /\ \A p \in Producers : Indexed1(p)
      /\ \A c \in Consumers : Points(c)
      /\ OwnLocals
  BY DEF IInv, IndexOK, StoredOK, OwnedOK
<1>1. Types' /\ Claims'
  BY <1>0, TypesStep, ClaimsStep
<1>2. IndexOK'
  BY <1>0, IndexStep
<1>3. FreeOK' /\ OwnCore' /\ PoolApart'
  BY <1>0, OwnCoreStep DEF OwnStep
<1>4. OwnLocals'
  BY <1>0, LocalStep
<1>5. StoredOK'
  BY <1>0, StoredStep
<1>6. OwnedOK'
  BY <1>3, <1>4 DEF OwnedOK
<1> QED BY <1>1, <1>2, <1>3, <1>5, <1>6 DEF IInv

\* IInv is an invariant of the queue: its counts, its block indices, its free
\* list and its blocks agree in every state that producers and consumers come
\* to, in whatever order enqueue, dequeue, add and try_get are interleaved.
THEOREM Inductive == Spec => []IInv
BY InitIInv, NextIInv, PTL DEF Spec

-----------------------------------------------------------------------------
(***************************************************************************)
(* The types and the assertions of the code.                               *)
(***************************************************************************)

\* The invariant has the types that the runs check.
LEMMA TypesImply ==
    ASSUME IInv
    PROVE  TypeOK
<1>0. Types /\ FreeRefs /\ InBounds
  BY DEF IInv, FreeOK, StoredOK, Counts
<1>1. FreeTypeOK
  <2>1. freeListHead \in Blocks \union {None} /\ freeListNext \in [Blocks -> Blocks \union {None}]
    BY <1>0 DEF Types, FreeTypes, MaybeBlock
  <2>2. freeListRefs \in [Blocks -> 0 .. 2 * SHOULD_BE_ON_FREELIST - 1]
    BY <1>0, RefsRange DEF Types, MARK
  <2>3. \A t \in Threads : fl[t] \in FlRecord
    BY <1>0 DEF Types, FreeTypes, Wf
  <2>4. fl = [t \in Threads |-> fl[t]]
    BY <1>0 DEF Types, FreeTypes
  <2>5. fl \in [Threads -> FlRecord]
    BY <2>3, <2>4
  <2> QED BY <2>1, <2>2, <2>5 DEF FreeTypeOK, FlRecord, FlAt, MaybeBlock
<1>2. \A p \in Producers : \A i \in 1 .. Len(blockIndex[p]) :
           LET h == blockIndex[p][i] IN
           /\ h.tail \in DOMAIN h.index
           /\ \A s \in DOMAIN h.index : h.index[s] \in 1 .. Len(entry[p])
  <2> SUFFICES ASSUME NEW p \in Producers, NEW i \in 1 .. Len(blockIndex[p])
               PROVE  LET h == blockIndex[p][i] IN
                      /\ h.tail \in DOMAIN h.index
                      /\ \A s \in DOMAIN h.index : h.index[s] \in 1 .. Len(entry[p])
    OBVIOUS
  <2>1. LET h == blockIndex[p][i] IN
        /\ h.index \in [0 .. Capacity(h) - 1 -> 1 .. Len(entry[p])]
        /\ h.tail \in 0 .. Capacity(h) - 1
    BY <1>0 DEF Types, IndexTypes
  <2> QED BY <2>1
<1>3. dequeued \in [Blocks -> 0 .. BLOCK_SIZE]
  BY <1>0, Size DEF Types, BlockTypes, InBounds
<1>4. /\ tailIndex \in [Producers -> Nat] /\ headIndex \in [Producers -> Nat]
      /\ dequeueOptimisticCount \in [Producers -> Nat]
      /\ dequeueOvercommit \in [Producers -> Nat]
      /\ tailBlock \in [Producers -> Blocks \union {None}]
      /\ created \subseteq Blocks
  BY <1>0 DEF Types, CountTypes, BlockTypes, MaybeBlock
<1> QED BY <1>1, <1>2, <1>3, <1>4 DEF TypeOK

\* The invariant implies the assertions.
LEMMA AssertsImply ==
    ASSUME IInv
    PROVE  AssertsHold
<1>0. /\ Types /\ Claims /\ FreeRefs /\ Counts
      /\ \A p \in Producers : Indexed1(p)
      /\ \A c \in Consumers : Points(c) /\ Finds(c) /\ LoadedOne(c)
  BY DEF IInv, FreeOK, StoredOK, IndexOK
<1>1. ASSUME NEW p \in Producers
      PROVE  /\ headIndex[p] <= tailIndex[p]
             /\ pc[p] = "grown" => entry[p][Cur(p).index[NextSlot(Cur(p))]].key = INVALID_BLOCK_BASE
  <2>1. headIndex[p] <= tailIndex[p]
    BY <1>0, ClaimsImply
  <2>2. ASSUME pc[p] = "grown" PROVE entry[p][Cur(p).index[NextSlot(Cur(p))]].key = INVALID_BLOCK_BASE
    <3>1. ~Used(KeysOf(p)[RNext(Capacity(Cur(p)), Cur(p).tail)])
      BY <1>0, <2>2 DEF Indexed1, RingOf, Ring, Stage
    <3>2. /\ NextSlot(Cur(p)) = RNext(Capacity(Cur(p)), Cur(p).tail)
          /\ Capacity(Cur(p)) \in Nat /\ Capacity(Cur(p)) > 1
          /\ Cur(p).tail \in 0 .. Capacity(Cur(p)) - 1
      BY <1>0, CurIs
    <3>3. NextSlot(Cur(p)) \in 0 .. Capacity(Cur(p)) - 1
      BY <3>2, NextAge
    <3>4. KeysOf(p)[NextSlot(Cur(p))] = entry[p][Cur(p).index[NextSlot(Cur(p))]].key
      BY <1>0, <3>3, CurIs
    <3> QED BY <3>1, <3>2, <3>4 DEF Used
  <2> QED BY <2>1, <2>2
<1>2. ASSUME NEW c \in Consumers
      PROVE  /\ pc[c] = "recheck" => loc[c].seen <= loc[c].count
             /\ pc[c] = "entry" =>
                  /\ entry[loc[c].from][blockIndex[loc[c].from][loc[c].header].index[loc[c].slot]].key
                       # INVALID_BLOCK_BASE
                  /\ entry[loc[c].from][EntryOf(loc[c])].key = BlockBase(loc[c].count)
                  /\ entry[loc[c].from][EntryOf(loc[c])].value # None
             /\ pc[c] = "set_empty" => dequeued[loc[c].block] < BLOCK_SIZE
  <2>1. pc[c] = "recheck" => loc[c].seen <= loc[c].count
    BY <1>0 DEF Claims, Seen
  <2>2. ASSUME pc[c] = "entry"
        PROVE  /\ entry[loc[c].from][blockIndex[loc[c].from][loc[c].header].index[loc[c].slot]].key
                    # INVALID_BLOCK_BASE
               /\ entry[loc[c].from][EntryOf(loc[c])].key = BlockBase(loc[c].count)
               /\ entry[loc[c].from][EntryOf(loc[c])].value # None
    <3>1. PICK b \in Blocks : Stores(loc[c].from, EntryOf(loc[c]), BlockBase(loc[c].count), b)
      BY <1>0, <2>2, FindsIs
    <3>2. Used(EntryAt(loc[c].from, loc[c].header, loc[c].slot).key)
      BY <1>0, <2>2 DEF LoadedOne
    <3> QED BY Zenon, <3>1, <3>2, Somes DEF Stores, Placed, Used, EntryAt
  <2>3. ASSUME pc[c] = "set_empty" PROVE dequeued[loc[c].block] < BLOCK_SIZE
    <3>1. dequeued[loc[c].block] <= BLOCK_SIZE - 1
      BY <1>0, <2>3, EmptyingOne
    <3>2. loc[c].block \in Blocks
      BY <1>0, <2>3 DEF Points
    <3>3. dequeued[loc[c].block] \in Nat
      BY <1>0, <3>2 DEF Types, BlockTypes
    <3> QED BY <3>1, <3>3, Size
  <2> QED BY Zenon, <2>1, <2>2, <2>3
<1>3. \A t \in Threads : fl[t].at = "popped" => freeListRefs[fl[t].node] < SHOULD_BE_ON_FREELIST
  BY <1>0, RefsRange DEF Types, MARK
<1> QED BY Zenon, <1>1, <1>2, <1>3 DEF AssertsHold, Cur

\* The types of the queue: the entries that a block index points to exist,
\* and a block counts at most BLOCK_SIZE elements as dequeued.
THEOREM TypeCorrect == Spec => []TypeOK
BY Inductive, TypesImply, PTL

\* The assertions of concurentqueue.hh on the way of an element hold for
\* every interleaving: the overcommit never exceeds the count (l.2279), the
\* tail that a consumer reads with the block index was used (l.2728), the
\* entry it computes from it has the key of its element (l.2733) and a block
\* that has not been released, that block is not dequeued more often than it
\* has elements (l.1403), a popped block has no mark (l.1288), and a new
\* block index has room for an entry.
THEOREM AssertionsHold == Spec => []AssertsHold
BY Inductive, AssertsImply, PTL

-----------------------------------------------------------------------------
(***************************************************************************)
(* When every thread is idle, each block that was taken is where a         *)
(* destructor or the free list has it.                                     *)
(***************************************************************************)

\* No operation is under way.
AllIdle == \A t \in Threads : pc[t] = "idle"

\* With every thread idle, the attempts that found nothing are counted off.
LEMMA IdleCounts ==
    ASSUME IInv, AllIdle, NEW p \in Producers
    PROVE  dequeueOptimisticCount[p] - dequeueOvercommit[p] = headIndex[p]
<1>1. \A c \in Consumers : pc[c] = "idle"
  BY Members2 DEF AllIdle
<1>2. \A l : l # "idle" => ConsumersAt(p, l) = {}
  BY <1>1 DEF ConsumersAt
<1>3. NumberAt(p, "recheck") = 0 /\ NumberAt(p, "claim_head") = 0 /\ NumberAt(p, "overcommit") = 0
  BY <1>2, FS_EmptySet DEF NumberAt
<1>4. Conserved(p)
  BY DEF IInv, Claims
<1>5. dequeueOptimisticCount[p] \in Nat /\ dequeueOvercommit[p] \in Nat /\ headIndex[p] \in Nat
  BY DEF IInv, Types, CountTypes
<1> QED BY <1>3, <1>4, <1>5 DEF Conserved

\* With every thread idle, a block in an entry has an element left.
LEMMA IdleSum ==
    ASSUME IInv, AllIdle, NEW p \in Producers, NEW e \in Nat, NEW k \in Nat, NEW b \in Blocks, Stores(p, e, k, b)
    PROVE  headIndex[p] < k + BLOCK_SIZE
<1>1. \A c \in Consumers : pc[c] = "idle"
  BY Members2 DEF AllIdle
<1>2. Emptying(b) = {} /\ InFlight(p, k) = {}
  BY <1>1 DEF Emptying, InFlight
<1>3. Cardinality(Emptying(b)) = 0 /\ Cardinality(InFlight(p, k)) = 0
  BY <1>2, FS_EmptySet
<1>4. Sum(p, k, b) = BLOCK_SIZE
  BY DEF IInv, StoredOK, Counts, CountedIn
<1>5. dequeued[b] # BLOCK_SIZE
  <2>1. ~IsReleased(b)
    BY <1>1 DEF IsReleased
  <2> QED BY <2>1 DEF IInv, StoredOK, Counts, AreReleased, Stores
<1>6. dequeued[b] \in Nat /\ headIndex[p] \in Nat
  BY DEF IInv, Types, BlockTypes, CountTypes
<1>7. LeftIn(headIndex[p], k) # 0
  BY <1>3, <1>4, <1>5, <1>6, Size DEF Sum, LeftIn
<1> QED BY <1>6, <1>7, Size DEF LeftIn

\* The locals of the destructor at the n-th element.
AtElement(p, n) == [NoLocals EXCEPT !.from = p, !.header = Current(p),
                      !.slot = Last(blockIndex[p]).tail, !.count = n]

\* The locals of the destructor, field by field.
LEMMA AtIs ==
    ASSUME NEW p, NEW n
    PROVE  /\ AtElement(p, n).from = p /\ AtElement(p, n).header = Current(p)
           /\ AtElement(p, n).slot = Cur(p).tail /\ AtElement(p, n).count = n
BY DEF AtElement, NoLocals, Cur

\* The blocks that the destructor frees.
LEMMA DestroyedIs ==
    ASSUME NEW p
    PROVE  Destroyed(p) = {entry[p][EntryOf(AtElement(p, n))].value : n \in headIndex[p] .. tailIndex[p] - 1}
              \union IF tailIndex[p] % BLOCK_SIZE # 0 THEN {tailBlock[p]} ELSE {}
BY DEF Destroyed, AtElement

\* The destructor finds the entry of each element that is left.
LEMMA DestructorFinds ==
    ASSUME Types, NEW p \in Producers, Indexed1(p), NEW n \in Nat, n < tailIndex[p],
           NEW e \in Nat, NEW b \in Blocks, Stores(p, e, BlockBase(n), b)
    PROVE  EntryOf(AtElement(p, n)) = e
<1>1. PICK f : f = AtElement(p, n)
  OBVIOUS
<1>2. f.from = p /\ f.header = Current(p) /\ f.slot = Cur(p).tail /\ f.count = n
  BY <1>1, AtIs
<1>3. /\ Current(p) = Len(blockIndex[p]) /\ Current(p) \in Nat /\ Current(p) >= 1
      /\ Cur(p) = blockIndex[p][Current(p)]
      /\ Cur(p).tail \in 0 .. Capacity(Cur(p)) - 1
      /\ Capacity(Cur(p)) \in Nat
  BY CurIs
<1>4. f.header \in 1 .. Len(blockIndex[p]) /\ blockIndex[p][f.header] = Cur(p)
  BY <1>2, <1>3
<1>5. tailIndex[p] > 0
  BY DEF Types, CountTypes
<1>6. Used(entry[p][Cur(p).index[Cur(p).tail]].key)
  BY <1>5, LastIsUsed
<1>7. Used(EntryAt(p, f.header, f.slot).key)
  BY <1>2, <1>4, <1>6 DEF EntryAt
<1>8. PICK z \in 0 .. Capacity(Cur(p)) - 1 : Cur(p).index[z] = e
  BY SlotOf DEF Stores
<1>9. z \in 0 .. Capacity(blockIndex[p][f.header]) - 1 /\ f.slot \in 0 .. Capacity(blockIndex[p][f.header]) - 1
  BY <1>2, <1>3, <1>4, <1>8
<1>10. Stores(p, blockIndex[p][f.header].index[z], BlockBase(f.count), b)
  BY <1>2, <1>4, <1>8
<1>11. EntryOf(f) = blockIndex[p][f.header].index[z]
  BY <1>2, <1>4, <1>7, <1>9, <1>10, FindsFor
<1> QED BY <1>1, <1>4, <1>8, <1>11

\* With every thread idle, each block in an entry is freed by the destructor
\* of its producer.
LEMMA LiveIsDestroyed ==
    ASSUME IInv, AllIdle, NEW p \in Producers, NEW e \in Nat, NEW b \in Blocks, Placed(p, e, b)
    PROVE  b \in Destroyed(p)
<1>0. Types /\ Indexed1(p) /\ FillsIn(p) /\ pc[p] = "idle" /\ headIndex[p] \in Nat /\ tailIndex[p] \in Nat
      /\ headIndex[p] <= tailIndex[p]
  BY ClaimsImply, Members DEF IInv, IndexOK, StoredOK, AllIdle, Types, CountTypes
<1>1. PICK k \in Nat : Stores(p, e, k, b)
  BY <1>0, StoresHas
<1>2. headIndex[p] < k + BLOCK_SIZE
  BY <1>1, IdleSum
<1>3. Multiple(k) /\ k + BLOCK_SIZE <= ReachOf(p)
  BY <1>0, <1>1, LiveKeys DEF ReachOf
<1>4. PICK h \in Nat, T \in Nat : h = headIndex[p] /\ T = tailIndex[p]
  BY <1>0
<1>5. h <= T /\ h < k + BLOCK_SIZE
  BY <1>0, <1>2, <1>4
<1>6. k + BLOCK_SIZE <= IF T % BLOCK_SIZE = 0 THEN T ELSE BlockBase(T) + BLOCK_SIZE
  BY <1>0, <1>3, <1>4 DEF ReachOf, Reach, RNew
<1>7. BlockBase(T) \in Nat /\ BlockBase(T) <= T /\ T < BlockBase(T) + BLOCK_SIZE /\ (T % BLOCK_SIZE = 0 <=> BlockBase(T) = T)
  BY BaseIs, NewIs
<1>8. k < T
  <2>1. CASE T % BLOCK_SIZE = 0
    BY <1>6, <2>1, Size
  <2>2. CASE T % BLOCK_SIZE # 0
    BY <1>6, <1>7, <2>2, Size
  <2> QED BY <2>1, <2>2
<1>9. ASSUME NEW n \in Nat, h <= n, n < T, k <= n, n < k + BLOCK_SIZE
      PROVE  b \in Destroyed(p)
  <2>1. k = BlockBase(n)
    BY <1>3, <1>9, BaseIs
  <2>2. Stores(p, e, BlockBase(n), b)
    BY <1>1, <2>1
  <2>3. EntryOf(AtElement(p, n)) = e
    BY <1>0, <1>4, <1>9, <2>2, DestructorFinds
  <2>4. entry[p][EntryOf(AtElement(p, n))].value = b
    BY <1>1, <2>3 DEF Stores, Placed
  <2>5. n \in headIndex[p] .. tailIndex[p] - 1
    BY <1>4, <1>9
  <2> QED BY <2>4, <2>5, DestroyedIs
<1>10. CASE h < T
  <2>1. CASE h <= k
    BY <1>8, <1>9, <2>1, Size
  <2>2. CASE h > k
    BY <1>5, <1>9, <1>10, <2>2
  <2> QED BY <2>1, <2>2
<1>11. CASE h = T
  <2>1. k = BlockBase(T)
    BY <1>3, <1>5, <1>8, <1>11, BaseIs
  <2>2. T % BLOCK_SIZE # 0
    BY <1>7, <1>8, <2>1
  <2>3. tailBlock[p] \in Blocks /\ \E g \in Nat : Stores(p, g, BlockBase(T), tailBlock[p])
    BY <1>0, <1>4, <2>2 DEF FillsIn, New
  <2>4. PICK g \in Nat : Stores(p, g, k, tailBlock[p])
    BY <2>1, <2>3
  <2>5. tailBlock[p] = b
    BY <1>0, <1>1, <2>3, <2>4, LiveKeys
  <2> QED BY <1>4, <2>2, <2>5, DestroyedIs
<1> QED BY <1>5, <1>10, <1>11

\* The destructor frees blocks in entries only.
LEMMA DestroyedIsLive ==
    ASSUME IInv, AllIdle, NEW p \in Producers, NEW b \in Destroyed(p)
    PROVE  b \in Blocks /\ \E e \in Nat : Placed(p, e, b)
<1>0. /\ Types /\ Indexed1(p) /\ FillsIn(p) /\ LivesIn(p) /\ headIndex[p] \in Nat /\ tailIndex[p] \in Nat
      /\ tailIndex[p] <= ReachOf(p) /\ ReachOf(p) \in Nat
  BY ReachIs DEF IInv, IndexOK, StoredOK, Counts, Types, CountTypes
<1>1. ASSUME NEW n \in headIndex[p] .. tailIndex[p] - 1, b = entry[p][EntryOf(AtElement(p, n))].value
      PROVE  b \in Blocks /\ \E e \in Nat : Placed(p, e, b)
  <2>1. n \in Nat /\ n < tailIndex[p] /\ n < ReachOf(p) /\ Undone(p, n)
    BY <1>0 DEF Undone
  <2>2. PICK e \in Nat, d \in Blocks : Stores(p, e, BlockBase(n), d)
    BY <1>0, <2>1 DEF LivesIn, HasBlock
  <2>3. EntryOf(AtElement(p, n)) = e
    BY <1>0, <2>1, <2>2, DestructorFinds
  <2>4. b = d /\ Placed(p, e, d)
    BY <1>1, <2>2, <2>3 DEF Stores, Placed
  <2> QED BY <2>4
<1>2. ASSUME tailIndex[p] % BLOCK_SIZE # 0, b = tailBlock[p]
      PROVE  b \in Blocks /\ \E e \in Nat : Placed(p, e, b)
  BY <1>0, <1>2 DEF FillsIn, New, Stores
<1> QED BY <1>1, <1>2, DestroyedIs

\* With every thread idle, the destructor of p frees the blocks in its
\* entries, and no others.
LEMMA IdleDestroyed ==
    ASSUME IInv, AllIdle, NEW p \in Producers
    PROVE  {entry[p][e].value : e \in DOMAIN entry[p]} \ {None} = Destroyed(p)
<1>0. DOMAIN entry[p] = 1 .. Len(entry[p]) /\ Len(entry[p]) \in Nat /\ entry[p] \in Seq(Entry)
  BY DEF IInv, Types, IndexTypes
<1>1. ASSUME NEW b \in {entry[p][e].value : e \in DOMAIN entry[p]} \ {None}
      PROVE  b \in Destroyed(p)
  <2>1. PICK e \in DOMAIN entry[p] : b = entry[p][e].value
    OBVIOUS
  <2>2. entry[p][e] \in Entry
    BY <1>0, <2>1
  <2>3. b \in Blocks
    BY <1>1, <2>1, <2>2 DEF Entry, MaybeBlock
  <2>4. e \in Nat /\ Placed(p, e, b)
    BY <1>0, <2>1 DEF Placed
  <2> QED BY <2>3, <2>4, LiveIsDestroyed
<1>2. ASSUME NEW b \in Destroyed(p)
      PROVE  b \in {entry[p][e].value : e \in DOMAIN entry[p]} \ {None}
  <2>1. b \in Blocks /\ \E e \in Nat : Placed(p, e, b)
    BY DestroyedIsLive
  <2> QED BY <1>0, <2>1, Somes DEF Placed
<1> QED BY <1>1, <1>2

\* With every thread idle, a block that was taken is in one entry or on the
\* free list.
LEMMA IdleUse ==
    ASSUME IInv, AllIdle, NEW b \in Blocks, b \in Taken
    PROVE  Cardinality(InIndex(b)) = IF b \in OnList THEN 0 ELSE 1
<1>0. /\ OwnCore /\ OwnLocals /\ FreeRefs /\ FreeLinks
      /\ \A p \in Producers : entry[p] \in Seq(Entry)
  BY DEF IInv, OwnedOK, FreeOK, Types, IndexTypes
<1>1. \A t \in Threads : fl[t].at = "out"
  BY <1>0 DEF AllIdle, OwnLocals
<1>2. \A t \in Threads : ~Works(fl[t], b) /\ ~Reads(fl[t], b)
  BY <1>1 DEF Works, Reads, Working
<1>3. Refd(b) = 0 /\ Free1(b)
  BY <1>2, Refds DEF Free1
<1>4. LooseB(b) \/ Listed(b)
  BY <1>0, <1>3 DEF FreeRefs, Waits
<1>5. ~(LooseB(b) /\ Listed(b))
  BY <1>3 DEF LooseB, Listed
<1>6. b \in OnList <=> Listed(b)
  BY <1>0, OnListIs
<1>7. ~HeldB(b)
  BY Members DEF HeldB, HeldBy, AllIdle
<1>8. PlacedB(b) <=> ~Listed(b)
  BY <1>0, <1>4, <1>5, <1>7 DEF OwnCore, UsedIs
<1>9. \A p \in Producers : \A e : (e \in DOMAIN entry[p] /\ entry[p][e].value = b) <=> (e \in Nat /\ Placed(p, e, b))
  BY <1>0 DEF Placed
<1>10. \A x : x \in InIndex(b) <=> \E p \in Producers : \E e \in Nat : x = <<p, e>> /\ Placed(p, e, b)
  <2>1. \A x : x \in InIndex(b) <=>
          \E p \in Producers : \E e : x = <<p, e>> /\ e \in DOMAIN entry[p] /\ entry[p][e].value = b
    BY DEF InIndex
  <2> QED BY <1>9, <2>1
<1>11. CASE b \in OnList
  <2>1. InIndex(b) = {}
    BY <1>6, <1>8, <1>10, <1>11 DEF PlacedB
  <2> QED BY <1>11, <2>1, FS_EmptySet
<1>12. CASE b \notin OnList
  <2>1. PICK p \in Producers, e \in Nat : Placed(p, e, b)
    BY <1>6, <1>8, <1>12 DEF PlacedB
  <2>2. InIndex(b) = {<<p, e>>}
    BY <1>0, <1>10, <2>1 DEF OwnCore, Unique
  <2> QED BY <1>12, <2>2, FS_Singleton
<1> QED BY <1>11, <1>12

\* The invariant implies NothingStranded.
LEMMA StrandedImply ==
    ASSUME IInv
    PROVE  NothingStranded
<1> SUFFICES ASSUME AllIdle
             PROVE  /\ \A p \in Producers : dequeueOptimisticCount[p] - dequeueOvercommit[p] = headIndex[p]
                    /\ \A p \in Producers : {entry[p][e].value : e \in DOMAIN entry[p]} \ {None} = Destroyed(p)
                    /\ \A b \in created \union {InitialBlocks[i] : i \in 1 .. Len(InitialBlocks)} :
                         \/ \E i \in initialBlockPoolIndex + 1 .. Len(InitialBlocks) : b = InitialBlocks[i]
                         \/ Cardinality(InIndex(b)) = IF b \in OnList THEN 0 ELSE 1
  BY DEF NothingStranded, AllIdle
<1>1. ASSUME NEW b \in created \union {InitialBlocks[i] : i \in 1 .. Len(InitialBlocks)}
      PROVE  \/ \E i \in initialBlockPoolIndex + 1 .. Len(InitialBlocks) : b = InitialBlocks[i]
             \/ b \in Blocks /\ b \in Taken
  <2>1. initialBlockPoolIndex \in Nat /\ created \subseteq Blocks /\ Len(InitialBlocks) \in Nat
    BY QueueAssumption DEF IInv, Types, BlockTypes
  <2>2. CASE b \in created
    BY <2>1, <2>2 DEF Taken
  <2>3. CASE b \notin created
    <3>1. PICK i \in 1 .. Len(InitialBlocks) : b = InitialBlocks[i]
      BY <2>3
    <3>2. CASE i <= initialBlockPoolIndex
      BY <2>1, <3>1, <3>2, Pool DEF Taken
    <3>3. CASE ~(i <= initialBlockPoolIndex)
      BY <2>1, <3>1, <3>3
    <3> QED BY <3>2, <3>3
  <2> QED BY <2>2, <2>3
<1> QED BY <1>1, IdleCounts, IdleDestroyed, IdleUse

\* When no operation is under way, no block was lost and none is used twice,
\* whatever interleaving of enqueue, dequeue and the free list came before: a
\* block that was taken is in one entry of one producer, whose destructor
\* frees it, or on the free list, and dequeue's failed attempts are all
\* counted off.
THEOREM NoBlockIsStranded == Spec => []NothingStranded
BY Inductive, StrandedImply, PTL

-----------------------------------------------------------------------------
(***************************************************************************)
(* The implementation of the streams.                                      *)
(***************************************************************************)

\* Two numbers have a larger one.
LEMMA Larger == \A a, b \in Nat : \E c \in Nat : a <= c /\ b <= c
<1> SUFFICES ASSUME NEW a \in Nat, NEW b \in Nat PROVE \E c \in Nat : a <= c /\ b <= c
  OBVIOUS
<1>1. a <= a + b /\ b <= a + b /\ a + b \in Nat
  OBVIOUS
<1> QED BY <1>1

\* The order of numbers is transitive.
LEMMA Through == \A a, b, c \in Nat : a <= b /\ b <= c => a <= c
OBVIOUS

\* A finite set of numbers has a bound.
LEMMA Bounded ==
    ASSUME NEW S, S \subseteq Nat, IsFiniteSet(S)
    PROVE  \E x \in Nat : \A y \in S : y <= x
<1>1. PICK n \in Nat : ExistsBijection(1 .. n, S)
  BY FS_NatBijection
<1>2. PICK f \in Bijection(1 .. n, S) : TRUE
  BY <1>1 DEF ExistsBijection
<1>3. f \in [1 .. n -> S] /\ \A y \in S : \E i \in 1 .. n : f[i] = y
  BY DEF Bijection, Surjection, Injection
<1> DEFINE Up(m, x) == \A i \in 1 .. n : i <= m => f[i] <= x
           D == {m \in Nat : ~ \E x \in Nat : Up(m, x)}
<1>4. SUFFICES ASSUME n \in D PROVE FALSE
  <2>1. ASSUME NEW x \in Nat, Up(n, x) PROVE \A y \in S : y <= x
    <3> SUFFICES ASSUME NEW y \in S PROVE y <= x
      OBVIOUS
    <3>1. PICK i \in 1 .. n : f[i] = y
      BY <1>3
    <3>2. i <= n
      OBVIOUS
    <3>3. f[i] <= x
      BY <2>1, <3>2
    <3> QED BY <3>1, <3>3
  <2>2. ASSUME n \notin D PROVE \E x \in Nat : Up(n, x)
    BY <2>2
  <2> HIDE DEF D, Up
  <2> QED BY <2>1, <2>2
<1>5. PICK m \in D : \A k \in D : m <= k
  <2>1. D \subseteq Nat /\ D # {}
    BY <1>4
  <2> HIDE DEF D
  <2> QED BY <2>1, LeastNat
<1>6. m \in Nat /\ m # 0
  <2>1. Up(0, 0)
    OBVIOUS
  <2>2. 0 \notin D
    BY <2>1
  <2> QED BY <1>5, <2>2
<1>7. m - 1 \in Nat /\ m - 1 \notin D
  <2>1. m - 1 \in Nat /\ ~(m <= m - 1)
    BY <1>6
  <2> HIDE DEF D
  <2> QED BY <1>5, <2>1
<1>8. PICK x \in Nat : Up(m - 1, x)
  BY <1>7
<1>a. \A i \in 1 .. n : i <= m - 1 => f[i] <= x
  BY <1>8
<1>b. \A i \in 1 .. n : f[i] \in Nat
  BY <1>3
<1>9. CASE m \in 1 .. n
  <2>1. f[m] \in Nat
    BY <1>b, <1>9
  <2>2. PICK z \in Nat : x <= z /\ f[m] <= z
    BY <2>1, Larger
  <2>4. Up(m, z)
    <3> SUFFICES ASSUME NEW i \in 1 .. n, i <= m PROVE f[i] <= z
      OBVIOUS
    <3>1. CASE i = m
      BY <2>2, <3>1
    <3>2. CASE i # m
      <4>1. i <= m - 1
        BY <1>6, <3>2
      <4>2. f[i] <= x
        BY <1>a, <4>1
      <4>3. f[i] \in Nat
        BY <1>b
      <4> QED BY <2>2, <4>2, <4>3, Through
    <3> QED BY <3>1, <3>2
  <2> QED BY <1>5, <2>4
<1>10. CASE m \notin 1 .. n
  <2>1. Up(m, x)
    <3> SUFFICES ASSUME NEW i \in 1 .. n, i <= m PROVE f[i] <= x
      OBVIOUS
    <3>1. i <= m - 1
      BY <1>6, <1>10
    <3> QED BY <1>a, <3>1
  <2> QED BY <1>5, <2>1
<1> QED BY <1>9, <1>10

\* The maximum of a finite set of numbers.
LEMMA MaxIs ==
    ASSUME NEW S, S \subseteq Nat, IsFiniteSet(S), S # {}
    PROVE  Max(S) \in S /\ \A y \in S : y <= Max(S)
<1> DEFINE U == {x \in Nat : \A y \in S : y <= x}
<1>1. U \subseteq Nat /\ U # {}
  BY Bounded
<1>2. PICK u \in U : \A x \in U : u <= x
  <2> HIDE DEF U
  <2> QED BY <1>1, LeastNat
<1>3. u \in S
  <2> SUFFICES ASSUME u \notin S PROVE FALSE
    OBVIOUS
  <2>1. \A y \in S : y \in Nat /\ y <= u /\ y # u
    BY <1>2
  <2>2. u \in Nat /\ u # 0
    <3>1. PICK y \in S : TRUE
      OBVIOUS
    <3>2. y \in Nat /\ y <= u /\ y # u /\ u \in Nat
      BY <1>2, <2>1
    <3> QED BY <3>2
  <2>3. u - 1 \in U
    BY <2>1, <2>2
  <2> QED BY <1>2, <2>2, <2>3
<1>4. \E x \in S : \A y \in S : x >= y
  BY <1>2, <1>3
<1>5. Max(S) \in S /\ \A y \in S : Max(S) >= y
  BY <1>4 DEF Max
<1> QED BY <1>5

\* No producer sends more than MaxElements elements.
LEMMA WorkBounded ==
    ASSUME Types, NEW p \in Producers
    PROVE  MaxElements \in Nat /\ work.sent[p] \in Nat /\ work.sent[p] <= MaxElements
<1> DEFINE S == {w.sent[q] : w \in Workloads, q \in Producers}
           W == Workloads \X Producers
           f == [x \in W |-> x[1].sent[x[2]]]
<1>1. IsFiniteSet(Workloads) /\ IsFiniteSet(Producers)
  <2>1. Producers \in SUBSET Threads
    BY Members
  <2> QED BY <2>1, QueueAssumption, FS_Subset
<1>2. IsFiniteSet(W)
  BY <1>1, FS_Product
<1>3. f \in Surjection(W, S)
  <2>1. \A x \in W : f[x] \in S
    OBVIOUS
  <2>2. f \in [W -> S]
    BY <2>1
  <2>3. \A y \in S : \E x \in W : f[x] = y
    <3>1. ASSUME NEW y \in S PROVE \E x \in W : f[x] = y
      <4>1. PICK w \in Workloads, q \in Producers : y = w.sent[q]
        BY <3>1
      <4>2. <<w, q>> \in W /\ f[<<w, q>>] = y
        BY <4>1
      <4> QED BY <4>2
    <3> HIDE DEF f, W, S
    <3> QED BY <3>1
  <2> HIDE DEF f, W, S
  <2> QED BY <2>2, <2>3 DEF Surjection
<1>4. IsFiniteSet(S)
  <2> HIDE DEF f, W, S
  <2> QED BY <1>2, <1>3, FS_Surjection
<1>5. S \subseteq Nat
  BY QueueAssumption
<1>6. work.sent[p] \in S
  BY DEF Types, BlockTypes
<1>7. MaxElements = Max(S)
  BY DEF MaxElements
<1>8. Max(S) \in S /\ \A y \in S : y <= Max(S)
  <2> HIDE DEF S
  <2> QED BY <1>4, <1>5, <1>6, MaxIs
<1> HIDE DEF S
<1> QED BY <1>5, <1>6, <1>7, <1>8

\* A producer that is enqueuing has an element left.
Sending == \A p \in Producers : pc[p] \notin {"idle", "give_back"} => tailIndex[p] < work.sent[p]

\* Every step keeps Sending.
LEMMA SendingStep ==
    ASSUME Types, Sending, [Next]_vars
    PROVE  Sending'
<1>1. work' = work
  BY Zenon DEF Next, Produce, Consume, GivenBack, InFreeList, vars, bounds, Fault,
     Enqueue, InsertBlockIndexEntry, InsertIn, NewBlockIndex, NewBlockIndexFails, Expose, AskPool, ClaimFromPool,
     FromFreeList, Create, CreateFails, Construct, ConstructThrows, Rewind, Forget, Publish,
     Dequeue, SeemsEmpty, SeemsNonEmpty, AddOptimistic, Recheck, AddOvercommit, ClaimHead, LoadBlockIndex,
     MoveElement, SetEmpty, Release
<1> SUFFICES ASSUME NEW p \in Producers, pc'[p] \notin {"idle", "give_back"}
             PROVE  tailIndex'[p] < work.sent[p]
  BY <1>1 DEF Sending
<1>2. CASE pc'[p] = pc[p] /\ tailIndex'[p] = tailIndex[p]
  BY <1>2 DEF Sending
<1>3. CASE Produce(p)
  <2>1. CASE Enqueue(p)
    BY <2>1, EnqueueDoes
  <2>2. CASE Construct(p)
    BY <2>2, ConstructDoes DEF Sending, Construct, countVars
  <2>3. CASE Publish(p)
    BY <2>3, PublishDoes
  <2>4. CASE HiddenProduce(p) /\ ~Enqueue(p)
    <3>1. pc[p] \notin {"idle", "give_back"}
      BY <2>4, InsertBlockIndexEntryDoes, NewBlockIndexDoes, NewBlockIndexFailsDoes, ExposeDoes, AskPoolDoes,
         ClaimFromPoolDoes, FromFreeListDoes, CreateDoes, CreateFailsDoes, ConstructThrowsDoes, RewindDoes, ForgetDoes
         DEF HiddenProduce
    <3> QED BY <2>4, <3>1, HiddenDoes DEF Sending
  <2> QED BY <1>3, <2>1, <2>2, <2>3, <2>4 DEF Produce, HiddenProduce
<1> QED BY <1>2, <1>3, ProducersStay

\* The elements h .. t - 1 of p.
QueueOf(p, h, t) == [i \in 1 .. t - h |-> <<p, h + i - 1>>]

\* The streams of MessageStreams.
StreamOf == [p \in Producers |-> QueueOf(p, headIndex[p], tailIndex[p])]

\* The hands of MessageStreams.
HandOf(c) == IF loc[c].item # None THEN loc[c].item
             ELSE IF Flying(c) THEN <<loc[c].from, loc[c].count>> ELSE None

Hand == [c \in Consumers |-> HandOf(c)]

\* The elements h .. t - 1 as a sequence.
LEMMA QueueLen ==
    ASSUME NEW p, NEW h \in Nat, NEW t \in Nat, h <= t
    PROVE  /\ QueueOf(p, h, t) \in Seq({p} \X Nat)
           /\ Len(QueueOf(p, h, t)) = t - h
           /\ \A i \in 1 .. t - h : QueueOf(p, h, t)[i] = <<p, h + i - 1>>
<1>1. t - h \in Nat
  OBVIOUS
<1>2. PICK n \in Nat : n = t - h
  BY <1>1
<1>3. \A i \in 1 .. n : <<p, h + i - 1>> \in {p} \X Nat
  OBVIOUS
<1>4. [i \in 1 .. n |-> <<p, h + i - 1>>] \in Seq({p} \X Nat)
  BY <1>3
<1>5. Len([i \in 1 .. n |-> <<p, h + i - 1>>]) = n
  OBVIOUS
<1> QED BY <1>2, <1>4, <1>5 DEF QueueOf

\* No element.
LEMMA QueueEmpty == \A p : QueueOf(p, 0, 0) = << >>
BY DEF QueueOf

\* One more element at the end.
LEMMA QueuePut ==
    ASSUME NEW p, NEW h \in Nat, NEW t \in Nat, h <= t
    PROVE  Append(QueueOf(p, h, t), <<p, t>>) = QueueOf(p, h, t + 1)
<1> DEFINE s == QueueOf(p, h, t)
           q == QueueOf(p, h, t + 1)
           a == Append(s, <<p, t>>)
           M == {p} \X Nat
<1>1. s \in Seq(M) /\ Len(s) = t - h /\ \A i \in 1 .. t - h : s[i] = <<p, h + i - 1>>
  BY QueueLen
<1>2. q \in Seq(M) /\ Len(q) = t + 1 - h /\ \A i \in 1 .. t + 1 - h : q[i] = <<p, h + i - 1>>
  <2>1. PICK u \in Nat : u = t + 1 /\ h <= u
    <3>1. t + 1 \in Nat /\ h <= t + 1
      OBVIOUS
    <3> QED BY <3>1
  <2>2. /\ QueueOf(p, h, u) \in Seq({p} \X Nat) /\ Len(QueueOf(p, h, u)) = u - h
        /\ \A i \in 1 .. u - h : QueueOf(p, h, u)[i] = <<p, h + i - 1>>
    BY <2>1, QueueLen
  <2> QED BY <2>1, <2>2
<1>3. <<p, t>> \in M
  OBVIOUS
<1> HIDE DEF s, q, M
<1>4. a \in Seq(M) /\ Len(a) = t + 1 - h
  BY <1>1, <1>3
<1>5. \A i \in 1 .. t + 1 - h : a[i] = q[i]
  <2> SUFFICES ASSUME NEW i \in 1 .. t + 1 - h PROVE a[i] = q[i]
    OBVIOUS
  <2>1. CASE i \in 1 .. t - h
    <3>1. i \in 1 .. Len(s)
      BY <1>1, <2>1
    <3>2. a[i] = s[i]
      BY <1>1, <1>3, <3>1
    <3>3. s[i] = <<p, h + i - 1>> /\ q[i] = <<p, h + i - 1>>
      BY <1>1, <1>2, <2>1
    <3> QED BY <3>2, <3>3
  <2>2. CASE i = t + 1 - h
    <3>1. a[i] = <<p, t>>
      BY <1>1, <1>3, <2>2
    <3>2. q[i] = <<p, h + i - 1>> /\ h + i - 1 = t
      BY <1>2, <2>2
    <3> QED BY <3>1, <3>2
  <2>3. i \in 1 .. t - h \/ i = t + 1 - h
    OBVIOUS
  <2> QED BY <2>1, <2>2, <2>3
<1> HIDE DEF a
<1>6. a = q
  BY <1>2, <1>4, <1>5, SeqEqual
<1> QED BY <1>6 DEF a, s, q

\* The first element is taken.
LEMMA QueueTake ==
    ASSUME NEW p, NEW h \in Nat, NEW t \in Nat, h < t
    PROVE  /\ QueueOf(p, h, t) # << >>
           /\ Head(QueueOf(p, h, t)) = <<p, h>>
           /\ Tail(QueueOf(p, h, t)) = QueueOf(p, h + 1, t)
<1> DEFINE s == QueueOf(p, h, t)
           q == QueueOf(p, h + 1, t)
           a == Tail(s)
           M == {p} \X Nat
<1>1. s \in Seq(M) /\ Len(s) = t - h /\ \A i \in 1 .. t - h : s[i] = <<p, h + i - 1>>
  <2>1. h <= t
    OBVIOUS
  <2> QED BY <2>1, QueueLen
<1>2. q \in Seq(M) /\ Len(q) = t - (h + 1) /\ \A i \in 1 .. t - (h + 1) : q[i] = <<p, h + 1 + i - 1>>
  <2>1. PICK g \in Nat : g = h + 1 /\ g <= t
    <3>1. h + 1 \in Nat /\ h + 1 <= t
      OBVIOUS
    <3> QED BY <3>1
  <2>2. /\ QueueOf(p, g, t) \in Seq({p} \X Nat) /\ Len(QueueOf(p, g, t)) = t - g
        /\ \A i \in 1 .. t - g : QueueOf(p, g, t)[i] = <<p, g + i - 1>>
    BY Zenon, <2>1, QueueLen
  <2> QED BY <2>1, <2>2
<1> HIDE DEF s, q, M
<1>3. s # << >>
  BY <1>1
<1>4. Head(s) = <<p, h>>
  <2>1. 1 \in 1 .. t - h /\ h + 1 - 1 = h
    OBVIOUS
  <2>2. s[1] = <<p, h>>
    BY <1>1, <2>1
  <2> QED BY <1>1, <1>3, <2>2
<1>5. a \in Seq(M) /\ Len(a) = t - (h + 1)
  BY <1>1, <1>3
<1>6. \A i \in 1 .. t - (h + 1) : a[i] = q[i]
  <2> SUFFICES ASSUME NEW i \in 1 .. t - (h + 1) PROVE a[i] = q[i]
    OBVIOUS
  <2>1. a[i] = s[i + 1]
    BY <1>1, <1>3
  <2>2. i + 1 \in 1 .. t - h /\ h + (i + 1) - 1 = h + 1 + i - 1
    OBVIOUS
  <2>3. s[i + 1] = <<p, h + (i + 1) - 1>>
    BY <1>1, <2>2
  <2> QED BY <1>2, <2>1, <2>2, <2>3
<1> HIDE DEF a
<1>7. a = q
  BY <1>2, <1>5, <1>6, SeqEqual
<1> QED BY <1>3, <1>4, <1>7 DEF a, s, q

\* MessageStreams in terms of StreamOf and Hand.
LEMMA StreamsAre ==
    /\ \A p, m : Streams!Enqueue(p, m) <=> StreamOf' = [StreamOf EXCEPT ![p] = Append(@, m)] /\ Hand' = Hand
    /\ \A c, p : Streams!Dequeue(c, p) <=>
         /\ Hand[c] = None /\ StreamOf[p] # << >>
         /\ Hand' = [Hand EXCEPT ![c] = Head(StreamOf[p])] /\ StreamOf' = [StreamOf EXCEPT ![p] = Tail(@)]
    /\ \A c : Streams!Return(c) <=> Hand[c] # None /\ Hand' = [Hand EXCEPT ![c] = None] /\ StreamOf' = StreamOf
    /\ Streams!Init <=> StreamOf = [p \in Producers |-> << >>] /\ Hand = [c \in Consumers |-> None]
    /\ UNCHANGED Streams!streamVars <=> StreamOf' = StreamOf /\ Hand' = Hand
<1>1. \A p, m : Streams!Enqueue(p, m) <=> StreamOf' = [StreamOf EXCEPT ![p] = Append(@, m)] /\ Hand' = Hand
  BY DEF Streams!Enqueue, StreamOf, QueueOf, Hand, HandOf, Flying
<1>2. \A c, p : Streams!Dequeue(c, p) <=>
         /\ Hand[c] = None /\ StreamOf[p] # << >>
         /\ Hand' = [Hand EXCEPT ![c] = Head(StreamOf[p])] /\ StreamOf' = [StreamOf EXCEPT ![p] = Tail(@)]
  BY DEF Streams!Dequeue, StreamOf, QueueOf, Hand, HandOf, Flying
<1>3. \A c : Streams!Return(c) <=> Hand[c] # None /\ Hand' = [Hand EXCEPT ![c] = None] /\ StreamOf' = StreamOf
  BY DEF Streams!Return, StreamOf, QueueOf, Hand, HandOf, Flying
<1>4. Streams!Init <=> StreamOf = [p \in Producers |-> << >>] /\ Hand = [c \in Consumers |-> None]
  BY DEF Streams!Init, StreamOf, QueueOf, Hand, HandOf, Flying
<1>5. UNCHANGED Streams!streamVars <=> StreamOf' = StreamOf /\ Hand' = Hand
  BY DEF Streams!streamVars, StreamOf, QueueOf, Hand, HandOf, Flying
<1> QED BY <1>1, <1>2, <1>3, <1>4, <1>5

\* The hand of c is as it was.
SameHand(c) == HandOf(c)' = HandOf(c)

\* No hand changes.
LEMMA HandsSame ==
    ASSUME \A c \in Consumers : SameHand(c)
    PROVE  Hand' = Hand
BY DEF Hand, SameHand

\* A consumer that stays where it is has in its hand what it had.
LEMMA HandKept ==
    ASSUME NEW c, pc'[c] = pc[c], loc'[c] = loc[c]
    PROVE  SameHand(c)
BY DEF SameHand, HandOf, Flying

\* One hand changes.
LEMMA HandSet ==
    ASSUME NEW c0 \in Consumers, \A c \in Consumers : c # c0 => SameHand(c)
    PROVE  \A x : HandOf(c0)' = x => Hand' = [Hand EXCEPT ![c0] = x]
BY DEF Hand, SameHand

\* The streams are what is between head and tail.
LEMMA StreamsSame ==
    ASSUME headIndex' = headIndex, tailIndex' = tailIndex
    PROVE  StreamOf' = StreamOf
BY DEF StreamOf, QueueOf

\* Publish is Enqueue of MessageStreams.
LEMMA PublishStreams ==
    ASSUME IInv, Sending, NEW p \in Producers, Publish(p)
    PROVE  Streams!Next
<1>0. Types /\ headIndex[p] \in Nat /\ tailIndex[p] \in Nat /\ headIndex[p] <= tailIndex[p]
  BY ClaimsImply DEF IInv, Types, CountTypes
<1>1. /\ pc[p] = "publish" /\ headIndex' = headIndex
      /\ tailIndex' = [tailIndex EXCEPT ![p] = @ + 1]
      /\ \A u \in Threads : u # p => pc'[u] = pc[u] /\ loc'[u] = loc[u]
  BY <1>0, PublishDoes DEF Publish
<1>2. Hand' = Hand
  <2>1. \A c \in Consumers : SameHand(c)
    BY <1>1, Members2, HandKept
  <2> QED BY <2>1, HandsSame
<1>3. tailIndex \in [Producers -> Nat]
  BY <1>0 DEF Types, CountTypes
<1>4. StreamOf' = [StreamOf EXCEPT ![p] = Append(@, <<p, tailIndex[p]>>)]
  <2>1. Append(QueueOf(p, headIndex[p], tailIndex[p]), <<p, tailIndex[p]>>) = QueueOf(p, headIndex[p], tailIndex[p] + 1)
    BY <1>0, QueuePut
  <2>2. StreamOf' = [q \in Producers |-> QueueOf(q, headIndex'[q], tailIndex'[q])]
    BY DEF StreamOf, QueueOf
  <2>3. \A q \in Producers : QueueOf(q, headIndex'[q], tailIndex'[q]) =
          IF q = p THEN QueueOf(p, headIndex[p], tailIndex[p] + 1) ELSE QueueOf(q, headIndex[q], tailIndex[q])
    <3>1. \A q \in Producers : tailIndex'[q] = IF q = p THEN tailIndex[p] + 1 ELSE tailIndex[q]
      BY <1>1, <1>3
    <3> QED BY <1>1, <3>1
  <2>4. \A q \in Producers : StreamOf[q] = QueueOf(q, headIndex[q], tailIndex[q])
    BY DEF StreamOf
  <2> QED BY <2>1, <2>2, <2>3, <2>4 DEF StreamOf
<1>5. <<p, tailIndex[p]>> \in {p} \X (0 .. MaxElements - 1)
  <2>1. tailIndex[p] < work.sent[p]
    BY <1>1 DEF Sending
  <2>2. MaxElements \in Nat /\ work.sent[p] \in Nat /\ work.sent[p] <= MaxElements
    BY <1>0, WorkBounded
  <2> QED BY <1>0, <2>1, <2>2
<1>6. PICK m : m = <<p, tailIndex[p]>>
  OBVIOUS
<1>7. StreamOf' = [StreamOf EXCEPT ![p] = Append(@, m)]
  BY <1>4, <1>6
<1>8. Streams!Enqueue(p, m)
  BY <1>2, <1>7, StreamsAre
<1>9. m \in {p} \X (0 .. MaxElements - 1)
  BY <1>5, <1>6
<1> QED BY <1>8, <1>9 DEF Streams!Next

\* ClaimHead is Dequeue of MessageStreams.
LEMMA ClaimStreams ==
    ASSUME IInv, NEW c \in Consumers, ClaimHead(c)
    PROVE  Streams!Next
<1>0. Types /\ Claims /\ Carries(c)
  BY DEF IInv, StoredOK
<1>1. pc[c] = "claim_head"
  BY <1>0, ClaimHeadDoes
<1>2. loc[c].from \in Producers /\ headIndex[loc[c].from] < tailIndex[loc[c].from]
  BY <1>0, <1>1, HeadClaimed
<1>3. PICK p \in Producers : p = loc[c].from
  BY <1>2
<1>4. headIndex[p] \in Nat /\ tailIndex[p] \in Nat /\ headIndex[p] < tailIndex[p]
      /\ headIndex \in [Producers -> Nat]
  BY <1>0, <1>2, <1>3 DEF Types, CountTypes
<1>5. /\ pc'[c] = "block_index" /\ tailIndex' = tailIndex
      /\ loc'[c].from = p /\ loc'[c].count = headIndex[p] /\ loc'[c].item = loc[c].item
      /\ \A u \in Threads : u # c => pc'[u] = pc[u] /\ loc'[u] = loc[u]
  BY <1>0, <1>3, ClaimHeadDoes DEF Locals
<1>6. headIndex' = [headIndex EXCEPT ![p] = @ + 1]
  BY <1>3 DEF ClaimHead
<1>7. loc[c].item = None
  BY <1>0, <1>1 DEF Carries
<1>8. HandOf(c) = None /\ HandOf(c)' = <<p, headIndex[p]>>
  <2>1. HandOf(c) = None
    BY <1>1, <1>7 DEF HandOf, Flying
  <2>2. Flying(c)' /\ loc'[c].item = None
    BY <1>5, <1>7 DEF Flying
  <2> QED BY <1>5, <2>1, <2>2 DEF HandOf
<1>9. /\ QueueOf(p, headIndex[p], tailIndex[p]) # << >>
      /\ Head(QueueOf(p, headIndex[p], tailIndex[p])) = <<p, headIndex[p]>>
      /\ Tail(QueueOf(p, headIndex[p], tailIndex[p])) = QueueOf(p, headIndex[p] + 1, tailIndex[p])
  BY <1>4, QueueTake
<1>10. StreamOf[p] = QueueOf(p, headIndex[p], tailIndex[p])
  BY DEF StreamOf
<1>11. Hand' = [Hand EXCEPT ![c] = Head(StreamOf[p])]
  <2>1. \A d \in Consumers : d # c => SameHand(d)
    BY <1>5, Members2, HandKept
  <2>2. Hand' = [Hand EXCEPT ![c] = <<p, headIndex[p]>>]
    BY <1>8, <2>1, HandSet
  <2> QED BY <1>9, <1>10, <2>2
<1>12. StreamOf' = [StreamOf EXCEPT ![p] = Tail(@)]
  <2>2. StreamOf' = [q \in Producers |-> QueueOf(q, headIndex'[q], tailIndex'[q])]
    BY DEF StreamOf, QueueOf
  <2>3. \A q \in Producers : QueueOf(q, headIndex'[q], tailIndex'[q]) =
          IF q = p THEN QueueOf(p, headIndex[p] + 1, tailIndex[p]) ELSE QueueOf(q, headIndex[q], tailIndex[q])
    <3>1. \A q \in Producers : headIndex'[q] = IF q = p THEN headIndex[p] + 1 ELSE headIndex[q]
      BY <1>4, <1>6
    <3> QED BY <1>5, <3>1
  <2> QED BY <1>9, <1>10, <2>2, <2>3 DEF StreamOf
<1>13. Hand[c] = None
  BY <1>8 DEF Hand
<1>14. Streams!Dequeue(c, p)
  BY <1>9, <1>10, <1>11, <1>12, <1>13, StreamsAre
<1> QED BY <1>14 DEF Streams!Next

\* The return of an element is Return of MessageStreams.
LEMMA ReturnStreams ==
    ASSUME NEW c \in Consumers, loc[c].item # None, loc'[c] = NoLocals, pc'[c] = "idle",
           \A u \in Threads : u # c => pc'[u] = pc[u] /\ loc'[u] = loc[u],
           headIndex' = headIndex, tailIndex' = tailIndex
    PROVE  Streams!Next
<1>1. HandOf(c) # None /\ Hand[c] # None
  BY DEF HandOf, Hand
<1>2. HandOf(c)' = None
  <2>1. loc'[c].item = None
    BY DEF NoLocals
  <2>2. ~Flying(c)'
    BY DEF Flying
  <2> QED BY <2>1, <2>2 DEF HandOf
<1>3. \A d \in Consumers : d # c => SameHand(d)
  BY Members2, HandKept
<1>4. Hand' = [Hand EXCEPT ![c] = None]
  BY <1>2, <1>3, HandSet
<1>5. StreamOf' = StreamOf
  BY StreamsSame
<1>6. Streams!Return(c)
  BY <1>1, <1>4, <1>5, StreamsAre
<1> QED BY <1>6 DEF Streams!Next

\* A hidden step of a consumer does not change its hand.
LEMMA HiddenHand ==
    ASSUME IInv, NEW c \in Consumers, HiddenConsume(c)
    PROVE  SameHand(c)
<1>0. Types /\ Carries(c)
  BY DEF IInv, StoredOK
<1>1. pc[c] \notin {"set_empty", "release", "give_back"}
  BY <1>0, DequeueDoes, SeemsEmptyDoes, SeemsNonEmptyDoes, AddOptimisticDoes, RecheckDoes, AddOvercommitDoes,
     LoadBlockIndexDoes DEF HiddenConsume
<1>2. loc[c].item = None
  BY <1>0, <1>1 DEF Carries
<1>3. loc'[c].item = None
  BY <1>0, <1>2, DequeueDoes, SeemsEmptyDoes, SeemsNonEmptyDoes, AddOptimisticDoes, RecheckDoes, AddOvercommitDoes,
     LoadBlockIndexDoes DEF HiddenConsume, Locals, NoLocals
<1>4. SameView(c)
  BY <1>0, HiddenView
<1>5. /\ Flying(c)' <=> Flying(c)
      /\ Flying(c) => loc'[c].from = loc[c].from /\ loc'[c].count = loc[c].count
  BY <1>4 DEF SameView
<1> QED BY <1>2, <1>3, <1>5 DEF SameHand, HandOf

\* MoveElement reads the element that was claimed: the hand does not change.
LEMMA MoveHand ==
    ASSUME IInv, NEW c \in Consumers, MoveElement(c)
    PROVE  SameHand(c)
<1>0. Types /\ Claims /\ IndexOK /\ StoredOK /\ Carries(c)
  BY DEF IInv, StoredOK
<1>1. pc[c] = "entry" /\ loc'[c].item = <<loc[c].from, loc[c].count>>
  BY <1>0, MoveElementDoes, ItemIs
<1>2. loc[c].from \in Producers /\ loc[c].count \in Nat
  BY <1>0, <1>1, Members2 DEF Types, LocTypes, WfLoc
<1>3. loc'[c].item # None
  BY <1>1, <1>2, QueueAssumption
<1>4. loc[c].item = None /\ Flying(c)
  BY <1>0, <1>1 DEF Carries, Flying
<1> QED BY <1>1, <1>3, <1>4 DEF SameHand, HandOf

\* A step of a consumer is a step of MessageStreams or none.
LEMMA ConsumeStreams ==
    ASSUME IInv, NEW c \in Consumers, Consume(c)
    PROVE  Streams!Next \/ UNCHANGED Streams!streamVars
<1>0. Types /\ Carries(c)
  BY DEF IInv, StoredOK
<1>1. \A u \in Threads : u # c => pc'[u] = pc[u] /\ loc'[u] = loc[u]
  BY <1>0, OnlyConsumer
<1>2. ASSUME SameHand(c), headIndex' = headIndex, tailIndex' = tailIndex
      PROVE  UNCHANGED Streams!streamVars
  <2>1. \A d \in Consumers : SameHand(d)
    BY <1>1, <1>2, Members2, HandKept
  <2> QED BY <1>2, <2>1, HandsSame, StreamsSame, StreamsAre
<1>3. CASE HiddenConsume(c)
  BY <1>0, <1>2, <1>3, HiddenHand, HiddenView
<1>4. CASE ClaimHead(c)
  BY <1>4, ClaimStreams
<1>5. CASE MoveElement(c)
  BY <1>0, <1>2, <1>5, MoveHand, MoveElementDoes
<1>6. CASE SetEmpty(c)
  <2>1. pc[c] = "set_empty" /\ headIndex' = headIndex /\ tailIndex' = tailIndex
    BY <1>0, <1>6, SetEmptyDoes
  <2>2. loc[c].item # None
    BY <1>0, <2>1 DEF Carries
  <2>3. CASE pc'[c] = "release" /\ loc'[c] = loc[c]
    <3>1. SameHand(c)
      BY <2>2, <2>3 DEF SameHand, HandOf
    <3> QED BY <1>2, <2>1, <3>1
  <2>4. CASE pc'[c] = "idle" /\ loc'[c] = NoLocals
    BY <1>1, <2>1, <2>2, <2>4, ReturnStreams
  <2> QED BY <1>0, <1>6, <2>3, <2>4, SetEmptyDoes
<1>7. CASE Release(c)
  <2>1. pc[c] = "release" /\ loc'[c] = loc[c] /\ headIndex' = headIndex /\ tailIndex' = tailIndex
    BY <1>0, <1>7, ReleaseDoes
  <2>2. loc[c].item # None
    BY <1>0, <2>1 DEF Carries
  <2>3. SameHand(c)
    BY <2>1, <2>2 DEF SameHand, HandOf
  <2> QED BY <1>2, <2>1, <2>3
<1> QED BY <1>3, <1>4, <1>5, <1>6, <1>7 DEF Consume, HiddenConsume

\* A step of a producer is a step of MessageStreams or none.
LEMMA ProduceStreams ==
    ASSUME IInv, Sending, NEW p \in Producers, Produce(p)
    PROVE  Streams!Next \/ UNCHANGED Streams!streamVars
<1>0. Types
  BY DEF IInv
<1>1. CASE Publish(p)
  BY <1>1, PublishStreams
<1>2. CASE ~Publish(p)
  <2>1. headIndex' = headIndex /\ tailIndex' = tailIndex
    <3>1. CASE HiddenProduce(p)
      BY <1>0, <3>1, HiddenDoes
    <3>2. CASE Construct(p)
      BY <3>2 DEF Construct, countVars
    <3> QED BY <1>2, <3>1, <3>2 DEF Produce, HiddenProduce
  <2>2. \A c \in Consumers : SameHand(c)
    BY <1>0, OnlyProducer, Members2, HandKept
  <2> QED BY <2>1, <2>2, HandsSame, StreamsSame, StreamsAre
<1> QED BY <1>1, <1>2

\* Every step is a step of MessageStreams or none.
LEMMA StreamsStep ==
    ASSUME IInv, Sending, [Next]_vars
    PROVE  Streams!Next \/ UNCHANGED Streams!streamVars
<1>0. Types /\ \A c \in Consumers : Carries(c)
  BY DEF IInv, StoredOK
<1>1. ASSUME headIndex' = headIndex, tailIndex' = tailIndex, \A c \in Consumers : pc'[c] = pc[c] /\ loc'[c] = loc[c]
      PROVE  UNCHANGED Streams!streamVars
  <2>1. \A d \in Consumers : SameHand(d)
    BY <1>1, HandKept
  <2> QED BY <1>1, <2>1, HandsSame, StreamsSame, StreamsAre
<1>2. CASE UNCHANGED vars
  BY <1>1, <1>2 DEF vars, countVars
<1>3. ASSUME NEW t \in Threads, GivenBack(t) PROVE Streams!Next \/ UNCHANGED Streams!streamVars
  <2>1. /\ pc[t] = "give_back" /\ pc'[t] = "idle" /\ loc'[t] = NoLocals
        /\ \A u \in Threads : u # t => pc'[u] = pc[u] /\ loc'[u] = loc[u]
        /\ headIndex' = headIndex /\ tailIndex' = tailIndex
    BY <1>0, <1>3, GivenBackDoes
  <2>2. CASE t \in Consumers
    <3>1. loc[t].item # None
      BY <1>0, <2>1, <2>2 DEF Carries
    <3> QED BY <2>1, <2>2, <3>1, ReturnStreams
  <2>3. CASE t \notin Consumers
    BY <1>1, <2>1, <2>3, Members2
  <2> QED BY <2>2, <2>3
<1>4. ASSUME NEW t \in Threads, InFreeList(t) PROVE UNCHANGED Streams!streamVars
  BY <1>1, <1>4 DEF InFreeList, countVars
<1> QED BY <1>2, <1>3, <1>4, ProduceStreams, ConsumeStreams DEF Next

\* The streams are empty at the start, and so are the hands.
LEMMA StreamsInit ==
    ASSUME Init
    PROVE  Streams!Init
<1>1. StreamOf = [p \in Producers |-> << >>]
  <2>1. \A p \in Producers : headIndex[p] = 0 /\ tailIndex[p] = 0
    BY DEF Init
  <2> QED BY SMTT(40), <2>1, QueueEmpty DEF StreamOf
<1>2. Hand = [c \in Consumers |-> None]
  <2>1. \A c \in Consumers : HandOf(c) = None
    BY Members2 DEF Init, HandOf, Flying, NoLocals
  <2> QED BY <2>1 DEF Hand
<1> QED BY <1>1, <1>2, StreamsAre

\* A producer enqueues only what its workload has.
LEMMA Sends == Spec => []Sending
<1>1. Init => Sending
  BY Members DEF Init, Sending
<1>2. IInv /\ Sending /\ [Next]_vars => Sending'
  BY SendingStep DEF IInv
<1> QED BY <1>1, <1>2, Inductive, PTL DEF Spec

\* The queue implements streams that are first in, first out: what enqueue
\* publishes is appended to the stream of its thread, and each dequeue takes
\* the first element of a stream, so that no element is lost, handed out
\* twice, or overtaken by a later one of its thread, for any number of
\* producers, consumers and blocks.
THEOREM StreamsImplemented == Spec => ImplementsStreams
<1>1. Init => Streams!Init
  BY StreamsInit
<1>2. IInv /\ Sending /\ [Next]_vars => [Streams!Next]_Streams!streamVars
  BY StreamsStep
<1> QED BY <1>1, <1>2, Inductive, Sends, PTL DEF Spec, ImplementsStreams, Streams!Spec
=============================================================================
