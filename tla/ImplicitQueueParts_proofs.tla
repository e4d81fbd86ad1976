--------------------- MODULE ImplicitQueueParts_proofs ---------------------
(***************************************************************************)
(* The queue of the logger, for any number of producers, consumers, blocks *)
(* and elements: the types of the state, the counts of the optimistic      *)
(* scheme of dequeue, the block index that a consumer searches while the   *)
(* producer grows it and uses its entries again, and the free list of      *)
(* blocks. Every step keeps these parts of the invariant;                  *)
(* ImplicitQueue_proofs goes on with the owners and the contents of the    *)
(* blocks, and has the theorems.                                           *)
(***************************************************************************)
EXTENDS ImplicitQueueInv, TLAPS, FiniteSetTheorems, SequenceTheorems,
        WellFoundedInduction

-----------------------------------------------------------------------------
(***************************************************************************)
(* The types of the state: every step keeps them.                          *)
(***************************************************************************)

\* Every step keeps the types of the counts.
LEMMA CountTypesStep ==
    ASSUME Types, [Next]_vars
    PROVE  CountTypes'
<1>1. CASE UNCHANGED countVars
  BY <1>1 DEF Types, CountTypes, countVars
<1>2. ASSUME NEW f \in [Producers -> Nat], NEW p \in Producers
      PROVE  [f EXCEPT ![p] = @ + 1] \in [Producers -> Nat]
  OBVIOUS
<1>3. ASSUME NEW p \in Producers, Produce(p) PROVE CountTypes'
  <2>1. CASE Enqueue(p)
    BY SMTT(40), <1>1, <2>1 DEF Enqueue
  <2>2. CASE InsertBlockIndexEntry(p)
    BY <1>1, <2>2 DEF InsertBlockIndexEntry, InsertIn
  <2>3. CASE NewBlockIndex(p)
    BY <1>1, <2>3 DEF NewBlockIndex
  <2>4. CASE NewBlockIndexFails(p)
    BY <1>1, <2>4 DEF NewBlockIndexFails
  <2>5. CASE Expose(p)
    BY <1>1, <2>5 DEF Expose
  <2>6. CASE AskPool(p)
    BY <1>1, <2>6 DEF AskPool, AskFreeList
  <2>7. CASE ClaimFromPool(p)
    BY <1>1, <2>7 DEF ClaimFromPool, AskFreeList
  <2>8. CASE FromFreeList(p)
    BY <1>1, <2>8 DEF FromFreeList
  <2>9. CASE Create(p)
    BY <1>1, <2>9 DEF Create
  <2>10. CASE CreateFails(p)
    BY <1>1, <2>10 DEF CreateFails
  <2>11. CASE Construct(p)
    BY <1>1, <2>11 DEF Construct
  <2>12. CASE ConstructThrows(p)
    BY <1>1, <2>12 DEF ConstructThrows
  <2>13. CASE Rewind(p)
    BY <1>1, <2>13 DEF Rewind
  <2>14. CASE Forget(p)
    BY <1>1, <2>14 DEF Forget
  <2>15. CASE Publish(p)
    BY <1>2, <2>15 DEF Types, CountTypes, Publish
  <2> QED
    BY <1>3, <2>1, <2>2, <2>3, <2>4, <2>5, <2>6, <2>7, <2>8, <2>9, <2>10,
       <2>11, <2>12, <2>13, <2>14, <2>15 DEF Produce
<1>4. ASSUME NEW c \in Consumers, Consume(c) PROVE CountTypes'
  <2>1. CASE SeemsEmpty(c)
    BY <1>1, <2>1 DEF SeemsEmpty
  <2>2. CASE SeemsNonEmpty(c)
    BY <1>1, <2>2 DEF SeemsNonEmpty
  <2>3. CASE Recheck(c)
    BY <1>1, <2>3 DEF Recheck
  <2>4. CASE LoadBlockIndex(c)
    BY <1>1, <2>4 DEF LoadBlockIndex
  <2>5. CASE MoveElement(c)
    BY <1>1, <2>5 DEF MoveElement
  <2>6. CASE SetEmpty(c)
    BY <1>1, <2>6 DEF SetEmpty
  <2>7. CASE Release(c)
    BY <1>1, <2>7 DEF Release
  <2>8. CASE \E p \in Producers : Dequeue(c, p)
    BY <1>1, <2>8 DEF Dequeue
  <2>9. CASE AddOptimistic(c)
    BY <1>2, <2>9 DEF Types, CountTypes, LocTypes, AddOptimistic
  <2>10. CASE AddOvercommit(c)
    BY <1>2, <2>10 DEF Types, CountTypes, LocTypes, AddOvercommit
  <2>11. CASE ClaimHead(c)
    BY <1>2, <2>11 DEF Types, CountTypes, LocTypes, ClaimHead
  <2> QED
    BY <1>4, <2>1, <2>2, <2>3, <2>4, <2>5, <2>6, <2>7, <2>8, <2>9, <2>10,
       <2>11 DEF Consume
<1>5. ASSUME NEW t \in Threads, GivenBack(t) PROVE CountTypes'
  BY <1>1, <1>5 DEF GivenBack
<1>6. ASSUME NEW t \in Threads, InFreeList(t) PROVE CountTypes'
  BY <1>1, <1>6 DEF InFreeList
<1>7. CASE UNCHANGED vars
  BY <1>1, <1>7 DEF vars
<1> QED
  BY <1>3, <1>4, <1>5, <1>6, <1>7 DEF Next

\* Every thread stays at a place of its own side.
LEMMA PcTypesStep ==
    ASSUME Types, [Next]_vars
    PROVE  PcTypes'
<1>1. CASE UNCHANGED vars
  BY QueueAssumption, <1>1 DEF Types, PcTypes, ProducerPc, ConsumerPc, vars,
     freeVars, countVars, indexVars, poolVars, blockVars, bounds
<1>2. ASSUME NEW p \in Producers, Produce(p) PROVE PcTypes'
  <2>1. CASE Enqueue(p)
    BY SMTT(40), QueueAssumption, <2>1 DEF Types, PcTypes, ProducerPc, ConsumerPc,
       Enqueue, Goto, vars, freeVars, countVars, indexVars, poolVars,
       blockVars, bounds
  <2>2. CASE InsertBlockIndexEntry(p)
    BY QueueAssumption, <2>2 DEF Types, PcTypes, ProducerPc, ConsumerPc,
       InsertBlockIndexEntry, InsertIn, Goto, vars, freeVars, countVars,
       indexVars, poolVars, blockVars, bounds
  <2>3. CASE NewBlockIndex(p)
    BY QueueAssumption, <2>3 DEF Types, PcTypes, ProducerPc, ConsumerPc,
       NewBlockIndex, Goto, vars, freeVars, countVars, indexVars, poolVars,
       blockVars, bounds
  <2>4. CASE NewBlockIndexFails(p)
    BY QueueAssumption, <2>4 DEF Types, PcTypes, ProducerPc, ConsumerPc,
       NewBlockIndexFails, Goto, Fault, vars, freeVars, countVars, indexVars,
       poolVars, blockVars, bounds
  <2>5. CASE Expose(p)
    BY QueueAssumption, <2>5 DEF Types, PcTypes, ProducerPc, ConsumerPc,
       Expose, Goto, MoveTail, vars, freeVars, countVars, indexVars, poolVars,
       blockVars, bounds
  <2>6. CASE AskPool(p)
    BY QueueAssumption, <2>6 DEF Types, PcTypes, ProducerPc, ConsumerPc,
       AskPool, AskFreeList, Goto, vars, freeVars, countVars, indexVars,
       poolVars, blockVars, bounds
  <2>7. CASE ClaimFromPool(p)
    BY QueueAssumption, <2>7 DEF Types, PcTypes, ProducerPc, ConsumerPc,
       ClaimFromPool, AskFreeList, Goto, vars, freeVars, countVars, indexVars,
       poolVars, blockVars, bounds
  <2>8. CASE FromFreeList(p)
    BY QueueAssumption, <2>8 DEF Types, PcTypes, ProducerPc, ConsumerPc,
       FromFreeList, Goto, vars, freeVars, countVars, indexVars, poolVars,
       blockVars, bounds
  <2>9. CASE Create(p)
    BY QueueAssumption, <2>9 DEF Types, PcTypes, ProducerPc, ConsumerPc,
       Create, Goto, vars, freeVars, countVars, indexVars, poolVars,
       blockVars, bounds
  <2>10. CASE CreateFails(p)
    BY QueueAssumption, <2>10 DEF Types, PcTypes, ProducerPc, ConsumerPc,
       CreateFails, Goto, Fault, vars, freeVars, countVars, indexVars,
       poolVars, blockVars, bounds
  <2>11. CASE Construct(p)
    BY QueueAssumption, <2>11 DEF Types, PcTypes, ProducerPc, ConsumerPc,
       Construct, Goto, vars, freeVars, countVars, indexVars, poolVars,
       blockVars, bounds
  <2>12. CASE ConstructThrows(p)
    BY QueueAssumption, <2>12 DEF Types, PcTypes, ProducerPc, ConsumerPc,
       ConstructThrows, Goto, Fault, vars, freeVars, countVars, indexVars,
       poolVars, blockVars, bounds
  <2>13. CASE Rewind(p)
    BY QueueAssumption, <2>13 DEF Types, PcTypes, ProducerPc, ConsumerPc,
       Rewind, Goto, MoveTail, vars, freeVars, countVars, indexVars, poolVars,
       blockVars, bounds
  <2>14. CASE Forget(p)
    BY QueueAssumption, <2>14 DEF Types, PcTypes, ProducerPc, ConsumerPc,
       Forget, Goto, vars, freeVars, countVars, indexVars, poolVars,
       blockVars, bounds
  <2>15. CASE Publish(p)
    BY QueueAssumption, <2>15 DEF Types, PcTypes, ProducerPc, ConsumerPc,
       Publish, Goto, vars, freeVars, countVars, indexVars, poolVars,
       blockVars, bounds
  <2> QED
    BY <1>2, <2>1, <2>2, <2>3, <2>4, <2>5, <2>6, <2>7, <2>8, <2>9, <2>10,
       <2>11, <2>12, <2>13, <2>14, <2>15 DEF Produce
<1>3. ASSUME NEW c \in Consumers, Consume(c) PROVE PcTypes'
  <2>1. CASE \E p \in Producers : Dequeue(c, p)
    BY QueueAssumption, <2>1 DEF Types, PcTypes, ProducerPc, ConsumerPc,
       Dequeue, Goto, vars, freeVars, countVars, indexVars, poolVars,
       blockVars, bounds
  <2>2. CASE SeemsEmpty(c)
    BY QueueAssumption, <2>2 DEF Types, PcTypes, ProducerPc, ConsumerPc,
       SeemsEmpty, Back, Goto, vars, freeVars, countVars, indexVars, poolVars,
       blockVars, bounds
  <2>3. CASE SeemsNonEmpty(c)
    BY QueueAssumption, <2>3 DEF Types, PcTypes, ProducerPc, ConsumerPc,
       SeemsNonEmpty, Goto, vars, freeVars, countVars, indexVars, poolVars,
       blockVars, bounds
  <2>4. CASE AddOptimistic(c)
    BY QueueAssumption, <2>4 DEF Types, PcTypes, ProducerPc, ConsumerPc,
       AddOptimistic, Goto, vars, freeVars, countVars, indexVars, poolVars,
       blockVars, bounds
  <2>5. CASE Recheck(c)
    BY QueueAssumption, <2>5 DEF Types, PcTypes, ProducerPc, ConsumerPc,
       Recheck, Goto, vars, freeVars, countVars, indexVars, poolVars,
       blockVars, bounds
  <2>6. CASE AddOvercommit(c)
    BY QueueAssumption, <2>6 DEF Types, PcTypes, ProducerPc, ConsumerPc,
       AddOvercommit, Back, Goto, vars, freeVars, countVars, indexVars,
       poolVars, blockVars, bounds
  <2>7. CASE ClaimHead(c)
    BY QueueAssumption, <2>7 DEF Types, PcTypes, ProducerPc, ConsumerPc,
       ClaimHead, Goto, vars, freeVars, countVars, indexVars, poolVars,
       blockVars, bounds
  <2>8. CASE LoadBlockIndex(c)
    BY QueueAssumption, <2>8 DEF Types, PcTypes, ProducerPc, ConsumerPc,
       LoadBlockIndex, Goto, vars, freeVars, countVars, indexVars, poolVars,
       blockVars, bounds
  <2>9. CASE MoveElement(c)
    BY Zenon, QueueAssumption, <2>9 DEF Types, PcTypes, ProducerPc, ConsumerPc,
       MoveElement, Goto, vars, freeVars, countVars, indexVars, poolVars,
       blockVars, bounds
  <2>10. CASE SetEmpty(c)
    BY QueueAssumption, <2>10 DEF Types, PcTypes, ProducerPc, ConsumerPc,
       SetEmpty, Back, Goto, vars, freeVars, countVars, indexVars, poolVars,
       blockVars, bounds
  <2>11. CASE Release(c)
    BY QueueAssumption, <2>11 DEF Types, PcTypes, ProducerPc, ConsumerPc,
       Release, Goto, vars, freeVars, countVars, indexVars, poolVars,
       blockVars, bounds
  <2> QED
    BY <1>3, <2>1, <2>2, <2>3, <2>4, <2>5, <2>6, <2>7, <2>8, <2>9, <2>10,
       <2>11 DEF Consume
<1>4. ASSUME NEW t \in Threads, GivenBack(t) PROVE PcTypes'
  BY QueueAssumption, <1>4 DEF Types, PcTypes, ProducerPc, ConsumerPc,
     GivenBack, Back, Goto, vars, freeVars, countVars, indexVars, poolVars,
     blockVars, bounds
<1>5. ASSUME NEW t \in Threads, InFreeList(t) PROVE PcTypes'
  BY QueueAssumption, <1>5 DEF Types, PcTypes, ProducerPc, ConsumerPc,
     InFreeList, vars, freeVars, countVars, indexVars, poolVars, blockVars,
     bounds
<1> QED
  BY <1>1, <1>2, <1>3, <1>4, <1>5 DEF Next

\* The remainders of n.
LEMMA Modulo == \A x \in Int, n \in Nat : n > 0 => x % n \in 0 .. n - 1 /\ x % n \in Nat
  OBVIOUS

\* A producer is a thread and no consumer.
LEMMA Members == \A p : p \in Producers => p \in Threads /\ p \notin Consumers
  BY QueueAssumption

\* A consumer is a thread and no producer.
LEMMA Members2 == \A c : c \in Consumers => c \in Threads /\ c \notin Producers
  BY QueueAssumption

\* The locals that the steps of the free list make are of their type.
LEMMA WfRecords ==
    /\ Wf(Getting) /\ Wf(Outside)
    /\ \A b \in MaybeBlock : Wf(Adding(b)) /\ Wf(Test(b))
    /\ \A f \in FlRecord : Wf(AfterPush(f))
    /\ \A f \in FlRecord : \A a \in FlAt :
         a \notin {"ref", "next", "pop"} => Wf([f EXCEPT !.at = a])
    /\ \A f \in FlRecord : \A b \in MaybeBlock : \A a \in {"count", "repush"} :
         Wf([f EXCEPT !.old = b, !.at = a])
    /\ \A f \in FlRecord : \A b \in MaybeBlock :
         f.head \in Blocks => Wf([f EXCEPT !.next = b, !.at = "pop"])
    /\ \A b \in MaybeBlock : \A h \in MaybeBlock :
         Wf([Outside EXCEPT !.at = "unref", !.node = b,
                            !.getting = TRUE, !.head = h])
<1>1. Wf(Getting) /\ Wf(Outside)
  BY DEF Wf, Getting, Outside, FlRecord, FlAt, MaybeBlock
<1>2. \A b \in MaybeBlock : Wf(Adding(b))
  BY DEF Wf, Adding, Outside, FlRecord, FlAt, MaybeBlock
<1>3. ASSUME NEW b \in MaybeBlock PROVE Wf(Test(b))
  <2>1. CASE b = None
    BY <2>1, QueueAssumption DEF Wf, Test, Outside, FlRecord, FlAt, MaybeBlock
  <2>2. CASE b # None
    BY <2>2, QueueAssumption DEF Wf, Test, Outside, FlRecord, FlAt, MaybeBlock
  <2> QED BY <2>1, <2>2
<1>4. ASSUME NEW f \in FlRecord PROVE Wf(AfterPush(f))
  <2>1. Wf([Outside EXCEPT !.at = "added"])
    BY DEF Wf, Outside, FlRecord, FlAt, MaybeBlock
  <2>2. f.head \in MaybeBlock
    BY DEF FlRecord
  <2> QED BY <1>3, <2>1, <2>2 DEF AfterPush
<1>5. ASSUME NEW f \in FlRecord, NEW a \in FlAt,
             a \notin {"ref", "next", "pop"}
      PROVE  Wf([f EXCEPT !.at = a])
  BY <1>5 DEF Wf, FlRecord
<1>6. ASSUME NEW f \in FlRecord, NEW b \in MaybeBlock,
             NEW a \in {"count", "repush"}
      PROVE  Wf([f EXCEPT !.old = b, !.at = a])
  <2>1. [f EXCEPT !.old = b] \in FlRecord
    BY DEF FlRecord
  <2>2. [f EXCEPT !.old = b, !.at = a]
          = [[f EXCEPT !.old = b] EXCEPT !.at = a]
    BY DEF FlRecord
  <2>3. a \in FlAt /\ a \notin {"ref", "next", "pop"}
    BY DEF FlAt
  <2> QED BY <1>5, <2>1, <2>2, <2>3
<1>7. ASSUME NEW f \in FlRecord, NEW b \in MaybeBlock, f.head \in Blocks
      PROVE  Wf([f EXCEPT !.next = b, !.at = "pop"])
  <2>1. [f EXCEPT !.next = b, !.at = "pop"] \in FlRecord
    BY DEF FlRecord, FlAt
  <2>2. [f EXCEPT !.next = b, !.at = "pop"].head = f.head
    BY DEF FlRecord
  <2> QED BY <1>7, <2>1, <2>2 DEF Wf
<1>8. ASSUME NEW b \in MaybeBlock, NEW h \in MaybeBlock
      PROVE  Wf([Outside EXCEPT !.at = "unref", !.node = b,
                                !.getting = TRUE, !.head = h])
  <2>1. Outside \in FlRecord
    BY <1>1 DEF Wf
  <2>2. "unref" \in FlAt /\ TRUE \in BOOLEAN
    BY DEF FlAt
  <2> DEFINE g == [Outside EXCEPT !.at = "unref", !.node = b,
                                  !.getting = TRUE, !.head = h]
  <2>3. g \in FlRecord
    BY <2>1, <2>2 DEF FlRecord
  <2>4. g.at = "unref"
    BY <2>1 DEF FlRecord
  <2> HIDE DEF g
  <2>5. Wf(g)
    BY <2>3, <2>4 DEF Wf
  <2> QED BY <2>5 DEF g
<1> QED BY Zenon, <1>1, <1>2, <1>3, <1>4, <1>5, <1>6, <1>7, <1>8

\* A function stays in its set when one value is replaced.
LEMMA ExceptIn ==
    ASSUME NEW D, NEW R, NEW f \in [D -> R], NEW b, NEW x, b \in D => x \in R
    PROVE  [f EXCEPT ![b] = x] \in [D -> R]
<1>1. CASE b \in D
  BY <1>1
<1>2. CASE b \notin D
  BY <1>2
<1> QED BY <1>1, <1>2

\* A step of t that writes the list keeps the types of the free list.
LEMMA FreeSet ==
    ASSUME FreeTypes, NEW t \in Threads, NEW f, Wf(f),
           fl' = [fl EXCEPT ![t] = f],
           freeListHead' \in MaybeBlock,
           freeListRefs' \in [Blocks -> Int],
           freeListNext' \in [Blocks -> MaybeBlock]
    PROVE  FreeTypes'
  BY DEF FreeTypes

\* A step of t that reads the list only keeps the types of the free list.
LEMMA FreeKept ==
    ASSUME FreeTypes, NEW t \in Threads, NEW f, Wf(f),
           fl' = [fl EXCEPT ![t] = f],
           UNCHANGED <<freeListHead, freeListRefs, freeListNext>>
    PROVE  FreeTypes'
  BY DEF FreeTypes

\* Every step keeps the types of the blocks and of the pool.
LEMMA BlockTypesStep ==
    ASSUME Types, [Next]_vars
    PROVE  BlockTypes'
<1>1. CASE UNCHANGED vars
  BY QueueAssumption, <1>1 DEF Types, BlockTypes, MaybeBlock, vars, freeVars,
     countVars, indexVars, poolVars, blockVars, bounds
<1>2. ASSUME NEW p \in Producers, Produce(p) PROVE BlockTypes'
  <2>1. CASE Enqueue(p)
    BY SMTT(40), QueueAssumption, <2>1 DEF Types, BlockTypes, MaybeBlock, Enqueue, Goto,
       vars, freeVars, countVars, indexVars, poolVars, blockVars, bounds
  <2>2. CASE InsertBlockIndexEntry(p)
    BY QueueAssumption, <2>2 DEF Types, BlockTypes, MaybeBlock,
       InsertBlockIndexEntry, InsertIn, Goto, vars, freeVars, countVars,
       indexVars, poolVars, blockVars, bounds
  <2>3. CASE NewBlockIndex(p)
    BY QueueAssumption, <2>3 DEF Types, BlockTypes, MaybeBlock, NewBlockIndex,
       Goto, vars, freeVars, countVars, indexVars, poolVars, blockVars, bounds
  <2>4. CASE NewBlockIndexFails(p)
    BY QueueAssumption, <2>4 DEF Types, BlockTypes, MaybeBlock,
       NewBlockIndexFails, Goto, Fault, vars, freeVars, countVars, indexVars,
       poolVars, blockVars, bounds
  <2>5. CASE Expose(p)
    BY QueueAssumption, <2>5 DEF Types, BlockTypes, MaybeBlock, Expose, Goto,
       MoveTail, vars, freeVars, countVars, indexVars, poolVars, blockVars,
       bounds
  <2>6. CASE AskPool(p)
    BY QueueAssumption, <2>6 DEF Types, BlockTypes, MaybeBlock, AskPool,
       AskFreeList, Goto, vars, freeVars, countVars, indexVars, poolVars,
       blockVars, bounds
  <2>7. CASE ClaimFromPool(p)
    BY SMTT(40), QueueAssumption, <2>7 DEF Types, BlockTypes, MaybeBlock, ClaimFromPool,
       AskFreeList, Goto, vars, freeVars, countVars, indexVars, poolVars,
       blockVars, bounds
  <2>8. CASE FromFreeList(p)
    BY QueueAssumption, <2>8 DEF Types, BlockTypes, MaybeBlock, FromFreeList,
       Goto, vars, freeVars, countVars, indexVars, poolVars, blockVars, bounds
  <2>9. CASE Create(p)
    BY QueueAssumption, <2>9 DEF Types, BlockTypes, MaybeBlock, Create, Goto,
       vars, freeVars, countVars, indexVars, poolVars, blockVars, bounds
  <2>10. CASE CreateFails(p)
    BY QueueAssumption, <2>10 DEF Types, BlockTypes, MaybeBlock, CreateFails,
       Goto, Fault, vars, freeVars, countVars, indexVars, poolVars, blockVars,
       bounds
  <2>11. CASE Construct(p)
    <3>1. loc[p].block \in MaybeBlock /\ tailIndex[p] \in Nat
      BY QueueAssumption, Members DEF Types, LocTypes, WfLoc, CountTypes
    <3>2. <<p, tailIndex[p]>> \in Producers \X Nat
      BY <3>1
    <3>3. tailIndex[p] % BLOCK_SIZE \in 0 .. BLOCK_SIZE - 1
      BY <3>1, Modulo, QueueAssumption
    <3>4. elements' \in [Blocks -> Elements]
      BY <2>11, <3>1, <3>2, <3>3 DEF Construct, Types, BlockTypes, Elements
    <3>5. dequeued' \in [Blocks -> Nat] /\ tailBlock' \in [Producers -> MaybeBlock]
      BY <2>11, <3>1 DEF Construct, Types, BlockTypes
    <3> QED
      BY <2>11, <3>4, <3>5 DEF Construct, Types, BlockTypes, poolVars, bounds
  <2>12. CASE ConstructThrows(p)
    BY SMTT(40), QueueAssumption, <2>12 DEF Types, BlockTypes, MaybeBlock,
       ConstructThrows, Goto, Fault, vars, freeVars, countVars, indexVars,
       poolVars, blockVars, bounds
  <2>13. CASE Rewind(p)
    BY QueueAssumption, <2>13 DEF Types, BlockTypes, MaybeBlock, Rewind, Goto,
       MoveTail, vars, freeVars, countVars, indexVars, poolVars, blockVars,
       bounds
  <2>14. CASE Forget(p)
    BY QueueAssumption, <2>14 DEF Types, BlockTypes, MaybeBlock, Forget, Goto,
       vars, freeVars, countVars, indexVars, poolVars, blockVars, bounds
  <2>15. CASE Publish(p)
    BY QueueAssumption, <2>15 DEF Types, BlockTypes, MaybeBlock, Publish,
       Goto, vars, freeVars, countVars, indexVars, poolVars, blockVars, bounds
  <2> QED
    BY <1>2, <2>1, <2>2, <2>3, <2>4, <2>5, <2>6, <2>7, <2>8, <2>9, <2>10,
       <2>11, <2>12, <2>13, <2>14, <2>15 DEF Produce
<1>3. ASSUME NEW c \in Consumers, Consume(c) PROVE BlockTypes'
  <2>1. CASE \E p \in Producers : Dequeue(c, p)
    BY QueueAssumption, <2>1 DEF Types, BlockTypes, MaybeBlock, Dequeue, Goto,
       vars, freeVars, countVars, indexVars, poolVars, blockVars, bounds
  <2>2. CASE SeemsEmpty(c)
    BY QueueAssumption, <2>2 DEF Types, BlockTypes, MaybeBlock, SeemsEmpty,
       Back, Goto, vars, freeVars, countVars, indexVars, poolVars, blockVars,
       bounds
  <2>3. CASE SeemsNonEmpty(c)
    BY QueueAssumption, <2>3 DEF Types, BlockTypes, MaybeBlock, SeemsNonEmpty,
       Goto, vars, freeVars, countVars, indexVars, poolVars, blockVars, bounds
  <2>4. CASE AddOptimistic(c)
    BY QueueAssumption, <2>4 DEF Types, BlockTypes, MaybeBlock, AddOptimistic,
       Goto, vars, freeVars, countVars, indexVars, poolVars, blockVars, bounds
  <2>5. CASE Recheck(c)
    BY QueueAssumption, <2>5 DEF Types, BlockTypes, MaybeBlock, Recheck, Goto,
       vars, freeVars, countVars, indexVars, poolVars, blockVars, bounds
  <2>6. CASE AddOvercommit(c)
    BY QueueAssumption, <2>6 DEF Types, BlockTypes, MaybeBlock, AddOvercommit,
       Back, Goto, vars, freeVars, countVars, indexVars, poolVars, blockVars,
       bounds
  <2>7. CASE ClaimHead(c)
    BY QueueAssumption, <2>7 DEF Types, BlockTypes, MaybeBlock, ClaimHead,
       Goto, vars, freeVars, countVars, indexVars, poolVars, blockVars, bounds
  <2>8. CASE LoadBlockIndex(c)
    BY QueueAssumption, <2>8 DEF Types, BlockTypes, MaybeBlock,
       LoadBlockIndex, Goto, vars, freeVars, countVars, indexVars, poolVars,
       blockVars, bounds
  <2>9. CASE MoveElement(c)
    <3>1. loc[c].count \in Nat
      BY QueueAssumption, Members2 DEF Types, LocTypes, WfLoc
    <3>2. loc[c].count % BLOCK_SIZE \in 0 .. BLOCK_SIZE - 1
      BY <3>1, Modulo, QueueAssumption
    <3>3. \E b : elements' = [elements EXCEPT ![b][loc[c].count % BLOCK_SIZE] = None]
      BY Zenon, <2>9 DEF MoveElement
    <3>4. elements' \in [Blocks -> Elements]
      <4>1. PICK b : elements' = [elements EXCEPT ![b][loc[c].count % BLOCK_SIZE] = None]
        BY <3>3
      <4>2. CASE b \notin Blocks
        BY <4>1, <4>2 DEF Types, BlockTypes
      <4>3. CASE b \in Blocks
        <5>1. [elements[b] EXCEPT ![loc[c].count % BLOCK_SIZE] = None] \in Elements
          BY <3>2, <4>3 DEF Types, BlockTypes, Elements
        <5> QED
          BY <4>1, <4>3, <5>1 DEF Types, BlockTypes
      <4> QED BY <4>2, <4>3
    <3> QED
      BY Zenon, <2>9, <3>4 DEF MoveElement, Types, BlockTypes, poolVars, bounds
  <2>10. CASE SetEmpty(c)
    <3>1. dequeued' \in [Blocks -> Nat]
      <4>1. CASE loc[c].block \in Blocks
        BY <2>10, <4>1 DEF SetEmpty, Types, BlockTypes
      <4>2. CASE loc[c].block \notin Blocks
        BY <2>10, <4>2 DEF SetEmpty, Types, BlockTypes
      <4> QED BY <4>1, <4>2
    <3> QED
      BY <2>10, <3>1 DEF SetEmpty, Types, BlockTypes, poolVars, bounds
  <2>11. CASE Release(c)
    BY QueueAssumption, <2>11 DEF Types, BlockTypes, MaybeBlock, Release,
       Goto, vars, freeVars, countVars, indexVars, poolVars, blockVars, bounds
  <2> QED
    BY <1>3, <2>1, <2>2, <2>3, <2>4, <2>5, <2>6, <2>7, <2>8, <2>9, <2>10,
       <2>11 DEF Consume
<1>4. ASSUME NEW t \in Threads, GivenBack(t) PROVE BlockTypes'
  BY QueueAssumption, <1>4 DEF Types, BlockTypes, MaybeBlock, GivenBack, Back,
     Goto, vars, freeVars, countVars, indexVars, poolVars, blockVars, bounds
<1>5. ASSUME NEW t \in Threads, InFreeList(t) PROVE BlockTypes'
  BY QueueAssumption, <1>5 DEF Types, BlockTypes, MaybeBlock, InFreeList,
     vars, freeVars, countVars, indexVars, poolVars, blockVars, bounds
<1> QED
  BY <1>1, <1>2, <1>3, <1>4, <1>5 DEF Next

\* The mark is a number.
LEMMA Mark == SHOULD_BE_ON_FREELIST \in Nat
  BY QueueAssumption, FS_CardinalityType DEF SHOULD_BE_ON_FREELIST

\* Every step keeps the types of the free list.
LEMMA FreeTypesStep ==
    ASSUME Types, [Next]_vars
    PROVE  FreeTypes'
<1>0. FreeTypes /\ LocTypes
  BY DEF Types
<1>00. ASSUME NEW t \in Threads
       PROVE  fl[t] \in FlRecord /\ Wf(fl[t]) /\ fl[t].head \in MaybeBlock
  BY <1>0 DEF FreeTypes, Wf, FlRecord
<1>1. CASE UNCHANGED vars
  BY QueueAssumption, <1>1 DEF Types, FreeTypes, vars, freeVars, countVars,
     indexVars, poolVars, blockVars, bounds
<1>2. ASSUME NEW p \in Producers, Produce(p) PROVE FreeTypes'
  <2>1. CASE Enqueue(p)
    BY QueueAssumption, <2>1 DEF Types, FreeTypes, Enqueue, Goto, vars,
       freeVars, countVars, indexVars, poolVars, blockVars, bounds
  <2>2. CASE InsertBlockIndexEntry(p)
    BY QueueAssumption, <2>2 DEF Types, FreeTypes, InsertBlockIndexEntry,
       InsertIn, Goto, vars, freeVars, countVars, indexVars, poolVars,
       blockVars, bounds
  <2>3. CASE NewBlockIndex(p)
    BY QueueAssumption, <2>3 DEF Types, FreeTypes, NewBlockIndex, Goto, vars,
       freeVars, countVars, indexVars, poolVars, blockVars, bounds
  <2>4. CASE NewBlockIndexFails(p)
    BY QueueAssumption, <2>4 DEF Types, FreeTypes, NewBlockIndexFails, Goto,
       Fault, vars, freeVars, countVars, indexVars, poolVars, blockVars,
       bounds
  <2>5. CASE Expose(p)
    BY QueueAssumption, <2>5 DEF Types, FreeTypes, Expose, Goto, MoveTail,
       vars, freeVars, countVars, indexVars, poolVars, blockVars, bounds
  <2>6. CASE AskPool(p)
    <3>1. CASE fl' = fl
      BY <2>6, <1>0, <3>1 DEF FreeTypes, AskPool
    <3>2. CASE fl' = [fl EXCEPT ![p] = Getting]
      BY Zenon, <2>6, <1>0, <3>2, FreeKept, WfRecords, Members DEF AskPool
    <3> QED
      BY <2>6, <3>1, <3>2 DEF AskPool, AskFreeList
  <2>7. CASE ClaimFromPool(p)
    <3>1. CASE fl' = fl
      BY <2>7, <1>0, <3>1 DEF FreeTypes, ClaimFromPool
    <3>2. CASE fl' = [fl EXCEPT ![p] = Getting]
      BY Zenon, <2>7, <1>0, <3>2, FreeKept, WfRecords, Members DEF ClaimFromPool
    <3> QED
      BY <2>7, <3>1, <3>2 DEF ClaimFromPool, AskFreeList
  <2>8. CASE FromFreeList(p)
    <3>1. /\ UNCHANGED <<freeListHead, freeListRefs, freeListNext>>
          /\ fl' = [fl EXCEPT ![p] = Outside]
      BY <2>8 DEF FromFreeList
    <3> QED
      BY Zenon, FreeKept, WfRecords, Members, <1>0, <3>1
  <2>9. CASE Create(p)
    <3>1. /\ UNCHANGED <<freeListHead, freeListRefs, freeListNext>>
          /\ fl' = [fl EXCEPT ![p] = Outside]
      BY <2>9 DEF Create
    <3> QED
      BY FreeKept, WfRecords, Members, <1>0, <3>1
  <2>10. CASE CreateFails(p)
    <3>1. /\ UNCHANGED <<freeListHead, freeListRefs, freeListNext>>
          /\ fl' = [fl EXCEPT ![p] = Outside]
      BY <2>10 DEF CreateFails
    <3> QED
      BY FreeKept, WfRecords, Members, <1>0, <3>1
  <2>11. CASE Construct(p)
    BY QueueAssumption, <2>11 DEF Types, FreeTypes, Construct, Goto, vars,
       freeVars, countVars, indexVars, poolVars, blockVars, bounds
  <2>12. CASE ConstructThrows(p)
    BY QueueAssumption, <2>12 DEF Types, FreeTypes, ConstructThrows, Goto,
       Fault, vars, freeVars, countVars, indexVars, poolVars, blockVars,
       bounds
  <2>13. CASE Rewind(p)
    BY QueueAssumption, <2>13 DEF Types, FreeTypes, Rewind, Goto, MoveTail,
       vars, freeVars, countVars, indexVars, poolVars, blockVars, bounds
  <2>14. CASE Forget(p)
    <3>1. CASE fl' = fl
      BY <2>14, <1>0, <3>1 DEF FreeTypes, Forget
    <3>2. CASE fl' = [fl EXCEPT ![p] = Adding(loc[p].block)]
      <4>1. Wf(Adding(loc[p].block))
        BY Zenon, <1>0, WfRecords, Members DEF LocTypes, WfLoc
      <4> QED
        BY <2>14, <1>0, <3>2, <4>1, FreeKept, Members DEF Forget
    <3> QED
      BY <2>14, <3>1, <3>2 DEF Forget
  <2>15. CASE Publish(p)
    BY QueueAssumption, <2>15 DEF Types, FreeTypes, Publish, Goto, vars,
       freeVars, countVars, indexVars, poolVars, blockVars, bounds
  <2> QED
    BY <1>2, <2>1, <2>2, <2>3, <2>4, <2>5, <2>6, <2>7, <2>8, <2>9, <2>10,
       <2>11, <2>12, <2>13, <2>14, <2>15 DEF Produce
<1>3. ASSUME NEW c \in Consumers, Consume(c) PROVE FreeTypes'
  <2>1. CASE \E p \in Producers : Dequeue(c, p)
    BY QueueAssumption, <2>1 DEF Types, FreeTypes, Dequeue, Goto, vars,
       freeVars, countVars, indexVars, poolVars, blockVars, bounds
  <2>2. CASE SeemsEmpty(c)
    BY QueueAssumption, <2>2 DEF Types, FreeTypes, SeemsEmpty, Back, Goto,
       vars, freeVars, countVars, indexVars, poolVars, blockVars, bounds
  <2>3. CASE SeemsNonEmpty(c)
    BY QueueAssumption, <2>3 DEF Types, FreeTypes, SeemsNonEmpty, Goto, vars,
       freeVars, countVars, indexVars, poolVars, blockVars, bounds
  <2>4. CASE AddOptimistic(c)
    BY QueueAssumption, <2>4 DEF Types, FreeTypes, AddOptimistic, Goto, vars,
       freeVars, countVars, indexVars, poolVars, blockVars, bounds
  <2>5. CASE Recheck(c)
    BY QueueAssumption, <2>5 DEF Types, FreeTypes, Recheck, Goto, vars,
       freeVars, countVars, indexVars, poolVars, blockVars, bounds
  <2>6. CASE AddOvercommit(c)
    BY QueueAssumption, <2>6 DEF Types, FreeTypes, AddOvercommit, Back, Goto,
       vars, freeVars, countVars, indexVars, poolVars, blockVars, bounds
  <2>7. CASE ClaimHead(c)
    BY QueueAssumption, <2>7 DEF Types, FreeTypes, ClaimHead, Goto, vars,
       freeVars, countVars, indexVars, poolVars, blockVars, bounds
  <2>8. CASE LoadBlockIndex(c)
    BY QueueAssumption, <2>8 DEF Types, FreeTypes, LoadBlockIndex, Goto, vars,
       freeVars, countVars, indexVars, poolVars, blockVars, bounds
  <2>9. CASE MoveElement(c)
    BY Zenon, QueueAssumption, <2>9 DEF Types, FreeTypes, MoveElement, Goto, vars,
       freeVars, countVars, indexVars, poolVars, blockVars, bounds
  <2>10. CASE SetEmpty(c)
    BY QueueAssumption, <2>10 DEF Types, FreeTypes, SetEmpty, Back, Goto,
       vars, freeVars, countVars, indexVars, poolVars, blockVars, bounds
  <2>11. CASE Release(c)
    <3>1. Wf(Adding(loc[c].block))
      BY Zenon, <1>0, WfRecords, Members2 DEF LocTypes, WfLoc
    <3> QED
      BY <2>11, <1>0, <3>1, FreeKept, Members2 DEF Release
  <2> QED
    BY <1>3, <2>1, <2>2, <2>3, <2>4, <2>5, <2>6, <2>7, <2>8, <2>9, <2>10,
       <2>11 DEF Consume
<1>4. ASSUME NEW t \in Threads, GivenBack(t) PROVE FreeTypes'
  <2>1. /\ UNCHANGED <<freeListHead, freeListRefs, freeListNext>>
        /\ fl' = [fl EXCEPT ![t] = Outside]
    BY <1>4 DEF GivenBack
  <2> QED
    BY Zenon, FreeKept, WfRecords, <1>0, <2>1
<1>5. ASSUME NEW t \in Threads, InFreeList(t) PROVE FreeTypes'
  <2>1. CASE Add(t)
    <3>1. fl' = [fl EXCEPT ![t] = IF freeListRefs[fl[t].node] = 0 THEN [fl[t] EXCEPT !.at = "load"] ELSE AfterPush(fl[t])]
      BY <2>1, <1>0 DEF Add, FreeTypes
    <3>2. Wf(IF freeListRefs[fl[t].node] = 0 THEN [fl[t] EXCEPT !.at = "load"] ELSE AfterPush(fl[t]))
      BY Zenon, <1>0, <1>00, WfRecords DEF FreeTypes, FlAt
    <3>3. /\ freeListHead' \in MaybeBlock
          /\ freeListRefs' \in [Blocks -> Int]
          /\ freeListNext' \in [Blocks -> MaybeBlock]
      <4>1. freeListRefs' = [freeListRefs EXCEPT ![fl[t].node] = freeListRefs[fl[t].node] + SHOULD_BE_ON_FREELIST]
        BY <2>1 DEF Add
      <4>2. fl[t].node \in Blocks => freeListRefs[fl[t].node] + SHOULD_BE_ON_FREELIST \in Int
        BY <1>0, Mark DEF FreeTypes
      <4>3. freeListRefs' \in [Blocks -> Int]
        BY <1>0, <4>1, <4>2, ExceptIn DEF FreeTypes
      <4> QED BY <2>1, <1>0, <4>3 DEF Add, FreeTypes
    <3> QED
      BY FreeSet, <1>0, <3>1, <3>2, <3>3
  <2>2. CASE PushLoad(t)
    <3>1. fl' = [fl EXCEPT ![t] = [fl[t] EXCEPT !.old = freeListHead, !.at = "count"]]
      BY <2>2, <1>0 DEF PushLoad, FreeTypes
    <3>2. Wf([fl[t] EXCEPT !.old = freeListHead, !.at = "count"])
      BY Zenon, <1>0, <1>00, WfRecords DEF FreeTypes, FlAt
    <3>3. UNCHANGED <<freeListHead, freeListRefs, freeListNext>>
      BY <2>2 DEF PushLoad, freeVars
    <3> QED
      BY FreeKept, <1>0, <3>1, <3>2, <3>3
  <2>3. CASE PushCount(t)
    <3>1. fl' = [fl EXCEPT ![t] = [fl[t] EXCEPT !.at = "push"]]
      BY <2>3, <1>0 DEF PushCount, FreeTypes
    <3>2. Wf([fl[t] EXCEPT !.at = "push"])
      BY Zenon, <1>0, <1>00, WfRecords DEF FreeTypes, FlAt
    <3>3. /\ freeListHead' \in MaybeBlock
          /\ freeListRefs' \in [Blocks -> Int]
          /\ freeListNext' \in [Blocks -> MaybeBlock]
      <4>1. freeListRefs' = [freeListRefs EXCEPT ![fl[t].node] = 1]
        BY <2>3 DEF PushCount
      <4>2. fl[t].node \in Blocks => 1 \in Int
        BY <1>0, Mark DEF FreeTypes
      <4>3. freeListRefs' \in [Blocks -> Int]
        BY <1>0, <4>1, <4>2, ExceptIn DEF FreeTypes
      <4>4. freeListNext' \in [Blocks -> MaybeBlock]
        <5>1. fl[t].old \in MaybeBlock
          BY <1>00 DEF FlRecord
        <5> QED BY <2>3, <1>0, <5>1, ExceptIn DEF PushCount, FreeTypes
      <4> QED BY <2>3, <1>0, <4>3, <4>4 DEF PushCount, FreeTypes
    <3> QED
      BY FreeSet, <1>0, <3>1, <3>2, <3>3
  <2>4. CASE Push(t)
    <3>1. CASE fl' = [fl EXCEPT ![t] = AfterPush(fl[t])]
      <4>1. fl[t].node \in MaybeBlock
        BY <1>00 DEF FlRecord
      <4>2. /\ freeListHead' \in MaybeBlock
            /\ UNCHANGED <<freeListRefs, freeListNext>>
        BY <2>4, <1>0, <4>1 DEF Push, FreeTypes
      <4> QED
        BY Zenon, <1>0, <1>00, <3>1, <4>2, WfRecords, FreeSet DEF FreeTypes
    <3>2. CASE fl' = [fl EXCEPT ![t].old = freeListHead, ![t].at = "repush"]
      <4> DEFINE f == [fl[t] EXCEPT !.old = freeListHead, !.at = "repush"]
      <4>1. fl' = [fl EXCEPT ![t] = f]
        BY <3>2, <1>0 DEF FreeTypes
      <4>2. Wf(f)
        BY Zenon, <1>0, <1>00, WfRecords DEF FreeTypes
      <4>3. /\ freeListHead' \in MaybeBlock
            /\ UNCHANGED <<freeListRefs, freeListNext>>
        <5>1. fl[t].node \in MaybeBlock
          BY <1>00 DEF FlRecord
        <5> QED BY <2>4, <1>0, <5>1 DEF Push, FreeTypes
      <4> HIDE DEF f
      <4> QED
        BY <1>0, <4>1, <4>2, <4>3, FreeSet DEF FreeTypes
    <3> QED
      BY <2>4, <3>1, <3>2 DEF Push
  <2>5. CASE Repush(t)
    <3>1. fl' = [fl EXCEPT ![t] = IF freeListRefs[fl[t].node] = 1 THEN [fl[t] EXCEPT !.at = "count"] ELSE AfterPush(fl[t])]
      BY <2>5, <1>0 DEF Repush, FreeTypes
    <3>2. Wf(IF freeListRefs[fl[t].node] = 1 THEN [fl[t] EXCEPT !.at = "count"] ELSE AfterPush(fl[t]))
      BY Zenon, <1>0, <1>00, WfRecords DEF FreeTypes, FlAt
    <3>3. /\ freeListHead' \in MaybeBlock
          /\ freeListRefs' \in [Blocks -> Int]
          /\ freeListNext' \in [Blocks -> MaybeBlock]
      <4>1. freeListRefs' = [freeListRefs EXCEPT ![fl[t].node] = freeListRefs[fl[t].node] + SHOULD_BE_ON_FREELIST - 1]
        BY <2>5 DEF Repush
      <4>2. fl[t].node \in Blocks => freeListRefs[fl[t].node] + SHOULD_BE_ON_FREELIST - 1 \in Int
        BY <1>0, Mark DEF FreeTypes
      <4>3. freeListRefs' \in [Blocks -> Int]
        BY <1>0, <4>1, <4>2, ExceptIn DEF FreeTypes
      <4> QED BY <2>5, <1>0, <4>3 DEF Repush, FreeTypes
    <3> QED
      BY FreeSet, <1>0, <3>1, <3>2, <3>3
  <2>6. CASE GetLoad(t)
    <3>1. fl' = [fl EXCEPT ![t] = Test(freeListHead)]
      BY <2>6, <1>0 DEF GetLoad, FreeTypes
    <3>2. Wf(Test(freeListHead))
      BY Zenon, <1>0, <1>00, WfRecords DEF FreeTypes, FlAt
    <3>3. UNCHANGED <<freeListHead, freeListRefs, freeListNext>>
      BY <2>6 DEF GetLoad, freeVars
    <3> QED
      BY FreeKept, <1>0, <3>1, <3>2, <3>3
  <2>7. CASE GetRef(t)
    <3>1. CASE fl' = [fl EXCEPT ![t] = Getting]
      <4>3. freeListRefs' \in [Blocks -> Int]
        BY <2>7, <1>0, ExceptIn DEF GetRef, FreeTypes
      <4>4. UNCHANGED <<freeListHead, freeListNext>>
        BY <2>7 DEF GetRef
      <4> QED
        BY Zenon, <1>0, <3>1, <4>3, <4>4, WfRecords, FreeSet DEF FreeTypes
    <3>2. CASE fl' = [fl EXCEPT ![t].at = "next"]
      <4>1. fl' = [fl EXCEPT ![t] = [fl[t] EXCEPT !.at = "next"]]
        BY <3>2, <1>0 DEF FreeTypes
      <4>2. Wf([fl[t] EXCEPT !.at = "next"])
        BY <2>7, <1>0, <1>00 DEF GetRef, FreeTypes, Wf, FlRecord, FlAt
      <4>3. freeListRefs' \in [Blocks -> Int]
        BY <2>7, <1>0, <1>00, ExceptIn DEF GetRef, FreeTypes
      <4> QED
        BY <2>7, <1>0, <4>1, <4>2, <4>3, FreeSet DEF GetRef, FreeTypes
    <3> QED
      BY <2>7, <3>1, <3>2 DEF GetRef
  <2>8. CASE GetNext(t)
    <3>1. fl' = [fl EXCEPT ![t] = [fl[t] EXCEPT !.next = freeListNext[fl[t].head], !.at = "pop"]]
      BY <2>8, <1>0 DEF GetNext, FreeTypes
    <3>2. Wf([fl[t] EXCEPT !.next = freeListNext[fl[t].head], !.at = "pop"])
      <4>1. fl[t].head \in Blocks
        BY <2>8, <1>00 DEF GetNext, Wf
      <4>2. freeListNext[fl[t].head] \in MaybeBlock
        BY <1>0, <4>1 DEF FreeTypes
      <4> QED BY Zenon, <1>00, <4>1, <4>2, WfRecords
    <3>3. UNCHANGED <<freeListHead, freeListRefs, freeListNext>>
      BY <2>8 DEF GetNext, freeVars
    <3> QED
      BY FreeKept, <1>0, <3>1, <3>2, <3>3
  <2>9. CASE Pop(t)
    <3>1. CASE fl' = [fl EXCEPT ![t] =
                        [Outside EXCEPT !.at = "popped", !.node = fl[t].head]]
      <4>1. Wf([Outside EXCEPT !.at = "popped", !.node = fl[t].head])
        BY <1>0, <1>00 DEF Wf, Outside, FlRecord, FlAt, MaybeBlock
      <4>2. fl[t].next \in MaybeBlock
        BY <1>0, <1>00 DEF FlRecord
      <4> QED
        BY <2>9, <1>0, <3>1, <4>1, <4>2, FreeSet DEF Pop, FreeTypes
    <3>2. CASE fl' = [fl EXCEPT ![t] =
                 [Outside EXCEPT !.at = "unref", !.node = fl[t].head,
                                 !.getting = TRUE, !.head = freeListHead]]
      <4>1. Wf([Outside EXCEPT !.at = "unref", !.node = fl[t].head,
                               !.getting = TRUE, !.head = freeListHead])
        BY Zenon, <1>0, <1>00, WfRecords DEF FreeTypes
      <4>2. fl[t].next \in MaybeBlock
        BY <1>00 DEF FlRecord
      <4>3. /\ freeListHead' \in MaybeBlock
            /\ UNCHANGED <<freeListRefs, freeListNext>>
        BY <2>9, <1>0, <4>2 DEF Pop, FreeTypes
      <4> QED
        BY <1>0, <3>2, <4>1, <4>3, FreeSet DEF FreeTypes
    <3> QED
      BY <2>9, <3>1, <3>2 DEF Pop
  <2>10. CASE Got(t)
    <3>1. fl' = [fl EXCEPT ![t] = [fl[t] EXCEPT !.at = "got"]]
      BY <2>10, <1>0 DEF Got, FreeTypes
    <3>2. Wf([fl[t] EXCEPT !.at = "got"])
      BY Zenon, <1>0, <1>00, WfRecords DEF FreeTypes, FlAt
    <3>3. /\ freeListHead' \in MaybeBlock
          /\ freeListRefs' \in [Blocks -> Int]
          /\ freeListNext' \in [Blocks -> MaybeBlock]
      <4>1. freeListRefs' = [freeListRefs EXCEPT ![fl[t].node] = freeListRefs[fl[t].node] - 2]
        BY <2>10 DEF Got
      <4>2. fl[t].node \in Blocks => freeListRefs[fl[t].node] - 2 \in Int
        BY <1>0, Mark DEF FreeTypes
      <4>3. freeListRefs' \in [Blocks -> Int]
        BY <1>0, <4>1, <4>2, ExceptIn DEF FreeTypes
      <4> QED BY <2>10, <1>0, <4>3 DEF Got, FreeTypes
    <3> QED
      BY FreeSet, <1>0, <3>1, <3>2, <3>3
  <2>11. CASE Unref(t)
    <3>1. fl' = [fl EXCEPT ![t] = IF freeListRefs[fl[t].node] = SHOULD_BE_ON_FREELIST + 1 THEN [fl[t] EXCEPT !.at = "load"] ELSE Test(fl[t].head)]
      BY <2>11, <1>0 DEF Unref, FreeTypes
    <3>2. Wf(IF freeListRefs[fl[t].node] = SHOULD_BE_ON_FREELIST + 1 THEN [fl[t] EXCEPT !.at = "load"] ELSE Test(fl[t].head))
      BY Zenon, <1>0, <1>00, WfRecords DEF FreeTypes, FlAt
    <3>3. /\ freeListHead' \in MaybeBlock
          /\ freeListRefs' \in [Blocks -> Int]
          /\ freeListNext' \in [Blocks -> MaybeBlock]
      <4>1. freeListRefs' = [freeListRefs EXCEPT ![fl[t].node] = freeListRefs[fl[t].node] - 1]
        BY <2>11 DEF Unref
      <4>2. fl[t].node \in Blocks => freeListRefs[fl[t].node] - 1 \in Int
        BY <1>0, Mark DEF FreeTypes
      <4>3. freeListRefs' \in [Blocks -> Int]
        BY <1>0, <4>1, <4>2, ExceptIn DEF FreeTypes
      <4> QED BY <2>11, <1>0, <4>3 DEF Unref, FreeTypes
    <3> QED
      BY FreeSet, <1>0, <3>1, <3>2, <3>3
  <2> QED
    BY <1>5, <2>1, <2>2, <2>3, <2>4, <2>5, <2>6, <2>7, <2>8, <2>9, <2>10,
       <2>11 DEF InFreeList, FreeStep
<1> QED
  BY <1>1, <1>2, <1>3, <1>4, <1>5 DEF Next

\* One field of the locals is set to a value of its type.
LEMMA WfLoc1 ==
    ASSUME NEW l, WfLoc(l)
    PROVE  /\ \A n \in Nat :
                /\ WfLoc([l EXCEPT !.count = n])
                /\ [l EXCEPT !.count = n].from = l.from
                /\ [l EXCEPT !.count = n].header = l.header
                /\ [l EXCEPT !.count = n].slot = l.slot
           /\ \A n \in Nat :
                /\ WfLoc([l EXCEPT !.seen = n])
                /\ [l EXCEPT !.seen = n].from = l.from
           /\ \A n \in Nat :
                /\ WfLoc([l EXCEPT !.header = n])
                /\ [l EXCEPT !.header = n].from = l.from
           /\ \A n \in Nat :
                /\ WfLoc([l EXCEPT !.slot = n])
                /\ [l EXCEPT !.slot = n].from = l.from
           /\ \A n \in Nat :
                /\ WfLoc([l EXCEPT !.at = n])
                /\ [l EXCEPT !.at = n].from = l.from
           /\ \A b \in MaybeBlock :
                /\ WfLoc([l EXCEPT !.block = b])
                /\ [l EXCEPT !.block = b].from = l.from
           /\ \A p \in Producers :
                /\ WfLoc([l EXCEPT !.from = p])
                /\ [l EXCEPT !.from = p].from = p
           /\ \A x :
                /\ WfLoc([l EXCEPT !.item = x])
                /\ [l EXCEPT !.item = x].from = l.from
  BY DEF WfLoc, Shape

\* The locals of a thread outside are of their type.
LEMMA WfLocs == WfLoc(NoLocals)
  BY DEF WfLoc, Shape, NoLocals, MaybeBlock

\* The locals of SeemsEmpty and its like: count and seen are set.
LEMMA WfSeen ==
    ASSUME NEW l, WfLoc(l), NEW m \in Nat, NEW n \in Nat
    PROVE  /\ WfLoc([l EXCEPT !.count = m, !.seen = n])
           /\ [l EXCEPT !.count = m, !.seen = n].from = l.from
<1>1. [l EXCEPT !.count = m, !.seen = n] = [[l EXCEPT !.count = m] EXCEPT !.seen = n]
  OBVIOUS
<1>2. WfLoc([l EXCEPT !.count = m]) /\ [l EXCEPT !.count = m].from = l.from
  BY WfLoc1
<1> QED BY <1>1, <1>2, WfLoc1

\* The locals of LoadBlockIndex: header and slot are set.
LEMMA WfSlot ==
    ASSUME NEW l, WfLoc(l), NEW m \in Nat, NEW n \in Nat
    PROVE  /\ WfLoc([l EXCEPT !.header = m, !.slot = n])
           /\ [l EXCEPT !.header = m, !.slot = n].from = l.from
<1>1. [l EXCEPT !.header = m, !.slot = n] = [[l EXCEPT !.header = m] EXCEPT !.slot = n]
  OBVIOUS
<1>2. WfLoc([l EXCEPT !.header = m]) /\ [l EXCEPT !.header = m].from = l.from
  BY WfLoc1
<1> QED BY <1>1, <1>2, WfLoc1

\* The locals of Dequeue: the stream and its counts are set.
LEMMA WfFrom ==
    ASSUME NEW l, WfLoc(l), NEW m \in Nat, NEW n \in Nat, NEW p \in Producers
    PROVE  /\ WfLoc([l EXCEPT !.from = p, !.count = m, !.seen = n])
           /\ [l EXCEPT !.from = p, !.count = m, !.seen = n].from = p
<1> DEFINE k == [l EXCEPT !.from = p]
<1>1. [l EXCEPT !.from = p, !.count = m, !.seen = n] = [k EXCEPT !.count = m, !.seen = n]
  OBVIOUS
<1>2. WfLoc(k) /\ k.from = p
  BY WfLoc1
<1> HIDE DEF k
<1> QED BY Zenon, <1>1, <1>2, WfSeen

\* The locals of MoveElement: the entry, its block and the element are set.
LEMMA WfItem ==
    ASSUME NEW p \in Producers, NEW n \in Nat, NEW b \in MaybeBlock, NEW x
    PROVE  /\ WfLoc([NoLocals EXCEPT !.from = p, !.at = n, !.block = b, !.item = x])
           /\ [NoLocals EXCEPT !.from = p, !.at = n, !.block = b, !.item = x].from = p
<1> DEFINE k == [NoLocals EXCEPT !.from = p]
           l == [k EXCEPT !.at = n]
           m == [l EXCEPT !.block = b]
<1>1. [NoLocals EXCEPT !.from = p, !.at = n, !.block = b, !.item = x] = [m EXCEPT !.item = x]
  OBVIOUS
<1>2. WfLoc(k) /\ k.from = p
  BY WfLocs, WfLoc1
<1> HIDE DEF k
<1>3. WfLoc(l) /\ l.from = p
  BY <1>2, WfLoc1
<1> HIDE DEF l
<1>4. WfLoc(m) /\ m.from = p
  BY <1>3, WfLoc1
<1> HIDE DEF m
<1>5. WfLoc([m EXCEPT !.item = x]) /\ [m EXCEPT !.item = x].from = p
  BY <1>4, WfLoc1
<1> QED BY <1>1, <1>5

\* A step of t that sets its locals to l keeps their types.
LEMMA LocSet ==
    ASSUME LocTypes, NEW t \in Threads, NEW l, WfLoc(l),
           loc' = [loc EXCEPT ![t] = l],
           \A u \in Threads : u # t => pc'[u] = pc[u],
           t \in Consumers =>
             pc'[t] \in {"idle", "give_back"} \/ l.from \in Producers
    PROVE  LocTypes'
<1>1. \A u \in Threads : loc'[u] = IF u = t THEN l ELSE loc[u]
  BY DEF LocTypes
<1>2. DOMAIN loc' = Threads /\ loc' = [u \in Threads |-> loc'[u]]
  BY DEF LocTypes
<1>3. \A u \in Threads : WfLoc(loc'[u])
  BY <1>1 DEF LocTypes
<1>4. ASSUME NEW c \in Consumers, pc'[c] \notin {"idle", "give_back"}
      PROVE  loc'[c].from \in Producers
  BY <1>1, <1>4, Members2 DEF LocTypes
<1> QED BY <1>2, <1>3, <1>4 DEF LocTypes

\* A step of a producer that sets no locals keeps their types.
LEMMA LocSame ==
    ASSUME LocTypes, NEW p \in Producers, loc' = loc,
           \A u \in Threads : u # p => pc'[u] = pc[u]
    PROVE  LocTypes'
  BY Members, Members2 DEF LocTypes

\* The initial pool has blocks.
LEMMA Pool == \A i \in Nat : 1 <= i /\ i <= Len(InitialBlocks) => InitialBlocks[i] \in Blocks
BY QueueAssumption

\* The current block index of a producer and its tail.
LEMMA CurTyped ==
    ASSUME Types, NEW p \in Producers
    PROVE  /\ Current(p) \in Nat /\ Current(p) >= 1
           /\ Last(blockIndex[p]) = blockIndex[p][Current(p)]
           /\ Last(blockIndex[p]).tail \in Nat
           /\ Last(blockIndex[p]).tail \in Slots(Last(blockIndex[p]))
           /\ Capacity(Last(blockIndex[p])) \in Nat
           /\ Capacity(Last(blockIndex[p])) > 1
           /\ Last(blockIndex[p]).index \in
                [Slots(Last(blockIndex[p])) -> 1 .. Len(entry[p])]
           /\ Len(entry[p]) \in Nat
<1>1. /\ blockIndex[p] \in Seq(Header) /\ entry[p] \in Seq(Entry)
      /\ Len(blockIndex[p]) >= 1
  BY DEF Types, IndexTypes
<1>2. Current(p) \in 1 .. Len(blockIndex[p]) /\ Current(p) \in Nat
  BY <1>1 DEF Current
<1>3. Last(blockIndex[p]) = blockIndex[p][Current(p)]
  BY DEF Last, Current
<1> HIDE DEF Current
<1> QED
  BY SMTT(40), <1>1, <1>2, <1>3 DEF Types, IndexTypes, Slots

\* The slot after the tail, and its entry.
LEMMA NextTyped ==
    ASSUME Types, NEW p \in Producers
    PROVE  /\ NextSlot(Last(blockIndex[p])) \in Slots(Last(blockIndex[p]))
           /\ Last(blockIndex[p]).index[NextSlot(Last(blockIndex[p]))] \in Nat
           /\ Last(blockIndex[p]).index[NextSlot(Last(blockIndex[p]))]
                \in 1 .. Len(entry[p])
<1> DEFINE h == Last(blockIndex[p])
<1>1. /\ h.tail \in Nat /\ Capacity(h) \in Nat /\ Capacity(h) > 1
      /\ h.index \in [Slots(h) -> 1 .. Len(entry[p])]
      /\ Len(entry[p]) \in Nat
  BY CurTyped
<1> HIDE DEF h
<1>2. NextSlot(h) \in Slots(h)
  BY <1>1, Modulo DEF NextSlot, Slots
<1> QED BY <1>1, <1>2 DEF h

\* The entry that a consumer comes to is an entry of its stream.
LEMMA EntryTyped ==
    ASSUME Types, NEW c \in Consumers, pc[c] = "entry"
    PROVE  /\ loc[c].from \in Producers
           /\ EntryOf(loc[c]) \in Nat
           /\ EntryOf(loc[c]) \in DOMAIN entry[loc[c].from]
           /\ entry[loc[c].from][EntryOf(loc[c])].value \in MaybeBlock
<1> DEFINE f == loc[c]
           p == f.from
           h == blockIndex[p][f.header]
<1>1. p \in Producers /\ f.count \in Nat
  BY Members2 DEF Types, LocTypes, WfLoc
<1>2. /\ f.header \in 1 .. Len(blockIndex[p])
      /\ f.slot \in 0 .. Capacity(h) - 1
  BY SMTT(40) DEF Types, IndexTypes
<1>3. /\ Capacity(h) \in Nat /\ Capacity(h) > 1
      /\ h.index \in [0 .. Capacity(h) - 1 -> 1 .. Len(entry[p])]
      /\ entry[p] \in Seq(Entry)
  BY <1>1, <1>2 DEF Types, IndexTypes
<1> DEFINE base == entry[p][h.index[f.slot]].key
           offset == (BlockBase(f.count) - base) \div BLOCK_SIZE
<1>4. base \in Nat
  <2>1. h.index[f.slot] \in 1 .. Len(entry[p])
    BY <1>2, <1>3
  <2>2. ASSUME NEW i \in 1 .. Len(entry[p]) PROVE entry[p][i].key \in Nat
    <3>1. entry[p][i] \in Entry
      BY <1>3
    <3> QED BY <3>1 DEF Entry
  <2> HIDE DEF f, p, h
  <2> QED BY <2>1, <2>2
<1>5. EntryOf(f) = h.index[(f.slot + offset) % Capacity(h)]
  BY DEF EntryOf
<1> HIDE DEF f, p, h
<1>6. offset \in Int
  <2>1. BlockBase(f.count) \in Int
    BY <1>1, QueueAssumption DEF BlockBase
  <2> HIDE DEF base
  <2> QED BY <1>4, <2>1, QueueAssumption
<1> HIDE DEF offset, base
<1>7. (f.slot + offset) % Capacity(h) \in 0 .. Capacity(h) - 1
  BY <1>2, <1>3, <1>6, Modulo
<1>8. EntryOf(f) \in 1 .. Len(entry[p])
  BY <1>3, <1>5, <1>7
<1>9. entry[p][EntryOf(f)] \in Entry /\ Len(entry[p]) \in Nat
  BY <1>3, <1>8
<1> QED BY <1>1, <1>3, <1>8, <1>9 DEF f, p, Entry

\* Every step keeps the types of the locals.
LEMMA LocTypesStep ==
    ASSUME Types, [Next]_vars
    PROVE  LocTypes'
<1>0. PcTypes /\ LocTypes
  BY DEF Types
<1>00. \A t \in Threads : WfLoc(loc[t])
  BY <1>0 DEF LocTypes
<1>000. \A t \in Threads : fl[t].node \in MaybeBlock
  BY DEF Types, FreeTypes, Wf, FlRecord
<1>1. CASE UNCHANGED vars
  BY <1>0, <1>1 DEF LocTypes, PcTypes, vars, freeVars, countVars, indexVars,
     poolVars, blockVars, bounds
<1>2. ASSUME NEW p \in Producers, Produce(p) PROVE LocTypes'
  <2>1. CASE Enqueue(p)
    <3>1. \A u \in Threads : u # p => pc'[u] = pc[u]
      BY <2>1, <1>0, Members DEF Enqueue, Goto, PcTypes
    <3>2. CASE loc' = loc
      BY <1>0, <3>1, <3>2, LocSame
    <3>3. CASE loc' = [loc EXCEPT ![p] = [loc[p] EXCEPT !.block = tailBlock[p]]]
      <4>1. WfLoc([loc[p] EXCEPT !.block = tailBlock[p]])
        BY <2>1, <1>00, <1>000, WfLoc1, WfLocs, Members DEF Types, BlockTypes
      <4> QED
        BY <1>0, <3>1, <3>3, <4>1, LocSet, Members
    <3> QED
      BY <2>1, <1>0, <3>2, <3>3 DEF Enqueue, Goto, LocTypes
  <2>2. CASE InsertBlockIndexEntry(p)
    <3>1. \A u \in Threads : u # p => pc'[u] = pc[u]
      BY <2>2, <1>0, Members DEF InsertBlockIndexEntry, InsertIn, Goto, PcTypes
    <3>2. CASE loc' = loc
      BY <1>0, <3>1, <3>2, LocSame
    <3>3. CASE InsertIn(p, Last(blockIndex[p]))
      <4> DEFINE h == Last(blockIndex[p])
                 e == h.index[NextSlot(h)]
      <4>1. e \in Nat
        BY NextTyped, Members
      <4>2. loc' = [loc EXCEPT ![p] = [loc[p] EXCEPT !.at = e]]
        BY <1>0, <3>3 DEF InsertIn, LocTypes
      <4> HIDE DEF e
      <4>3. WfLoc([loc[p] EXCEPT !.at = e])
        BY <1>00, <4>1, WfLoc1, Members
      <4> QED BY <1>0, <3>1, <4>2, <4>3, LocSet, Members
    <3> QED
      BY SMTT(40), <2>2, <3>2, <3>3 DEF InsertBlockIndexEntry
  <2>3. CASE NewBlockIndex(p)
    <3>1. \A u \in Threads : u # p => pc'[u] = pc[u]
      BY <2>3, <1>0, Members DEF NewBlockIndex, Goto, PcTypes
    <3>2. CASE loc' = loc
      BY <1>0, <3>1, <3>2, LocSame
    <3> QED
      BY <2>3, <1>0, <3>2 DEF NewBlockIndex, Goto, LocTypes
  <2>4. CASE NewBlockIndexFails(p)
    <3>1. \A u \in Threads : u # p => pc'[u] = pc[u]
      BY <2>4, <1>0, Members DEF NewBlockIndexFails, Goto, Fault, PcTypes
    <3>2. CASE loc' = loc
      BY <1>0, <3>1, <3>2, LocSame
    <3> QED
      BY <2>4, <1>0, <3>2 DEF NewBlockIndexFails, Goto, Fault, LocTypes
  <2>5. CASE Expose(p)
    <3>1. \A u \in Threads : u # p => pc'[u] = pc[u]
      BY <2>5, <1>0, Members DEF Expose, Goto, MoveTail, PcTypes
    <3>2. CASE loc' = loc
      BY <1>0, <3>1, <3>2, LocSame
    <3> QED
      BY <2>5, <1>0, <3>2 DEF Expose, Goto, MoveTail, LocTypes
  <2>6. CASE AskPool(p)
    <3>1. \A u \in Threads : u # p => pc'[u] = pc[u]
      BY <2>6, <1>0, Members DEF AskPool, AskFreeList, Goto, PcTypes
    <3>2. CASE loc' = loc
      BY <1>0, <3>1, <3>2, LocSame
    <3> QED
      BY <2>6, <1>0, <3>2 DEF AskPool, AskFreeList, Goto, LocTypes
  <2>7. CASE ClaimFromPool(p)
    <3>1. \A u \in Threads : u # p => pc'[u] = pc[u]
      BY <2>7, <1>0, Members DEF ClaimFromPool, AskFreeList, Goto, PcTypes
    <3>2. CASE loc' = loc
      BY <1>0, <3>1, <3>2, LocSame
    <3>3. CASE initialBlockPoolIndex + 1 <= Len(InitialBlocks)
      <4> DEFINE b == InitialBlocks[initialBlockPoolIndex + 1]
      <4>1. b \in MaybeBlock
        BY <3>3, Pool DEF Types, BlockTypes, MaybeBlock
      <4>2. loc' = [loc EXCEPT ![p] = [loc[p] EXCEPT !.block = b]]
        BY <2>7, <1>0, <3>3 DEF ClaimFromPool, LocTypes
      <4> HIDE DEF b
      <4>3. WfLoc([loc[p] EXCEPT !.block = b])
        BY <1>00, <4>1, WfLoc1, Members
      <4> QED BY <1>0, <3>1, <4>2, <4>3, LocSet, Members
    <3> QED
      BY <2>7, <3>2, <3>3 DEF ClaimFromPool
  <2>8. CASE FromFreeList(p)
    <3>1. \A u \in Threads : u # p => pc'[u] = pc[u]
      BY <2>8, <1>0, Members DEF FromFreeList, Goto, PcTypes
    <3>2. CASE loc' = [loc EXCEPT ![p] = [loc[p] EXCEPT !.block = fl[p].node]]
      <4>1. WfLoc([loc[p] EXCEPT !.block = fl[p].node])
        BY <2>8, <1>00, <1>000, WfLoc1, WfLocs, Members
      <4> QED
        BY <1>0, <3>1, <3>2, <4>1, LocSet, Members
    <3> QED
      BY <2>8, <1>0, <3>2 DEF FromFreeList, Goto, LocTypes
  <2>9. CASE Create(p)
    <3>1. \A u \in Threads : u # p => pc'[u] = pc[u]
      BY <2>9, <1>0, Members DEF Create, Goto, PcTypes
    <3>2. PICK b \in MaybeBlock : loc' = [loc EXCEPT ![p].block = b]
      BY <2>9 DEF Create, MaybeBlock
    <3>3. loc' = [loc EXCEPT ![p] = [loc[p] EXCEPT !.block = b]]
      BY <1>0, <3>2 DEF LocTypes
    <3>4. WfLoc([loc[p] EXCEPT !.block = b])
      BY <1>00, WfLoc1, Members
    <3> QED BY <1>0, <3>1, <3>3, <3>4, LocSet, Members
  <2>10. CASE CreateFails(p)
    <3>1. \A u \in Threads : u # p => pc'[u] = pc[u]
      BY <2>10, <1>0, Members DEF CreateFails, Goto, Fault, PcTypes
    <3>2. CASE loc' = loc
      BY <1>0, <3>1, <3>2, LocSame
    <3> QED
      BY <2>10, <1>0, <3>2 DEF CreateFails, Goto, Fault, LocTypes
  <2>11. CASE Construct(p)
    <3>1. \A u \in Threads : u # p => pc'[u] = pc[u]
      BY <2>11, <1>0, Members DEF Construct, Goto, PcTypes
    <3>2. CASE loc' = loc
      BY <1>0, <3>1, <3>2, LocSame
    <3> QED
      BY <2>11, <1>0, <3>2 DEF Construct, Goto, LocTypes
  <2>12. CASE ConstructThrows(p)
    <3>1. \A u \in Threads : u # p => pc'[u] = pc[u]
      BY <2>12, <1>0, Members DEF ConstructThrows, Goto, Fault, PcTypes
    <3>2. CASE loc' = loc
      BY <1>0, <3>1, <3>2, LocSame
    <3>3. CASE loc' = [loc EXCEPT ![p] = NoLocals]
      <4>1. WfLoc(NoLocals)
        BY <2>12, <1>00, <1>000, WfLoc1, WfLocs, Members
      <4> QED
        BY <1>0, <3>1, <3>3, <4>1, LocSet, Members
    <3> QED
      BY <2>12, <1>0, <3>2, <3>3 DEF ConstructThrows, Goto, Fault, LocTypes
  <2>13. CASE Rewind(p)
    <3>1. \A u \in Threads : u # p => pc'[u] = pc[u]
      BY <2>13, <1>0, Members DEF Rewind, Goto, MoveTail, PcTypes
    <3>2. CASE loc' = loc
      BY <1>0, <3>1, <3>2, LocSame
    <3> QED
      BY <2>13, <1>0, <3>2 DEF Rewind, Goto, MoveTail, LocTypes
  <2>14. CASE Forget(p)
    <3>1. \A u \in Threads : u # p => pc'[u] = pc[u]
      BY <2>14, <1>0, Members DEF Forget, Goto, PcTypes
    <3>2. CASE loc' = [loc EXCEPT ![p] = NoLocals]
      <4>1. WfLoc(NoLocals)
        BY <2>14, <1>00, <1>000, WfLoc1, WfLocs, Members
      <4> QED
        BY <1>0, <3>1, <3>2, <4>1, LocSet, Members
    <3> QED
      BY <2>14, <1>0, <3>2 DEF Forget, Goto, LocTypes
  <2>15. CASE Publish(p)
    <3>1. \A u \in Threads : u # p => pc'[u] = pc[u]
      BY <2>15, <1>0, Members DEF Publish, Goto, PcTypes
    <3>2. CASE loc' = [loc EXCEPT ![p] = NoLocals]
      <4>1. WfLoc(NoLocals)
        BY <2>15, <1>00, <1>000, WfLoc1, WfLocs, Members
      <4> QED
        BY <1>0, <3>1, <3>2, <4>1, LocSet, Members
    <3> QED
      BY <2>15, <1>0, <3>2 DEF Publish, Goto, LocTypes
  <2> QED
    BY <1>2, <2>1, <2>2, <2>3, <2>4, <2>5, <2>6, <2>7, <2>8, <2>9, <2>10,
       <2>11, <2>12, <2>13, <2>14, <2>15 DEF Produce
<1>3. ASSUME NEW c \in Consumers, Consume(c) PROVE LocTypes'
  <2>1. CASE \E p \in Producers : Dequeue(c, p)
    <3>0. PICK q \in Producers : Dequeue(c, q)
      BY <2>1
    <3> DEFINE k == [loc[c] EXCEPT !.from = q, !.count = tailIndex[q],
                                   !.seen = dequeueOvercommit[q]]
    <3>1. \A u \in Threads : u # c => pc'[u] = pc[u]
      BY <3>0, <1>0, Members2 DEF Dequeue, Goto, PcTypes
    <3>2. loc' = [loc EXCEPT ![c] = k]
      BY <3>0, <1>0, Members2 DEF Dequeue, LocTypes
    <3>3. WfLoc(k) /\ k.from = q
      <4>1. tailIndex[q] \in Nat /\ dequeueOvercommit[q] \in Nat
        BY <3>0 DEF Types, CountTypes
      <4>2. WfLoc(loc[c])
        BY <1>00, Members2
      <4>3. WfLoc(k)
        BY Zenon, <4>1, <4>2, WfFrom
      <4>4. k.from = q
        BY <4>2 DEF WfLoc, Shape
      <4> QED BY <4>3, <4>4
    <3> HIDE DEF k
    <3> QED BY <1>0, <3>1, <3>2, <3>3, LocSet, Members2
  <2>2. CASE SeemsEmpty(c)
    <3>1. /\ \A u \in Threads : u # c => pc'[u] = pc[u]
          /\ pc'[c] = "idle"
      BY <2>2, <1>0, Members2 DEF SeemsEmpty, Back, Goto, PcTypes
    <3>2. loc' = [loc EXCEPT ![c] = NoLocals]
      BY <2>2 DEF SeemsEmpty, Back
    <3> QED BY <1>0, <3>1, <3>2, LocSet, WfLocs, Members2
  <2>3. CASE SeemsNonEmpty(c)
    <3>1. \A u \in Threads : u # c => pc'[u] = pc[u]
      BY <2>3, <1>0, Members2 DEF SeemsNonEmpty, Goto, PcTypes
    <3>2. loc' = [loc EXCEPT ![c] = [loc[c] EXCEPT !.count = 0]]
      BY <2>3, <1>0, Members2 DEF SeemsNonEmpty, Goto, LocTypes
    <3>3. loc[c].from \in Producers
      BY <2>3, <1>0 DEF SeemsNonEmpty, LocTypes
    <3>4. WfLoc([loc[c] EXCEPT !.count = 0]) /\ [loc[c] EXCEPT !.count = 0].from \in Producers
      <4>1. WfLoc(loc[c])
        BY <1>00, Members2
      <4> QED
        BY <3>3, <4>1, WfLoc1
    <3> QED
      BY <1>0, <3>1, <3>2, <3>4, LocSet, Members2
  <2>4. CASE AddOptimistic(c)
    <3>1. \A u \in Threads : u # c => pc'[u] = pc[u]
      BY <2>4, <1>0, Members2 DEF AddOptimistic, Goto, PcTypes
    <3>2. loc' = [loc EXCEPT ![c] = [loc[c] EXCEPT !.count = dequeueOptimisticCount[loc[c].from]]]
      BY <2>4, <1>0, Members2 DEF AddOptimistic, Goto, LocTypes
    <3>3. loc[c].from \in Producers
      BY <2>4, <1>0 DEF AddOptimistic, LocTypes
    <3>4. WfLoc([loc[c] EXCEPT !.count = dequeueOptimisticCount[loc[c].from]]) /\ [loc[c] EXCEPT !.count = dequeueOptimisticCount[loc[c].from]].from \in Producers
      <4>1. WfLoc(loc[c])
        BY <1>00, Members2
      <4>2. dequeueOptimisticCount[loc[c].from] \in Nat
        BY <3>3 DEF Types, CountTypes
      <4> QED
        BY <3>3, <4>1, <4>2, WfLoc1
    <3> QED
      BY <1>0, <3>1, <3>2, <3>4, LocSet, Members2
  <2>5. CASE Recheck(c)
    <3>1. \A u \in Threads : u # c => pc'[u] = pc[u]
      BY <2>5, <1>0, Members2 DEF Recheck, Goto, PcTypes
    <3>2. loc' = [loc EXCEPT ![c] = [loc[c] EXCEPT !.count = 0, !.seen = 0]]
      BY <2>5, <1>0, Members2 DEF Recheck, Goto, LocTypes
    <3>3. loc[c].from \in Producers
      BY <2>5, <1>0 DEF Recheck, LocTypes
    <3>4. WfLoc([loc[c] EXCEPT !.count = 0, !.seen = 0]) /\ [loc[c] EXCEPT !.count = 0, !.seen = 0].from \in Producers
      <4>1. WfLoc(loc[c])
        BY <1>00, Members2
      <4> QED
        BY Zenon, <3>3, <4>1, WfSeen
    <3> QED
      BY <1>0, <3>1, <3>2, <3>4, LocSet, Members2
  <2>6. CASE AddOvercommit(c)
    <3>1. /\ \A u \in Threads : u # c => pc'[u] = pc[u]
          /\ pc'[c] = "idle"
      BY <2>6, <1>0, Members2 DEF AddOvercommit, Back, Goto, PcTypes
    <3>2. loc' = [loc EXCEPT ![c] = NoLocals]
      BY <2>6 DEF AddOvercommit, Back
    <3> QED BY <1>0, <3>1, <3>2, LocSet, WfLocs, Members2
  <2>7. CASE ClaimHead(c)
    <3>1. \A u \in Threads : u # c => pc'[u] = pc[u]
      BY <2>7, <1>0, Members2 DEF ClaimHead, Goto, PcTypes
    <3>2. loc' = [loc EXCEPT ![c] = [loc[c] EXCEPT !.count = headIndex[loc[c].from]]]
      BY <2>7, <1>0, Members2 DEF ClaimHead, Goto, LocTypes
    <3>3. loc[c].from \in Producers
      BY <2>7, <1>0 DEF ClaimHead, LocTypes
    <3>4. WfLoc([loc[c] EXCEPT !.count = headIndex[loc[c].from]]) /\ [loc[c] EXCEPT !.count = headIndex[loc[c].from]].from \in Producers
      <4>1. WfLoc(loc[c])
        BY <1>00, Members2
      <4>2. headIndex[loc[c].from] \in Nat
        BY <3>3 DEF Types, CountTypes
      <4> QED
        BY <3>3, <4>1, <4>2, WfLoc1
    <3> QED
      BY <1>0, <3>1, <3>2, <3>4, LocSet, Members2
  <2>8. CASE LoadBlockIndex(c)
    <3>1. \A u \in Threads : u # c => pc'[u] = pc[u]
      BY <2>8, <1>0, Members2 DEF LoadBlockIndex, Goto, PcTypes
    <3>2. loc' = [loc EXCEPT ![c] = [loc[c] EXCEPT !.header = Current(loc[c].from), !.slot = Last(blockIndex[loc[c].from]).tail]]
      BY <2>8, <1>0, Members2 DEF LoadBlockIndex, Goto, LocTypes
    <3>3. loc[c].from \in Producers
      BY <2>8, <1>0 DEF LoadBlockIndex, LocTypes
    <3>4. WfLoc([loc[c] EXCEPT !.header = Current(loc[c].from), !.slot = Last(blockIndex[loc[c].from]).tail]) /\ [loc[c] EXCEPT !.header = Current(loc[c].from), !.slot = Last(blockIndex[loc[c].from]).tail].from \in Producers
      <4>1. WfLoc(loc[c])
        BY <1>00, Members2
      <4>2. Current(loc[c].from) \in Nat /\ Last(blockIndex[loc[c].from]).tail \in Nat
        BY <3>3, CurTyped
      <4> QED
        BY Zenon, <3>3, <4>1, <4>2, WfSlot
    <3> QED
      BY <1>0, <3>1, <3>2, <3>4, LocSet, Members2
  <2>9. CASE MoveElement(c)
    <3> DEFINE f == loc[c]
               b == entry[f.from][EntryOf(f)].value
               x == elements[b][f.count % BLOCK_SIZE]
               k == [NoLocals EXCEPT !.from = f.from, !.at = EntryOf(f),
                                     !.block = b, !.item = x]
    <3>1. \A u \in Threads : u # c => pc'[u] = pc[u]
      BY Zenon, <2>9, <1>0, Members2 DEF MoveElement, Goto, PcTypes
    <3>2. loc' = [loc EXCEPT ![c] = k]
      BY Zenon, <2>9 DEF MoveElement
    <3>3. /\ f.from \in Producers /\ EntryOf(f) \in Nat
          /\ b \in MaybeBlock
      BY Zenon, <2>9, EntryTyped DEF MoveElement
    <3>4. WfLoc(k) /\ k.from \in Producers
      <4> DEFINE q == f.from
                 e == EntryOf(f)
      <4>1. q \in Producers /\ e \in Nat /\ b \in MaybeBlock
        BY <3>3
      <4> HIDE DEF q, e, b, x
      <4>2. WfLoc([NoLocals EXCEPT !.from = q, !.at = e, !.block = b, !.item = x])
        BY Zenon, <4>1, WfItem
      <4>3. [NoLocals EXCEPT !.from = q, !.at = e, !.block = b, !.item = x].from = q
        BY DEF NoLocals
      <4> QED BY <4>1, <4>2, <4>3 DEF q, e
    <3> HIDE DEF k
    <3> QED BY <1>0, <3>1, <3>2, <3>4, LocSet, Members2
  <2>10. CASE SetEmpty(c)
    <3>1. \A u \in Threads : u # c => pc'[u] = pc[u]
      BY <2>10, <1>0, Members2 DEF SetEmpty, Back, Goto, PcTypes
    <3>2. CASE loc' = loc
      BY <2>10, <1>0, <3>1, <3>2, Members2 DEF SetEmpty, LocTypes
    <3>3. CASE Back(c)
      <4>1. loc' = [loc EXCEPT ![c] = NoLocals] /\ pc'[c] = "idle"
        BY <3>3, <1>0, Members2 DEF Back, Goto, PcTypes
      <4> QED BY <1>0, <3>1, <4>1, LocSet, WfLocs, Members2
    <3> QED BY <2>10, <3>2, <3>3 DEF SetEmpty
  <2>11. CASE Release(c)
    <3>1. \A u \in Threads : u # c => pc'[u] = pc[u]
      BY <2>11, <1>0, Members2 DEF Release, Goto, PcTypes
    <3> QED BY <2>11, <1>0, <3>1, Members2 DEF Release, LocTypes
  <2> QED
    BY <1>3, <2>1, <2>2, <2>3, <2>4, <2>5, <2>6, <2>7, <2>8, <2>9, <2>10,
       <2>11 DEF Consume
<1>4. ASSUME NEW t \in Threads, GivenBack(t) PROVE LocTypes'
  <2>1. /\ \A u \in Threads : u # t => pc'[u] = pc[u]
        /\ pc'[t] = "idle"
    BY <1>4, <1>0 DEF GivenBack, Back, Goto, PcTypes
  <2>2. loc' = [loc EXCEPT ![t] = NoLocals]
    BY <1>4 DEF GivenBack, Back
  <2> QED BY <1>0, <2>1, <2>2, LocSet, WfLocs
<1>5. ASSUME NEW t \in Threads, InFreeList(t) PROVE LocTypes'
  BY <1>0, <1>5 DEF LocTypes, PcTypes, InFreeList, vars, freeVars, countVars,
     indexVars, poolVars, blockVars, bounds
<1> QED
  BY <1>1, <1>2, <1>3, <1>4, <1>5 DEF Next

\* A step of p leaves the locals of the other threads.
LEMMA OnlyProducer ==
    ASSUME Types, NEW p \in Producers, Produce(p)
    PROVE  \A u \in Threads : u # p =>
             pc'[u] = pc[u] /\ loc'[u] = loc[u] /\ fl'[u] = fl[u]
<1>1. CASE Enqueue(p)
  BY SMTT(40), Members, <1>1 DEF Types, PcTypes, LocTypes, FreeTypes, InsertIn,
     AskFreeList, freeVars, bounds, poolVars, blockVars, indexVars, Enqueue,
     Goto
<1>2. CASE InsertBlockIndexEntry(p)
  BY Members, <1>2 DEF Types, PcTypes, LocTypes, FreeTypes, InsertIn,
     AskFreeList, freeVars, bounds, poolVars, blockVars, indexVars,
     InsertBlockIndexEntry, Goto
<1>3. CASE NewBlockIndex(p)
  BY Members, <1>3 DEF Types, PcTypes, LocTypes, FreeTypes, InsertIn,
     AskFreeList, freeVars, bounds, poolVars, blockVars, indexVars,
     NewBlockIndex, Goto
<1>4. CASE NewBlockIndexFails(p)
  BY Members, <1>4 DEF Types, PcTypes, LocTypes, FreeTypes, InsertIn,
     AskFreeList, freeVars, bounds, poolVars, blockVars, indexVars,
     NewBlockIndexFails, Goto, Fault
<1>5. CASE Expose(p)
  BY Members, <1>5 DEF Types, PcTypes, LocTypes, FreeTypes, InsertIn,
     AskFreeList, freeVars, bounds, poolVars, blockVars, indexVars, Expose,
     Goto, MoveTail
<1>6. CASE AskPool(p)
  BY Members, <1>6 DEF Types, PcTypes, LocTypes, FreeTypes, InsertIn,
     AskFreeList, freeVars, bounds, poolVars, blockVars, indexVars, AskPool,
     Goto
<1>7. CASE ClaimFromPool(p)
  BY Members, <1>7 DEF Types, PcTypes, LocTypes, FreeTypes, InsertIn,
     AskFreeList, freeVars, bounds, poolVars, blockVars, indexVars,
     ClaimFromPool, Goto
<1>8. CASE FromFreeList(p)
  BY Members, <1>8 DEF Types, PcTypes, LocTypes, FreeTypes, InsertIn,
     AskFreeList, freeVars, bounds, poolVars, blockVars, indexVars,
     FromFreeList, Goto
<1>9. CASE Create(p)
  BY Members, <1>9 DEF Types, PcTypes, LocTypes, FreeTypes, InsertIn,
     AskFreeList, freeVars, bounds, poolVars, blockVars, indexVars, Create,
     Goto
<1>10. CASE CreateFails(p)
  BY Members, <1>10 DEF Types, PcTypes, LocTypes, FreeTypes, InsertIn,
     AskFreeList, freeVars, bounds, poolVars, blockVars, indexVars,
     CreateFails, Goto, Fault
<1>11. CASE Construct(p)
  BY Members, <1>11 DEF Types, PcTypes, LocTypes, FreeTypes, InsertIn,
     AskFreeList, freeVars, bounds, poolVars, blockVars, indexVars, Construct,
     Goto
<1>12. CASE ConstructThrows(p)
  BY Members, <1>12 DEF Types, PcTypes, LocTypes, FreeTypes, InsertIn,
     AskFreeList, freeVars, bounds, poolVars, blockVars, indexVars,
     ConstructThrows, Goto, Fault
<1>13. CASE Rewind(p)
  BY Members, <1>13 DEF Types, PcTypes, LocTypes, FreeTypes, InsertIn,
     AskFreeList, freeVars, bounds, poolVars, blockVars, indexVars, Rewind,
     Goto, MoveTail
<1>14. CASE Forget(p)
  BY Members, <1>14 DEF Types, PcTypes, LocTypes, FreeTypes, InsertIn,
     AskFreeList, freeVars, bounds, poolVars, blockVars, indexVars, Forget,
     Goto
<1>15. CASE Publish(p)
  BY Members, <1>15 DEF Types, PcTypes, LocTypes, FreeTypes, InsertIn,
     AskFreeList, freeVars, bounds, poolVars, blockVars, indexVars, Publish,
     Goto
<1> QED
  BY <1>1, <1>2, <1>3, <1>4, <1>5, <1>6, <1>7, <1>8, <1>9, <1>10, <1>11,
     <1>12, <1>13, <1>14, <1>15 DEF Produce

\* A step of c leaves the locals of the other threads.
LEMMA OnlyConsumer ==
    ASSUME Types, NEW c \in Consumers, Consume(c)
    PROVE  \A u \in Threads : u # c =>
             pc'[u] = pc[u] /\ loc'[u] = loc[u] /\ fl'[u] = fl[u]
<1>1. CASE \E p \in Producers : Dequeue(c, p)
  BY Members2, <1>1 DEF Types, PcTypes, LocTypes, FreeTypes, freeVars,
     Dequeue, Goto
<1>2. CASE SeemsEmpty(c)
  BY Members2, <1>2 DEF Types, PcTypes, LocTypes, FreeTypes, freeVars,
     SeemsEmpty, Back, Goto
<1>3. CASE SeemsNonEmpty(c)
  BY Members2, <1>3 DEF Types, PcTypes, LocTypes, FreeTypes, freeVars,
     SeemsNonEmpty, Goto
<1>4. CASE AddOptimistic(c)
  BY Members2, <1>4 DEF Types, PcTypes, LocTypes, FreeTypes, freeVars,
     AddOptimistic, Goto
<1>5. CASE Recheck(c)
  BY Members2, <1>5 DEF Types, PcTypes, LocTypes, FreeTypes, freeVars,
     Recheck, Goto
<1>6. CASE AddOvercommit(c)
  BY Members2, <1>6 DEF Types, PcTypes, LocTypes, FreeTypes, freeVars,
     AddOvercommit, Back, Goto
<1>7. CASE ClaimHead(c)
  BY Members2, <1>7 DEF Types, PcTypes, LocTypes, FreeTypes, freeVars,
     ClaimHead, Goto
<1>8. CASE LoadBlockIndex(c)
  BY Members2, <1>8 DEF Types, PcTypes, LocTypes, FreeTypes, freeVars,
     LoadBlockIndex, Goto
<1>9. CASE MoveElement(c)
  BY Zenon, Members2, <1>9 DEF Types, PcTypes, LocTypes, FreeTypes, freeVars,
     MoveElement, Goto
<1>10. CASE SetEmpty(c)
  BY SMTT(40), Members2, <1>10 DEF Types, PcTypes, LocTypes, FreeTypes, freeVars,
     SetEmpty, Back, Goto
<1>11. CASE Release(c)
  BY Members2, <1>11 DEF Types, PcTypes, LocTypes, FreeTypes, freeVars,
     Release, Goto
<1> QED
  BY <1>1, <1>2, <1>3, <1>4, <1>5, <1>6, <1>7, <1>8, <1>9, <1>10, <1>11 DEF
     Consume

\* The return of t from the free list leaves the locals of the other threads.
LEMMA OnlyGivenBack ==
    ASSUME Types, NEW t \in Threads, GivenBack(t)
    PROVE  \A u \in Threads : u # t =>
             pc'[u] = pc[u] /\ loc'[u] = loc[u] /\ fl'[u] = fl[u]
  BY DEF Types, PcTypes, LocTypes, FreeTypes, GivenBack, Back, Goto

\* A step of t in the free list leaves everything but the list and its own
\* locals in it.
LEMMA OnlyInFreeList ==
    ASSUME Types, NEW t \in Threads, InFreeList(t)
    PROVE  /\ \A u \in Threads : u # t => fl'[u] = fl[u]
           /\ pc' = pc /\ loc' = loc
  BY DEF Types, FreeTypes, InFreeList, FreeStep, Add, PushLoad, PushCount,
         Push, Repush, GetLoad, GetRef, GetNext, Pop, Got, Unref

\* No consumer comes to an entry, and those that are there keep their locals.
Stays == \A c \in Consumers :
           pc'[c] = "entry" => pc[c] = "entry" /\ loc'[c] = loc[c]

\* No other action than LoadBlockIndex brings a consumer to an entry.
LEMMA StaysStep ==
    ASSUME Types, [Next]_vars, ~ \E c \in Consumers : LoadBlockIndex(c)
    PROVE  Stays
<1>1. CASE UNCHANGED vars
  BY <1>1 DEF vars, Stays
<1>2. ASSUME NEW p \in Producers, Produce(p) PROVE Stays
  BY <1>2, OnlyProducer, Members, Members2 DEF Stays
<1>3. ASSUME NEW c \in Consumers, Consume(c) PROVE Stays
  <2>1. \A d \in Consumers : d # c => pc'[d] = pc[d] /\ loc'[d] = loc[d]
    BY <1>3, OnlyConsumer, Members2
  <2>2. pc'[c] # "entry"
    BY Zenon, <1>3, Members2 DEF Types, PcTypes, Consume, Dequeue, SeemsEmpty, SeemsNonEmpty,
       AddOptimistic, Recheck, AddOvercommit, ClaimHead, MoveElement, SetEmpty,
       Release, Back, Goto
  <2> QED BY <2>1, <2>2 DEF Stays
<1>4. ASSUME NEW t \in Threads, GivenBack(t) PROVE Stays
  <2>1. pc'[t] # "entry"
    BY <1>4 DEF Types, PcTypes, GivenBack, Back, Goto
  <2> QED BY <1>4, <2>1, OnlyGivenBack, Members2 DEF Stays
<1>5. ASSUME NEW t \in Threads, InFreeList(t) PROVE Stays
  BY <1>5, OnlyInFreeList DEF Stays
<1> QED
  BY <1>1, <1>2, <1>3, <1>4, <1>5 DEF Next

\* A step that changes no block index and adds no entry keeps the types of
\* the index.
LEMMA IndexKept ==
    ASSUME Types, Stays, blockIndex' = blockIndex,
           entry' \in [Producers -> Seq(Entry)],
           \A q \in Producers : Len(entry'[q]) = Len(entry[q])
    PROVE  IndexTypes'
<1>1. \A c \in Consumers : pc[c] = "entry" => loc[c].from \in Producers
  BY DEF Types, LocTypes
<1>2. \A c \in Consumers : pc'[c] = "entry" =>
         LET f == loc'[c] IN
         /\ f.header \in 1 .. Len(blockIndex'[f.from])
         /\ f.slot \in 0 .. Capacity(blockIndex'[f.from][f.header]) - 1
  BY <1>1 DEF Types, IndexTypes, Stays
<1>3. \A p \in Producers :
         /\ Len(blockIndex'[p]) >= 1
         /\ \A i \in 1 .. Len(blockIndex'[p]) :
              LET h == blockIndex'[p][i] IN
              /\ Capacity(h) \in Nat /\ Capacity(h) > 1
              /\ h.index \in [0 .. Capacity(h) - 1 -> 1 .. Len(entry'[p])]
              /\ h.tail \in 0 .. Capacity(h) - 1
  BY DEF Types, IndexTypes
<1> QED BY <1>2, <1>3 DEF Types, IndexTypes

\* The key of one entry is set: the other keys, and every block, are as they
\* were.
LEMMA KeySet ==
    ASSUME Types, NEW p \in Producers, NEW e, NEW k \in Nat, SetKey(p, e, k)
    PROVE  /\ entry' \in [Producers -> Seq(Entry)]
           /\ \A q \in Producers :
                /\ Len(entry'[q]) = Len(entry[q])
                /\ \A i \in 1 .. Len(entry[q]) :
                     /\ entry'[q][i].key =
                          IF q = p /\ i = e THEN k ELSE entry[q][i].key
                     /\ entry'[q][i].value = entry[q][i].value
<1> DEFINE s == entry[p]
           r == [s[e] EXCEPT !.key = k]
           s2 == [s EXCEPT ![e] = r]
<1>1. s \in Seq(Entry) /\ entry \in [Producers -> Seq(Entry)]
  BY DEF Types, IndexTypes
<1>2. /\ entry'[p] = s2
      /\ \A q \in Producers : q # p => entry'[q] = entry[q]
      /\ entry' = [entry EXCEPT ![p] = s2]
  BY <1>1 DEF SetKey
<1>3. s2 \in Seq(Entry) /\ Len(s2) = Len(s) /\ \A i \in 1 .. Len(s) :
         s2[i].key = (IF i = e THEN k ELSE s[i].key) /\ s2[i].value = s[i].value
  <2>1. CASE e \in 1 .. Len(s)
    <3>1. s[e] \in Entry
      BY <1>1, <2>1
    <3>2. r \in Entry /\ r.key = k /\ r.value = s[e].value
      BY <3>1 DEF Entry
    <3> HIDE DEF r, s
    <3>3. s2 \in Seq(Entry) /\ Len(s2) = Len(s)
      BY <1>1, <2>1, <3>2, ExceptSeq
    <3>4. \A i \in 1 .. Len(s) : s2[i] = IF i = e THEN r ELSE s[i]
      BY <1>1, <2>1
    <3> QED BY <3>2, <3>3, <3>4
  <2>2. CASE e \notin 1 .. Len(s)
    <3> HIDE DEF r, s
    <3>1. s2 = s
      BY <1>1, <2>2
    <3> HIDE DEF s2
    <3> QED BY <1>1, <2>2, <3>1
  <2> QED BY <2>1, <2>2
<1> HIDE DEF s2
<1>4. entry' \in [Producers -> Seq(Entry)]
  BY <1>1, <1>2, <1>3
<1>5. ASSUME NEW q \in Producers
      PROVE  /\ Len(entry'[q]) = Len(entry[q])
             /\ \A i \in 1 .. Len(entry[q]) :
                  /\ entry'[q][i].key =
                       IF q = p /\ i = e THEN k ELSE entry[q][i].key
                  /\ entry'[q][i].value = entry[q][i].value
  <2>1. CASE q = p
    BY <1>2, <1>3, <2>1
  <2>2. CASE q # p
    BY <1>2, <2>2
  <2> QED BY <2>1, <2>2
<1> QED BY <1>4, <1>5

\* The block of one entry is set: the other blocks, and every key, are as
\* they were.
LEMMA ValueSet ==
    ASSUME Types, NEW p \in Producers, NEW e, NEW b \in MaybeBlock, SetValue(p, e, b)
    PROVE  /\ entry' \in [Producers -> Seq(Entry)]
           /\ \A q \in Producers :
                /\ Len(entry'[q]) = Len(entry[q])
                /\ \A i \in 1 .. Len(entry[q]) :
                     /\ entry'[q][i].value =
                          IF q = p /\ i = e THEN b ELSE entry[q][i].value
                     /\ entry'[q][i].key = entry[q][i].key
<1> DEFINE s == entry[p]
           r == [s[e] EXCEPT !.value = b]
           s2 == [s EXCEPT ![e] = r]
<1>1. s \in Seq(Entry) /\ entry \in [Producers -> Seq(Entry)]
  BY DEF Types, IndexTypes
<1>2. /\ entry'[p] = s2
      /\ \A q \in Producers : q # p => entry'[q] = entry[q]
      /\ entry' = [entry EXCEPT ![p] = s2]
  BY <1>1 DEF SetValue
<1>3. s2 \in Seq(Entry) /\ Len(s2) = Len(s) /\ \A i \in 1 .. Len(s) :
         s2[i].value = (IF i = e THEN b ELSE s[i].value) /\ s2[i].key = s[i].key
  <2>1. CASE e \in 1 .. Len(s)
    <3>1. s[e] \in Entry
      BY <1>1, <2>1
    <3>2. r \in Entry /\ r.value = b /\ r.key = s[e].key
      BY <3>1 DEF Entry
    <3> HIDE DEF r, s
    <3>3. s2 \in Seq(Entry) /\ Len(s2) = Len(s)
      BY <1>1, <2>1, <3>2, ExceptSeq
    <3>4. \A i \in 1 .. Len(s) : s2[i] = IF i = e THEN r ELSE s[i]
      BY <1>1, <2>1
    <3> QED BY <3>2, <3>3, <3>4
  <2>2. CASE e \notin 1 .. Len(s)
    <3> HIDE DEF r, s
    <3>1. s2 = s
      BY <1>1, <2>2
    <3> HIDE DEF s2
    <3> QED BY <1>1, <2>2, <3>1
  <2> QED BY <2>1, <2>2
<1> HIDE DEF s2
<1>4. entry' \in [Producers -> Seq(Entry)]
  BY <1>1, <1>2, <1>3
<1>5. ASSUME NEW q \in Producers
      PROVE  /\ Len(entry'[q]) = Len(entry[q])
             /\ \A i \in 1 .. Len(entry[q]) :
                  /\ entry'[q][i].value =
                       IF q = p /\ i = e THEN b ELSE entry[q][i].value
                  /\ entry'[q][i].key = entry[q][i].key
  <2>1. CASE q = p
    BY <1>2, <1>3, <2>1
  <2>2. CASE q # p
    BY <1>2, <2>2
  <2> QED BY <2>1, <2>2
<1> QED BY <1>4, <1>5

\* The tail of one block index is moved: nothing else of any block index
\* changes.
LEMMA TailMoved ==
    ASSUME Types, NEW p \in Producers, NEW to \in Slots(Cur(p)), MoveTail(p, to)
    PROVE  /\ blockIndex' \in [Producers -> Seq(Header)]
           /\ \A q \in Producers :
                /\ Len(blockIndex'[q]) = Len(blockIndex[q])
                /\ \A i \in 1 .. Len(blockIndex[q]) :
                     /\ blockIndex'[q][i].index = blockIndex[q][i].index
                     /\ blockIndex'[q][i].tail =
                          IF q = p /\ i = Current(p) THEN to
                          ELSE blockIndex[q][i].tail
<1> DEFINE s == blockIndex[p]
           n == Current(p)
           h == [s[n] EXCEPT !.tail = to]
<1>1. s \in Seq(Header) /\ n \in 1 .. Len(s) /\ to \in Nat
  <2>1. s \in Seq(Header) /\ Len(s) \in Nat /\ Len(s) >= 1
    BY DEF Types, IndexTypes
  <2>2. to \in Nat
    BY CurTyped DEF Slots, Cur
  <2> QED BY <2>1, <2>2 DEF Current
<1>2. blockIndex' = [blockIndex EXCEPT ![p] = [s EXCEPT ![n] = h]]
  BY DEF MoveTail, Types, IndexTypes
<1>3. s[n] \in Header
  BY <1>1
<1>4. h \in Header /\ h.tail = to /\ h.index = s[n].index
  BY <1>1, <1>3 DEF Header
<1> HIDE DEF h, n
<1>5. [s EXCEPT ![n] = h] \in Seq(Header) /\ Len([s EXCEPT ![n] = h]) = Len(s)
  BY <1>1, <1>4, ExceptSeq
<1>6. \A i \in 1 .. Len(s) : [s EXCEPT ![n] = h][i] = IF i = n THEN h ELSE s[i]
  BY <1>1
<1>7. blockIndex' \in [Producers -> Seq(Header)]
  BY <1>2, <1>5 DEF Types, IndexTypes
<1>8. /\ blockIndex'[p] = [s EXCEPT ![n] = h]
      /\ \A q \in Producers : q # p => blockIndex'[q] = blockIndex[q]
  BY <1>2 DEF Types, IndexTypes
<1> HIDE DEF s
<1>9. ASSUME NEW q \in Producers
      PROVE  /\ Len(blockIndex'[q]) = Len(blockIndex[q])
             /\ \A i \in 1 .. Len(blockIndex[q]) :
                  /\ blockIndex'[q][i].index = blockIndex[q][i].index
                  /\ blockIndex'[q][i].tail =
                       IF q = p /\ i = Current(p) THEN to
                       ELSE blockIndex[q][i].tail
  <2>1. CASE q # p
    BY <2>1, <1>8
  <2>2. CASE q = p
    BY <2>2, <1>8, <1>6, <1>5, <1>4 DEF s, n
  <2> QED BY <2>1, <2>2
<1> QED BY <1>7, <1>9

\* The size of a block index is that of its slots.
LEMMA CapacitySame ==
    ASSUME NEW h, NEW k, h.index = k.index
    PROVE  Capacity(h) = Capacity(k)
  BY DEF Capacity

\* The size of a block index with the slots 0 .. n - 1.
LEMMA CapacityIs ==
    ASSUME NEW n \in Nat, NEW h, DOMAIN h.index = 0 .. n - 1
    PROVE  Capacity(h) = n
<1>1. Cardinality(0 .. n - 1) = IF 0 > n - 1 THEN 0 ELSE (n - 1) - 0 + 1
  BY FS_Interval, n - 1 \in Int, 0 \in Int
<1> QED BY <1>1 DEF Capacity

\* A move of the tail keeps the types of the index.
LEMMA MoveTypes ==
    ASSUME Types, Stays, NEW p \in Producers, NEW to \in Slots(Cur(p)),
           MoveTail(p, to), entry' = entry
    PROVE  IndexTypes'
<1>1. /\ blockIndex' \in [Producers -> Seq(Header)]
      /\ \A q \in Producers :
           /\ Len(blockIndex'[q]) = Len(blockIndex[q])
           /\ \A i \in 1 .. Len(blockIndex[q]) :
                /\ blockIndex'[q][i].index = blockIndex[q][i].index
                /\ blockIndex'[q][i].tail =
                     IF q = p /\ i = Current(p) THEN to
                     ELSE blockIndex[q][i].tail
  BY TailMoved
<1>2. ASSUME NEW q \in Producers, NEW i \in 1 .. Len(blockIndex[q])
      PROVE  /\ Capacity(blockIndex'[q][i]) = Capacity(blockIndex[q][i])
             /\ blockIndex'[q][i].tail \in 0 .. Capacity(blockIndex[q][i]) - 1
  <2>1. Capacity(blockIndex'[q][i]) = Capacity(blockIndex[q][i])
    BY <1>1, CapacitySame
  <2>2. q = p /\ i = Current(p) => to \in 0 .. Capacity(blockIndex[q][i]) - 1
    BY CurTyped DEF Slots, Cur
  <2>3. blockIndex[q][i].tail \in 0 .. Capacity(blockIndex[q][i]) - 1
    BY DEF Types, IndexTypes
  <2> QED BY <1>1, <2>1, <2>2, <2>3
<1>3. \A c \in Consumers : pc[c] = "entry" => loc[c].from \in Producers
  BY DEF Types, LocTypes
<1>4. ASSUME NEW c \in Consumers, pc'[c] = "entry"
      PROVE  LET f == loc'[c] IN
             /\ f.header \in 1 .. Len(blockIndex'[f.from])
             /\ f.slot \in 0 .. Capacity(blockIndex'[f.from][f.header]) - 1
  <2>1. /\ loc[c].header \in 1 .. Len(blockIndex[loc[c].from])
        /\ loc[c].slot \in 0 .. Capacity(blockIndex[loc[c].from][loc[c].header]) - 1
        /\ loc'[c] = loc[c] /\ loc[c].from \in Producers
    BY <1>3, <1>4 DEF Stays, Types, IndexTypes
  <2> QED BY <1>1, <1>2, <2>1
<1>5. ASSUME NEW q \in Producers
      PROVE  /\ Len(blockIndex'[q]) >= 1
             /\ \A i \in 1 .. Len(blockIndex'[q]) :
                  LET h == blockIndex'[q][i] IN
                  /\ Capacity(h) \in Nat /\ Capacity(h) > 1
                  /\ h.index \in [0 .. Capacity(h) - 1 -> 1 .. Len(entry'[q])]
                  /\ h.tail \in 0 .. Capacity(h) - 1
  <2>1. Len(blockIndex'[q]) >= 1
    BY <1>1 DEF Types, IndexTypes
  <2>2. ASSUME NEW i \in 1 .. Len(blockIndex'[q])
        PROVE  LET h == blockIndex'[q][i] IN
                  /\ Capacity(h) \in Nat /\ Capacity(h) > 1
                  /\ h.index \in [0 .. Capacity(h) - 1 -> 1 .. Len(entry'[q])]
                  /\ h.tail \in 0 .. Capacity(h) - 1
    <3>1. i \in 1 .. Len(blockIndex[q])
      BY <1>1
    <3>2. LET h == blockIndex[q][i] IN
                  /\ Capacity(h) \in Nat /\ Capacity(h) > 1
                  /\ h.index \in [0 .. Capacity(h) - 1 -> 1 .. Len(entry[q])]
      BY <3>1 DEF Types, IndexTypes
    <3> QED BY <1>1, <1>2, <3>1, <3>2
  <2> QED BY <2>1, <2>2
<1>6. entry' \in [Producers -> Seq(Entry)]
  BY DEF Types, IndexTypes
<1> QED BY <1>1, <1>4, <1>5, <1>6 DEF IndexTypes

\* The new index.
LEMMA GrownIs ==
    ASSUME Types, NEW p \in Producers, NewBlockIndex(p)
    PROVE  LET cap == Capacity(Cur(p)) IN
           /\ blockIndex' \in [Producers -> Seq(Header)]
           /\ entry' \in [Producers -> Seq(Entry)]
           /\ \A q \in Producers : q # p =>
                blockIndex'[q] = blockIndex[q] /\ entry'[q] = entry[q]
           /\ Len(blockIndex'[p]) = Len(blockIndex[p]) + 1
           /\ \A i \in 1 .. Len(blockIndex[p]) :
                blockIndex'[p][i] = blockIndex[p][i]
           /\ blockIndex'[p][Len(blockIndex[p]) + 1] = Grown(p)
           /\ Capacity(Grown(p)) = 2 * cap
           /\ Grown(p).tail = cap - 1
           /\ \A i \in 0 .. cap - 1 : Grown(p).index[i] =
                Cur(p).index[(Cur(p).tail + 1 + i) % cap]
           /\ \A i \in cap .. 2 * cap - 1 :
                Grown(p).index[i] = Len(entry[p]) + i - cap + 1
           /\ Grown(p).index \in [0 .. 2 * cap - 1 -> 1 .. Len(entry[p]) + cap]
           /\ Len(entry'[p]) = Len(entry[p]) + cap
           /\ \A e \in 1 .. Len(entry[p]) : entry'[p][e] = entry[p][e]
           /\ \A e \in Len(entry[p]) + 1 .. Len(entry[p]) + cap :
                entry'[p][e] = Unused
<1> DEFINE h == Cur(p)
           cap == Capacity(h)
           n == Len(entry[p])
           u == [i \in 1 .. cap |-> Unused]
<1>1. /\ cap \in Nat /\ cap > 1 /\ h.tail \in Nat /\ n \in Nat
      /\ h.index \in [Slots(h) -> 1 .. n]
  BY CurTyped DEF Cur
<1>2. /\ blockIndex' = [blockIndex EXCEPT ![p] = Append(blockIndex[p], Grown(p))]
      /\ entry' = [entry EXCEPT ![p] = entry[p] \o u]
  BY DEF NewBlockIndex, Cur
<1>3. \A i \in Int : (h.tail + 1 + i) % cap \in Slots(h)
  <2> HIDE DEF cap
  <2> QED BY <1>1, Modulo DEF Slots, cap
<1>4. Grown(p) = [tail |-> cap - 1,
         index |-> [i \in 0 .. 2 * cap - 1 |->
                      IF i < cap THEN h.index[(h.tail + 1 + i) % cap]
                      ELSE n + i - cap + 1]]
  BY DEF Grown, Cur
<1> HIDE DEF cap, h, n
<1>5. Grown(p).index \in [0 .. 2 * cap - 1 -> 1 .. n + cap]
  <2>1. ASSUME NEW i \in 0 .. 2 * cap - 1
        PROVE  (IF i < cap THEN h.index[(h.tail + 1 + i) % cap] ELSE n + i - cap + 1)
                 \in 1 .. n + cap
    <3>1. h.index[(h.tail + 1 + i) % cap] \in 1 .. n
      BY <1>1, <1>3
    <3> QED BY <1>1, <3>1
  <2> QED BY <1>4, <2>1
<1>6. Capacity(Grown(p)) = 2 * cap
  BY <1>1, <1>5, CapacityIs
<1>7. Grown(p) \in Header
  <2>1. Grown(p).index \in [0 .. 2 * cap - 1 -> Nat] /\ 2 * cap \in Nat
    BY <1>1, <1>5
  <2> DEFINE k == 2 * cap
  <2>2. k \in Nat /\ Grown(p).index \in [0 .. k - 1 -> Nat]
    BY <2>1
  <2> HIDE DEF k
  <2>3. Grown(p).index \in Indexes
    <3> DEFINE S == [0 .. k - 1 -> Nat]
    <3>1. S \in {[0 .. m - 1 -> Nat] : m \in Nat}
      BY <2>2
    <3>2. Grown(p).index \in S
      BY <2>2
    <3> DEFINE T == {[0 .. m - 1 -> Nat] : m \in Nat}
               x == Grown(p).index
    <3>3. S \in T /\ x \in S
      BY <3>1, <3>2
    <3> HIDE DEF S, T, x
    <3>4. x \in UNION T
      BY <3>3
    <3> QED BY <3>4 DEF T, x, Indexes
  <2> QED BY <1>1, <1>4, <2>3 DEF Header
<1>8. u \in Seq(Entry) /\ Len(u) = cap
  <2>1. Unused \in Entry
    BY DEF Unused, Entry, INVALID_BLOCK_BASE, MaybeBlock
  <2> QED BY <1>1, <2>1
<1>9. blockIndex[p] \in Seq(Header) /\ entry[p] \in Seq(Entry)
  BY DEF Types, IndexTypes
<1>10. /\ Append(blockIndex[p], Grown(p)) \in Seq(Header)
       /\ Len(Append(blockIndex[p], Grown(p))) = Len(blockIndex[p]) + 1
       /\ \A i \in 1 .. Len(blockIndex[p]) :
            Append(blockIndex[p], Grown(p))[i] = blockIndex[p][i]
       /\ Append(blockIndex[p], Grown(p))[Len(blockIndex[p]) + 1] = Grown(p)
  BY <1>7, <1>9
<1>11. /\ entry[p] \o u \in Seq(Entry)
       /\ Len(entry[p] \o u) = n + cap
       /\ \A e \in 1 .. n : (entry[p] \o u)[e] = entry[p][e]
       /\ \A e \in n + 1 .. n + cap : (entry[p] \o u)[e] = Unused
  <2> DEFINE s == entry[p]
  <2>1. s \in Seq(Entry) /\ u \in Seq(Entry) /\ Len(s) = n /\ Len(u) = cap
    BY <1>8, <1>9 DEF n
  <2>2. \A e \in 1 .. cap : u[e] = Unused
    BY <1>1
  <2> HIDE DEF u, s
  <2>3. /\ s \o u \in Seq(Entry) /\ Len(s \o u) = Len(s) + Len(u)
        /\ \A e \in 1 .. Len(s) + Len(u) :
             (s \o u)[e] = IF e <= Len(s) THEN s[e] ELSE u[e - Len(s)]
    BY <2>1, ConcatProperties
  <2>4. \A e \in n + 1 .. n + cap : e - n \in 1 .. cap /\ e \in 1 .. n + cap /\ ~(e <= n)
    BY <1>1
  <2>5. \A e \in n + 1 .. n + cap : (s \o u)[e] = Unused
    BY <2>1, <2>2, <2>3, <2>4
  <2>6. \A e \in 1 .. n : (s \o u)[e] = s[e]
    BY <1>1, <2>1, <2>3
  <2> QED BY <2>1, <2>3, <2>5, <2>6 DEF s
<1> HIDE DEF u
<1>12. /\ blockIndex'[p] = Append(blockIndex[p], Grown(p))
       /\ entry'[p] = entry[p] \o u
       /\ \A q \in Producers : q # p =>
            blockIndex'[q] = blockIndex[q] /\ entry'[q] = entry[q]
       /\ blockIndex' \in [Producers -> Seq(Header)]
       /\ entry' \in [Producers -> Seq(Entry)]
  BY <1>2, <1>10, <1>11 DEF Types, IndexTypes
<1>13. /\ \A i \in 0 .. cap - 1 : Grown(p).index[i] = h.index[(h.tail + 1 + i) % cap]
       /\ \A i \in cap .. 2 * cap - 1 : Grown(p).index[i] = n + i - cap + 1
       /\ Grown(p).tail = cap - 1
  <2> DEFINE g == [i \in 0 .. 2 * cap - 1 |->
                      IF i < cap THEN h.index[(h.tail + 1 + i) % cap]
                      ELSE n + i - cap + 1]
  <2>1. Grown(p).index = g /\ Grown(p).tail = cap - 1
    BY <1>4
  <2>2. \A i \in 0 .. cap - 1 : i \in 0 .. 2 * cap - 1 /\ i < cap
    BY <1>1
  <2>3. \A i \in cap .. 2 * cap - 1 : i \in 0 .. 2 * cap - 1 /\ ~(i < cap)
    BY <1>1
  <2>4. \A i \in 0 .. cap - 1 : g[i] = h.index[(h.tail + 1 + i) % cap]
    BY <2>2
  <2>5. \A i \in cap .. 2 * cap - 1 : g[i] = n + i - cap + 1
    BY <2>3
  <2> HIDE DEF g
  <2> QED BY <2>1, <2>4, <2>5
<1> QED
  BY <1>5, <1>6, <1>10, <1>11, <1>12, <1>13 DEF cap, h, n

\* A new block index keeps the types of the index.
LEMMA GrownTypes ==
    ASSUME Types, Stays, NEW p \in Producers, NewBlockIndex(p)
    PROVE  IndexTypes'
<1> DEFINE cap == Capacity(Cur(p))
           n == Len(entry[p])
           b == Len(blockIndex[p])
<1>1. cap \in Nat /\ cap > 1 /\ n \in Nat /\ b \in Nat /\ b >= 1
  BY CurTyped DEF Cur, Current
<1>2. /\ blockIndex' \in [Producers -> Seq(Header)]
      /\ entry' \in [Producers -> Seq(Entry)]
      /\ \A q \in Producers : q # p =>
           blockIndex'[q] = blockIndex[q] /\ entry'[q] = entry[q]
      /\ Len(blockIndex'[p]) = b + 1
      /\ \A i \in 1 .. b : blockIndex'[p][i] = blockIndex[p][i]
      /\ blockIndex'[p][b + 1] = Grown(p)
      /\ Capacity(Grown(p)) = 2 * cap
      /\ Grown(p).tail = cap - 1
      /\ Grown(p).index \in [0 .. 2 * cap - 1 -> 1 .. n + cap]
      /\ Len(entry'[p]) = n + cap
  BY GrownIs
<1>3. ASSUME NEW q \in Producers, NEW i \in 1 .. Len(blockIndex[q])
      PROVE  LET h == blockIndex[q][i] IN
             /\ Capacity(h) \in Nat /\ Capacity(h) > 1
             /\ h.index \in [0 .. Capacity(h) - 1 -> 1 .. Len(entry[q])]
             /\ h.tail \in 0 .. Capacity(h) - 1
  BY DEF Types, IndexTypes
<1> HIDE DEF cap, n, b
<1>4. 1 .. n \subseteq 1 .. n + cap
  BY <1>1
<1>5. ASSUME NEW q \in Producers
      PROVE  /\ Len(blockIndex'[q]) >= 1
             /\ \A i \in 1 .. Len(blockIndex'[q]) :
                  LET h == blockIndex'[q][i] IN
                  /\ Capacity(h) \in Nat /\ Capacity(h) > 1
                  /\ h.index \in [0 .. Capacity(h) - 1 -> 1 .. Len(entry'[q])]
                  /\ h.tail \in 0 .. Capacity(h) - 1
  <2>1. CASE q # p
    BY <1>2, <1>3, <2>1 DEF Types, IndexTypes
  <2>2. CASE q = p
    <3>1. ASSUME NEW i \in 1 .. b
          PROVE  LET h == blockIndex'[p][i] IN
                  /\ Capacity(h) \in Nat /\ Capacity(h) > 1
                  /\ h.index \in [0 .. Capacity(h) - 1 -> 1 .. n + cap]
                  /\ h.tail \in 0 .. Capacity(h) - 1
      <4> DEFINE h == blockIndex[p][i]
      <4>1. /\ Capacity(h) \in Nat /\ Capacity(h) > 1
            /\ h.index \in [0 .. Capacity(h) - 1 -> 1 .. n]
            /\ h.tail \in 0 .. Capacity(h) - 1
        BY <1>3 DEF b, n
      <4>2. blockIndex'[p][i] = h
        BY <1>2
      <4> HIDE DEF h
      <4> QED BY <1>4, <4>1, <4>2
    <3>2. LET h == blockIndex'[p][b + 1] IN
                  /\ Capacity(h) \in Nat /\ Capacity(h) > 1
                  /\ h.index \in [0 .. Capacity(h) - 1 -> 1 .. n + cap]
                  /\ h.tail \in 0 .. Capacity(h) - 1
      BY <1>1, <1>2
    <3>3. \A i \in 1 .. b + 1 : i \in 1 .. b \/ i = b + 1
      BY <1>1
    <3> DEFINE OK(h) == /\ Capacity(h) \in Nat /\ Capacity(h) > 1
                        /\ h.index \in [0 .. Capacity(h) - 1 -> 1 .. n + cap]
                        /\ h.tail \in 0 .. Capacity(h) - 1
    <3>4. \A i \in 1 .. b : OK(blockIndex'[p][i])
      BY <3>1
    <3>5. OK(blockIndex'[p][b + 1])
      BY <3>2
    <3> HIDE DEF OK
    <3>6. \A i \in 1 .. b + 1 : OK(blockIndex'[p][i])
      BY <3>3, <3>4, <3>5
    <3>7. \A i \in 1 .. Len(blockIndex'[p]) : OK(blockIndex'[p][i])
      BY <1>2, <3>6
    <3>8. Len(blockIndex'[p]) >= 1
      BY <1>1, <1>2
    <3> QED BY <1>2, <2>2, <3>7, <3>8 DEF OK
  <2> QED BY <2>1, <2>2
<1>6. ASSUME NEW c \in Consumers, pc'[c] = "entry"
      PROVE  LET f == loc'[c] IN
             /\ f.header \in 1 .. Len(blockIndex'[f.from])
             /\ f.slot \in 0 .. Capacity(blockIndex'[f.from][f.header]) - 1
  <2>1. /\ loc[c].header \in 1 .. Len(blockIndex[loc[c].from])
        /\ loc[c].slot \in 0 .. Capacity(blockIndex[loc[c].from][loc[c].header]) - 1
        /\ loc'[c] = loc[c] /\ loc[c].from \in Producers
    BY <1>6 DEF Stays, Types, IndexTypes, LocTypes
  <2>2. CASE loc[c].from # p
    BY <1>2, <2>1, <2>2
  <2>3. CASE loc[c].from = p
    BY SMTT(40), <1>1, <1>2, <2>1, <2>3 DEF b
  <2> QED BY <2>2, <2>3
<1> QED BY <1>2, <1>5, <1>6 DEF IndexTypes

\* A consumer that reads the current block index has a slot of it.
LEMMA LoadTypes ==
    ASSUME Types, NEW c \in Consumers, LoadBlockIndex(c)
    PROVE  IndexTypes'
<1>1. /\ loc[c].from \in Producers /\ pc[c] = "block_index"
      /\ blockIndex' = blockIndex /\ entry' = entry
  BY DEF LoadBlockIndex, Types, LocTypes, indexVars
<1>2. /\ Current(loc[c].from) \in 1 .. Len(blockIndex[loc[c].from])
      /\ Last(blockIndex[loc[c].from]) = blockIndex[loc[c].from][Current(loc[c].from)]
      /\ Last(blockIndex[loc[c].from]).tail
           \in 0 .. Capacity(Last(blockIndex[loc[c].from])) - 1
  BY <1>1, CurTyped DEF Current, Slots
<1>3. \A d \in Consumers : d # c => pc'[d] = pc[d] /\ loc'[d] = loc[d]
  BY OnlyConsumer, Members2 DEF Consume
<1>4. /\ loc'[c].header = Current(loc[c].from)
      /\ loc'[c].slot = Last(blockIndex[loc[c].from]).tail
      /\ loc'[c].from = loc[c].from
  BY Members2 DEF LoadBlockIndex, Types, LocTypes, WfLoc, Shape
<1>5. ASSUME NEW d \in Consumers, pc'[d] = "entry"
      PROVE  LET f == loc'[d] IN
             /\ f.header \in 1 .. Len(blockIndex'[f.from])
             /\ f.slot \in 0 .. Capacity(blockIndex'[f.from][f.header]) - 1
  <2>1. CASE d = c
    BY <1>1, <1>2, <1>4, <2>1
  <2>2. CASE d # c
    BY <1>1, <1>3, <1>5, <2>2 DEF Types, IndexTypes
  <2> QED BY <2>1, <2>2
<1> QED BY <1>1, <1>5 DEF Types, IndexTypes

\* The slot before the tail is a slot.
LEMMA Back1 ==
    ASSUME Types, NEW p \in Producers
    PROVE  (Cur(p).tail + Capacity(Cur(p)) - 1) % Capacity(Cur(p)) \in Slots(Cur(p))
<1> DEFINE h == Cur(p)
           cap == Capacity(h)
<1>1. h.tail \in Nat /\ cap \in Nat /\ cap > 1
  BY CurTyped DEF Cur
<1> HIDE DEF h
<1> HIDE DEF cap
<1>2. (h.tail + cap - 1) % cap \in 0 .. cap - 1
  BY <1>1, Modulo
<1> QED BY <1>2 DEF Slots, cap, h

\* Every step keeps the types of the block indices.
LEMMA IndexTypesStep ==
    ASSUME Types, [Next]_vars
    PROVE  IndexTypes'
<1>0. /\ entry \in [Producers -> Seq(Entry)]
      /\ \A t \in Threads : loc[t].block \in MaybeBlock
  BY DEF Types, IndexTypes, LocTypes, WfLoc
<1>1. CASE \E c \in Consumers : LoadBlockIndex(c)
  BY <1>1, LoadTypes
<1>2. CASE ~ \E c \in Consumers : LoadBlockIndex(c)
  <2>1. Stays
    BY <1>2, StaysStep
  <2>2. CASE blockIndex' = blockIndex /\ entry' = entry
    BY <1>0, <2>1, <2>2, IndexKept
  <2>3. ASSUME NEW p \in Producers, Produce(p) PROVE IndexTypes'
    <3>1. CASE \E e : \E k \in Nat :
                 blockIndex' = blockIndex /\ SetKey(p, e, k)
      BY <2>1, <3>1, KeySet, IndexKept
    <3>2. CASE \E e : \E k \in MaybeBlock :
                 blockIndex' = blockIndex /\ SetValue(p, e, k)
      BY <2>1, <3>2, ValueSet, IndexKept
    <3>3. CASE InsertBlockIndexEntry(p)
      <4>1. tailIndex[p] \in Nat
        BY DEF Types, CountTypes
      <4>2. CASE InsertIn(p, Last(blockIndex[p]))
        BY Zenon, <3>1, <3>3, <4>1, <4>2 DEF InsertBlockIndexEntry, InsertIn, SetKey
      <4> QED BY <2>2, <3>3, <4>2 DEF InsertBlockIndexEntry
    <3>4. CASE NewBlockIndex(p)
      BY <2>1, <3>4, GrownTypes
    <3>5. CASE Expose(p)
      BY <2>1, <3>5, MoveTypes, NextTyped DEF Expose, Cur
    <3>6. CASE Rewind(p)
      BY <2>1, <3>6, MoveTypes, Back1 DEF Rewind, Cur
    <3>7. CASE Construct(p)
      <4>1. CASE tailIndex[p] % BLOCK_SIZE = 0
        BY <1>0, <3>2, <3>7, <4>1, Members DEF Construct, SetValue
      <4>2. CASE tailIndex[p] % BLOCK_SIZE # 0
        BY <2>2, <3>7, <4>2 DEF Construct
      <4> QED BY <4>1, <4>2
    <3>8. CASE Forget(p)
      <4>1. None \in MaybeBlock
        BY DEF MaybeBlock
      <4> QED BY <3>2, <3>8, <4>1 DEF Forget, SetValue
    <3> QED
      BY <2>2, <2>3, <3>3, <3>4, <3>5, <3>6, <3>7, <3>8
         DEF Produce, Enqueue, NewBlockIndexFails, AskPool, ClaimFromPool,
             FromFreeList, Create, CreateFails, ConstructThrows, Publish,
             indexVars
  <2>4. ASSUME NEW c \in Consumers, Consume(c) PROVE IndexTypes'
    <3>1. CASE Release(c)
      <4>1. /\ loc[c].from \in Producers /\ None \in MaybeBlock
            /\ blockIndex' = blockIndex
            /\ SetValue(loc[c].from, loc[c].at, None)
        BY <3>1 DEF Release, Types, LocTypes, MaybeBlock, SetValue
      <4> QED BY <2>1, <4>1, ValueSet, IndexKept
    <3> QED
      BY Zenon, <1>2, <2>2, <2>4, <3>1
         DEF Consume, Dequeue, SeemsEmpty, SeemsNonEmpty, AddOptimistic, Recheck,
             AddOvercommit, ClaimHead, MoveElement, SetEmpty, indexVars
  <2>5. ASSUME NEW t \in Threads, GivenBack(t) \/ InFreeList(t) PROVE IndexTypes'
    BY <2>2, <2>5 DEF GivenBack, InFreeList, indexVars
  <2> QED
    BY <2>2, <2>3, <2>4, <2>5 DEF Next, vars, indexVars
<1> QED BY <1>1, <1>2

\* Every step keeps the types of the state.
LEMMA TypesStep ==
    ASSUME Types, [Next]_vars
    PROVE  Types'
<1> QED
  BY CountTypesStep, PcTypesStep, LocTypesStep, FreeTypesStep, IndexTypesStep,
     BlockTypesStep DEF Types

-----------------------------------------------------------------------------
(***************************************************************************)
(* The counts of a stream. A consumer adds 1 to the optimistic count       *)
(* before it claims an element; it claims one only if the count it found,  *)
(* less the overcommit it had seen, is below the tail. Conserved says      *)
(* where the counts come from; Enough, that however the consumers at the   *)
(* check are ordered, those that pass it find an element.                  *)
(***************************************************************************)

\* Their number.
BelowN(p, n) == Cardinality(Below(p, n))

\* There are finitely many consumers.
LEMMA ConsumersFinite == IsFiniteSet(Consumers)
  BY QueueAssumption, FS_Subset

\* The consumers at one place of the code are counted.
LEMMA Numbers ==
    \A p, l : IsFiniteSet(ConsumersAt(p, l)) /\ NumberAt(p, l) \in Nat
<1> TAKE p, l
<1>1. ConsumersAt(p, l) \in SUBSET Consumers
  BY DEF ConsumersAt
<1> QED BY <1>1, ConsumersFinite, FS_Subset, FS_CardinalityType DEF NumberAt

\* The consumers at the check with a count below n are counted.
LEMMA Belows ==
    \A p, n : IsFiniteSet(Below(p, n)) /\ BelowN(p, n) \in Nat
<1> TAKE p, n
<1>1. Below(p, n) \in SUBSET Consumers
  BY DEF Below
<1> QED BY <1>1, ConsumersFinite, FS_Subset, FS_CardinalityType DEF BelowN

\* The number of elements of a set that gains or loses c.
LEMMA OneMoves ==
    ASSUME NEW S, NEW S2, NEW c, IsFiniteSet(S), S2 \ {c} = S \ {c}
    PROVE  /\ c \in S /\ c \notin S2 => Cardinality(S2) = Cardinality(S) - 1
           /\ c \notin S /\ c \in S2 => Cardinality(S2) = Cardinality(S) + 1
           /\ (c \in S <=> c \in S2) => S2 = S
<1>1. CASE c \in S /\ c \notin S2
  <2>1. S2 = S \ {c}
    BY <1>1
  <2> QED BY <1>1, <2>1, FS_RemoveElement
<1>2. CASE c \notin S /\ c \in S2
  <2>1. S2 = S \union {c}
    BY <1>2
  <2>2. Cardinality(S \union {c}) = Cardinality(S) + 1
    BY <1>2, FS_AddElement
  <2> QED BY <1>2, <2>1, <2>2
<1>3. (c \in S <=> c \in S2) => S2 = S
  OBVIOUS
<1> QED BY <1>1, <1>2, <1>3

\* The counts of a stream, with their types.
LEMMA ConservedIs ==
    ASSUME Types, Claims, NEW p \in Producers
    PROVE  /\ tailIndex[p] \in Nat /\ headIndex[p] \in Nat
           /\ dequeueOptimisticCount[p] \in Nat /\ dequeueOvercommit[p] \in Nat
           /\ dequeueOptimisticCount[p] = dequeueOvercommit[p] + headIndex[p]
                + NumberAt(p, "recheck") + NumberAt(p, "claim_head")
                + NumberAt(p, "overcommit")
           /\ \A l : NumberAt(p, l) \in Nat
           /\ \A n : BelowN(p, n) \in Nat
  BY Numbers, Belows DEF Types, CountTypes, Claims, Conserved

\* No more elements are claimed than were enqueued.
HeadBehind == \A p \in Producers : Claimed(p) <= tailIndex[p]

\* No more elements are claimed than were enqueued: dequeue never overtakes
\* enqueue.
LEMMA ClaimsImply ==
    ASSUME Types, Claims
    PROVE  HeadBehind /\ \A p \in Producers : headIndex[p] <= tailIndex[p]
<1> SUFFICES ASSUME NEW p \in Producers
             PROVE  Claimed(p) <= tailIndex[p] /\ headIndex[p] <= tailIndex[p]
  BY DEF HeadBehind
<1>1. PICK k \in Int, l \in Int : Enough(p, k, l)
  BY DEF Claims
<1>2. BelowN(p, k) \in Nat /\ NumberAt(p, "claim_head") \in Nat
  BY Numbers, Belows
<1> QED BY <1>1, <1>2, ConservedIs DEF Enough, Claimed, BelowN

\* The places where a consumer is counted.
Counting == {"recheck", "overcommit", "claim_head"}

\* c does not move between them, and sees no overcommit but the present one.
Quiet(c) ==
    /\ \A l \in Counting : pc[c] = l <=> pc'[c] = l
    /\ pc[c] \in Counting =>
         /\ loc'[c].from = loc[c].from /\ loc'[c].seen = loc[c].seen
         /\ loc'[c].count = loc[c].count
    /\ pc'[c] \in {"any", "optimistic"} =>
         \/ /\ pc[c] \in {"any", "optimistic"}
            /\ loc'[c].from = loc[c].from /\ loc'[c].seen = loc[c].seen
         \/ loc'[c].seen = dequeueOvercommit[loc'[c].from]

\* A step that moves no consumer between the places that count keeps Claims;
\* the tail may grow.
LEMMA ClaimsKept ==
    ASSUME Types, Types', Claims,
           UNCHANGED <<headIndex, dequeueOptimisticCount, dequeueOvercommit>>,
           \A p \in Producers : tailIndex[p] <= tailIndex'[p],
           \A c \in Consumers : Quiet(c)
    PROVE  Claims'
<1>1. \A p : \A l \in Counting : ConsumersAt(p, l)' = ConsumersAt(p, l)
  BY DEF ConsumersAt, Quiet, Counting
<1>2. \A p, n : Below(p, n)' = Below(p, n)
  BY DEF Below, Quiet, Counting
<1>3. \A p : \A l \in Counting : NumberAt(p, l)' = NumberAt(p, l)
  BY <1>1 DEF NumberAt
<1>4. \A p \in Producers : Claimed(p)' = Claimed(p)
  BY <1>3 DEF Claimed, Counting
<1>5. Seen'
  <2>1. \A c \in Consumers : pc'[c] \in {"any", "optimistic", "recheck"} =>
          loc'[c].seen <= dequeueOvercommit'[loc'[c].from]
    <3> SUFFICES ASSUME NEW c \in Consumers,
                        pc'[c] \in {"any", "optimistic", "recheck"}
                 PROVE  loc'[c].seen <= dequeueOvercommit'[loc'[c].from]
      OBVIOUS
    <3>1. loc'[c].seen \in Nat
      BY Members2 DEF Types, LocTypes, WfLoc
    <3>2. loc'[c].seen <= loc'[c].seen
      BY <3>1
    <3> QED BY <3>2 DEF Claims, Seen, Quiet, Counting
  <2>2. \A c \in Consumers : pc'[c] = "recheck" =>
          loc'[c].seen <= loc'[c].count
            /\ loc'[c].count < dequeueOptimisticCount'[loc'[c].from]
    BY DEF Claims, Seen, Quiet, Counting
  <2>3. \A c, d \in Consumers :
          c # d /\ pc'[c] = "recheck" /\ pc'[d] = "recheck"
            /\ loc'[c].from = loc'[d].from => loc'[c].count # loc'[d].count
    BY DEF Claims, Seen, Quiet, Counting
  <2> QED BY <2>1, <2>2, <2>3 DEF Seen
<1>6. ASSUME NEW p \in Producers PROVE Conserved(p)'
  BY <1>3 DEF Claims, Conserved, Counting
<1>7. ASSUME NEW p \in Producers PROVE \E k, l \in Int : Enough(p, k, l)'
  <2>1. PICK k \in Int, l \in Int : Enough(p, k, l)
    BY DEF Claims
  <2>2. ConsumersAt(p, "recheck")' = ConsumersAt(p, "recheck")
    BY <1>1 DEF Counting
  <2>3. ASSUME NEW c \in ConsumersAt(p, "recheck")
        PROVE  /\ loc'[c].count = loc[c].count /\ loc'[c].seen = loc[c].seen
               /\ Below(p, loc[c].count)' = Below(p, loc'[c].count)
    <3>1. loc'[c].count = loc[c].count /\ loc'[c].seen = loc[c].seen
      BY DEF ConsumersAt, Quiet, Counting
    <3> QED BY <3>1, <1>2
  <2>4. l <= tailIndex'[p]
    <3>1. tailIndex[p] \in Nat /\ tailIndex'[p] \in Nat
      BY DEF Types, CountTypes
    <3> QED BY <2>1, <3>1 DEF Enough
  <2> QED BY <2>1, <2>2, <2>3, <2>4, <1>2, <1>4 DEF Enough
<1> QED BY <1>5, <1>6, <1>7 DEF Claims

LEMMA Moves ==
    ASSUME NEW c \in Consumers,
           \A d \in Consumers : d # c => pc'[d] = pc[d] /\ loc'[d] = loc[d],
           NEW p, NEW l
    PROVE  /\ pc[c] = l /\ loc[c].from = p
                /\ ~(pc'[c] = l /\ loc'[c].from = p)
                => NumberAt(p, l)' = NumberAt(p, l) - 1
           /\ ~(pc[c] = l /\ loc[c].from = p)
                /\ pc'[c] = l /\ loc'[c].from = p
                => NumberAt(p, l)' = NumberAt(p, l) + 1
           /\ (pc[c] = l /\ loc[c].from = p
                 <=> pc'[c] = l /\ loc'[c].from = p)
                => NumberAt(p, l)' = NumberAt(p, l)
<1> DEFINE S == ConsumersAt(p, l)
           S2 == {d \in Consumers : pc'[d] = l /\ loc'[d].from = p}
<1>0. S2 = (ConsumersAt(p, l))'
  BY DEF ConsumersAt
<1>1. S2 \ {c} = S \ {c}
  BY DEF ConsumersAt
<1>2. /\ c \in S <=> pc[c] = l /\ loc[c].from = p
      /\ c \in S2 <=> pc'[c] = l /\ loc'[c].from = p
  BY DEF ConsumersAt
<1>3. IsFiniteSet(S)
  BY Numbers
<1>5. NumberAt(p, l) = Cardinality(S)
  BY DEF NumberAt
<1>6. NumberAt(p, l)' = Cardinality(S2)
  BY <1>0 DEF NumberAt
<1> HIDE DEF S, S2
<1>4. /\ c \in S /\ c \notin S2 => Cardinality(S2) = Cardinality(S) - 1
      /\ c \notin S /\ c \in S2 => Cardinality(S2) = Cardinality(S) + 1
      /\ (c \in S <=> c \in S2) => S2 = S
  BY <1>1, <1>3, OneMoves
<1> QED BY <1>2, <1>4, <1>5, <1>6

\* Below in the next state.
After(p, n) == Cardinality({d \in Consumers : pc'[d] = "recheck"
                     /\ loc'[d].from = p /\ loc'[d].count < n})

\* What a step of c alone does to the number of consumers below n.
LEMMA MovesBelow ==
    ASSUME NEW c \in Consumers,
           \A d \in Consumers : d # c => pc'[d] = pc[d] /\ loc'[d] = loc[d],
           NEW p, NEW n
    PROVE  LET is == pc[c] = "recheck" /\ loc[c].from = p /\ loc[c].count < n
               now == pc'[c] = "recheck" /\ loc'[c].from = p /\ loc'[c].count < n
           IN /\ is /\ ~now => After(p, n) = BelowN(p, n) - 1
              /\ ~is /\ now => After(p, n) = BelowN(p, n) + 1
              /\ (is <=> now) => After(p, n) = BelowN(p, n)
<1> DEFINE S2 == {d \in Consumers : pc'[d] = "recheck"
                     /\ loc'[d].from = p /\ loc'[d].count < n}
<1>1. S2 \ {c} = Below(p, n) \ {c}
  BY DEF Below
<1>2. /\ c \in Below(p, n) <=> pc[c] = "recheck" /\ loc[c].from = p /\ loc[c].count < n
      /\ c \in S2 <=> pc'[c] = "recheck" /\ loc'[c].from = p /\ loc'[c].count < n
  BY DEF Below
<1>3. IsFiniteSet(Below(p, n))
  BY Belows
<1> HIDE DEF S2
<1>4. /\ c \in Below(p, n) /\ c \notin S2 => Cardinality(S2) = Cardinality(Below(p, n)) - 1
      /\ c \notin Below(p, n) /\ c \in S2 => Cardinality(S2) = Cardinality(Below(p, n)) + 1
      /\ (c \in Below(p, n) <=> c \in S2) => S2 = Below(p, n)
  BY <1>1, <1>3, OneMoves
<1>5. /\ c \in Below(p, n) /\ c \notin S2 => Cardinality(S2) = BelowN(p, n) - 1
      /\ c \notin Below(p, n) /\ c \in S2 => Cardinality(S2) = BelowN(p, n) + 1
      /\ (c \in Below(p, n) <=> c \in S2) => Cardinality(S2) = BelowN(p, n)
  BY <1>4 DEF BelowN
<1> QED BY <1>2, <1>5 DEF S2, After

\* Claims of the producers that a step of c is not about.
EnoughAfter(p, k, l, h) ==
    /\ k <= dequeueOptimisticCount'[p]
    /\ l <= tailIndex'[p]
    /\ h + After(p, k) <= l
    /\ \A c \in Consumers : pc'[c] = "recheck" /\ loc'[c].from = p
         /\ loc'[c].count >= k =>
           h + After(p, loc'[c].count) + loc'[c].seen <= loc'[c].count

\* EnoughAfter is Enough after a step.
LEMMA EnoughIs ==
    ASSUME NEW p, NEW k, NEW l, EnoughAfter(p, k, l, Claimed(p)')
    PROVE  Enough(p, k, l)'
<1>1. Cardinality(Below(p, k))' = After(p, k)
  BY DEF After, Below
<1>2. \A c : c \in ConsumersAt(p, "recheck")' <=>
         c \in Consumers /\ pc'[c] = "recheck" /\ loc'[c].from = p
  BY DEF ConsumersAt
<1>3. \A c : Cardinality({d \in Consumers : pc'[d] = "recheck"
                     /\ loc'[d].from = p /\ loc'[d].count < loc'[c].count})
               = After(p, loc'[c].count)
  BY DEF After
<1>4. \A c \in ConsumersAt(p, "recheck")' : loc'[c].count >= k =>
         Claimed(p)' + After(p, loc'[c].count) + loc'[c].seen <= loc'[c].count
  BY <1>2 DEF EnoughAfter
<1> QED BY <1>1, <1>3, <1>4 DEF EnoughAfter, Enough, Below

\* A step of c leaves the counts of the streams that c is not at.
LEMMA OthersKept ==
    ASSUME Types, Claims, NEW c \in Consumers,
           \A d \in Consumers : d # c => pc'[d] = pc[d] /\ loc'[d] = loc[d],
           loc'[c].from = loc[c].from \/ pc'[c] \notin Counting,
           NEW p \in Producers, p # loc[c].from,
           dequeueOptimisticCount'[p] = dequeueOptimisticCount[p],
           headIndex'[p] = headIndex[p],
           dequeueOvercommit'[p] = dequeueOvercommit[p],
           tailIndex'[p] = tailIndex[p]
    PROVE  Conserved(p)' /\ \E k, l \in Int : Enough(p, k, l)'
<1>1. \A l \in Counting : ConsumersAt(p, l)' = ConsumersAt(p, l)
  BY DEF ConsumersAt, Counting
<1>2. \A l \in Counting : NumberAt(p, l)' = NumberAt(p, l)
  BY <1>1 DEF NumberAt
<1>3. Conserved(p)'
  BY <1>2 DEF Claims, Conserved, Counting
<1>4. \A n : After(p, n) = BelowN(p, n)
  BY DEF After, BelowN, Below, Counting
<1>5. Claimed(p)' = Claimed(p)
  BY <1>2 DEF Claimed, Counting
<1>6. PICK k \in Int, l \in Int : Enough(p, k, l)
  BY DEF Claims
<1>7. EnoughAfter(p, k, l, Claimed(p)')
  <2>1. k <= dequeueOptimisticCount'[p] /\ l <= tailIndex'[p]
    BY <1>6 DEF Enough
  <2>2. Claimed(p)' + After(p, k) <= l
    BY <1>4, <1>5, <1>6 DEF Enough, BelowN
  <2>3. ASSUME NEW d \in Consumers, pc'[d] = "recheck", loc'[d].from = p,
               loc'[d].count >= k
        PROVE  Claimed(p)' + After(p, loc'[d].count) + loc'[d].seen <= loc'[d].count
    <3>1. d # c
      BY <2>3 DEF Counting
    <3>2. d \in ConsumersAt(p, "recheck") /\ loc'[d] = loc[d]
      BY <2>3, <3>1 DEF ConsumersAt
    <3> QED BY <3>2, <2>3, <1>4, <1>5, <1>6 DEF Enough, BelowN
  <2> QED BY <2>1, <2>2, <2>3 DEF EnoughAfter
<1> QED BY <1>3, <1>7, EnoughIs

-----------------------------------------------------------------------------
(***************************************************************************)
(* What each action does, field by field of the locals of its thread.      *)
(***************************************************************************)

\* The locals l, field by field.
Locals(l, f, s, n, h, o, e, b, i) ==
    /\ l.from = f /\ l.seen = s /\ l.count = n /\ l.header = h /\ l.slot = o
    /\ l.at = e /\ l.block = b /\ l.item = i

\* count is set.
LEMMA SetCount == ASSUME NEW l, Shape(l), NEW n
    PROVE Locals([l EXCEPT !.count = n], l.from, l.seen, n, l.header, l.slot, l.at, l.block, l.item)
  BY DEF Shape, Locals

\* count and seen are set.
LEMMA SetCountSeen == ASSUME NEW l, Shape(l), NEW n, NEW s
    PROVE Locals([l EXCEPT !.count = n, !.seen = s], l.from, s, n, l.header, l.slot, l.at, l.block, l.item)
  BY DEF Shape, Locals

\* The stream and its counts are set.
LEMMA SetFrom == ASSUME NEW l, Shape(l), NEW n, NEW s, NEW p
    PROVE Locals([l EXCEPT !.from = p, !.count = n, !.seen = s], p, s, n, l.header, l.slot, l.at, l.block, l.item)
  BY DEF Shape, Locals

\* The slot is set.
LEMMA SetSlot == ASSUME NEW l, Shape(l), NEW h, NEW s
    PROVE Locals([l EXCEPT !.header = h, !.slot = s], l.from, l.seen, l.count, h, s, l.at, l.block, l.item)
  BY DEF Shape, Locals

\* The entry is set.
LEMMA SetAt == ASSUME NEW l, Shape(l), NEW e
    PROVE Locals([l EXCEPT !.at = e], l.from, l.seen, l.count, l.header, l.slot, e, l.block, l.item)
  BY DEF Shape, Locals

\* The block is set.
LEMMA SetBlock == ASSUME NEW l, Shape(l), NEW b
    PROVE Locals([l EXCEPT !.block = b], l.from, l.seen, l.count, l.header, l.slot, l.at, b, l.item)
  BY DEF Shape, Locals

\* The entry, its block and the element are set.
LEMMA SetItem == ASSUME NEW p, NEW e, NEW b, NEW i
    PROVE Locals([NoLocals EXCEPT !.from = p, !.at = e, !.block = b, !.item = i], p, 0, 0, 0, 0, e, b, i)
  BY DEF NoLocals, Locals

\* The locals of a thread outside.
LEMMA NoneSet == Locals(NoLocals, None, 0, 0, 0, 0, 0, None, None)
  BY DEF NoLocals, Locals

\* What Dequeue does.
LEMMA DequeueDoes ==
    ASSUME Types, NEW c \in Consumers, NEW p \in Producers, Dequeue(c, p)
    PROVE  /\ pc[c] = "idle" /\ c \in work.by
           /\ pc'[c] = "any" /\ fl'[c] = fl[c]
           /\ Locals(loc'[c], p, dequeueOvercommit[p], tailIndex[p], loc[c].header, loc[c].slot, loc[c].at, loc[c].block, loc[c].item)
           /\ \A u \in Threads : u # c => pc'[u] = pc[u] /\ loc'[u] = loc[u] /\ fl'[u] = fl[u]
           /\ UNCHANGED <<freeListHead, freeListRefs, freeListNext, tailIndex, headIndex, dequeueOptimisticCount, dequeueOvercommit, blockIndex, entry, initialBlockPoolIndex, created, tailBlock, dequeued, elements, work>>
<1>0. PcTypes /\ LocTypes /\ FreeTypes /\ c \in Threads /\ Shape(loc[c])
  BY Members2 DEF Types, LocTypes, WfLoc
<1>1. pc[c] = "idle" /\ c \in work.by /\ pc'[c] = "any" /\ fl'[c] = fl[c]
  BY <1>0 DEF Dequeue, Goto, PcTypes, freeVars
<1>2. loc' = [loc EXCEPT ![c] = [loc[c] EXCEPT !.from = p, !.count = tailIndex[p], !.seen = dequeueOvercommit[p]]]
  BY <1>0 DEF Dequeue, LocTypes
<1>3. Locals(loc'[c], p, dequeueOvercommit[p], tailIndex[p], loc[c].header, loc[c].slot, loc[c].at, loc[c].block, loc[c].item)
  BY Zenon, <1>0, <1>2, SetFrom DEF LocTypes
<1>4. \A u \in Threads : u # c => pc'[u] = pc[u] /\ loc'[u] = loc[u] /\ fl'[u] = fl[u]
  BY OnlyConsumer DEF Consume
<1>5. UNCHANGED <<freeListHead, freeListRefs, freeListNext, tailIndex, headIndex, dequeueOptimisticCount, dequeueOvercommit, blockIndex, entry, initialBlockPoolIndex, created, tailBlock, dequeued, elements, work>>
  BY DEF Dequeue, freeVars, countVars, indexVars, poolVars, blockVars, bounds
<1> QED BY <1>1, <1>3, <1>4, <1>5

\* What Enqueue does.
LEMMA EnqueueDoes ==
    ASSUME Types, NEW p \in Producers, Enqueue(p)
    PROVE  /\ pc[p] = "idle"
           /\ tailIndex[p] < work.sent[p]
           /\ (New(p)) =>
                pc'[p] = "insert" /\ loc'[p] = loc[p] /\ fl'[p] = fl[p]
           /\ (~New(p)) =>
                pc'[p] = "construct" /\ Locals(loc'[p], loc[p].from, loc[p].seen, loc[p].count, loc[p].header, loc[p].slot, loc[p].at, tailBlock[p], loc[p].item) /\ fl'[p] = fl[p]
           /\ \A u \in Threads : u # p => pc'[u] = pc[u] /\ loc'[u] = loc[u] /\ fl'[u] = fl[u]
           /\ UNCHANGED <<freeListHead, freeListRefs, freeListNext, tailIndex, headIndex, dequeueOptimisticCount, dequeueOvercommit, blockIndex, entry, initialBlockPoolIndex, created, tailBlock, dequeued, elements, work>>
<1>0. /\ PcTypes /\ LocTypes /\ FreeTypes /\ p \in Threads
      /\ Shape(loc[p])
  BY Members, QueueAssumption DEF Types, LocTypes, WfLoc
<1>1. pc[p] = "idle" /\ tailIndex[p] < work.sent[p]
  BY <1>0 DEF Enqueue, Goto, New, Valid, Slot, Cur, SetKey, SetValue,
     InsertIn, AskFreeList
<1>2. ASSUME New(p)
      PROVE  pc'[p] = "insert" /\ loc'[p] = loc[p] /\ fl'[p] = fl[p]
  <2>1. pc'[p] = "insert"
    BY <1>2, <1>0 DEF Enqueue, Goto, New, Valid, Slot, Cur, SetKey, SetValue,
       InsertIn, AskFreeList, PcTypes, LocTypes, FreeTypes
  <2>2. loc'[p] = loc[p]
    BY <1>2, <1>0 DEF Enqueue, Goto, New, Valid, Slot, Cur, SetKey, SetValue,
       InsertIn, AskFreeList, PcTypes, LocTypes, FreeTypes
  <2>3. fl'[p] = fl[p]
    BY <1>2, <1>0 DEF Enqueue, Goto, New, Valid, Slot, Cur, SetKey, SetValue,
       InsertIn, AskFreeList, PcTypes, LocTypes, FreeTypes, vars, freeVars,
       countVars, indexVars, poolVars, blockVars, bounds
  <2> QED BY <2>1, <2>2, <2>3
<1>3. ASSUME ~New(p)
      PROVE  pc'[p] = "construct" /\ Locals(loc'[p], loc[p].from, loc[p].seen, loc[p].count, loc[p].header, loc[p].slot, loc[p].at, tailBlock[p], loc[p].item) /\ fl'[p] = fl[p]
  <2>1. pc'[p] = "construct"
    BY <1>3, <1>0 DEF Enqueue, Goto, New, Valid, Slot, Cur, SetKey, SetValue,
       InsertIn, AskFreeList, PcTypes, LocTypes, FreeTypes
  <2>2. Locals(loc'[p], loc[p].from, loc[p].seen, loc[p].count, loc[p].header, loc[p].slot, loc[p].at, tailBlock[p], loc[p].item)
    <3>1. loc' = [loc EXCEPT ![p] = [loc[p] EXCEPT !.block = tailBlock[p]]]
      BY <1>3, <1>0 DEF Enqueue, Goto, New, Valid, Slot, Cur, SetKey,
         SetValue, InsertIn, AskFreeList, LocTypes
    <3> QED BY <3>1, <1>0, SetBlock DEF LocTypes
  <2>3. fl'[p] = fl[p]
    BY <1>3, <1>0 DEF Enqueue, Goto, New, Valid, Slot, Cur, SetKey, SetValue,
       InsertIn, AskFreeList, PcTypes, LocTypes, FreeTypes, vars, freeVars,
       countVars, indexVars, poolVars, blockVars, bounds
  <2> QED BY <2>1, <2>2, <2>3
<1>4. \A u \in Threads : u # p => pc'[u] = pc[u] /\ loc'[u] = loc[u] /\ fl'[u] = fl[u]
  BY OnlyProducer DEF Produce
<1>5. UNCHANGED <<freeListHead, freeListRefs, freeListNext, tailIndex, headIndex, dequeueOptimisticCount, dequeueOvercommit, blockIndex, entry, initialBlockPoolIndex, created, tailBlock, dequeued, elements, work>>
  BY DEF Enqueue, Goto, New, Valid, Slot, Cur, SetKey, SetValue,
     InsertIn, AskFreeList, vars, freeVars, countVars, indexVars, poolVars,
     blockVars, bounds
<1> QED BY <1>1, <1>2, <1>3, <1>4, <1>5

\* What InsertBlockIndexEntry does.
LEMMA InsertBlockIndexEntryDoes ==
    ASSUME Types, NEW p \in Producers, InsertBlockIndexEntry(p)
    PROVE  /\ pc[p] \in {"insert", "grown"}
           /\ (pc[p] = "grown" \/ ~Valid(Slot(p, NextSlot(Cur(p)))) \/ Slot(p, NextSlot(Cur(p))).value = None) =>
                pc'[p] = "expose" /\ Locals(loc'[p], loc[p].from, loc[p].seen, loc[p].count, loc[p].header, loc[p].slot, Cur(p).index[NextSlot(Cur(p))], loc[p].block, loc[p].item) /\ fl'[p] = fl[p] /\ SetKey(p, Cur(p).index[NextSlot(Cur(p))], tailIndex[p])
           /\ (~(pc[p] = "grown" \/ ~Valid(Slot(p, NextSlot(Cur(p)))) \/ Slot(p, NextSlot(Cur(p))).value = None)) =>
                pc'[p] = "grow" /\ loc'[p] = loc[p] /\ fl'[p] = fl[p] /\ entry' = entry
           /\ \A u \in Threads : u # p => pc'[u] = pc[u] /\ loc'[u] = loc[u] /\ fl'[u] = fl[u]
           /\ UNCHANGED <<freeListHead, freeListRefs, freeListNext, tailIndex, headIndex, dequeueOptimisticCount, dequeueOvercommit, blockIndex, initialBlockPoolIndex, created, tailBlock, dequeued, elements, work>>
<1>0. /\ PcTypes /\ LocTypes /\ FreeTypes /\ p \in Threads
      /\ Shape(loc[p])
  BY Members, QueueAssumption DEF Types, LocTypes, WfLoc
<1>1. pc[p] \in {"insert", "grown"}
  BY <1>0 DEF InsertBlockIndexEntry, InsertIn, Goto, New, Valid, Slot, Cur,
     SetKey, SetValue, AskFreeList
<1>2. ASSUME pc[p] = "grown" \/ ~Valid(Slot(p, NextSlot(Cur(p)))) \/ Slot(p, NextSlot(Cur(p))).value = None
      PROVE  pc'[p] = "expose" /\ Locals(loc'[p], loc[p].from, loc[p].seen, loc[p].count, loc[p].header, loc[p].slot, Cur(p).index[NextSlot(Cur(p))], loc[p].block, loc[p].item) /\ fl'[p] = fl[p] /\ SetKey(p, Cur(p).index[NextSlot(Cur(p))], tailIndex[p])
  <2>1. pc'[p] = "expose"
    BY <1>2, <1>0 DEF InsertBlockIndexEntry, InsertIn, Goto, New, Valid, Slot,
       Cur, SetKey, SetValue, AskFreeList, PcTypes, LocTypes, FreeTypes
  <2>2. Locals(loc'[p], loc[p].from, loc[p].seen, loc[p].count, loc[p].header, loc[p].slot, Cur(p).index[NextSlot(Cur(p))], loc[p].block, loc[p].item)
    <3>1. loc' = [loc EXCEPT ![p] = [loc[p] EXCEPT !.at = Cur(p).index[NextSlot(Cur(p))]]]
      BY SMTT(40), <1>2, <1>0 DEF InsertBlockIndexEntry, InsertIn, Goto, New, Valid,
         Slot, Cur, SetKey, SetValue, AskFreeList, LocTypes
    <3> QED BY SMTT(40), <3>1, <1>0, SetAt DEF LocTypes
  <2>3. fl'[p] = fl[p] /\ SetKey(p, Cur(p).index[NextSlot(Cur(p))], tailIndex[p])
    BY <1>2, <1>0 DEF InsertBlockIndexEntry, InsertIn, Goto, New, Valid, Slot,
       Cur, SetKey, SetValue, AskFreeList, PcTypes, LocTypes, FreeTypes, vars,
       freeVars, countVars, indexVars, poolVars, blockVars, bounds
  <2> QED BY SMTT(40), <2>1, <2>2, <2>3
<1>3. ASSUME ~(pc[p] = "grown" \/ ~Valid(Slot(p, NextSlot(Cur(p)))) \/ Slot(p, NextSlot(Cur(p))).value = None)
      PROVE  pc'[p] = "grow" /\ loc'[p] = loc[p] /\ fl'[p] = fl[p] /\ entry' = entry
  <2>1. pc'[p] = "grow"
    BY <1>3, <1>0 DEF InsertBlockIndexEntry, InsertIn, Goto, New, Valid, Slot,
       Cur, SetKey, SetValue, AskFreeList, PcTypes, LocTypes, FreeTypes
  <2>2. loc'[p] = loc[p]
    BY <1>3, <1>0 DEF InsertBlockIndexEntry, InsertIn, Goto, New, Valid, Slot,
       Cur, SetKey, SetValue, AskFreeList, PcTypes, LocTypes, FreeTypes
  <2>3. fl'[p] = fl[p] /\ entry' = entry
    BY <1>3, <1>0 DEF InsertBlockIndexEntry, InsertIn, Goto, New, Valid, Slot,
       Cur, SetKey, SetValue, AskFreeList, PcTypes, LocTypes, FreeTypes, vars,
       freeVars, countVars, indexVars, poolVars, blockVars, bounds
  <2> QED BY <2>1, <2>2, <2>3
<1>4. \A u \in Threads : u # p => pc'[u] = pc[u] /\ loc'[u] = loc[u] /\ fl'[u] = fl[u]
  BY OnlyProducer DEF Produce
<1>5. UNCHANGED <<freeListHead, freeListRefs, freeListNext, tailIndex, headIndex, dequeueOptimisticCount, dequeueOvercommit, blockIndex, initialBlockPoolIndex, created, tailBlock, dequeued, elements, work>>
  BY DEF InsertBlockIndexEntry, InsertIn, Goto, New, Valid, Slot, Cur,
     SetKey, SetValue, AskFreeList, vars, freeVars, countVars, indexVars,
     poolVars, blockVars, bounds
<1> QED BY <1>1, <1>2, <1>3, <1>4, <1>5

\* What NewBlockIndex does.
LEMMA NewBlockIndexDoes ==
    ASSUME Types, NEW p \in Producers, NewBlockIndex(p)
    PROVE  /\ pc[p] = "grow"
           /\ pc'[p] = "grown" /\ loc'[p] = loc[p] /\ fl'[p] = fl[p]
           /\ \A u \in Threads : u # p => pc'[u] = pc[u] /\ loc'[u] = loc[u] /\ fl'[u] = fl[u]
           /\ UNCHANGED <<freeListHead, freeListRefs, freeListNext, tailIndex, headIndex, dequeueOptimisticCount, dequeueOvercommit, initialBlockPoolIndex, created, tailBlock, dequeued, elements, work>>
<1>0. /\ PcTypes /\ LocTypes /\ FreeTypes /\ p \in Threads
      /\ Shape(loc[p])
  BY Members, QueueAssumption DEF Types, LocTypes, WfLoc
<1>1. pc[p] = "grow"
  BY <1>0 DEF NewBlockIndex, Goto, New, Valid, Slot, Cur, SetKey, SetValue,
     InsertIn, AskFreeList
<1>2. pc'[p] = "grown" /\ loc'[p] = loc[p] /\ fl'[p] = fl[p]
  <2>1. pc'[p] = "grown"
    BY <1>0 DEF NewBlockIndex, Goto, New, Valid, Slot, Cur, SetKey, SetValue,
       InsertIn, AskFreeList, PcTypes, LocTypes, FreeTypes
  <2>2. loc'[p] = loc[p]
    BY <1>0 DEF NewBlockIndex, Goto, New, Valid, Slot, Cur, SetKey, SetValue,
       InsertIn, AskFreeList, PcTypes, LocTypes, FreeTypes
  <2>3. fl'[p] = fl[p]
    BY <1>0 DEF NewBlockIndex, Goto, New, Valid, Slot, Cur, SetKey, SetValue,
       InsertIn, AskFreeList, PcTypes, LocTypes, FreeTypes, vars, freeVars,
       countVars, indexVars, poolVars, blockVars, bounds
  <2> QED BY <2>1, <2>2, <2>3
<1>3. \A u \in Threads : u # p => pc'[u] = pc[u] /\ loc'[u] = loc[u] /\ fl'[u] = fl[u]
  BY OnlyProducer DEF Produce
<1>4. UNCHANGED <<freeListHead, freeListRefs, freeListNext, tailIndex, headIndex, dequeueOptimisticCount, dequeueOvercommit, initialBlockPoolIndex, created, tailBlock, dequeued, elements, work>>
  BY DEF NewBlockIndex, Goto, New, Valid, Slot, Cur, SetKey, SetValue,
     InsertIn, AskFreeList, vars, freeVars, countVars, indexVars, poolVars,
     blockVars, bounds
<1> QED BY <1>1, <1>2, <1>3, <1>4

\* What NewBlockIndexFails does.
LEMMA NewBlockIndexFailsDoes ==
    ASSUME Types, NEW p \in Producers, NewBlockIndexFails(p)
    PROVE  /\ pc[p] = "grow"
           /\ pc'[p] = "idle" /\ loc'[p] = loc[p] /\ fl'[p] = fl[p]
           /\ \A u \in Threads : u # p => pc'[u] = pc[u] /\ loc'[u] = loc[u] /\ fl'[u] = fl[u]
           /\ UNCHANGED <<freeListHead, freeListRefs, freeListNext, tailIndex, headIndex, dequeueOptimisticCount, dequeueOvercommit, blockIndex, entry, initialBlockPoolIndex, created, tailBlock, dequeued, elements, work>>
<1>0. /\ PcTypes /\ LocTypes /\ FreeTypes /\ p \in Threads
      /\ Shape(loc[p])
  BY Members, QueueAssumption DEF Types, LocTypes, WfLoc
<1>1. pc[p] = "grow"
  BY <1>0 DEF NewBlockIndexFails, Goto, Fault, New, Valid, Slot, Cur, SetKey,
     SetValue, InsertIn, AskFreeList
<1>2. pc'[p] = "idle" /\ loc'[p] = loc[p] /\ fl'[p] = fl[p]
  <2>1. pc'[p] = "idle"
    BY <1>0 DEF NewBlockIndexFails, Goto, Fault, New, Valid, Slot, Cur,
       SetKey, SetValue, InsertIn, AskFreeList, PcTypes, LocTypes, FreeTypes
  <2>2. loc'[p] = loc[p]
    BY <1>0 DEF NewBlockIndexFails, Goto, Fault, New, Valid, Slot, Cur,
       SetKey, SetValue, InsertIn, AskFreeList, PcTypes, LocTypes, FreeTypes
  <2>3. fl'[p] = fl[p]
    BY <1>0 DEF NewBlockIndexFails, Goto, Fault, New, Valid, Slot, Cur,
       SetKey, SetValue, InsertIn, AskFreeList, PcTypes, LocTypes, FreeTypes,
       vars, freeVars, countVars, indexVars, poolVars, blockVars, bounds
  <2> QED BY <2>1, <2>2, <2>3
<1>3. \A u \in Threads : u # p => pc'[u] = pc[u] /\ loc'[u] = loc[u] /\ fl'[u] = fl[u]
  BY OnlyProducer DEF Produce
<1>4. UNCHANGED <<freeListHead, freeListRefs, freeListNext, tailIndex, headIndex, dequeueOptimisticCount, dequeueOvercommit, blockIndex, entry, initialBlockPoolIndex, created, tailBlock, dequeued, elements, work>>
  BY DEF NewBlockIndexFails, Goto, Fault, New, Valid, Slot, Cur,
     SetKey, SetValue, InsertIn, AskFreeList, vars, freeVars, countVars,
     indexVars, poolVars, blockVars, bounds
<1> QED BY <1>1, <1>2, <1>3, <1>4

\* What Expose does.
LEMMA ExposeDoes ==
    ASSUME Types, NEW p \in Producers, Expose(p)
    PROVE  /\ pc[p] = "expose"
           /\ MoveTail(p, NextSlot(Cur(p)))
           /\ pc'[p] = "pool" /\ loc'[p] = loc[p] /\ fl'[p] = fl[p]
           /\ \A u \in Threads : u # p => pc'[u] = pc[u] /\ loc'[u] = loc[u] /\ fl'[u] = fl[u]
           /\ UNCHANGED <<freeListHead, freeListRefs, freeListNext, tailIndex, headIndex, dequeueOptimisticCount, dequeueOvercommit, entry, initialBlockPoolIndex, created, tailBlock, dequeued, elements, work>>
<1>0. /\ PcTypes /\ LocTypes /\ FreeTypes /\ p \in Threads
      /\ Shape(loc[p])
  BY Members, QueueAssumption DEF Types, LocTypes, WfLoc
<1>1. pc[p] = "expose" /\ MoveTail(p, NextSlot(Cur(p)))
  BY <1>0 DEF Expose, Goto, MoveTail, New, Valid, Slot, Cur, SetKey, SetValue,
     InsertIn, AskFreeList
<1>2. pc'[p] = "pool" /\ loc'[p] = loc[p] /\ fl'[p] = fl[p]
  <2>1. pc'[p] = "pool"
    BY <1>0 DEF Expose, Goto, MoveTail, New, Valid, Slot, Cur, SetKey,
       SetValue, InsertIn, AskFreeList, PcTypes, LocTypes, FreeTypes
  <2>2. loc'[p] = loc[p]
    BY <1>0 DEF Expose, Goto, MoveTail, New, Valid, Slot, Cur, SetKey,
       SetValue, InsertIn, AskFreeList, PcTypes, LocTypes, FreeTypes
  <2>3. fl'[p] = fl[p]
    BY <1>0 DEF Expose, Goto, MoveTail, New, Valid, Slot, Cur, SetKey,
       SetValue, InsertIn, AskFreeList, PcTypes, LocTypes, FreeTypes, vars,
       freeVars, countVars, indexVars, poolVars, blockVars, bounds
  <2> QED BY <2>1, <2>2, <2>3
<1>3. \A u \in Threads : u # p => pc'[u] = pc[u] /\ loc'[u] = loc[u] /\ fl'[u] = fl[u]
  BY OnlyProducer DEF Produce
<1>4. UNCHANGED <<freeListHead, freeListRefs, freeListNext, tailIndex, headIndex, dequeueOptimisticCount, dequeueOvercommit, entry, initialBlockPoolIndex, created, tailBlock, dequeued, elements, work>>
  BY DEF Expose, Goto, MoveTail, New, Valid, Slot, Cur, SetKey,
     SetValue, InsertIn, AskFreeList, vars, freeVars, countVars, indexVars,
     poolVars, blockVars, bounds
<1> QED BY <1>1, <1>2, <1>3, <1>4

\* What AskPool does.
LEMMA AskPoolDoes ==
    ASSUME Types, NEW p \in Producers, AskPool(p)
    PROVE  /\ pc[p] = "pool"
           /\ (initialBlockPoolIndex < Len(InitialBlocks)) =>
                pc'[p] = "claim" /\ loc'[p] = loc[p] /\ fl'[p] = fl[p]
           /\ (~(initialBlockPoolIndex < Len(InitialBlocks))) =>
                pc'[p] = "free_list" /\ loc'[p] = loc[p] /\ fl'[p] = Getting
           /\ \A u \in Threads : u # p => pc'[u] = pc[u] /\ loc'[u] = loc[u] /\ fl'[u] = fl[u]
           /\ UNCHANGED <<freeListHead, freeListRefs, freeListNext, tailIndex, headIndex, dequeueOptimisticCount, dequeueOvercommit, blockIndex, entry, initialBlockPoolIndex, created, tailBlock, dequeued, elements, work>>
<1>0. /\ PcTypes /\ LocTypes /\ FreeTypes /\ p \in Threads
      /\ Shape(loc[p])
  BY Members, QueueAssumption DEF Types, LocTypes, WfLoc
<1>1. pc[p] = "pool"
  BY <1>0 DEF AskPool, AskFreeList, Goto, New, Valid, Slot, Cur, SetKey,
     SetValue, InsertIn
<1>2. ASSUME initialBlockPoolIndex < Len(InitialBlocks)
      PROVE  pc'[p] = "claim" /\ loc'[p] = loc[p] /\ fl'[p] = fl[p]
  <2>1. pc'[p] = "claim"
    BY <1>2, <1>0 DEF AskPool, AskFreeList, Goto, New, Valid, Slot, Cur,
       SetKey, SetValue, InsertIn, PcTypes, LocTypes, FreeTypes
  <2>2. loc'[p] = loc[p]
    BY <1>2, <1>0 DEF AskPool, AskFreeList, Goto, New, Valid, Slot, Cur,
       SetKey, SetValue, InsertIn, PcTypes, LocTypes, FreeTypes
  <2>3. fl'[p] = fl[p]
    BY <1>2, <1>0 DEF AskPool, AskFreeList, Goto, New, Valid, Slot, Cur,
       SetKey, SetValue, InsertIn, PcTypes, LocTypes, FreeTypes, vars,
       freeVars, countVars, indexVars, poolVars, blockVars, bounds
  <2> QED BY <2>1, <2>2, <2>3
<1>3. ASSUME ~(initialBlockPoolIndex < Len(InitialBlocks))
      PROVE  pc'[p] = "free_list" /\ loc'[p] = loc[p] /\ fl'[p] = Getting
  <2>1. pc'[p] = "free_list"
    BY <1>3, <1>0 DEF AskPool, AskFreeList, Goto, New, Valid, Slot, Cur,
       SetKey, SetValue, InsertIn, PcTypes, LocTypes, FreeTypes
  <2>2. loc'[p] = loc[p]
    BY <1>3, <1>0 DEF AskPool, AskFreeList, Goto, New, Valid, Slot, Cur,
       SetKey, SetValue, InsertIn, PcTypes, LocTypes, FreeTypes
  <2>3. fl'[p] = Getting
    BY <1>3, <1>0 DEF AskPool, AskFreeList, Goto, New, Valid, Slot, Cur,
       SetKey, SetValue, InsertIn, PcTypes, LocTypes, FreeTypes, vars,
       freeVars, countVars, indexVars, poolVars, blockVars, bounds
  <2> QED BY <2>1, <2>2, <2>3
<1>4. \A u \in Threads : u # p => pc'[u] = pc[u] /\ loc'[u] = loc[u] /\ fl'[u] = fl[u]
  BY OnlyProducer DEF Produce
<1>5. UNCHANGED <<freeListHead, freeListRefs, freeListNext, tailIndex, headIndex, dequeueOptimisticCount, dequeueOvercommit, blockIndex, entry, initialBlockPoolIndex, created, tailBlock, dequeued, elements, work>>
  BY DEF AskPool, AskFreeList, Goto, New, Valid, Slot, Cur, SetKey,
     SetValue, InsertIn, vars, freeVars, countVars, indexVars, poolVars,
     blockVars, bounds
<1> QED BY <1>1, <1>2, <1>3, <1>4, <1>5

\* What ClaimFromPool does.
LEMMA ClaimFromPoolDoes ==
    ASSUME Types, NEW p \in Producers, ClaimFromPool(p)
    PROVE  /\ pc[p] = "claim"
           /\ initialBlockPoolIndex' = initialBlockPoolIndex + 1
           /\ (initialBlockPoolIndex + 1 <= Len(InitialBlocks)) =>
                pc'[p] = "construct" /\ Locals(loc'[p], loc[p].from, loc[p].seen, loc[p].count, loc[p].header, loc[p].slot, loc[p].at, InitialBlocks[initialBlockPoolIndex + 1], loc[p].item) /\ fl'[p] = fl[p]
           /\ (~(initialBlockPoolIndex + 1 <= Len(InitialBlocks))) =>
                pc'[p] = "free_list" /\ loc'[p] = loc[p] /\ fl'[p] = Getting
           /\ \A u \in Threads : u # p => pc'[u] = pc[u] /\ loc'[u] = loc[u] /\ fl'[u] = fl[u]
           /\ UNCHANGED <<freeListHead, freeListRefs, freeListNext, tailIndex, headIndex, dequeueOptimisticCount, dequeueOvercommit, blockIndex, entry, created, tailBlock, dequeued, elements, work>>
<1>0. /\ PcTypes /\ LocTypes /\ FreeTypes /\ p \in Threads
      /\ Shape(loc[p])
  BY Members, QueueAssumption DEF Types, LocTypes, WfLoc
<1>1. pc[p] = "claim" /\ initialBlockPoolIndex' = initialBlockPoolIndex + 1
  BY <1>0 DEF ClaimFromPool, AskFreeList, Goto, New, Valid, Slot, Cur, SetKey,
     SetValue, InsertIn
<1>2. ASSUME initialBlockPoolIndex + 1 <= Len(InitialBlocks)
      PROVE  pc'[p] = "construct" /\ Locals(loc'[p], loc[p].from, loc[p].seen, loc[p].count, loc[p].header, loc[p].slot, loc[p].at, InitialBlocks[initialBlockPoolIndex + 1], loc[p].item) /\ fl'[p] = fl[p]
  <2>1. pc'[p] = "construct"
    BY <1>2, <1>0 DEF ClaimFromPool, AskFreeList, Goto, New, Valid, Slot, Cur,
       SetKey, SetValue, InsertIn, PcTypes, LocTypes, FreeTypes
  <2>2. Locals(loc'[p], loc[p].from, loc[p].seen, loc[p].count, loc[p].header, loc[p].slot, loc[p].at, InitialBlocks[initialBlockPoolIndex + 1], loc[p].item)
    <3>1. loc' = [loc EXCEPT ![p] = [loc[p] EXCEPT !.block = InitialBlocks[initialBlockPoolIndex + 1]]]
      BY <1>2, <1>0 DEF ClaimFromPool, AskFreeList, Goto, New, Valid, Slot,
         Cur, SetKey, SetValue, InsertIn, LocTypes
    <3> QED BY <3>1, <1>0, SetBlock DEF LocTypes
  <2>3. fl'[p] = fl[p]
    BY <1>2, <1>0 DEF ClaimFromPool, AskFreeList, Goto, New, Valid, Slot, Cur,
       SetKey, SetValue, InsertIn, PcTypes, LocTypes, FreeTypes, vars,
       freeVars, countVars, indexVars, poolVars, blockVars, bounds
  <2> QED BY <2>1, <2>2, <2>3
<1>3. ASSUME ~(initialBlockPoolIndex + 1 <= Len(InitialBlocks))
      PROVE  pc'[p] = "free_list" /\ loc'[p] = loc[p] /\ fl'[p] = Getting
  <2>1. pc'[p] = "free_list"
    BY <1>3, <1>0 DEF ClaimFromPool, AskFreeList, Goto, New, Valid, Slot, Cur,
       SetKey, SetValue, InsertIn, PcTypes, LocTypes, FreeTypes
  <2>2. loc'[p] = loc[p]
    BY <1>3, <1>0 DEF ClaimFromPool, AskFreeList, Goto, New, Valid, Slot, Cur,
       SetKey, SetValue, InsertIn, PcTypes, LocTypes, FreeTypes
  <2>3. fl'[p] = Getting
    BY <1>3, <1>0 DEF ClaimFromPool, AskFreeList, Goto, New, Valid, Slot, Cur,
       SetKey, SetValue, InsertIn, PcTypes, LocTypes, FreeTypes, vars,
       freeVars, countVars, indexVars, poolVars, blockVars, bounds
  <2> QED BY <2>1, <2>2, <2>3
<1>4. \A u \in Threads : u # p => pc'[u] = pc[u] /\ loc'[u] = loc[u] /\ fl'[u] = fl[u]
  BY OnlyProducer DEF Produce
<1>5. UNCHANGED <<freeListHead, freeListRefs, freeListNext, tailIndex, headIndex, dequeueOptimisticCount, dequeueOvercommit, blockIndex, entry, created, tailBlock, dequeued, elements, work>>
  BY DEF ClaimFromPool, AskFreeList, Goto, New, Valid, Slot, Cur,
     SetKey, SetValue, InsertIn, vars, freeVars, countVars, indexVars,
     poolVars, blockVars, bounds
<1> QED BY <1>1, <1>2, <1>3, <1>4, <1>5

\* What FromFreeList does.
LEMMA FromFreeListDoes ==
    ASSUME Types, NEW p \in Producers, FromFreeList(p)
    PROVE  /\ pc[p] = "free_list"
           /\ fl[p].at = "got"
           /\ pc'[p] = "construct" /\ Locals(loc'[p], loc[p].from, loc[p].seen, loc[p].count, loc[p].header, loc[p].slot, loc[p].at, fl[p].node, loc[p].item) /\ fl'[p] = Outside
           /\ \A u \in Threads : u # p => pc'[u] = pc[u] /\ loc'[u] = loc[u] /\ fl'[u] = fl[u]
           /\ UNCHANGED <<freeListHead, freeListRefs, freeListNext, tailIndex, headIndex, dequeueOptimisticCount, dequeueOvercommit, blockIndex, entry, initialBlockPoolIndex, created, tailBlock, dequeued, elements, work>>
<1>0. /\ PcTypes /\ LocTypes /\ FreeTypes /\ p \in Threads
      /\ Shape(loc[p])
  BY Members, QueueAssumption DEF Types, LocTypes, WfLoc
<1>1. pc[p] = "free_list" /\ fl[p].at = "got"
  BY <1>0 DEF FromFreeList, Goto, New, Valid, Slot, Cur, SetKey, SetValue,
     InsertIn, AskFreeList
<1>2. pc'[p] = "construct" /\ Locals(loc'[p], loc[p].from, loc[p].seen, loc[p].count, loc[p].header, loc[p].slot, loc[p].at, fl[p].node, loc[p].item) /\ fl'[p] = Outside
  <2>1. pc'[p] = "construct"
    BY <1>0 DEF FromFreeList, Goto, New, Valid, Slot, Cur, SetKey, SetValue,
       InsertIn, AskFreeList, PcTypes, LocTypes, FreeTypes
  <2>2. Locals(loc'[p], loc[p].from, loc[p].seen, loc[p].count, loc[p].header, loc[p].slot, loc[p].at, fl[p].node, loc[p].item)
    BY Zenon, <1>0, SetCount, SetCountSeen, SetFrom, SetSlot, SetAt, SetBlock,
       SetItem DEF FromFreeList, Goto, New, Valid, Slot, Cur, SetKey,
       SetValue, InsertIn, AskFreeList, LocTypes
  <2>3. fl'[p] = Outside
    BY <1>0 DEF FromFreeList, Goto, New, Valid, Slot, Cur, SetKey, SetValue,
       InsertIn, AskFreeList, PcTypes, LocTypes, FreeTypes, vars, freeVars,
       countVars, indexVars, poolVars, blockVars, bounds
  <2> QED BY <2>1, <2>2, <2>3
<1>3. \A u \in Threads : u # p => pc'[u] = pc[u] /\ loc'[u] = loc[u] /\ fl'[u] = fl[u]
  BY OnlyProducer DEF Produce
<1>4. UNCHANGED <<freeListHead, freeListRefs, freeListNext, tailIndex, headIndex, dequeueOptimisticCount, dequeueOvercommit, blockIndex, entry, initialBlockPoolIndex, created, tailBlock, dequeued, elements, work>>
  BY DEF FromFreeList, Goto, New, Valid, Slot, Cur, SetKey, SetValue,
     InsertIn, AskFreeList, vars, freeVars, countVars, indexVars, poolVars,
     blockVars, bounds
<1> QED BY <1>1, <1>2, <1>3, <1>4

\* What Create does.
LEMMA CreateDoes ==
    ASSUME Types, NEW p \in Producers, Create(p)
    PROVE  /\ pc[p] = "free_list"
           /\ fl[p].at = "empty"
           /\ pc'[p] = "construct" /\ fl'[p] = Outside
           /\ \A u \in Threads : u # p => pc'[u] = pc[u] /\ loc'[u] = loc[u] /\ fl'[u] = fl[u]
           /\ UNCHANGED <<freeListHead, freeListRefs, freeListNext, tailIndex, headIndex, dequeueOptimisticCount, dequeueOvercommit, blockIndex, entry, initialBlockPoolIndex, tailBlock, dequeued, elements, work>>
<1>0. /\ PcTypes /\ LocTypes /\ FreeTypes /\ p \in Threads
      /\ Shape(loc[p])
  BY Members, QueueAssumption DEF Types, LocTypes, WfLoc
<1>1. pc[p] = "free_list" /\ fl[p].at = "empty"
  BY <1>0 DEF Create, Goto, New, Valid, Slot, Cur, SetKey, SetValue, InsertIn,
     AskFreeList
<1>2. pc'[p] = "construct" /\ fl'[p] = Outside
  <2>1. pc'[p] = "construct"
    BY <1>0 DEF Create, Goto, New, Valid, Slot, Cur, SetKey, SetValue,
       InsertIn, AskFreeList, PcTypes, LocTypes, FreeTypes
  <2>2. fl'[p] = Outside
    BY <1>0 DEF Create, Goto, New, Valid, Slot, Cur, SetKey, SetValue,
       InsertIn, AskFreeList, PcTypes, LocTypes, FreeTypes, vars, freeVars,
       countVars, indexVars, poolVars, blockVars, bounds
  <2> QED BY <2>1, <2>2
<1>3. \A u \in Threads : u # p => pc'[u] = pc[u] /\ loc'[u] = loc[u] /\ fl'[u] = fl[u]
  BY OnlyProducer DEF Produce
<1>4. UNCHANGED <<freeListHead, freeListRefs, freeListNext, tailIndex, headIndex, dequeueOptimisticCount, dequeueOvercommit, blockIndex, entry, initialBlockPoolIndex, tailBlock, dequeued, elements, work>>
  BY DEF Create, Goto, New, Valid, Slot, Cur, SetKey, SetValue,
     InsertIn, AskFreeList, vars, freeVars, countVars, indexVars, poolVars,
     blockVars, bounds
<1> QED BY <1>1, <1>2, <1>3, <1>4

\* What CreateFails does.
LEMMA CreateFailsDoes ==
    ASSUME Types, NEW p \in Producers, CreateFails(p)
    PROVE  /\ pc[p] = "free_list"
           /\ fl[p].at = "empty"
           /\ pc'[p] = "rewind" /\ loc'[p] = loc[p] /\ fl'[p] = Outside
           /\ \A u \in Threads : u # p => pc'[u] = pc[u] /\ loc'[u] = loc[u] /\ fl'[u] = fl[u]
           /\ UNCHANGED <<freeListHead, freeListRefs, freeListNext, tailIndex, headIndex, dequeueOptimisticCount, dequeueOvercommit, blockIndex, entry, initialBlockPoolIndex, created, tailBlock, dequeued, elements, work>>
<1>0. /\ PcTypes /\ LocTypes /\ FreeTypes /\ p \in Threads
      /\ Shape(loc[p])
  BY Members, QueueAssumption DEF Types, LocTypes, WfLoc
<1>1. pc[p] = "free_list" /\ fl[p].at = "empty"
  BY <1>0 DEF CreateFails, Goto, Fault, New, Valid, Slot, Cur, SetKey,
     SetValue, InsertIn, AskFreeList
<1>2. pc'[p] = "rewind" /\ loc'[p] = loc[p] /\ fl'[p] = Outside
  <2>1. pc'[p] = "rewind"
    BY <1>0 DEF CreateFails, Goto, Fault, New, Valid, Slot, Cur, SetKey,
       SetValue, InsertIn, AskFreeList, PcTypes, LocTypes, FreeTypes
  <2>2. loc'[p] = loc[p]
    BY <1>0 DEF CreateFails, Goto, Fault, New, Valid, Slot, Cur, SetKey,
       SetValue, InsertIn, AskFreeList, PcTypes, LocTypes, FreeTypes
  <2>3. fl'[p] = Outside
    BY <1>0 DEF CreateFails, Goto, Fault, New, Valid, Slot, Cur, SetKey,
       SetValue, InsertIn, AskFreeList, PcTypes, LocTypes, FreeTypes, vars,
       freeVars, countVars, indexVars, poolVars, blockVars, bounds
  <2> QED BY <2>1, <2>2, <2>3
<1>3. \A u \in Threads : u # p => pc'[u] = pc[u] /\ loc'[u] = loc[u] /\ fl'[u] = fl[u]
  BY OnlyProducer DEF Produce
<1>4. UNCHANGED <<freeListHead, freeListRefs, freeListNext, tailIndex, headIndex, dequeueOptimisticCount, dequeueOvercommit, blockIndex, entry, initialBlockPoolIndex, created, tailBlock, dequeued, elements, work>>
  BY DEF CreateFails, Goto, Fault, New, Valid, Slot, Cur, SetKey,
     SetValue, InsertIn, AskFreeList, vars, freeVars, countVars, indexVars,
     poolVars, blockVars, bounds
<1> QED BY <1>1, <1>2, <1>3, <1>4

\* What Construct does.
LEMMA ConstructDoes ==
    ASSUME Types, NEW p \in Producers, Construct(p)
    PROVE  /\ pc[p] = "construct"
           /\ (New(p)) =>
                pc'[p] = "publish" /\ loc'[p] = loc[p] /\ fl'[p] = fl[p] /\ SetValue(p, loc[p].at, loc[p].block) /\ dequeued' = [dequeued EXCEPT ![loc[p].block] = 0] /\ tailBlock' = [tailBlock EXCEPT ![p] = loc[p].block]
           /\ (~New(p)) =>
                pc'[p] = "publish" /\ loc'[p] = loc[p] /\ fl'[p] = fl[p] /\ entry' = entry /\ dequeued' = dequeued /\ tailBlock' = tailBlock
           /\ \A u \in Threads : u # p => pc'[u] = pc[u] /\ loc'[u] = loc[u] /\ fl'[u] = fl[u]
           /\ UNCHANGED <<freeListHead, freeListRefs, freeListNext, tailIndex, headIndex, dequeueOptimisticCount, dequeueOvercommit, blockIndex, initialBlockPoolIndex, created, work>>
<1>0. /\ PcTypes /\ LocTypes /\ FreeTypes /\ p \in Threads
      /\ Shape(loc[p])
  BY Members, QueueAssumption DEF Types, LocTypes, WfLoc
<1>1. pc[p] = "construct"
  BY <1>0 DEF Construct, Goto, New, Valid, Slot, Cur, SetKey, SetValue,
     InsertIn, AskFreeList
<1>2. ASSUME New(p)
      PROVE  pc'[p] = "publish" /\ loc'[p] = loc[p] /\ fl'[p] = fl[p] /\ SetValue(p, loc[p].at, loc[p].block) /\ dequeued' = [dequeued EXCEPT ![loc[p].block] = 0] /\ tailBlock' = [tailBlock EXCEPT ![p] = loc[p].block]
  <2>1. pc'[p] = "publish"
    BY <1>2, <1>0 DEF Construct, Goto, New, Valid, Slot, Cur, SetKey,
       SetValue, InsertIn, AskFreeList, PcTypes, LocTypes, FreeTypes
  <2>2. loc'[p] = loc[p]
    BY <1>2, <1>0 DEF Construct, Goto, New, Valid, Slot, Cur, SetKey,
       SetValue, InsertIn, AskFreeList, PcTypes, LocTypes, FreeTypes
  <2>3. fl'[p] = fl[p] /\ SetValue(p, loc[p].at, loc[p].block) /\ dequeued' = [dequeued EXCEPT ![loc[p].block] = 0] /\ tailBlock' = [tailBlock EXCEPT ![p] = loc[p].block]
    BY <1>2, <1>0 DEF Construct, Goto, New, Valid, Slot, Cur, SetKey,
       SetValue, InsertIn, AskFreeList, PcTypes, LocTypes, FreeTypes, vars,
       freeVars, countVars, indexVars, poolVars, blockVars, bounds
  <2> QED BY <2>1, <2>2, <2>3
<1>3. ASSUME ~New(p)
      PROVE  pc'[p] = "publish" /\ loc'[p] = loc[p] /\ fl'[p] = fl[p] /\ entry' = entry /\ dequeued' = dequeued /\ tailBlock' = tailBlock
  <2>1. pc'[p] = "publish"
    BY <1>3, <1>0 DEF Construct, Goto, New, Valid, Slot, Cur, SetKey,
       SetValue, InsertIn, AskFreeList, PcTypes, LocTypes, FreeTypes
  <2>2. loc'[p] = loc[p]
    BY <1>3, <1>0 DEF Construct, Goto, New, Valid, Slot, Cur, SetKey,
       SetValue, InsertIn, AskFreeList, PcTypes, LocTypes, FreeTypes
  <2>3. fl'[p] = fl[p] /\ entry' = entry /\ dequeued' = dequeued /\ tailBlock' = tailBlock
    BY <1>3, <1>0 DEF Construct, Goto, New, Valid, Slot, Cur, SetKey,
       SetValue, InsertIn, AskFreeList, PcTypes, LocTypes, FreeTypes, vars,
       freeVars, countVars, indexVars, poolVars, blockVars, bounds
  <2> QED BY <2>1, <2>2, <2>3
<1>4. \A u \in Threads : u # p => pc'[u] = pc[u] /\ loc'[u] = loc[u] /\ fl'[u] = fl[u]
  BY OnlyProducer DEF Produce
<1>5. UNCHANGED <<freeListHead, freeListRefs, freeListNext, tailIndex, headIndex, dequeueOptimisticCount, dequeueOvercommit, blockIndex, initialBlockPoolIndex, created, work>>
  BY DEF Construct, Goto, New, Valid, Slot, Cur, SetKey, SetValue,
     InsertIn, AskFreeList, vars, freeVars, countVars, indexVars, poolVars,
     blockVars, bounds
<1> QED BY <1>1, <1>2, <1>3, <1>4, <1>5

\* What ConstructThrows does.
LEMMA ConstructThrowsDoes ==
    ASSUME Types, NEW p \in Producers, ConstructThrows(p)
    PROVE  /\ pc[p] = "construct"
           /\ (New(p)) =>
                pc'[p] = "rewind" /\ loc'[p] = loc[p] /\ fl'[p] = fl[p] /\ dequeued' = [dequeued EXCEPT ![loc[p].block] = 0]
           /\ (~New(p)) =>
                pc'[p] = "idle" /\ loc'[p] = NoLocals /\ fl'[p] = fl[p] /\ dequeued' = dequeued
           /\ \A u \in Threads : u # p => pc'[u] = pc[u] /\ loc'[u] = loc[u] /\ fl'[u] = fl[u]
           /\ UNCHANGED <<freeListHead, freeListRefs, freeListNext, tailIndex, headIndex, dequeueOptimisticCount, dequeueOvercommit, blockIndex, entry, initialBlockPoolIndex, created, tailBlock, elements, work>>
<1>0. /\ PcTypes /\ LocTypes /\ FreeTypes /\ p \in Threads
      /\ Shape(loc[p])
  BY Members, QueueAssumption DEF Types, LocTypes, WfLoc
<1>1. pc[p] = "construct"
  BY <1>0 DEF ConstructThrows, Goto, Fault, New, Valid, Slot, Cur, SetKey,
     SetValue, InsertIn, AskFreeList
<1>2. ASSUME New(p)
      PROVE  pc'[p] = "rewind" /\ loc'[p] = loc[p] /\ fl'[p] = fl[p] /\ dequeued' = [dequeued EXCEPT ![loc[p].block] = 0]
  <2>1. pc'[p] = "rewind"
    BY <1>2, <1>0 DEF ConstructThrows, Goto, Fault, New, Valid, Slot, Cur,
       SetKey, SetValue, InsertIn, AskFreeList, PcTypes, LocTypes, FreeTypes
  <2>2. loc'[p] = loc[p]
    BY <1>2, <1>0 DEF ConstructThrows, Goto, Fault, New, Valid, Slot, Cur,
       SetKey, SetValue, InsertIn, AskFreeList, PcTypes, LocTypes, FreeTypes
  <2>3. fl'[p] = fl[p] /\ dequeued' = [dequeued EXCEPT ![loc[p].block] = 0]
    BY <1>2, <1>0 DEF ConstructThrows, Goto, Fault, New, Valid, Slot, Cur,
       SetKey, SetValue, InsertIn, AskFreeList, PcTypes, LocTypes, FreeTypes,
       vars, freeVars, countVars, indexVars, poolVars, blockVars, bounds
  <2> QED BY <2>1, <2>2, <2>3
<1>3. ASSUME ~New(p)
      PROVE  pc'[p] = "idle" /\ loc'[p] = NoLocals /\ fl'[p] = fl[p] /\ dequeued' = dequeued
  <2>1. pc'[p] = "idle"
    BY <1>3, <1>0 DEF ConstructThrows, Goto, Fault, New, Valid, Slot, Cur,
       SetKey, SetValue, InsertIn, AskFreeList, PcTypes, LocTypes, FreeTypes
  <2>2. loc'[p] = NoLocals
    BY <1>3, <1>0 DEF ConstructThrows, Goto, Fault, New, Valid, Slot, Cur,
       SetKey, SetValue, InsertIn, AskFreeList, PcTypes, LocTypes, FreeTypes
  <2>3. fl'[p] = fl[p] /\ dequeued' = dequeued
    BY <1>3, <1>0 DEF ConstructThrows, Goto, Fault, New, Valid, Slot, Cur,
       SetKey, SetValue, InsertIn, AskFreeList, PcTypes, LocTypes, FreeTypes,
       vars, freeVars, countVars, indexVars, poolVars, blockVars, bounds
  <2> QED BY <2>1, <2>2, <2>3
<1>4. \A u \in Threads : u # p => pc'[u] = pc[u] /\ loc'[u] = loc[u] /\ fl'[u] = fl[u]
  BY OnlyProducer DEF Produce
<1>5. UNCHANGED <<freeListHead, freeListRefs, freeListNext, tailIndex, headIndex, dequeueOptimisticCount, dequeueOvercommit, blockIndex, entry, initialBlockPoolIndex, created, tailBlock, elements, work>>
  BY DEF ConstructThrows, Goto, Fault, New, Valid, Slot, Cur, SetKey,
     SetValue, InsertIn, AskFreeList, vars, freeVars, countVars, indexVars,
     poolVars, blockVars, bounds
<1> QED BY <1>1, <1>2, <1>3, <1>4, <1>5

\* What Rewind does.
LEMMA RewindDoes ==
    ASSUME Types, NEW p \in Producers, Rewind(p)
    PROVE  /\ pc[p] = "rewind"
           /\ MoveTail(p, (Cur(p).tail + Capacity(Cur(p)) - 1) % Capacity(Cur(p)))
           /\ pc'[p] = "forget" /\ loc'[p] = loc[p] /\ fl'[p] = fl[p]
           /\ \A u \in Threads : u # p => pc'[u] = pc[u] /\ loc'[u] = loc[u] /\ fl'[u] = fl[u]
           /\ UNCHANGED <<freeListHead, freeListRefs, freeListNext, tailIndex, headIndex, dequeueOptimisticCount, dequeueOvercommit, entry, initialBlockPoolIndex, created, tailBlock, dequeued, elements, work>>
<1>0. /\ PcTypes /\ LocTypes /\ FreeTypes /\ p \in Threads
      /\ Shape(loc[p])
  BY Members, QueueAssumption DEF Types, LocTypes, WfLoc
<1>1. pc[p] = "rewind" /\ MoveTail(p, (Cur(p).tail + Capacity(Cur(p)) - 1) % Capacity(Cur(p)))
  BY <1>0 DEF Rewind, Goto, MoveTail, New, Valid, Slot, Cur, SetKey, SetValue,
     InsertIn, AskFreeList
<1>2. pc'[p] = "forget" /\ loc'[p] = loc[p] /\ fl'[p] = fl[p]
  <2>1. pc'[p] = "forget"
    BY <1>0 DEF Rewind, Goto, MoveTail, New, Valid, Slot, Cur, SetKey,
       SetValue, InsertIn, AskFreeList, PcTypes, LocTypes, FreeTypes
  <2>2. loc'[p] = loc[p]
    BY <1>0 DEF Rewind, Goto, MoveTail, New, Valid, Slot, Cur, SetKey,
       SetValue, InsertIn, AskFreeList, PcTypes, LocTypes, FreeTypes
  <2>3. fl'[p] = fl[p]
    BY <1>0 DEF Rewind, Goto, MoveTail, New, Valid, Slot, Cur, SetKey,
       SetValue, InsertIn, AskFreeList, PcTypes, LocTypes, FreeTypes, vars,
       freeVars, countVars, indexVars, poolVars, blockVars, bounds
  <2> QED BY <2>1, <2>2, <2>3
<1>3. \A u \in Threads : u # p => pc'[u] = pc[u] /\ loc'[u] = loc[u] /\ fl'[u] = fl[u]
  BY OnlyProducer DEF Produce
<1>4. UNCHANGED <<freeListHead, freeListRefs, freeListNext, tailIndex, headIndex, dequeueOptimisticCount, dequeueOvercommit, entry, initialBlockPoolIndex, created, tailBlock, dequeued, elements, work>>
  BY DEF Rewind, Goto, MoveTail, New, Valid, Slot, Cur, SetKey,
     SetValue, InsertIn, AskFreeList, vars, freeVars, countVars, indexVars,
     poolVars, blockVars, bounds
<1> QED BY <1>1, <1>2, <1>3, <1>4

\* What Forget does.
LEMMA ForgetDoes ==
    ASSUME Types, NEW p \in Producers, Forget(p)
    PROVE  /\ pc[p] = "forget"
           /\ SetValue(p, loc[p].at, None)
           /\ (loc[p].block = None) =>
                pc'[p] = "idle" /\ loc'[p] = NoLocals /\ fl'[p] = fl[p]
           /\ (loc[p].block # None) =>
                pc'[p] = "give_back" /\ loc'[p] = NoLocals /\ fl'[p] = Adding(loc[p].block)
           /\ \A u \in Threads : u # p => pc'[u] = pc[u] /\ loc'[u] = loc[u] /\ fl'[u] = fl[u]
           /\ UNCHANGED <<freeListHead, freeListRefs, freeListNext, tailIndex, headIndex, dequeueOptimisticCount, dequeueOvercommit, blockIndex, initialBlockPoolIndex, created, tailBlock, dequeued, elements, work>>
<1>0. /\ PcTypes /\ LocTypes /\ FreeTypes /\ p \in Threads
      /\ Shape(loc[p])
  BY Members, QueueAssumption DEF Types, LocTypes, WfLoc
<1>1. pc[p] = "forget" /\ SetValue(p, loc[p].at, None)
  BY <1>0 DEF Forget, Goto, New, Valid, Slot, Cur, SetKey, SetValue, InsertIn,
     AskFreeList
<1>2. ASSUME loc[p].block = None
      PROVE  pc'[p] = "idle" /\ loc'[p] = NoLocals /\ fl'[p] = fl[p]
  <2>1. pc'[p] = "idle"
    BY <1>2, <1>0 DEF Forget, Goto, New, Valid, Slot, Cur, SetKey, SetValue,
       InsertIn, AskFreeList, PcTypes, LocTypes, FreeTypes
  <2>2. loc'[p] = NoLocals
    BY <1>2, <1>0 DEF Forget, Goto, New, Valid, Slot, Cur, SetKey, SetValue,
       InsertIn, AskFreeList, PcTypes, LocTypes, FreeTypes
  <2>3. fl'[p] = fl[p]
    BY <1>2, <1>0 DEF Forget, Goto, New, Valid, Slot, Cur, SetKey, SetValue,
       InsertIn, AskFreeList, PcTypes, LocTypes, FreeTypes, vars, freeVars,
       countVars, indexVars, poolVars, blockVars, bounds
  <2> QED BY <2>1, <2>2, <2>3
<1>3. ASSUME loc[p].block # None
      PROVE  pc'[p] = "give_back" /\ loc'[p] = NoLocals /\ fl'[p] = Adding(loc[p].block)
  <2>1. pc'[p] = "give_back"
    BY <1>3, <1>0 DEF Forget, Goto, New, Valid, Slot, Cur, SetKey, SetValue,
       InsertIn, AskFreeList, PcTypes, LocTypes, FreeTypes
  <2>2. loc'[p] = NoLocals
    BY <1>3, <1>0 DEF Forget, Goto, New, Valid, Slot, Cur, SetKey, SetValue,
       InsertIn, AskFreeList, PcTypes, LocTypes, FreeTypes
  <2>3. fl'[p] = Adding(loc[p].block)
    BY <1>3, <1>0 DEF Forget, Goto, New, Valid, Slot, Cur, SetKey, SetValue,
       InsertIn, AskFreeList, PcTypes, LocTypes, FreeTypes, vars, freeVars,
       countVars, indexVars, poolVars, blockVars, bounds
  <2> QED BY <2>1, <2>2, <2>3
<1>4. \A u \in Threads : u # p => pc'[u] = pc[u] /\ loc'[u] = loc[u] /\ fl'[u] = fl[u]
  BY OnlyProducer DEF Produce
<1>5. UNCHANGED <<freeListHead, freeListRefs, freeListNext, tailIndex, headIndex, dequeueOptimisticCount, dequeueOvercommit, blockIndex, initialBlockPoolIndex, created, tailBlock, dequeued, elements, work>>
  BY DEF Forget, Goto, New, Valid, Slot, Cur, SetKey, SetValue,
     InsertIn, AskFreeList, vars, freeVars, countVars, indexVars, poolVars,
     blockVars, bounds
<1> QED BY <1>1, <1>2, <1>3, <1>4, <1>5

\* What Publish does.
LEMMA PublishDoes ==
    ASSUME Types, NEW p \in Producers, Publish(p)
    PROVE  /\ pc[p] = "publish"
           /\ pc'[p] = "idle" /\ loc'[p] = NoLocals /\ fl'[p] = fl[p]
           /\ \A u \in Threads : u # p => pc'[u] = pc[u] /\ loc'[u] = loc[u] /\ fl'[u] = fl[u]
           /\ UNCHANGED <<freeListHead, freeListRefs, freeListNext, headIndex, dequeueOptimisticCount, dequeueOvercommit, blockIndex, entry, initialBlockPoolIndex, created, tailBlock, dequeued, elements, work>>
<1>0. /\ PcTypes /\ LocTypes /\ FreeTypes /\ p \in Threads
      /\ Shape(loc[p])
  BY Members, QueueAssumption DEF Types, LocTypes, WfLoc
<1>1. pc[p] = "publish"
  BY <1>0 DEF Publish, Goto, New, Valid, Slot, Cur, SetKey, SetValue,
     InsertIn, AskFreeList
<1>2. pc'[p] = "idle" /\ loc'[p] = NoLocals /\ fl'[p] = fl[p]
  <2>1. pc'[p] = "idle"
    BY <1>0 DEF Publish, Goto, New, Valid, Slot, Cur, SetKey, SetValue,
       InsertIn, AskFreeList, PcTypes, LocTypes, FreeTypes
  <2>2. loc'[p] = NoLocals
    BY <1>0 DEF Publish, Goto, New, Valid, Slot, Cur, SetKey, SetValue,
       InsertIn, AskFreeList, PcTypes, LocTypes, FreeTypes
  <2>3. fl'[p] = fl[p]
    BY <1>0 DEF Publish, Goto, New, Valid, Slot, Cur, SetKey, SetValue,
       InsertIn, AskFreeList, PcTypes, LocTypes, FreeTypes, vars, freeVars,
       countVars, indexVars, poolVars, blockVars, bounds
  <2> QED BY <2>1, <2>2, <2>3
<1>3. \A u \in Threads : u # p => pc'[u] = pc[u] /\ loc'[u] = loc[u] /\ fl'[u] = fl[u]
  BY OnlyProducer DEF Produce
<1>4. UNCHANGED <<freeListHead, freeListRefs, freeListNext, headIndex, dequeueOptimisticCount, dequeueOvercommit, blockIndex, entry, initialBlockPoolIndex, created, tailBlock, dequeued, elements, work>>
  BY DEF Publish, Goto, New, Valid, Slot, Cur, SetKey, SetValue,
     InsertIn, AskFreeList, vars, freeVars, countVars, indexVars, poolVars,
     blockVars, bounds
<1> QED BY <1>1, <1>2, <1>3, <1>4

\* What SeemsEmpty does.
LEMMA SeemsEmptyDoes ==
    ASSUME Types, NEW c \in Consumers, SeemsEmpty(c)
    PROVE  /\ pc[c] = "any"
           /\ pc'[c] = "idle" /\ loc'[c] = NoLocals /\ fl'[c] = fl[c]
           /\ \A u \in Threads : u # c => pc'[u] = pc[u] /\ loc'[u] = loc[u] /\ fl'[u] = fl[u]
           /\ UNCHANGED <<freeListHead, freeListRefs, freeListNext, tailIndex, headIndex, dequeueOptimisticCount, dequeueOvercommit, blockIndex, entry, initialBlockPoolIndex, created, tailBlock, dequeued, elements, work>>
<1>0. /\ PcTypes /\ LocTypes /\ FreeTypes /\ c \in Threads
      /\ Shape(loc[c])
  BY Members2, QueueAssumption DEF Types, LocTypes, WfLoc
<1>1. pc[c] = "any"
  BY <1>0 DEF SeemsEmpty, Back, Goto, New, Valid, Slot, Cur, SetKey, SetValue,
     InsertIn, AskFreeList
<1>2. pc'[c] = "idle" /\ loc'[c] = NoLocals /\ fl'[c] = fl[c]
  <2>1. pc'[c] = "idle"
    BY <1>0 DEF SeemsEmpty, Back, Goto, New, Valid, Slot, Cur, SetKey,
       SetValue, InsertIn, AskFreeList, PcTypes, LocTypes, FreeTypes
  <2>2. loc'[c] = NoLocals
    BY <1>0 DEF SeemsEmpty, Back, Goto, New, Valid, Slot, Cur, SetKey,
       SetValue, InsertIn, AskFreeList, PcTypes, LocTypes, FreeTypes
  <2>3. fl'[c] = fl[c]
    BY <1>0 DEF SeemsEmpty, Back, Goto, New, Valid, Slot, Cur, SetKey,
       SetValue, InsertIn, AskFreeList, PcTypes, LocTypes, FreeTypes, vars,
       freeVars, countVars, indexVars, poolVars, blockVars, bounds
  <2> QED BY <2>1, <2>2, <2>3
<1>3. \A u \in Threads : u # c => pc'[u] = pc[u] /\ loc'[u] = loc[u] /\ fl'[u] = fl[u]
  BY OnlyConsumer DEF Consume
<1>4. UNCHANGED <<freeListHead, freeListRefs, freeListNext, tailIndex, headIndex, dequeueOptimisticCount, dequeueOvercommit, blockIndex, entry, initialBlockPoolIndex, created, tailBlock, dequeued, elements, work>>
  BY DEF SeemsEmpty, Back, Goto, New, Valid, Slot, Cur, SetKey,
     SetValue, InsertIn, AskFreeList, vars, freeVars, countVars, indexVars,
     poolVars, blockVars, bounds
<1> QED BY <1>1, <1>2, <1>3, <1>4

\* What SeemsNonEmpty does.
LEMMA SeemsNonEmptyDoes ==
    ASSUME Types, NEW c \in Consumers, SeemsNonEmpty(c)
    PROVE  /\ pc[c] = "any"
           /\ pc'[c] = "optimistic" /\ Locals(loc'[c], loc[c].from, loc[c].seen, 0, loc[c].header, loc[c].slot, loc[c].at, loc[c].block, loc[c].item) /\ fl'[c] = fl[c]
           /\ \A u \in Threads : u # c => pc'[u] = pc[u] /\ loc'[u] = loc[u] /\ fl'[u] = fl[u]
           /\ UNCHANGED <<freeListHead, freeListRefs, freeListNext, tailIndex, headIndex, dequeueOptimisticCount, dequeueOvercommit, blockIndex, entry, initialBlockPoolIndex, created, tailBlock, dequeued, elements, work>>
<1>0. /\ PcTypes /\ LocTypes /\ FreeTypes /\ c \in Threads
      /\ Shape(loc[c])
  BY Members2, QueueAssumption DEF Types, LocTypes, WfLoc
<1>1. pc[c] = "any"
  BY <1>0 DEF SeemsNonEmpty, Goto, New, Valid, Slot, Cur, SetKey, SetValue,
     InsertIn, AskFreeList
<1>2. pc'[c] = "optimistic" /\ Locals(loc'[c], loc[c].from, loc[c].seen, 0, loc[c].header, loc[c].slot, loc[c].at, loc[c].block, loc[c].item) /\ fl'[c] = fl[c]
  <2>1. pc'[c] = "optimistic"
    BY <1>0 DEF SeemsNonEmpty, Goto, New, Valid, Slot, Cur, SetKey, SetValue,
       InsertIn, AskFreeList, PcTypes, LocTypes, FreeTypes
  <2>2. Locals(loc'[c], loc[c].from, loc[c].seen, 0, loc[c].header, loc[c].slot, loc[c].at, loc[c].block, loc[c].item)
    BY Zenon, <1>0, SetCount, SetCountSeen, SetFrom, SetSlot, SetAt, SetBlock,
       SetItem DEF SeemsNonEmpty, Goto, New, Valid, Slot, Cur, SetKey,
       SetValue, InsertIn, AskFreeList, LocTypes
  <2>3. fl'[c] = fl[c]
    BY <1>0 DEF SeemsNonEmpty, Goto, New, Valid, Slot, Cur, SetKey, SetValue,
       InsertIn, AskFreeList, PcTypes, LocTypes, FreeTypes, vars, freeVars,
       countVars, indexVars, poolVars, blockVars, bounds
  <2> QED BY <2>1, <2>2, <2>3
<1>3. \A u \in Threads : u # c => pc'[u] = pc[u] /\ loc'[u] = loc[u] /\ fl'[u] = fl[u]
  BY OnlyConsumer DEF Consume
<1>4. UNCHANGED <<freeListHead, freeListRefs, freeListNext, tailIndex, headIndex, dequeueOptimisticCount, dequeueOvercommit, blockIndex, entry, initialBlockPoolIndex, created, tailBlock, dequeued, elements, work>>
  BY DEF SeemsNonEmpty, Goto, New, Valid, Slot, Cur, SetKey, SetValue,
     InsertIn, AskFreeList, vars, freeVars, countVars, indexVars, poolVars,
     blockVars, bounds
<1> QED BY <1>1, <1>2, <1>3, <1>4

\* What AddOptimistic does.
LEMMA AddOptimisticDoes ==
    ASSUME Types, NEW c \in Consumers, AddOptimistic(c)
    PROVE  /\ pc[c] = "optimistic"
           /\ pc'[c] = "recheck" /\ Locals(loc'[c], loc[c].from, loc[c].seen, dequeueOptimisticCount[loc[c].from], loc[c].header, loc[c].slot, loc[c].at, loc[c].block, loc[c].item) /\ fl'[c] = fl[c]
           /\ \A u \in Threads : u # c => pc'[u] = pc[u] /\ loc'[u] = loc[u] /\ fl'[u] = fl[u]
           /\ UNCHANGED <<freeListHead, freeListRefs, freeListNext, tailIndex, headIndex, dequeueOvercommit, blockIndex, entry, initialBlockPoolIndex, created, tailBlock, dequeued, elements, work>>
<1>0. /\ PcTypes /\ LocTypes /\ FreeTypes /\ c \in Threads
      /\ Shape(loc[c])
  BY Members2, QueueAssumption DEF Types, LocTypes, WfLoc
<1>1. pc[c] = "optimistic"
  BY <1>0 DEF AddOptimistic, Goto, New, Valid, Slot, Cur, SetKey, SetValue,
     InsertIn, AskFreeList
<1>2. pc'[c] = "recheck" /\ Locals(loc'[c], loc[c].from, loc[c].seen, dequeueOptimisticCount[loc[c].from], loc[c].header, loc[c].slot, loc[c].at, loc[c].block, loc[c].item) /\ fl'[c] = fl[c]
  <2>1. pc'[c] = "recheck"
    BY <1>0 DEF AddOptimistic, Goto, New, Valid, Slot, Cur, SetKey, SetValue,
       InsertIn, AskFreeList, PcTypes, LocTypes, FreeTypes
  <2>2. Locals(loc'[c], loc[c].from, loc[c].seen, dequeueOptimisticCount[loc[c].from], loc[c].header, loc[c].slot, loc[c].at, loc[c].block, loc[c].item)
    BY Zenon, <1>0, SetCount, SetCountSeen, SetFrom, SetSlot, SetAt, SetBlock,
       SetItem DEF AddOptimistic, Goto, New, Valid, Slot, Cur, SetKey,
       SetValue, InsertIn, AskFreeList, LocTypes
  <2>3. fl'[c] = fl[c]
    BY <1>0 DEF AddOptimistic, Goto, New, Valid, Slot, Cur, SetKey, SetValue,
       InsertIn, AskFreeList, PcTypes, LocTypes, FreeTypes, vars, freeVars,
       countVars, indexVars, poolVars, blockVars, bounds
  <2> QED BY <2>1, <2>2, <2>3
<1>3. \A u \in Threads : u # c => pc'[u] = pc[u] /\ loc'[u] = loc[u] /\ fl'[u] = fl[u]
  BY OnlyConsumer DEF Consume
<1>4. UNCHANGED <<freeListHead, freeListRefs, freeListNext, tailIndex, headIndex, dequeueOvercommit, blockIndex, entry, initialBlockPoolIndex, created, tailBlock, dequeued, elements, work>>
  BY DEF AddOptimistic, Goto, New, Valid, Slot, Cur, SetKey, SetValue,
     InsertIn, AskFreeList, vars, freeVars, countVars, indexVars, poolVars,
     blockVars, bounds
<1> QED BY <1>1, <1>2, <1>3, <1>4

\* What Recheck does.
LEMMA RecheckDoes ==
    ASSUME Types, NEW c \in Consumers, Recheck(c)
    PROVE  /\ pc[c] = "recheck"
           /\ (loc[c].count - loc[c].seen < tailIndex[loc[c].from]) =>
                pc'[c] = "claim_head" /\ Locals(loc'[c], loc[c].from, 0, 0, loc[c].header, loc[c].slot, loc[c].at, loc[c].block, loc[c].item) /\ fl'[c] = fl[c]
           /\ (~(loc[c].count - loc[c].seen < tailIndex[loc[c].from])) =>
                pc'[c] = "overcommit" /\ Locals(loc'[c], loc[c].from, 0, 0, loc[c].header, loc[c].slot, loc[c].at, loc[c].block, loc[c].item) /\ fl'[c] = fl[c]
           /\ \A u \in Threads : u # c => pc'[u] = pc[u] /\ loc'[u] = loc[u] /\ fl'[u] = fl[u]
           /\ UNCHANGED <<freeListHead, freeListRefs, freeListNext, tailIndex, headIndex, dequeueOptimisticCount, dequeueOvercommit, blockIndex, entry, initialBlockPoolIndex, created, tailBlock, dequeued, elements, work>>
<1>0. /\ PcTypes /\ LocTypes /\ FreeTypes /\ c \in Threads
      /\ Shape(loc[c])
  BY Members2, QueueAssumption DEF Types, LocTypes, WfLoc
<1>1. pc[c] = "recheck"
  BY <1>0 DEF Recheck, Goto, New, Valid, Slot, Cur, SetKey, SetValue,
     InsertIn, AskFreeList
<1>2. ASSUME loc[c].count - loc[c].seen < tailIndex[loc[c].from]
      PROVE  pc'[c] = "claim_head" /\ Locals(loc'[c], loc[c].from, 0, 0, loc[c].header, loc[c].slot, loc[c].at, loc[c].block, loc[c].item) /\ fl'[c] = fl[c]
  <2>1. pc'[c] = "claim_head"
    BY <1>2, <1>0 DEF Recheck, Goto, New, Valid, Slot, Cur, SetKey, SetValue,
       InsertIn, AskFreeList, PcTypes, LocTypes, FreeTypes
  <2>2. Locals(loc'[c], loc[c].from, 0, 0, loc[c].header, loc[c].slot, loc[c].at, loc[c].block, loc[c].item)
    BY Zenon, <1>2, <1>0, SetCount, SetCountSeen, SetFrom, SetSlot, SetAt, SetBlock,
       SetItem DEF Recheck, Goto, New, Valid, Slot, Cur, SetKey, SetValue,
       InsertIn, AskFreeList, LocTypes
  <2>3. fl'[c] = fl[c]
    BY <1>2, <1>0 DEF Recheck, Goto, New, Valid, Slot, Cur, SetKey, SetValue,
       InsertIn, AskFreeList, PcTypes, LocTypes, FreeTypes, vars, freeVars,
       countVars, indexVars, poolVars, blockVars, bounds
  <2> QED BY <2>1, <2>2, <2>3
<1>3. ASSUME ~(loc[c].count - loc[c].seen < tailIndex[loc[c].from])
      PROVE  pc'[c] = "overcommit" /\ Locals(loc'[c], loc[c].from, 0, 0, loc[c].header, loc[c].slot, loc[c].at, loc[c].block, loc[c].item) /\ fl'[c] = fl[c]
  <2>1. pc'[c] = "overcommit"
    BY <1>3, <1>0 DEF Recheck, Goto, New, Valid, Slot, Cur, SetKey, SetValue,
       InsertIn, AskFreeList, PcTypes, LocTypes, FreeTypes
  <2>2. Locals(loc'[c], loc[c].from, 0, 0, loc[c].header, loc[c].slot, loc[c].at, loc[c].block, loc[c].item)
    BY Zenon, <1>3, <1>0, SetCount, SetCountSeen, SetFrom, SetSlot, SetAt, SetBlock,
       SetItem DEF Recheck, Goto, New, Valid, Slot, Cur, SetKey, SetValue,
       InsertIn, AskFreeList, LocTypes
  <2>3. fl'[c] = fl[c]
    BY <1>3, <1>0 DEF Recheck, Goto, New, Valid, Slot, Cur, SetKey, SetValue,
       InsertIn, AskFreeList, PcTypes, LocTypes, FreeTypes, vars, freeVars,
       countVars, indexVars, poolVars, blockVars, bounds
  <2> QED BY <2>1, <2>2, <2>3
<1>4. \A u \in Threads : u # c => pc'[u] = pc[u] /\ loc'[u] = loc[u] /\ fl'[u] = fl[u]
  BY OnlyConsumer DEF Consume
<1>5. UNCHANGED <<freeListHead, freeListRefs, freeListNext, tailIndex, headIndex, dequeueOptimisticCount, dequeueOvercommit, blockIndex, entry, initialBlockPoolIndex, created, tailBlock, dequeued, elements, work>>
  BY DEF Recheck, Goto, New, Valid, Slot, Cur, SetKey, SetValue,
     InsertIn, AskFreeList, vars, freeVars, countVars, indexVars, poolVars,
     blockVars, bounds
<1> QED BY <1>1, <1>2, <1>3, <1>4, <1>5

\* What AddOvercommit does.
LEMMA AddOvercommitDoes ==
    ASSUME Types, NEW c \in Consumers, AddOvercommit(c)
    PROVE  /\ pc[c] = "overcommit"
           /\ pc'[c] = "idle" /\ loc'[c] = NoLocals /\ fl'[c] = fl[c]
           /\ \A u \in Threads : u # c => pc'[u] = pc[u] /\ loc'[u] = loc[u] /\ fl'[u] = fl[u]
           /\ UNCHANGED <<freeListHead, freeListRefs, freeListNext, tailIndex, headIndex, dequeueOptimisticCount, blockIndex, entry, initialBlockPoolIndex, created, tailBlock, dequeued, elements, work>>
<1>0. /\ PcTypes /\ LocTypes /\ FreeTypes /\ c \in Threads
      /\ Shape(loc[c])
  BY Members2, QueueAssumption DEF Types, LocTypes, WfLoc
<1>1. pc[c] = "overcommit"
  BY <1>0 DEF AddOvercommit, Back, Goto, New, Valid, Slot, Cur, SetKey,
     SetValue, InsertIn, AskFreeList
<1>2. pc'[c] = "idle" /\ loc'[c] = NoLocals /\ fl'[c] = fl[c]
  <2>1. pc'[c] = "idle"
    BY <1>0 DEF AddOvercommit, Back, Goto, New, Valid, Slot, Cur, SetKey,
       SetValue, InsertIn, AskFreeList, PcTypes, LocTypes, FreeTypes
  <2>2. loc'[c] = NoLocals
    BY <1>0 DEF AddOvercommit, Back, Goto, New, Valid, Slot, Cur, SetKey,
       SetValue, InsertIn, AskFreeList, PcTypes, LocTypes, FreeTypes
  <2>3. fl'[c] = fl[c]
    BY <1>0 DEF AddOvercommit, Back, Goto, New, Valid, Slot, Cur, SetKey,
       SetValue, InsertIn, AskFreeList, PcTypes, LocTypes, FreeTypes, vars,
       freeVars, countVars, indexVars, poolVars, blockVars, bounds
  <2> QED BY <2>1, <2>2, <2>3
<1>3. \A u \in Threads : u # c => pc'[u] = pc[u] /\ loc'[u] = loc[u] /\ fl'[u] = fl[u]
  BY OnlyConsumer DEF Consume
<1>4. UNCHANGED <<freeListHead, freeListRefs, freeListNext, tailIndex, headIndex, dequeueOptimisticCount, blockIndex, entry, initialBlockPoolIndex, created, tailBlock, dequeued, elements, work>>
  BY DEF AddOvercommit, Back, Goto, New, Valid, Slot, Cur, SetKey,
     SetValue, InsertIn, AskFreeList, vars, freeVars, countVars, indexVars,
     poolVars, blockVars, bounds
<1> QED BY <1>1, <1>2, <1>3, <1>4

\* What ClaimHead does.
LEMMA ClaimHeadDoes ==
    ASSUME Types, NEW c \in Consumers, ClaimHead(c)
    PROVE  /\ pc[c] = "claim_head"
           /\ pc'[c] = "block_index" /\ Locals(loc'[c], loc[c].from, loc[c].seen, headIndex[loc[c].from], loc[c].header, loc[c].slot, loc[c].at, loc[c].block, loc[c].item) /\ fl'[c] = fl[c]
           /\ \A u \in Threads : u # c => pc'[u] = pc[u] /\ loc'[u] = loc[u] /\ fl'[u] = fl[u]
           /\ UNCHANGED <<freeListHead, freeListRefs, freeListNext, tailIndex, dequeueOptimisticCount, dequeueOvercommit, blockIndex, entry, initialBlockPoolIndex, created, tailBlock, dequeued, elements, work>>
<1>0. /\ PcTypes /\ LocTypes /\ FreeTypes /\ c \in Threads
      /\ Shape(loc[c])
  BY Members2, QueueAssumption DEF Types, LocTypes, WfLoc
<1>1. pc[c] = "claim_head"
  BY <1>0 DEF ClaimHead, Goto, New, Valid, Slot, Cur, SetKey, SetValue,
     InsertIn, AskFreeList
<1>2. pc'[c] = "block_index" /\ Locals(loc'[c], loc[c].from, loc[c].seen, headIndex[loc[c].from], loc[c].header, loc[c].slot, loc[c].at, loc[c].block, loc[c].item) /\ fl'[c] = fl[c]
  <2>1. pc'[c] = "block_index"
    BY <1>0 DEF ClaimHead, Goto, New, Valid, Slot, Cur, SetKey, SetValue,
       InsertIn, AskFreeList, PcTypes, LocTypes, FreeTypes
  <2>2. Locals(loc'[c], loc[c].from, loc[c].seen, headIndex[loc[c].from], loc[c].header, loc[c].slot, loc[c].at, loc[c].block, loc[c].item)
    BY Zenon, <1>0, SetCount, SetCountSeen, SetFrom, SetSlot, SetAt, SetBlock,
       SetItem DEF ClaimHead, Goto, New, Valid, Slot, Cur, SetKey, SetValue,
       InsertIn, AskFreeList, LocTypes
  <2>3. fl'[c] = fl[c]
    BY <1>0 DEF ClaimHead, Goto, New, Valid, Slot, Cur, SetKey, SetValue,
       InsertIn, AskFreeList, PcTypes, LocTypes, FreeTypes, vars, freeVars,
       countVars, indexVars, poolVars, blockVars, bounds
  <2> QED BY <2>1, <2>2, <2>3
<1>3. \A u \in Threads : u # c => pc'[u] = pc[u] /\ loc'[u] = loc[u] /\ fl'[u] = fl[u]
  BY OnlyConsumer DEF Consume
<1>4. UNCHANGED <<freeListHead, freeListRefs, freeListNext, tailIndex, dequeueOptimisticCount, dequeueOvercommit, blockIndex, entry, initialBlockPoolIndex, created, tailBlock, dequeued, elements, work>>
  BY DEF ClaimHead, Goto, New, Valid, Slot, Cur, SetKey, SetValue,
     InsertIn, AskFreeList, vars, freeVars, countVars, indexVars, poolVars,
     blockVars, bounds
<1> QED BY <1>1, <1>2, <1>3, <1>4

\* What LoadBlockIndex does.
LEMMA LoadBlockIndexDoes ==
    ASSUME Types, NEW c \in Consumers, LoadBlockIndex(c)
    PROVE  /\ pc[c] = "block_index"
           /\ pc'[c] = "entry" /\ Locals(loc'[c], loc[c].from, loc[c].seen, loc[c].count, Current(loc[c].from), Cur(loc[c].from).tail, loc[c].at, loc[c].block, loc[c].item) /\ fl'[c] = fl[c]
           /\ \A u \in Threads : u # c => pc'[u] = pc[u] /\ loc'[u] = loc[u] /\ fl'[u] = fl[u]
           /\ UNCHANGED <<freeListHead, freeListRefs, freeListNext, tailIndex, headIndex, dequeueOptimisticCount, dequeueOvercommit, blockIndex, entry, initialBlockPoolIndex, created, tailBlock, dequeued, elements, work>>
<1>0. /\ PcTypes /\ LocTypes /\ FreeTypes /\ c \in Threads
      /\ Shape(loc[c])
  BY Members2, QueueAssumption DEF Types, LocTypes, WfLoc
<1>1. pc[c] = "block_index"
  BY <1>0 DEF LoadBlockIndex, Goto, New, Valid, Slot, Cur, SetKey, SetValue,
     InsertIn, AskFreeList
<1>2. pc'[c] = "entry" /\ Locals(loc'[c], loc[c].from, loc[c].seen, loc[c].count, Current(loc[c].from), Cur(loc[c].from).tail, loc[c].at, loc[c].block, loc[c].item) /\ fl'[c] = fl[c]
  <2>1. pc'[c] = "entry"
    BY <1>0 DEF LoadBlockIndex, Goto, New, Valid, Slot, Cur, SetKey, SetValue,
       InsertIn, AskFreeList, PcTypes, LocTypes, FreeTypes
  <2>2. Locals(loc'[c], loc[c].from, loc[c].seen, loc[c].count, Current(loc[c].from), Cur(loc[c].from).tail, loc[c].at, loc[c].block, loc[c].item)
    BY Zenon, <1>0, SetCount, SetCountSeen, SetFrom, SetSlot, SetAt, SetBlock,
       SetItem DEF LoadBlockIndex, Goto, New, Valid, Slot, Cur, SetKey,
       SetValue, InsertIn, AskFreeList, LocTypes
  <2>3. fl'[c] = fl[c]
    BY <1>0 DEF LoadBlockIndex, Goto, New, Valid, Slot, Cur, SetKey, SetValue,
       InsertIn, AskFreeList, PcTypes, LocTypes, FreeTypes, vars, freeVars,
       countVars, indexVars, poolVars, blockVars, bounds
  <2> QED BY <2>1, <2>2, <2>3
<1>3. \A u \in Threads : u # c => pc'[u] = pc[u] /\ loc'[u] = loc[u] /\ fl'[u] = fl[u]
  BY OnlyConsumer DEF Consume
<1>4. UNCHANGED <<freeListHead, freeListRefs, freeListNext, tailIndex, headIndex, dequeueOptimisticCount, dequeueOvercommit, blockIndex, entry, initialBlockPoolIndex, created, tailBlock, dequeued, elements, work>>
  BY DEF LoadBlockIndex, Goto, New, Valid, Slot, Cur, SetKey,
     SetValue, InsertIn, AskFreeList, vars, freeVars, countVars, indexVars,
     poolVars, blockVars, bounds
<1> QED BY <1>1, <1>2, <1>3, <1>4

\* What MoveElement does.
LEMMA MoveElementDoes ==
    ASSUME Types, NEW c \in Consumers, MoveElement(c)
    PROVE  /\ pc[c] = "entry"
           /\ pc'[c] = "set_empty" /\ Locals(loc'[c], loc[c].from, 0, 0, 0, 0, EntryOf(loc[c]), entry[loc[c].from][EntryOf(loc[c])].value, elements[entry[loc[c].from][EntryOf(loc[c])].value][loc[c].count % BLOCK_SIZE]) /\ fl'[c] = fl[c]
           /\ \A u \in Threads : u # c => pc'[u] = pc[u] /\ loc'[u] = loc[u] /\ fl'[u] = fl[u]
           /\ UNCHANGED <<freeListHead, freeListRefs, freeListNext, tailIndex, headIndex, dequeueOptimisticCount, dequeueOvercommit, blockIndex, entry, initialBlockPoolIndex, created, tailBlock, dequeued, work>>
<1>0. /\ PcTypes /\ LocTypes /\ FreeTypes /\ c \in Threads
      /\ Shape(loc[c])
  BY Members2, QueueAssumption DEF Types, LocTypes, WfLoc
<1>1. pc[c] = "entry"
  BY Zenon, <1>0 DEF MoveElement, Goto, New, Valid, Slot, Cur, SetKey, SetValue,
     InsertIn, AskFreeList
<1>2. pc'[c] = "set_empty" /\ Locals(loc'[c], loc[c].from, 0, 0, 0, 0, EntryOf(loc[c]), entry[loc[c].from][EntryOf(loc[c])].value, elements[entry[loc[c].from][EntryOf(loc[c])].value][loc[c].count % BLOCK_SIZE]) /\ fl'[c] = fl[c]
  <2>1. pc'[c] = "set_empty"
    BY Zenon, <1>0 DEF MoveElement, Goto, New, Valid, Slot, Cur, SetKey, SetValue,
       InsertIn, AskFreeList, PcTypes, LocTypes, FreeTypes
  <2>2. Locals(loc'[c], loc[c].from, 0, 0, 0, 0, EntryOf(loc[c]), entry[loc[c].from][EntryOf(loc[c])].value, elements[entry[loc[c].from][EntryOf(loc[c])].value][loc[c].count % BLOCK_SIZE])
    BY Zenon, <1>0, SetCount, SetCountSeen, SetFrom, SetSlot, SetAt, SetBlock,
       SetItem DEF MoveElement, Goto, New, Valid, Slot, Cur, SetKey, SetValue,
       InsertIn, AskFreeList, LocTypes
  <2>3. fl'[c] = fl[c]
    BY Zenon, <1>0 DEF MoveElement, Goto, New, Valid, Slot, Cur, SetKey, SetValue,
       InsertIn, AskFreeList, PcTypes, LocTypes, FreeTypes, vars, freeVars,
       countVars, indexVars, poolVars, blockVars, bounds
  <2> QED BY Zenon, <2>1, <2>2, <2>3
<1>3. \A u \in Threads : u # c => pc'[u] = pc[u] /\ loc'[u] = loc[u] /\ fl'[u] = fl[u]
  BY OnlyConsumer DEF Consume
<1>4. UNCHANGED <<freeListHead, freeListRefs, freeListNext, tailIndex, headIndex, dequeueOptimisticCount, dequeueOvercommit, blockIndex, entry, initialBlockPoolIndex, created, tailBlock, dequeued, work>>
  BY Zenon DEF MoveElement, Goto, New, Valid, Slot, Cur, SetKey, SetValue,
     InsertIn, AskFreeList, vars, freeVars, countVars, indexVars, poolVars,
     blockVars, bounds
<1> QED BY Zenon, <1>1, <1>2, <1>3, <1>4

\* What SetEmpty does.
LEMMA SetEmptyDoes ==
    ASSUME Types, NEW c \in Consumers, SetEmpty(c)
    PROVE  /\ pc[c] = "set_empty"
           /\ dequeued' = [dequeued EXCEPT ![loc[c].block] = @ + 1]
           /\ (dequeued[loc[c].block] = BLOCK_SIZE - 1) =>
                pc'[c] = "release" /\ loc'[c] = loc[c] /\ fl'[c] = fl[c]
           /\ (dequeued[loc[c].block] # BLOCK_SIZE - 1) =>
                pc'[c] = "idle" /\ loc'[c] = NoLocals /\ fl'[c] = fl[c]
           /\ \A u \in Threads : u # c => pc'[u] = pc[u] /\ loc'[u] = loc[u] /\ fl'[u] = fl[u]
           /\ UNCHANGED <<freeListHead, freeListRefs, freeListNext, tailIndex, headIndex, dequeueOptimisticCount, dequeueOvercommit, blockIndex, entry, initialBlockPoolIndex, created, tailBlock, elements, work>>
<1>0. /\ PcTypes /\ LocTypes /\ FreeTypes /\ c \in Threads
      /\ Shape(loc[c])
  BY Members2, QueueAssumption DEF Types, LocTypes, WfLoc
<1>1. pc[c] = "set_empty" /\ dequeued' = [dequeued EXCEPT ![loc[c].block] = @ + 1]
  BY <1>0 DEF SetEmpty, Back, Goto, New, Valid, Slot, Cur, SetKey, SetValue,
     InsertIn, AskFreeList
<1>2. ASSUME dequeued[loc[c].block] = BLOCK_SIZE - 1
      PROVE  pc'[c] = "release" /\ loc'[c] = loc[c] /\ fl'[c] = fl[c]
  <2>1. pc'[c] = "release"
    BY <1>2, <1>0 DEF SetEmpty, Back, Goto, New, Valid, Slot, Cur, SetKey,
       SetValue, InsertIn, AskFreeList, PcTypes, LocTypes, FreeTypes
  <2>2. loc'[c] = loc[c]
    BY <1>2, <1>0 DEF SetEmpty, Back, Goto, New, Valid, Slot, Cur, SetKey,
       SetValue, InsertIn, AskFreeList, PcTypes, LocTypes, FreeTypes
  <2>3. fl'[c] = fl[c]
    BY <1>2, <1>0 DEF SetEmpty, Back, Goto, New, Valid, Slot, Cur, SetKey,
       SetValue, InsertIn, AskFreeList, PcTypes, LocTypes, FreeTypes, vars,
       freeVars, countVars, indexVars, poolVars, blockVars, bounds
  <2> QED BY <2>1, <2>2, <2>3
<1>3. ASSUME dequeued[loc[c].block] # BLOCK_SIZE - 1
      PROVE  pc'[c] = "idle" /\ loc'[c] = NoLocals /\ fl'[c] = fl[c]
  <2>1. pc'[c] = "idle"
    BY <1>3, <1>0 DEF SetEmpty, Back, Goto, New, Valid, Slot, Cur, SetKey,
       SetValue, InsertIn, AskFreeList, PcTypes, LocTypes, FreeTypes
  <2>2. loc'[c] = NoLocals
    BY <1>3, <1>0 DEF SetEmpty, Back, Goto, New, Valid, Slot, Cur, SetKey,
       SetValue, InsertIn, AskFreeList, PcTypes, LocTypes, FreeTypes
  <2>3. fl'[c] = fl[c]
    BY <1>3, <1>0 DEF SetEmpty, Back, Goto, New, Valid, Slot, Cur, SetKey,
       SetValue, InsertIn, AskFreeList, PcTypes, LocTypes, FreeTypes, vars,
       freeVars, countVars, indexVars, poolVars, blockVars, bounds
  <2> QED BY <2>1, <2>2, <2>3
<1>4. \A u \in Threads : u # c => pc'[u] = pc[u] /\ loc'[u] = loc[u] /\ fl'[u] = fl[u]
  BY OnlyConsumer DEF Consume
<1>5. UNCHANGED <<freeListHead, freeListRefs, freeListNext, tailIndex, headIndex, dequeueOptimisticCount, dequeueOvercommit, blockIndex, entry, initialBlockPoolIndex, created, tailBlock, elements, work>>
  BY DEF SetEmpty, Back, Goto, New, Valid, Slot, Cur, SetKey,
     SetValue, InsertIn, AskFreeList, vars, freeVars, countVars, indexVars,
     poolVars, blockVars, bounds
<1> QED BY <1>1, <1>2, <1>3, <1>4, <1>5

\* What Release does.
LEMMA ReleaseDoes ==
    ASSUME Types, NEW c \in Consumers, Release(c)
    PROVE  /\ pc[c] = "release"
           /\ SetValue(loc[c].from, loc[c].at, None)
           /\ pc'[c] = "give_back" /\ loc'[c] = loc[c] /\ fl'[c] = Adding(loc[c].block)
           /\ \A u \in Threads : u # c => pc'[u] = pc[u] /\ loc'[u] = loc[u] /\ fl'[u] = fl[u]
           /\ UNCHANGED <<freeListHead, freeListRefs, freeListNext, tailIndex, headIndex, dequeueOptimisticCount, dequeueOvercommit, blockIndex, initialBlockPoolIndex, created, tailBlock, dequeued, elements, work>>
<1>0. /\ PcTypes /\ LocTypes /\ FreeTypes /\ c \in Threads
      /\ Shape(loc[c])
  BY Members2, QueueAssumption DEF Types, LocTypes, WfLoc
<1>1. pc[c] = "release" /\ SetValue(loc[c].from, loc[c].at, None)
  BY <1>0 DEF Release, Goto, New, Valid, Slot, Cur, SetKey, SetValue,
     InsertIn, AskFreeList
<1>2. pc'[c] = "give_back" /\ loc'[c] = loc[c] /\ fl'[c] = Adding(loc[c].block)
  <2>1. pc'[c] = "give_back"
    BY <1>0 DEF Release, Goto, New, Valid, Slot, Cur, SetKey, SetValue,
       InsertIn, AskFreeList, PcTypes, LocTypes, FreeTypes
  <2>2. loc'[c] = loc[c]
    BY <1>0 DEF Release, Goto, New, Valid, Slot, Cur, SetKey, SetValue,
       InsertIn, AskFreeList, PcTypes, LocTypes, FreeTypes
  <2>3. fl'[c] = Adding(loc[c].block)
    BY <1>0 DEF Release, Goto, New, Valid, Slot, Cur, SetKey, SetValue,
       InsertIn, AskFreeList, PcTypes, LocTypes, FreeTypes, vars, freeVars,
       countVars, indexVars, poolVars, blockVars, bounds
  <2> QED BY <2>1, <2>2, <2>3
<1>3. \A u \in Threads : u # c => pc'[u] = pc[u] /\ loc'[u] = loc[u] /\ fl'[u] = fl[u]
  BY OnlyConsumer DEF Consume
<1>4. UNCHANGED <<freeListHead, freeListRefs, freeListNext, tailIndex, headIndex, dequeueOptimisticCount, dequeueOvercommit, blockIndex, initialBlockPoolIndex, created, tailBlock, dequeued, elements, work>>
  BY DEF Release, Goto, New, Valid, Slot, Cur, SetKey, SetValue,
     InsertIn, AskFreeList, vars, freeVars, countVars, indexVars, poolVars,
     blockVars, bounds
<1> QED BY <1>1, <1>2, <1>3, <1>4

\* What GivenBack does.
LEMMA GivenBackDoes ==
    ASSUME Types, NEW t \in Threads, GivenBack(t)
    PROVE  /\ pc[t] = "give_back"
           /\ fl[t].at = "added"
           /\ pc'[t] = "idle" /\ loc'[t] = NoLocals /\ fl'[t] = Outside
           /\ \A u \in Threads : u # t => pc'[u] = pc[u] /\ loc'[u] = loc[u] /\ fl'[u] = fl[u]
           /\ UNCHANGED <<freeListHead, freeListRefs, freeListNext, tailIndex, headIndex, dequeueOptimisticCount, dequeueOvercommit, blockIndex, entry, initialBlockPoolIndex, created, tailBlock, dequeued, elements, work>>
<1>0. /\ PcTypes /\ LocTypes /\ FreeTypes /\ t \in Threads
      /\ Shape(loc[t])
  BY QueueAssumption DEF Types, LocTypes, WfLoc
<1>1. pc[t] = "give_back" /\ fl[t].at = "added"
  BY <1>0 DEF GivenBack, Back, Goto, New, Valid, Slot, Cur, SetKey, SetValue,
     InsertIn, AskFreeList
<1>2. pc'[t] = "idle" /\ loc'[t] = NoLocals /\ fl'[t] = Outside
  <2>1. pc'[t] = "idle"
    BY <1>0 DEF GivenBack, Back, Goto, New, Valid, Slot, Cur, SetKey,
       SetValue, InsertIn, AskFreeList, PcTypes, LocTypes, FreeTypes
  <2>2. loc'[t] = NoLocals
    BY <1>0 DEF GivenBack, Back, Goto, New, Valid, Slot, Cur, SetKey,
       SetValue, InsertIn, AskFreeList, PcTypes, LocTypes, FreeTypes
  <2>3. fl'[t] = Outside
    BY <1>0 DEF GivenBack, Back, Goto, New, Valid, Slot, Cur, SetKey,
       SetValue, InsertIn, AskFreeList, PcTypes, LocTypes, FreeTypes, vars,
       freeVars, countVars, indexVars, poolVars, blockVars, bounds
  <2> QED BY <2>1, <2>2, <2>3
<1>3. \A u \in Threads : u # t => pc'[u] = pc[u] /\ loc'[u] = loc[u] /\ fl'[u] = fl[u]
  BY OnlyGivenBack
<1>4. UNCHANGED <<freeListHead, freeListRefs, freeListNext, tailIndex, headIndex, dequeueOptimisticCount, dequeueOvercommit, blockIndex, entry, initialBlockPoolIndex, created, tailBlock, dequeued, elements, work>>
  BY DEF GivenBack, Back, Goto, New, Valid, Slot, Cur, SetKey,
     SetValue, InsertIn, AskFreeList, vars, freeVars, countVars, indexVars,
     poolVars, blockVars, bounds
<1> QED BY <1>1, <1>2, <1>3, <1>4

-----------------------------------------------------------------------------
(***************************************************************************)
(* The actions of a consumer that change the counts.                       *)
(***************************************************************************)

\* What c alone does, with the producer of its locals kept.
Alone(c, q) ==
    /\ \A d \in Consumers : d # c => pc'[d] = pc[d] /\ loc'[d] = loc[d]
    /\ loc[c].from = q
    /\ loc'[c].from = q \/ pc'[c] \notin Counting
    /\ \A p \in Producers : p # q =>
         /\ dequeueOptimisticCount'[p] = dequeueOptimisticCount[p]
         /\ headIndex'[p] = headIndex[p]
         /\ dequeueOvercommit'[p] = dequeueOvercommit[p]
         /\ tailIndex'[p] = tailIndex[p]

\* A step of c that keeps the counts of its stream keeps Claims.
LEMMA ClaimsAt ==
    ASSUME Types, Claims, NEW c \in Consumers, NEW q \in Producers, Alone(c, q), Seen',
           Conserved(q)', NEW k \in Int, NEW l \in Int, EnoughAfter(q, k, l, Claimed(q)')
    PROVE  Claims'
<1>1. ASSUME NEW p \in Producers
      PROVE  Conserved(p)' /\ \E i, j \in Int : Enough(p, i, j)'
  <2>1. CASE p = q
    BY <2>1, EnoughIs
  <2>2. CASE p # q
    BY <2>2, OthersKept DEF Alone
  <2> QED BY <2>1, <2>2
<1> QED BY <1>1 DEF Claims

\* AddOptimistic keeps Claims: the consumer that comes to the check has the
\* highest count.
LEMMA AddOptimisticClaims ==
    ASSUME Types, Types', Claims, NEW c \in Consumers, AddOptimistic(c)
    PROVE  Claims'
<1> DEFINE q == loc[c].from
           m == dequeueOptimisticCount[q]
<1>1. q \in Producers
  BY DEF Types, LocTypes, AddOptimistic
<1> PICK u \in Producers : u = q
  BY <1>1
<1> HIDE DEF q
<1>2. \A d \in Consumers : d # c => pc'[d] = pc[d] /\ loc'[d] = loc[d]
  BY OnlyConsumer, Members2 DEF Consume
<1>3. /\ pc[c] = "optimistic" /\ pc'[c] = "recheck"
      /\ loc[c].from = u /\ loc'[c].from = u
      /\ loc'[c].seen = loc[c].seen /\ loc'[c].count = dequeueOptimisticCount[u]
  BY <1>1, AddOptimisticDoes DEF Locals, q
<1>4. /\ dequeueOptimisticCount'[u] = dequeueOptimisticCount[u] + 1
      /\ UNCHANGED <<tailIndex, headIndex, dequeueOvercommit>>
      /\ \A p \in Producers : p # u => dequeueOptimisticCount'[p] = dequeueOptimisticCount[p]
  BY <1>1, <1>3 DEF AddOptimistic, Types, CountTypes, q
<1>5. Alone(c, u)
  BY <1>2, <1>3, <1>4 DEF Alone
<1>6. /\ NumberAt(u, "recheck")' = NumberAt(u, "recheck") + 1
      /\ NumberAt(u, "claim_head")' = NumberAt(u, "claim_head")
      /\ NumberAt(u, "overcommit")' = NumberAt(u, "overcommit")
  BY <1>2, <1>3, Moves
<1>7. Conserved(u)'
  BY <1>4, <1>6, ConservedIs DEF Conserved
<1>8. loc[c].seen <= dequeueOvercommit[u] /\ loc[c].seen \in Nat
  BY <1>3, Members2 DEF Claims, Seen, Types, LocTypes, WfLoc
<1>9. Seen'
  <2>1. loc[c].seen <= dequeueOptimisticCount[u]
    BY <1>8, ConservedIs
  <2>2. \A d \in Consumers : pc'[d] \in {"any", "optimistic", "recheck"} =>
          loc'[d].seen <= dequeueOvercommit'[loc'[d].from]
    BY <1>2, <1>3, <1>4, <1>8 DEF Claims, Seen
  <2>3. ASSUME NEW d \in Consumers, pc'[d] = "recheck"
        PROVE  loc'[d].seen <= loc'[d].count
                 /\ loc'[d].count < dequeueOptimisticCount'[loc'[d].from]
    <3>1. CASE d = c
      BY <3>1, <1>3, <1>4, <2>1, ConservedIs
    <3>2. CASE d # c
      <4>1. loc[d].from \in Producers /\ loc[d].count \in Nat
        BY <2>3, <3>2, <1>2, Members2 DEF Types, LocTypes, WfLoc
      <4>2. dequeueOptimisticCount[loc[d].from] \in Nat
        BY <4>1 DEF Types, CountTypes
      <4> QED BY <2>3, <3>2, <1>2, <1>4, <4>1, <4>2 DEF Claims, Seen
    <3> QED BY <3>1, <3>2
  <2>4. ASSUME NEW d \in Consumers, NEW e \in Consumers, d # e, pc'[d] = "recheck",
               pc'[e] = "recheck", loc'[d].from = loc'[e].from
        PROVE  loc'[d].count # loc'[e].count
    <3>0. \A g \in Consumers : g # c /\ pc[g] = "recheck" /\ loc[g].from = u
            => loc[g].count \in Nat /\ loc[g].count < dequeueOptimisticCount[u]
      BY Members2 DEF Claims, Seen, Types, LocTypes, WfLoc
    <3>1. CASE d = c
      BY <3>0, <3>1, <2>4, <1>2, <1>3, ConservedIs
    <3>2. CASE e = c
      BY <3>0, <3>2, <2>4, <1>2, <1>3, ConservedIs
    <3>3. CASE d # c /\ e # c
      BY <3>3, <2>4, <1>2 DEF Claims, Seen
    <3> QED BY <3>1, <3>2, <3>3
  <2> QED BY <2>2, <2>3, <2>4 DEF Seen
<1>10. PICK k \in Int, l \in Int : Enough(u, k, l)
  BY DEF Claims
<1>11. EnoughAfter(u, k, l, Claimed(u)')
  <2>0. Claimed(u)' = Claimed(u) /\ Claimed(u) \in Nat
    BY <1>4, <1>6, ConservedIs DEF Claimed
  <2>1. k <= dequeueOptimisticCount'[u] /\ l <= tailIndex'[u]
    BY <1>4, <1>10, ConservedIs DEF Enough
  <2>2. \A n \in Int : n <= dequeueOptimisticCount[u] => After(u, n) = BelowN(u, n)
    BY <1>2, <1>3, MovesBelow, ConservedIs
  <2>3. Claimed(u)' + After(u, k) <= l
    BY <2>0, <2>2, <1>10 DEF Enough, BelowN
  <2>4. ASSUME NEW d \in Consumers, pc'[d] = "recheck", loc'[d].from = u,
               loc'[d].count >= k
        PROVE  Claimed(u)' + After(u, loc'[d].count) + loc'[d].seen <= loc'[d].count
    <3>1. CASE d = c
      <4>1. BelowN(u, dequeueOptimisticCount[u]) = NumberAt(u, "recheck")
        <5>1. \A g \in Consumers : pc[g] = "recheck" /\ loc[g].from = u
            => loc[g].count < dequeueOptimisticCount[u]
          BY DEF Claims, Seen
        <5> QED BY <5>1 DEF BelowN, NumberAt, Below, ConsumersAt
      <4>2. After(u, dequeueOptimisticCount[u]) = NumberAt(u, "recheck")
        BY <2>2, <4>1, ConservedIs
      <4> QED BY <4>2, <3>1, <1>3, <1>8, <2>0, ConservedIs DEF Claimed
    <3>2. CASE d # c
      <4>1. d \in ConsumersAt(u, "recheck") /\ loc'[d] = loc[d]
        BY <3>2, <2>4, <1>2 DEF ConsumersAt
      <4>2. loc[d].count \in Nat /\ loc[d].count < dequeueOptimisticCount[u]
        BY <4>1, Members2 DEF ConsumersAt, Claims, Seen, Types, LocTypes, WfLoc
      <4>3. After(u, loc[d].count) = BelowN(u, loc[d].count)
        BY <2>2, <4>2, ConservedIs
      <4> QED BY <4>1, <4>3, <2>4, <2>0, <1>10 DEF Enough, BelowN
    <3> QED BY <3>1, <3>2
  <2> QED BY <2>1, <2>3, <2>4 DEF EnoughAfter
<1> QED BY <1>5, <1>7, <1>9, <1>11, ClaimsAt

\* A step of c to a place without a seen overcommit keeps Seen.
LEMMA SeenAlone ==
    ASSUME Types, Types', Claims, NEW c \in Consumers,
           \A d \in Consumers : d # c => pc'[d] = pc[d] /\ loc'[d] = loc[d],
           pc'[c] \notin {"any", "optimistic", "recheck"},
           dequeueOptimisticCount' = dequeueOptimisticCount,
           \A p \in Producers : dequeueOvercommit[p] <= dequeueOvercommit'[p]
    PROVE  Seen'
<1>1. ASSUME NEW d \in Consumers, pc'[d] \in {"any", "optimistic", "recheck"}
      PROVE  loc'[d].seen <= dequeueOvercommit'[loc'[d].from]
  <2>1. d # c /\ pc'[d] = pc[d] /\ loc'[d] = loc[d]
    BY <1>1
  <2>2. loc[d].from \in Producers /\ loc[d].seen \in Nat
    BY <2>1, <1>1, Members2 DEF Types, LocTypes, WfLoc
  <2>3. dequeueOvercommit[loc[d].from] \in Nat /\ dequeueOvercommit'[loc[d].from] \in Nat
    BY <2>2 DEF Types, CountTypes
  <2>4. loc[d].seen <= dequeueOvercommit[loc[d].from]
    BY <1>1, <2>1 DEF Claims, Seen
  <2> QED BY <2>1, <2>2, <2>3, <2>4
<1>2. \A d \in Consumers : pc'[d] = "recheck" =>
         loc'[d].seen <= loc'[d].count
           /\ loc'[d].count < dequeueOptimisticCount'[loc'[d].from]
  BY DEF Claims, Seen
<1>3. \A d, e \in Consumers :
         d # e /\ pc'[d] = "recheck" /\ pc'[e] = "recheck"
           /\ loc'[d].from = loc'[e].from => loc'[d].count # loc'[e].count
  BY DEF Claims, Seen
<1> QED BY <1>1, <1>2, <1>3 DEF Seen

\* Recheck keeps Claims: the consumer that passes is one of those that Enough
\* has room for.
LEMMA RecheckClaims ==
    ASSUME Types, Types', Claims, NEW c \in Consumers, Recheck(c)
    PROVE  Claims'
<1> DEFINE q == loc[c].from
<1>1. q \in Producers /\ pc[c] = "recheck"
  BY DEF Types, LocTypes, Recheck
<1> PICK u \in Producers : u = q
  BY <1>1
<1>3. /\ \A d \in Consumers : d # c => pc'[d] = pc[d] /\ loc'[d] = loc[d]
      /\ loc[c].from = u /\ loc'[c].from = u
      /\ pc'[c] \in {"claim_head", "overcommit"}
      /\ pc'[c] = "claim_head" => loc[c].count - loc[c].seen < tailIndex[u]
      /\ UNCHANGED <<tailIndex, headIndex, dequeueOptimisticCount, dequeueOvercommit>>
  <2>1. \A d \in Consumers : d # c => pc'[d] = pc[d] /\ loc'[d] = loc[d]
    BY RecheckDoes, Members2
  <2>2. UNCHANGED <<tailIndex, headIndex, dequeueOptimisticCount, dequeueOvercommit>>
    BY RecheckDoes
  <2> QED BY <2>1, <2>2, RecheckDoes DEF Locals
<1>4. loc[c].count \in Nat /\ loc[c].seen \in Nat /\ loc[c].count < dequeueOptimisticCount[u]
  BY <1>1, <1>3, Members2 DEF Types, LocTypes, WfLoc, Claims, Seen
<1> PICK m \in Nat, s \in Nat : m = loc[c].count /\ s = loc[c].seen
  BY <1>4
<1> HIDE DEF q
<1>5. Alone(c, u)
  BY <1>3 DEF Alone
<1>6. Seen'
  <2>1. \A p \in Producers : dequeueOvercommit[p] <= dequeueOvercommit'[p]
    BY <1>3 DEF Types, CountTypes
  <2> QED BY <1>3, <2>1, SeenAlone
<1>7. NumberAt(u, "recheck")' = NumberAt(u, "recheck") - 1
  BY <1>1, <1>3, Moves
<1>8. /\ pc'[c] = "claim_head" =>
           /\ NumberAt(u, "claim_head")' = NumberAt(u, "claim_head") + 1
           /\ NumberAt(u, "overcommit")' = NumberAt(u, "overcommit")
      /\ pc'[c] = "overcommit" =>
           /\ NumberAt(u, "claim_head")' = NumberAt(u, "claim_head")
           /\ NumberAt(u, "overcommit")' = NumberAt(u, "overcommit") + 1
  BY <1>1, <1>3, Moves
<1>9. Conserved(u)'
  BY <1>3, <1>7, <1>8, ConservedIs DEF Conserved
<1>10. PICK k \in Int, l \in Int : Enough(u, k, l)
  BY DEF Claims
<1>11. /\ \A n \in Int : n > m => After(u, n) = BelowN(u, n) - 1
       /\ \A n \in Int : n <= m => After(u, n) = BelowN(u, n)
  BY <1>1, <1>3, MovesBelow
<1>12. ASSUME NEW d \in Consumers, pc'[d] = "recheck", loc'[d].from = u
       PROVE  d # c /\ d \in ConsumersAt(u, "recheck") /\ loc'[d] = loc[d]
                /\ loc[d].count \in Nat /\ loc[d].seen \in Nat
                /\ loc[d].count # m
  <2>1. d # c /\ loc'[d] = loc[d] /\ pc[d] = "recheck"
    BY <1>3, <1>12
  <2>2. loc[d].count # loc[c].count
    BY <2>1, <1>1, <1>3, <1>12 DEF Claims, Seen
  <2> QED BY <2>1, <2>2, <1>12, Members2 DEF ConsumersAt, Types, LocTypes, WfLoc
<1>13. \A n : BelowN(u, n) \in Nat
  BY Belows
<1>14. Claimed(u) \in Nat
  BY ConservedIs DEF Claimed
<1>15. Claimed(u)' = IF pc'[c] = "claim_head" THEN Claimed(u) + 1 ELSE Claimed(u)
  BY <1>3, <1>8, ConservedIs DEF Claimed
<1>16. ASSUME NEW d \in Consumers, pc'[d] = "recheck", loc'[d].from = u,
              loc'[d].count >= k, loc'[d].count > m \/ pc'[c] = "overcommit"
       PROVE  Claimed(u)' + After(u, loc'[d].count) + loc'[d].seen <= loc'[d].count
  <2>1. Claimed(u) + BelowN(u, loc[d].count) + loc[d].seen <= loc[d].count
    BY <1>10, <1>12, <1>16 DEF Enough, BelowN
  <2>2. Claimed(u)' + After(u, loc[d].count) <= Claimed(u) + BelowN(u, loc[d].count)
    BY <1>3, <1>11, <1>12, <1>13, <1>14, <1>15, <1>16
  <2>3. After(u, loc[d].count) \in Int /\ Claimed(u)' \in Int
    BY <1>11, <1>12, <1>13, <1>14, <1>15, <1>16
  <2> QED BY <2>1, <2>2, <2>3, <1>12, <1>13, <1>14, <1>16
<1>17. CASE pc'[c] = "overcommit" \/ m < k
  <2>1. Claimed(u)' + After(u, k) <= l
    BY <1>3, <1>10, <1>11, <1>13, <1>14, <1>15, <1>17 DEF Enough, BelowN
  <2>2. k <= dequeueOptimisticCount'[u] /\ l <= tailIndex'[u]
    BY <1>3, <1>10 DEF Enough
  <2>3. ASSUME NEW d \in Consumers, pc'[d] = "recheck", loc'[d].from = u,
              loc'[d].count >= k
        PROVE  Claimed(u)' + After(u, loc'[d].count) + loc'[d].seen <= loc'[d].count
    BY <2>3, <1>12, <1>16, <1>17
  <2>4. EnoughAfter(u, k, l, Claimed(u)')
    BY <2>1, <2>2, <2>3 DEF EnoughAfter
  <2> QED BY <2>4, <1>5, <1>6, <1>9, ClaimsAt
<1>18. CASE pc'[c] = "claim_head" /\ m >= k
  <2>1. Claimed(u) + BelowN(u, m) + s <= m
    <3>1. c \in ConsumersAt(u, "recheck")
      BY <1>1, <1>3 DEF ConsumersAt
    <3> QED BY <3>1, <1>10, <1>18 DEF Enough, BelowN
  <2>2. After(u, m + 1) = BelowN(u, m)
    <3>1. {d \in Consumers : pc'[d] = "recheck" /\ loc'[d].from = u /\ loc'[d].count < m + 1}
            = Below(u, m)
      <4>1. ASSUME NEW d \in Consumers
            PROVE  pc'[d] = "recheck" /\ loc'[d].from = u /\ loc'[d].count < m + 1
                     <=> d \in Below(u, m)
        <5>1. CASE d = c
          BY <5>1, <1>18 DEF Below
        <5>2. CASE d # c
          BY <5>2, <1>3, <1>12 DEF Below
        <5> QED BY <5>1, <5>2
      <4>2. Below(u, m) \subseteq Consumers
        BY DEF Below
      <4> QED BY <4>1, <4>2
    <3> QED BY <3>1 DEF After, BelowN
  <2>3. Claimed(u)' + After(u, m + 1) <= m + 1 - s
    BY <2>1, <2>2, <1>13, <1>14, <1>15, <1>18
  <2>4. m + 1 <= dequeueOptimisticCount'[u] /\ m + 1 - s <= tailIndex'[u]
    BY <1>3, <1>4, <1>18, ConservedIs
  <2>5. ASSUME NEW d \in Consumers, pc'[d] = "recheck", loc'[d].from = u,
              loc'[d].count >= m + 1
        PROVE  Claimed(u)' + After(u, loc'[d].count) + loc'[d].seen <= loc'[d].count
    BY <2>5, <1>12, <1>16, <1>18
  <2>6. EnoughAfter(u, m + 1, m + 1 - s, Claimed(u)')
    BY <2>3, <2>4, <2>5 DEF EnoughAfter
  <2>7. m + 1 \in Int /\ m + 1 - s \in Int
    OBVIOUS
  <2> QED BY <2>6, <2>7, <1>5, <1>6, <1>9, ClaimsAt
<1> QED BY <1>3, <1>17, <1>18

\* AddOvercommit keeps Claims: the attempt is counted off.
LEMMA AddOvercommitClaims ==
    ASSUME Types, Types', Claims, NEW c \in Consumers, AddOvercommit(c)
    PROVE  Claims'
<1>1. loc[c].from \in Producers /\ pc[c] = "overcommit"
  BY DEF Types, LocTypes, AddOvercommit
<1> PICK u \in Producers : u = loc[c].from
  BY <1>1
<1>3. /\ \A d \in Consumers : d # c => pc'[d] = pc[d] /\ loc'[d] = loc[d]
      /\ pc'[c] = "idle"
      /\ UNCHANGED <<tailIndex, headIndex, dequeueOptimisticCount>>
  BY AddOvercommitDoes, Members2
<1>4. /\ dequeueOvercommit'[u] = dequeueOvercommit[u] + 1
      /\ \A p \in Producers : p # u => dequeueOvercommit'[p] = dequeueOvercommit[p]
  BY DEF AddOvercommit, Types, CountTypes
<1>5. Alone(c, u)
  BY <1>3, <1>4 DEF Alone, Counting
<1>6. Seen'
  <2>1. \A p \in Producers : dequeueOvercommit[p] <= dequeueOvercommit'[p]
    BY <1>4 DEF Types, CountTypes
  <2> QED BY <1>3, <2>1, SeenAlone
<1>7. /\ NumberAt(u, "recheck")' = NumberAt(u, "recheck")
      /\ NumberAt(u, "claim_head")' = NumberAt(u, "claim_head")
      /\ NumberAt(u, "overcommit")' = NumberAt(u, "overcommit") - 1
  BY <1>1, <1>3, Moves
<1>8. Conserved(u)'
  BY <1>3, <1>4, <1>7, ConservedIs DEF Conserved
<1>9. Claimed(u)' = Claimed(u)
  BY <1>3, <1>7 DEF Claimed
<1>10. PICK k \in Int, l \in Int : Enough(u, k, l)
  BY DEF Claims
<1>11. EnoughAfter(u, k, l, Claimed(u)')
  <2>1. \A n : After(u, n) = BelowN(u, n)
    BY <1>1, <1>3, MovesBelow
  <2>2. ASSUME NEW d \in Consumers, pc'[d] = "recheck", loc'[d].from = u
        PROVE  d \in ConsumersAt(u, "recheck") /\ loc'[d] = loc[d]
    BY <1>3, <2>2 DEF ConsumersAt
  <2> QED BY <2>1, <2>2, <1>3, <1>9, <1>10 DEF EnoughAfter, Enough, BelowN
<1> QED BY <1>5, <1>6, <1>8, <1>11, ClaimsAt

\* ClaimHead keeps Claims: the claim becomes the head.
LEMMA ClaimHeadClaims ==
    ASSUME Types, Types', Claims, NEW c \in Consumers, ClaimHead(c)
    PROVE  Claims'
<1>1. loc[c].from \in Producers /\ pc[c] = "claim_head"
  BY DEF Types, LocTypes, ClaimHead
<1> PICK u \in Producers : u = loc[c].from
  BY <1>1
<1>3. /\ \A d \in Consumers : d # c => pc'[d] = pc[d] /\ loc'[d] = loc[d]
      /\ pc'[c] = "block_index"
      /\ UNCHANGED <<tailIndex, dequeueOvercommit, dequeueOptimisticCount>>
  BY ClaimHeadDoes, Members2
<1>4. /\ headIndex'[u] = headIndex[u] + 1
      /\ \A p \in Producers : p # u => headIndex'[p] = headIndex[p]
  BY DEF ClaimHead, Types, CountTypes
<1>5. Alone(c, u)
  BY <1>3, <1>4 DEF Alone, Counting
<1>6. Seen'
  <2>1. \A p \in Producers : dequeueOvercommit[p] <= dequeueOvercommit'[p]
    BY <1>3 DEF Types, CountTypes
  <2> QED BY <1>3, <2>1, SeenAlone
<1>7. /\ NumberAt(u, "recheck")' = NumberAt(u, "recheck")
      /\ NumberAt(u, "claim_head")' = NumberAt(u, "claim_head") - 1
      /\ NumberAt(u, "overcommit")' = NumberAt(u, "overcommit")
  BY <1>1, <1>3, Moves
<1>8. Conserved(u)'
  BY <1>3, <1>4, <1>7, ConservedIs DEF Conserved
<1>9. Claimed(u)' = Claimed(u)
  BY <1>4, <1>7, ConservedIs DEF Claimed
<1>10. PICK k \in Int, l \in Int : Enough(u, k, l)
  BY DEF Claims
<1>11. EnoughAfter(u, k, l, Claimed(u)')
  <2>1. \A n : After(u, n) = BelowN(u, n)
    BY <1>1, <1>3, MovesBelow
  <2>2. ASSUME NEW d \in Consumers, pc'[d] = "recheck", loc'[d].from = u
        PROVE  d \in ConsumersAt(u, "recheck") /\ loc'[d] = loc[d]
    BY <1>3, <2>2 DEF ConsumersAt
  <2> QED BY <2>1, <2>2, <1>3, <1>9, <1>10 DEF EnoughAfter, Enough, BelowN
<1> QED BY <1>5, <1>6, <1>8, <1>11, ClaimsAt

\* Every step keeps Claims.
LEMMA ClaimsStep ==
    ASSUME Types, Claims, [Next]_vars
    PROVE  Claims'
<1>0. Types'
  BY TypesStep
<1>1. CASE UNCHANGED vars
  <2>1. \A c \in Consumers : Quiet(c)
    BY <1>1 DEF vars, Quiet, Counting
  <2>2. \A p \in Producers : tailIndex[p] <= tailIndex'[p]
    BY <1>1 DEF vars, countVars, Types, CountTypes
  <2> QED BY <1>0, <1>1, <2>1, <2>2, ClaimsKept DEF vars, countVars
<1>2. ASSUME NEW p \in Producers, Produce(p) PROVE Claims'
  <2>1. \A c \in Consumers : Quiet(c)
    BY SMTT(40), <1>2, OnlyProducer, Members, Members2 DEF Quiet, Counting
  <2>2. UNCHANGED <<headIndex, dequeueOptimisticCount, dequeueOvercommit>>
    BY SMTT(40), <1>2 DEF Produce, Enqueue, InsertBlockIndexEntry, NewBlockIndex, NewBlockIndexFails, Expose,
       AskPool, ClaimFromPool, FromFreeList, Create, CreateFails, Construct, ConstructThrows,
       Rewind, Forget, Publish, countVars
  <2>3. tailIndex' = tailIndex \/ tailIndex' = [tailIndex EXCEPT ![p] = @ + 1]
    BY <1>2 DEF Produce, Enqueue, InsertBlockIndexEntry, NewBlockIndex, NewBlockIndexFails, Expose,
       AskPool, ClaimFromPool, FromFreeList, Create, CreateFails, Construct, ConstructThrows,
       Rewind, Forget, Publish, countVars
  <2>4. \A u \in Producers : tailIndex[u] <= tailIndex'[u]
    BY <2>3 DEF Types, CountTypes
  <2> QED BY <1>0, <2>1, <2>2, <2>4, ClaimsKept
<1>3. ASSUME NEW c \in Consumers, Consume(c) PROVE Claims'
  <2>0. \A u \in Producers : tailIndex[u] <= tailIndex[u]
    BY DEF Types, CountTypes
  <2>1. CASE \E p \in Producers : Dequeue(c, p)
    <3> PICK p \in Producers : Dequeue(c, p)
      BY <2>1
    <3>1. Quiet(c)
      BY DequeueDoes DEF Quiet, Counting, Locals
    <3>2. \A d \in Consumers : Quiet(d)
      BY <3>1, DequeueDoes, Members2 DEF Quiet, Counting
    <3> QED BY <1>0, <2>0, <3>2, DequeueDoes, ClaimsKept
  <2>2. CASE SeemsEmpty(c)
    <3>1. Quiet(c)
      BY <2>2, SeemsEmptyDoes DEF Quiet, Counting, Locals
    <3>2. \A d \in Consumers : Quiet(d)
      BY <2>2, <3>1, SeemsEmptyDoes, Members2 DEF Quiet, Counting
    <3>3. UNCHANGED <<tailIndex, headIndex, dequeueOptimisticCount, dequeueOvercommit>>
      BY <2>2, SeemsEmptyDoes
    <3> QED BY <1>0, <2>0, <3>2, <3>3, ClaimsKept
  <2>3. CASE SeemsNonEmpty(c)
    <3>1. Quiet(c)
      BY <2>3, SeemsNonEmptyDoes DEF Quiet, Counting, Locals
    <3>2. \A d \in Consumers : Quiet(d)
      BY <2>3, <3>1, SeemsNonEmptyDoes, Members2 DEF Quiet, Counting
    <3>3. UNCHANGED <<tailIndex, headIndex, dequeueOptimisticCount, dequeueOvercommit>>
      BY <2>3, SeemsNonEmptyDoes
    <3> QED BY <1>0, <2>0, <3>2, <3>3, ClaimsKept
  <2>8. CASE LoadBlockIndex(c)
    <3>1. Quiet(c)
      BY <2>8, LoadBlockIndexDoes DEF Quiet, Counting, Locals
    <3>2. \A d \in Consumers : Quiet(d)
      BY <2>8, <3>1, LoadBlockIndexDoes, Members2 DEF Quiet, Counting
    <3>3. UNCHANGED <<tailIndex, headIndex, dequeueOptimisticCount, dequeueOvercommit>>
      BY <2>8, LoadBlockIndexDoes
    <3> QED BY <1>0, <2>0, <3>2, <3>3, ClaimsKept
  <2>9. CASE MoveElement(c)
    <3>1. Quiet(c)
      BY <2>9, MoveElementDoes DEF Quiet, Counting, Locals
    <3>2. \A d \in Consumers : Quiet(d)
      BY <2>9, <3>1, MoveElementDoes, Members2 DEF Quiet, Counting
    <3>3. UNCHANGED <<tailIndex, headIndex, dequeueOptimisticCount, dequeueOvercommit>>
      BY <2>9, MoveElementDoes
    <3> QED BY <1>0, <2>0, <3>2, <3>3, ClaimsKept
  <2>10. CASE SetEmpty(c)
    <3>1. Quiet(c)
      BY <2>10, SetEmptyDoes DEF Quiet, Counting, Locals
    <3>2. \A d \in Consumers : Quiet(d)
      BY <2>10, <3>1, SetEmptyDoes, Members2 DEF Quiet, Counting
    <3>3. UNCHANGED <<tailIndex, headIndex, dequeueOptimisticCount, dequeueOvercommit>>
      BY <2>10, SetEmptyDoes
    <3> QED BY <1>0, <2>0, <3>2, <3>3, ClaimsKept
  <2>11. CASE Release(c)
    <3>1. Quiet(c)
      BY <2>11, ReleaseDoes DEF Quiet, Counting, Locals
    <3>2. \A d \in Consumers : Quiet(d)
      BY <2>11, <3>1, ReleaseDoes, Members2 DEF Quiet, Counting
    <3>3. UNCHANGED <<tailIndex, headIndex, dequeueOptimisticCount, dequeueOvercommit>>
      BY <2>11, ReleaseDoes
    <3> QED BY <1>0, <2>0, <3>2, <3>3, ClaimsKept
  <2>4. CASE AddOptimistic(c)
    BY <1>0, <2>4, AddOptimisticClaims
  <2>5. CASE Recheck(c)
    BY <1>0, <2>5, RecheckClaims
  <2>6. CASE AddOvercommit(c)
    BY <1>0, <2>6, AddOvercommitClaims
  <2>7. CASE ClaimHead(c)
    BY <1>0, <2>7, ClaimHeadClaims
  <2> QED
    BY <1>3, <2>1, <2>2, <2>3, <2>4, <2>5, <2>6, <2>7, <2>8, <2>9, <2>10, <2>11 DEF Consume
<1>4. ASSUME NEW t \in Threads, GivenBack(t) PROVE Claims'
  <2>0. \A u \in Producers : tailIndex[u] <= tailIndex[u]
    BY DEF Types, CountTypes
  <2>1. \A d \in Consumers : Quiet(d)
    BY <1>4, GivenBackDoes, Members2 DEF Quiet, Counting
  <2>2. UNCHANGED <<tailIndex, headIndex, dequeueOptimisticCount, dequeueOvercommit>>
    BY <1>4, GivenBackDoes
  <2> QED BY <1>0, <2>0, <2>1, <2>2, ClaimsKept
<1>5. ASSUME NEW t \in Threads, InFreeList(t) PROVE Claims'
  <2>0. \A u \in Producers : tailIndex[u] <= tailIndex[u]
    BY DEF Types, CountTypes
  <2>1. \A d \in Consumers : Quiet(d)
    BY <1>5 DEF InFreeList, Quiet, Counting
  <2> QED BY <1>0, <1>5, <2>0, <2>1, ClaimsKept DEF InFreeList, countVars
<1> QED BY <1>1, <1>2, <1>3, <1>4, <1>5 DEF Next

-----------------------------------------------------------------------------
(***************************************************************************)
(* The block index of a producer as a ring of keys and values, away from   *)
(* the state. cap: its slots; tail: the last one used; idx: the entry of a *)
(* slot; K, V: the key and the block of a slot's entry; l, T, at: the      *)
(* stage of the producer, its tail index and the entry it has taken.       *)
(***************************************************************************)

\* The slot before the tail.
RPrev(cap, tail) == IF tail = 0 THEN cap - 1 ELSE tail - 1

\* The types of a ring.
RingTypes(T, cap, tail, K) ==
    /\ T \in Nat /\ cap \in Nat /\ cap > 1 /\ tail \in 0 .. cap - 1
    /\ \A s \in 0 .. cap - 1 : K[s] \in Nat

\* BLOCK_SIZE is at least 2.
LEMMA Size == BLOCK_SIZE \in Nat /\ BLOCK_SIZE > 1
  BY QueueAssumption

\* Multiples of BLOCK_SIZE.
LEMMA Times == \A n \in Int : BLOCK_SIZE * n \in Int /\ BLOCK_SIZE * (n + 1) = BLOCK_SIZE * n + BLOCK_SIZE
  BY Size

\* The end of the keys of a ring is a number.
LEMMA EndIs == \A l, T : T \in Nat => REnd(l, T) \in Nat
<1> TAKE l, T
<1> HAVE T \in Nat
<1>1. T % BLOCK_SIZE \in 0 .. BLOCK_SIZE - 1 /\ T % BLOCK_SIZE <= T
  BY Size
<1> QED BY <1>1, Size DEF REnd, RExposed, RNew, BlockBase

\* The slot after the tail is the oldest; when the tail moves there, every
\* other slot is one older.
LEMMA NextAge ==
    ASSUME NEW cap \in Nat, cap > 1, NEW tail \in 0 .. cap - 1
    PROVE  LET to == RNext(cap, tail) IN
           /\ to \in 0 .. cap - 1 /\ to # tail
           /\ RAge(cap, tail, to) = cap - 1
           /\ RAge(cap, to, to) = 0
           /\ RAge(cap, to, tail) = 1
           /\ RAge(cap, tail, tail) = 0
           /\ \A s \in 0 .. cap - 1 :
                /\ RAge(cap, tail, s) \in 0 .. cap - 1
                /\ RAge(cap, tail, s) = cap - 1 <=> s = to
                /\ RAge(cap, tail, s) = 0 <=> s = tail
                /\ s # to => RAge(cap, to, s) = RAge(cap, tail, s) + 1
                /\ RAge(cap, to, s) = 1 <=> s = tail
  BY DEF RAge, RNext

\* When the tail moves back, every slot but the one it leaves is one younger.
LEMMA PrevAge ==
    ASSUME NEW cap \in Nat, cap > 1, NEW tail \in 0 .. cap - 1
    PROVE  LET to == RPrev(cap, tail) IN
           /\ to \in 0 .. cap - 1 /\ to # tail
           /\ RAge(cap, to, tail) = cap - 1
           /\ RAge(cap, tail, to) = 1
           /\ RAge(cap, to, to) = 0
           /\ RAge(cap, tail, tail) = 0
           /\ \A s \in 0 .. cap - 1 :
                /\ RAge(cap, tail, s) \in 0 .. cap - 1
                /\ RAge(cap, to, s) \in 0 .. cap - 1
                /\ s # tail => RAge(cap, tail, s) = RAge(cap, to, s) + 1
                /\ RAge(cap, to, s) = cap - 1 <=> s = tail
                /\ RAge(cap, tail, s) = 1 <=> s = to
  BY DEF RAge, RPrev

\* The new entry is the one after the tail.
LEMMA RingInsert ==
    ASSUME NEW l \in {"insert", "grown"}, NEW T, NEW at, NEW cap, NEW tail, NEW idx, NEW K, NEW V,
           NEW K2, NEW V2, RingTypes(T, cap, tail, K), Ring(l, T, at, cap, tail, idx, K, V),
           LET to == RNext(cap, tail) IN
             /\ l = "grown" \/ ~Used(K[to]) \/ V[to] = None
             /\ \A s \in 0 .. cap - 1 : K2[s] = (IF s = to THEN T ELSE K[s]) /\ V2[s] = V[s]
    PROVE  Ring("expose", T, idx[RNext(cap, tail)], cap, tail, idx, K2, V2)
<1> DEFINE to == RNext(cap, tail)
           end == REnd(l, T)
<1>1. T \in Nat /\ cap \in Nat /\ cap > 1 /\ tail \in 0 .. cap - 1
  BY DEF RingTypes
<1>2. RNew(T) /\ REnd("expose", T) = end /\ end = T /\ ~RExposed("expose", T)
  BY <1>1 DEF REnd, Ring, Stage, RExposed, Inserting
<1>3. to \in 0 .. cap - 1 /\ to # tail /\ RAge(cap, tail, to) = cap - 1
  BY <1>1, NextAge
<1>4. V[to] = None
  <2>1. RAge(cap, tail, to) <= RAge(cap, tail, to)
    BY <1>1, <1>3
  <2>2. V[to] # None => Used(K[to])
    BY <1>3, <2>1 DEF Ring, Filled1
  <2> QED BY <2>2 DEF Ring, Stage
<1>5. Used(T)
  BY <1>1, <1>2, Size DEF Used, RNew, INVALID_BLOCK_BASE
<1> HIDE DEF to, end
<1>6. Keyed(cap, tail, K2, V2, end)
  <2> SUFFICES ASSUME NEW s \in 0 .. cap - 1, Used(K2[s])
               PROVE  \/ RExact(cap, tail, K2, end, s)
                      \/ /\ RAge(cap, tail, s) = cap - 1 /\ V2[s] = None /\ K2[s] = end
    BY DEF Keyed
  <2>1. CASE s = to
    BY <2>1, <1>2, <1>3, <1>4 DEF to
  <2>2. CASE s # to
    BY <2>2 DEF Ring, Keyed, RExact, to, end
  <2> QED BY <2>1, <2>2
<1>7. Filled1(cap, tail, K2, V2)
  BY <1>4, <1>5 DEF Ring, Filled1, to
<1>8. end > 0 => Used(K2[tail])
  BY <1>1, <1>3 DEF Ring, end, to
<1>9. Stage("expose", T, idx[to], cap, tail, idx, K2, V2)
  BY <1>2, <1>3, <1>4 DEF Stage, to, Inserting
<1> QED BY <1>2, <1>6, <1>7, <1>8, <1>9 DEF Ring, to

\* No entry is free.
LEMMA RingFull ==
    ASSUME NEW T, NEW at, NEW cap, NEW tail, NEW idx, NEW K, NEW V, NEW l \in {"insert", "grown"},
           RingTypes(T, cap, tail, K), Ring(l, T, at, cap, tail, idx, K, V),
           LET to == RNext(cap, tail) IN ~(l = "grown" \/ ~Used(K[to]) \/ V[to] = None)
    PROVE  Ring("grow", T, at, cap, tail, idx, K, V)
<1> DEFINE to == RNext(cap, tail)
           end == REnd(l, T)
<1>1. T \in Nat /\ cap \in Nat /\ cap > 1 /\ tail \in 0 .. cap - 1
  BY DEF RingTypes
<1>2. RNew(T) /\ REnd("grow", T) = end /\ ~RExposed("grow", T)
  BY <1>1 DEF REnd, Ring, Stage, RExposed, Inserting
<1>3. to \in 0 .. cap - 1 /\ RAge(cap, tail, to) = cap - 1
  BY <1>1, NextAge
<1>4. ASSUME NEW s \in 0 .. cap - 1
      PROVE  Used(K[s]) /\ RExact(cap, tail, K, end, s)
  <2>1. RAge(cap, tail, s) <= cap - 1 /\ (RAge(cap, tail, s) = cap - 1 => s = to)
    BY <1>1, NextAge
  <2>2. V[to] # None
    OBVIOUS
  <2>3. Used(K[s])
    BY <1>3, <2>1, <2>2 DEF Ring, Filled1
  <2> QED BY <2>1, <2>2, <2>3 DEF Ring, Keyed
<1> QED BY <1>2, <1>4 DEF Ring, Stage, Inserting

\* The tail moves on.
LEMMA RingExpose ==
    ASSUME NEW T, NEW at, NEW cap, NEW tail, NEW idx, NEW K, NEW V,
           RingTypes(T, cap, tail, K), Ring("expose", T, at, cap, tail, idx, K, V)
    PROVE  Ring("pool", T, at, cap, RNext(cap, tail), idx, K, V)
<1> DEFINE to == RNext(cap, tail)
           end == REnd("expose", T)
           end2 == REnd("pool", T)
<1>1. T \in Nat /\ cap \in Nat /\ cap > 1 /\ tail \in 0 .. cap - 1
  BY DEF RingTypes
<1>2. RNew(T) /\ end = T /\ end2 = T + BLOCK_SIZE /\ RExposed("pool", T)
  BY <1>1, Size DEF REnd, Ring, Stage, RExposed, Inserting
<1>3. /\ to \in 0 .. cap - 1 /\ to # tail /\ RAge(cap, tail, to) = cap - 1
      /\ RAge(cap, to, to) = 0 /\ RAge(cap, tail, tail) = 0
      /\ \A s \in 0 .. cap - 1 :
                /\ RAge(cap, tail, s) \in 0 .. cap - 1
                /\ RAge(cap, tail, s) = cap - 1 => s = to
                /\ s # to => RAge(cap, to, s) = RAge(cap, tail, s) + 1
                /\ RAge(cap, to, s) = 1 <=> s = tail
  BY <1>1, NextAge
<1>4. V[to] = None /\ K[to] = T /\ at = idx[to]
  BY DEF Ring, Stage
<1>5. Used(T)
  BY <1>1, <1>2, Size DEF Used, RNew, INVALID_BLOCK_BASE
<1> HIDE DEF to, end, end2
<1>6. ASSUME NEW s \in 0 .. cap - 1, Used(K[s])
      PROVE  RExact(cap, to, K, end2, s)
  <2>1. CASE s = to
    BY <2>1, <1>1, <1>2, <1>3, <1>4, Size DEF RExact
  <2>2. CASE s # to
    <3>1. K[s] = end - BLOCK_SIZE * (RAge(cap, tail, s) + 1)
      BY <1>1, <1>3, <1>6, <2>2 DEF Ring, Keyed, RExact, end
    <3>2. RAge(cap, to, s) + 1 = (RAge(cap, tail, s) + 1) + 1 /\ RAge(cap, tail, s) + 1 \in Int
      BY <1>1, <1>3, <2>2
    <3>3. BLOCK_SIZE * (RAge(cap, to, s) + 1) = BLOCK_SIZE * (RAge(cap, tail, s) + 1) + BLOCK_SIZE
      BY <3>2, Times
    <3>4. BLOCK_SIZE * (RAge(cap, tail, s) + 1) \in Int
      BY <3>2, Times
    <3> QED BY <1>1, <1>2, <3>1, <3>3, <3>4, Size DEF RExact
  <2> QED BY <2>1, <2>2
<1>7. Filled1(cap, to, K, V)
  <2> SUFFICES ASSUME NEW s \in 0 .. cap - 1, NEW z \in 0 .. cap - 1, V[s] # None,
                      RAge(cap, to, z) <= RAge(cap, to, s)
               PROVE  Used(K[z])
    BY DEF Filled1
  <2>1. CASE z = to
    BY <2>1, <1>4, <1>5
  <2>2. CASE z # to
    <3>1. RAge(cap, tail, z) <= RAge(cap, tail, s)
      BY <1>1, <1>3, <1>4, <2>2
    <3> QED BY <3>1 DEF Ring, Filled1
  <2> QED BY <2>1, <2>2
<1>8. Shown("pool", cap, to, K, V, end2, at, idx)
  <2>1. end2 > BLOCK_SIZE => Used(K[tail])
    BY <1>1, <1>2, Size DEF Ring, end
  <2> QED BY <1>3, <1>4, <1>6, <2>1 DEF Shown
<1>9. Stage("pool", T, at, cap, to, idx, K, V)
  BY <1>2 DEF Stage
<1>10. Used(K[to])
  BY <1>4, <1>5
<1> QED BY <1>6, <1>7, <1>8, <1>9, <1>10 DEF Ring, Keyed, to, end2

\* The tail moves back.
LEMMA RingRewind ==
    ASSUME NEW T, NEW at, NEW cap, NEW tail, NEW idx, NEW K, NEW V,
           RingTypes(T, cap, tail, K), Ring("rewind", T, at, cap, tail, idx, K, V)
    PROVE  Ring("forget", T, at, cap, RPrev(cap, tail), idx, K, V)
<1> DEFINE to == RPrev(cap, tail)
           end == REnd("rewind", T)
           end2 == REnd("forget", T)
<1>1. T \in Nat /\ cap \in Nat /\ cap > 1 /\ tail \in 0 .. cap - 1 /\ \A s \in 0 .. cap - 1 : K[s] \in Nat
  BY DEF RingTypes
<1>2. RNew(T) /\ end2 = T /\ end = T + BLOCK_SIZE /\ RExposed("rewind", T) /\ ~RExposed("forget", T)
  BY <1>1, Size DEF REnd, Ring, Stage, RExposed, Inserting
<1>3. /\ to \in 0 .. cap - 1 /\ to # tail
      /\ RAge(cap, to, tail) = cap - 1 /\ RAge(cap, tail, to) = 1
      /\ RAge(cap, to, to) = 0 /\ RAge(cap, tail, tail) = 0
      /\ \A s \in 0 .. cap - 1 :
                /\ RAge(cap, tail, s) \in 0 .. cap - 1
                /\ RAge(cap, to, s) \in 0 .. cap - 1
                /\ s # tail => RAge(cap, tail, s) = RAge(cap, to, s) + 1
                /\ RAge(cap, to, s) = cap - 1 <=> s = tail
                /\ RAge(cap, tail, s) = 1 <=> s = to
  BY <1>1, PrevAge
<1>4. V[tail] = None /\ at = idx[tail] /\ Used(K[tail])
  BY <1>1, <1>2, Size DEF Ring, Shown
<1>5. \A s \in 0 .. cap - 1 : Used(K[s]) => K[s] = end - BLOCK_SIZE * (RAge(cap, tail, s) + 1)
  BY <1>2 DEF Ring, Shown, RExact
<1> HIDE DEF to, end, end2
<1>6. Keyed(cap, to, K, V, end2)
  <2> SUFFICES ASSUME NEW s \in 0 .. cap - 1, Used(K[s])
               PROVE  \/ RExact(cap, to, K, end2, s)
                      \/ /\ RAge(cap, to, s) = cap - 1 /\ V[s] = None /\ K[s] = end2
    BY DEF Keyed
  <2>1. CASE s = tail
    BY <2>1, <1>1, <1>2, <1>3, <1>4, <1>5, Size
  <2>2. CASE s # tail
    <3>2. RAge(cap, tail, s) + 1 = (RAge(cap, to, s) + 1) + 1 /\ RAge(cap, to, s) + 1 \in Int
      BY <1>1, <1>3, <2>2
    <3>3. BLOCK_SIZE * (RAge(cap, tail, s) + 1) = BLOCK_SIZE * (RAge(cap, to, s) + 1) + BLOCK_SIZE
      BY <3>2, Times
    <3>4. BLOCK_SIZE * (RAge(cap, to, s) + 1) \in Int
      BY <3>2, Times
    <3> QED BY <1>1, <1>2, <1>5, <3>3, <3>4, Size DEF RExact
  <2> QED BY <2>1, <2>2
<1>7. Filled1(cap, to, K, V)
  <2> SUFFICES ASSUME NEW s \in 0 .. cap - 1, NEW z \in 0 .. cap - 1, V[s] # None,
                      RAge(cap, to, z) <= RAge(cap, to, s)
               PROVE  Used(K[z])
    BY DEF Filled1
  <2>1. CASE z = tail
    BY <2>1, <1>4
  <2>2. CASE z # tail
    <3>1. RAge(cap, tail, z) <= RAge(cap, tail, s)
      BY <1>1, <1>3, <1>4, <2>2
    <3> QED BY <3>1 DEF Ring, Filled1
  <2> QED BY <2>1, <2>2
<1>8. end2 > 0 => Used(K[to])
  BY <1>1, <1>2, <1>3, Size DEF Ring, Shown, end
<1>9. Stage("forget", T, at, cap, to, idx, K, V)
  BY <1>1, <1>2, <1>4 DEF Stage
<1> QED BY <1>2, <1>6, <1>7, <1>8, <1>9 DEF Ring, to, end2

\* Remainders with a quotient.
LEMMA ModIs ==
    ASSUME NEW n \in Nat, n > 0, NEW q \in Int, NEW r \in 0 .. n - 1
    PROVE  (q * n + r) % n = r
  OBVIOUS

\* The remainder of the next number.
LEMMA ModNext ==
    ASSUME NEW n \in Nat, n > 1, NEW x \in Nat
    PROVE  (x + 1) % n = IF x % n = n - 1 THEN 0 ELSE (x % n) + 1
<1>1. PICK q \in Int, r \in 0 .. n - 1 : x = q * n + r /\ x % n = r
  <2>1. x % n \in 0 .. n - 1 /\ x \div n \in Int /\ x = (x \div n) * n + (x % n)
    OBVIOUS
  <2> QED BY <2>1
<1>2. CASE r = n - 1
  <2>1. x + 1 = (q + 1) * n + 0
    BY <1>1, <1>2
  <2>2. ((q + 1) * n + 0) % n = 0
    BY ModIs
  <2> QED BY <1>1, <1>2, <2>1, <2>2
<1>3. CASE r # n - 1
  <2>1. x + 1 = q * n + (r + 1) /\ r + 1 \in 0 .. n - 1
    BY <1>1, <1>3
  <2>2. (q * n + (r + 1)) % n = r + 1
    BY <2>1, ModIs
  <2> QED BY <1>1, <1>3, <2>1, <2>2
<1> QED BY <1>2, <1>3

\* The producer goes on and the ring is as it was.
LEMMA RingStep ==
    ASSUME NEW l, NEW T, NEW at, NEW cap, NEW tail, NEW idx, NEW K, NEW V, NEW l2, NEW T2, NEW at2,
           Ring(l, T, at, cap, tail, idx, K, V), REnd(l2, T2) = REnd(l, T),
           RExposed(l2, T2) => RExposed(l, T) /\ at2 = at /\ (l = "publish" => l2 = "publish"),
           Stage(l2, T2, at2, cap, tail, idx, K, V)
    PROVE  Ring(l2, T2, at2, cap, tail, idx, K, V)
  BY DEF Ring, Shown

\* Publish moves the tail index on, and the ring is as it was.
LEMMA RingPublish ==
    ASSUME NEW T \in Nat, NEW at, NEW at2, NEW cap, NEW tail, NEW idx, NEW K, NEW V,
           Ring("publish", T, at, cap, tail, idx, K, V)
    PROVE  Ring("idle", T + 1, at2, cap, tail, idx, K, V)
<1> DEFINE r == T % BLOCK_SIZE
           r1 == (T + 1) % BLOCK_SIZE
<1>1. r \in 0 .. BLOCK_SIZE - 1 /\ r1 = (IF r = BLOCK_SIZE - 1 THEN 0 ELSE r + 1)
  <2>1. T % BLOCK_SIZE \in 0 .. BLOCK_SIZE - 1
    BY Size, Modulo
  <2>2. (T + 1) % BLOCK_SIZE = IF T % BLOCK_SIZE = BLOCK_SIZE - 1 THEN 0 ELSE (T % BLOCK_SIZE) + 1
    BY Size, ModNext
  <2> QED BY <2>1, <2>2
<1> HIDE DEF r, r1
<1>2. REnd("idle", T + 1) = REnd("publish", T)
  <2>1. BlockBase(T) = T - r /\ BlockBase(T + 1) = T + 1 - r1
    BY Size DEF BlockBase, r, r1
  <2>2. (RNew(T) <=> r = 0) /\ (RNew(T + 1) <=> r1 = 0) /\ ~RExposed("idle", T + 1)
        /\ (RExposed("publish", T) <=> r = 0)
    BY DEF RNew, RExposed, r, r1
  <2> QED BY <1>1, <2>1, <2>2, Size DEF REnd
<1>3. ~RExposed("idle", T + 1) /\ Stage("idle", T + 1, at2, cap, tail, idx, K, V)
  BY DEF RExposed, Stage, Inserting
<1> QED BY <1>2, <1>3, RingStep

\* The new block is in its entry.
LEMMA RingConstruct ==
    ASSUME NEW T, NEW at, NEW cap, NEW tail, NEW idx, NEW K, NEW V, NEW V2, RNew(T),
           RingTypes(T, cap, tail, K), Ring("construct", T, at, cap, tail, idx, K, V),
           \A s \in 0 .. cap - 1 : idx[s] # at => V2[s] = V[s]
    PROVE  Ring("publish", T, at, cap, tail, idx, K, V2)
<1> DEFINE end == REnd("construct", T)
<1>1. T \in Nat /\ cap \in Nat /\ cap > 1 /\ tail \in 0 .. cap - 1
  BY DEF RingTypes
<1>2. /\ RExposed("construct", T) /\ RExposed("publish", T)
      /\ end = T + BLOCK_SIZE /\ REnd("publish", T) = end
  BY DEF RExposed, REnd
<1>3. Shown("construct", cap, tail, K, V, end, at, idx)
  BY <1>2 DEF Ring
<1>4. Used(K[tail])
  BY <1>1, <1>2, Size DEF Ring
<1>5. \A s \in 0 .. cap - 1 : /\ RAge(cap, tail, s) \in 0 .. cap - 1
                              /\ RAge(cap, tail, s) = 0 <=> s = tail
  BY <1>1, NextAge
<1>6. \A s \in 0 .. cap - 1 : s # tail => V2[s] = V[s]
  BY <1>1, <1>3 DEF Shown, Ring, Injective
<1> HIDE DEF end
<1>7. Keyed(cap, tail, K, V2, end)
  BY <1>3 DEF Keyed, Shown
<1>8. Filled1(cap, tail, K, V2)
  <2> SUFFICES ASSUME NEW s \in 0 .. cap - 1, NEW z \in 0 .. cap - 1, V2[s] # None,
                      RAge(cap, tail, z) <= RAge(cap, tail, s)
               PROVE  Used(K[z])
    BY DEF Filled1
  <2>1. CASE s = tail
    BY <2>1, <1>1, <1>4, <1>5
  <2>2. CASE s # tail
    BY <2>2, <1>6 DEF Ring, Filled1
  <2> QED BY <2>1, <2>2
<1>9. Shown("publish", cap, tail, K, V2, end, at, idx)
  BY <1>3 DEF Shown
<1>10. Stage("publish", T, at, cap, tail, idx, K, V2)
  BY DEF Stage, Inserting
<1> QED BY <1>2, <1>4, <1>7, <1>8, <1>9, <1>10 DEF Ring

\* A block leaves its entry.
LEMMA RingRelease ==
    ASSUME NEW l, NEW T, NEW at, NEW cap, NEW tail, NEW idx, NEW K, NEW V, NEW V2,
           RingTypes(T, cap, tail, K), Ring(l, T, at, cap, tail, idx, K, V),
           \A s \in 0 .. cap - 1 : V2[s] # V[s] => V2[s] = None
    PROVE  Ring(l, T, at, cap, tail, idx, K, V2)
<1>1. T \in Nat /\ cap \in Nat /\ cap > 1 /\ tail \in 0 .. cap - 1 /\ RNext(cap, tail) \in 0 .. cap - 1
  BY NextAge DEF RingTypes
<1>2. \A s \in 0 .. cap - 1 : V[s] = None => V2[s] = None
  OBVIOUS
<1>3. \A s \in 0 .. cap - 1 : V2[s] # None => V[s] # None
  BY <1>2
<1>4. Keyed(cap, tail, K, V2, REnd(l, T))
  BY <1>2 DEF Keyed, Ring
<1>5. Filled1(cap, tail, K, V2)
  BY <1>3 DEF Filled1, Ring
<1>6. RExposed(l, T) => Shown(l, cap, tail, K, V2, REnd(l, T), at, idx)
  BY <1>1, <1>2 DEF Shown, Ring
<1>7. Stage(l, T, at, cap, tail, idx, K, V2)
  BY <1>1, <1>2 DEF Stage, Ring
<1> QED BY <1>4, <1>5, <1>6, <1>7 DEF Ring

\* The i-th slot after the tail, counted from the oldest.
LEMMA Wrap ==
    ASSUME NEW cap \in Nat, cap > 1, NEW tail \in 0 .. cap - 1, NEW i \in 0 .. cap - 1
    PROVE  (tail + 1 + i) % cap = IF tail + 1 + i < cap THEN tail + 1 + i ELSE tail + 1 + i - cap
<1>1. CASE tail + 1 + i < cap
  BY <1>1
<1>2. CASE tail + 1 + i >= cap
  <2>1. tail + 1 + i = (tail + 1 + i - cap) + 1 * cap /\ tail + 1 + i - cap \in 0 .. cap - 1
    BY <1>2
  <2> QED BY <1>2, <2>1
<1> QED BY <1>1, <1>2

\* The slots of the new ring that come from the old one, oldest first.
Turned(cap, tail, i) ==
    IF tail + 1 + i < cap THEN tail + 1 + i ELSE tail + 1 + i - cap

\* The slots of the new ring are in the order of their ages in the old one.
LEMMA TurnedAge ==
    ASSUME NEW cap \in Nat, cap > 1, NEW tail \in 0 .. cap - 1
    PROVE  /\ \A i \in 0 .. cap - 1 :
                /\ Turned(cap, tail, i) \in 0 .. cap - 1
                /\ RAge(cap, tail, Turned(cap, tail, i)) = cap - 1 - i
                /\ RAge(2 * cap, cap - 1, i) = cap - 1 - i
           /\ \A i, j \in 0 .. cap - 1 : Turned(cap, tail, i) = Turned(cap, tail, j) => i = j
           /\ \A s \in 0 .. cap - 1 : \E i \in 0 .. cap - 1 : Turned(cap, tail, i) = s
           /\ \A i \in cap .. 2 * cap - 1 : RAge(2 * cap, cap - 1, i) >= cap
           /\ RNext(2 * cap, cap - 1) = cap
<1>1. \A i \in 0 .. cap - 1 :
                /\ Turned(cap, tail, i) \in 0 .. cap - 1
                /\ RAge(cap, tail, Turned(cap, tail, i)) = cap - 1 - i
                /\ RAge(2 * cap, cap - 1, i) = cap - 1 - i
  BY DEF Turned, RAge
<1>2. \A i, j \in 0 .. cap - 1 : Turned(cap, tail, i) = Turned(cap, tail, j) => i = j
  BY DEF Turned
<1>3. ASSUME NEW s \in 0 .. cap - 1 PROVE \E i \in 0 .. cap - 1 : Turned(cap, tail, i) = s
  <2> DEFINE i == IF s > tail THEN s - tail - 1 ELSE s + cap - tail - 1
  <2>1. i \in 0 .. cap - 1 /\ Turned(cap, tail, i) = s
    BY DEF Turned
  <2> QED BY <2>1
<1>4. \A i \in cap .. 2 * cap - 1 : RAge(2 * cap, cap - 1, i) >= cap
  BY DEF RAge
<1>5. RNext(2 * cap, cap - 1) = cap
  BY DEF RNext
<1> QED BY <1>1, <1>2, <1>3, <1>4, <1>5

\* The ring with twice the slots has the keys of the old one in the same
\* order, and free slots after the tail.
LEMMA RingGrow ==
    ASSUME NEW T, NEW at, NEW cap, NEW tail, NEW idx, NEW K, NEW V, NEW n \in Nat, NEW idx2, NEW K2, NEW V2,
           RingTypes(T, cap, tail, K), Ring("grow", T, at, cap, tail, idx, K, V),
           \A s \in 0 .. cap - 1 : idx[s] \in 1 .. n,
           \A i \in 0 .. cap - 1 : LET s == Turned(cap, tail, i) IN
             idx2[i] = idx[s] /\ K2[i] = K[s] /\ V2[i] = V[s],
           \A i \in cap .. 2 * cap - 1 :
             idx2[i] = n + i - cap + 1 /\ K2[i] = INVALID_BLOCK_BASE /\ V2[i] = None
    PROVE  Ring("grown", T, at, 2 * cap, cap - 1, idx2, K2, V2)
<1> DEFINE end == REnd("grow", T)
           c2 == 2 * cap
<1>1. T \in Nat /\ cap \in Nat /\ cap > 1 /\ tail \in 0 .. cap - 1 /\ c2 \in Nat /\ c2 > 1
      /\ cap - 1 \in 0 .. c2 - 1
  BY DEF RingTypes
<1>2. REnd("grown", T) = end /\ ~RExposed("grown", T) /\ RNew(T)
  BY DEF REnd, RExposed, Ring, Stage, Inserting
<1>3. \A s \in 0 .. cap - 1 : Used(K[s]) /\ K[s] = end - BLOCK_SIZE * (RAge(cap, tail, s) + 1)
  BY DEF Ring, Stage, RExact
<1>4. \A i \in 0 .. c2 - 1 : i \in 0 .. cap - 1 \/ i \in cap .. 2 * cap - 1
  BY <1>1
<1>5. \A i \in 0 .. cap - 1 :
        /\ Turned(cap, tail, i) \in 0 .. cap - 1
        /\ RAge(cap, tail, Turned(cap, tail, i)) = RAge(c2, cap - 1, i)
        /\ Used(K2[i]) /\ K2[i] = end - BLOCK_SIZE * (RAge(c2, cap - 1, i) + 1)
  <2> SUFFICES ASSUME NEW i \in 0 .. cap - 1
               PROVE  /\ Turned(cap, tail, i) \in 0 .. cap - 1
                      /\ RAge(cap, tail, Turned(cap, tail, i)) = RAge(c2, cap - 1, i)
                      /\ Used(K2[i]) /\ K2[i] = end - BLOCK_SIZE * (RAge(c2, cap - 1, i) + 1)
    OBVIOUS
  <2>1. /\ Turned(cap, tail, i) \in 0 .. cap - 1
        /\ RAge(cap, tail, Turned(cap, tail, i)) = cap - 1 - i
        /\ RAge(c2, cap - 1, i) = cap - 1 - i
    BY <1>1, TurnedAge
  <2>2. K2[i] = K[Turned(cap, tail, i)]
    OBVIOUS
  <2> HIDE DEF end, c2
  <2> QED BY <2>1, <2>2, <1>3
<1>6. \A i \in cap .. 2 * cap - 1 : ~Used(K2[i]) /\ V2[i] = None
  BY DEF Used
<1> HIDE DEF end
<1>7. Injective(c2, idx2)
  <2> SUFFICES ASSUME NEW s \in 0 .. c2 - 1, NEW z \in 0 .. c2 - 1, idx2[s] = idx2[z]
               PROVE  s = z
    BY DEF Injective
  <2>1. CASE s \in 0 .. cap - 1 /\ z \in 0 .. cap - 1
    <3>1. idx[Turned(cap, tail, s)] = idx[Turned(cap, tail, z)]
      BY <2>1
    <3>2. Turned(cap, tail, s) = Turned(cap, tail, z)
      BY <1>5, <2>1, <3>1 DEF Ring, Injective
    <3> QED BY <1>1, <2>1, <3>2, TurnedAge
  <2>2. ASSUME NEW i \in 0 .. cap - 1, NEW j \in cap .. 2 * cap - 1 PROVE idx2[i] # idx2[j]
    <3>1. idx2[i] \in 1 .. n
      BY <1>5
    <3>2. idx2[j] = n + j - cap + 1
      OBVIOUS
    <3> QED BY <1>1, <3>1, <3>2
  <2>3. CASE s \in cap .. 2 * cap - 1 /\ z \in cap .. 2 * cap - 1
    BY <1>1, <2>3
  <2> QED BY <1>4, <2>1, <2>2, <2>3
<1>8. Keyed(c2, cap - 1, K2, V2, end)
  BY <1>4, <1>5, <1>6 DEF Keyed, RExact
<1>9. Filled1(c2, cap - 1, K2, V2)
  <2> SUFFICES ASSUME NEW s \in 0 .. c2 - 1, NEW z \in 0 .. c2 - 1, V2[s] # None,
                      RAge(c2, cap - 1, z) <= RAge(c2, cap - 1, s)
               PROVE  Used(K2[z])
    BY DEF Filled1
  <2>1. s \in 0 .. cap - 1
    BY <1>4, <1>6
  <2>2. RAge(c2, cap - 1, s) = cap - 1 - s
    BY <1>1, <2>1, TurnedAge
  <2>3. CASE z \in cap .. 2 * cap - 1
    <3>1. RAge(c2, cap - 1, z) >= cap /\ RAge(c2, cap - 1, z) \in Int
      BY <1>1, <2>3 DEF RAge
    <3> QED BY <1>1, <2>1, <2>2, <3>1
  <2> QED BY <1>4, <1>5, <2>3
<1>10. Used(K2[cap - 1])
  BY <1>1, <1>5
<1>11. Stage("grown", T, at, c2, cap - 1, idx2, K2, V2)
  <2>1. RNext(c2, cap - 1) = cap /\ cap \in cap .. 2 * cap - 1
    BY <1>1, TurnedAge
  <2> QED BY <1>2, <1>6, <2>1 DEF Stage
<1> QED BY <1>2, <1>7, <1>8, <1>9, <1>10, <1>11 DEF Ring

-----------------------------------------------------------------------------
(***************************************************************************)
(* An index that was replaced: its slots come every cap blocks, and cap    *)
(* divides the size of the one in use, so that the entry a consumer finds  *)
(* from it is the same, laps later.                                        *)
(***************************************************************************)

\* A new key in an entry of an old index is laps of the current one later.
LEMMA LapInsert ==
    ASSUME NEW cap \in Nat, NEW big \in Nat, NEW E, NEW E2, LapOf(cap, big, E),
           \A s \in 0 .. cap - 1 : Used(E2[s]) /\ (E2[s] = E[s] \/ E2[s] = E[s] + BLOCK_SIZE * big)
    PROVE  LapOf(cap, big, E2)
<1>1. PICK d \in Nat : big = cap * d
  BY DEF LapOf
<1>2. PICK k \in Int : \A s \in 0 .. cap - 1 : \E m \in Int : E[s] = k + BLOCK_SIZE * (s + cap * m)
  BY DEF LapOf
<1>3. ASSUME NEW s \in 0 .. cap - 1
      PROVE  \E m \in Int : E2[s] = k + BLOCK_SIZE * (s + cap * m)
  <2>1. PICK m \in Int : E[s] = k + BLOCK_SIZE * (s + cap * m)
    BY <1>2
  <2>2. CASE E2[s] = E[s]
    BY <2>1, <2>2
  <2>3. CASE E2[s] = E[s] + BLOCK_SIZE * big
    <3>1. cap * (m + d) = cap * m + big /\ cap * m \in Int
      BY <1>1
    <3>2. s + cap * (m + d) = (s + cap * m) + big
      BY <3>1
    <3>3. BLOCK_SIZE * ((s + cap * m) + big) = BLOCK_SIZE * (s + cap * m) + BLOCK_SIZE * big
      <4> DEFINE x == s + cap * m
      <4>1. x \in Int
        BY <3>1
      <4> HIDE DEF x
      <4>2. BLOCK_SIZE * (x + big) = BLOCK_SIZE * x + BLOCK_SIZE * big
        BY <4>1, Size
      <4> QED BY <4>2 DEF x
    <3>4. BLOCK_SIZE * (s + cap * m) \in Int /\ BLOCK_SIZE * big \in Int
      <4> DEFINE x == s + cap * m
      <4>1. x \in Int
        BY <3>1
      <4> HIDE DEF x
      <4>2. BLOCK_SIZE * x \in Int /\ BLOCK_SIZE * big \in Int
        BY <4>1, Size
      <4> QED BY <4>2 DEF x
    <3>5. E2[s] = k + BLOCK_SIZE * (s + cap * (m + d))
      BY <2>1, <2>3, <3>2, <3>3, <3>4
    <3>6. m + d \in Int
      OBVIOUS
    <3> QED BY <3>5, <3>6
  <2> QED BY <2>2, <2>3
<1> QED BY <1>1, <1>3 DEF LapOf

\* An old index stays one when the current one is doubled.
LEMMA LapGrow ==
    ASSUME NEW cap \in Nat, NEW big \in Nat, NEW E, LapOf(cap, big, E)
    PROVE  LapOf(cap, 2 * big, E)
<1>1. PICK d \in Nat : big = cap * d
  BY DEF LapOf
<1>2. 2 * big = cap * (2 * d) /\ 2 * d \in Nat
  BY <1>1
<1>3. \E e \in Nat : 2 * big = cap * e
  BY <1>2
<1> QED BY <1>3 DEF LapOf

\* The keys of a ring follow the slots, lap by lap.
LEMMA RingPhase ==
    ASSUME NEW l, NEW T, NEW at, NEW cap, NEW tail, NEW idx, NEW K, NEW V,
           RingTypes(T, cap, tail, K), Ring(l, T, at, cap, tail, idx, K, V)
    PROVE  \E k \in Int : \A s \in 0 .. cap - 1 : Used(K[s]) => \E m \in Int :
             K[s] = k + BLOCK_SIZE * (s + cap * m)
<1> DEFINE end == REnd(l, T)
           k == end - BLOCK_SIZE * (tail + 1)
<1>1. T \in Nat /\ cap \in Nat /\ cap > 1 /\ tail \in 0 .. cap - 1 /\ end \in Nat
  BY EndIs DEF RingTypes
<1>2. Keyed(cap, tail, K, V, end)
  BY DEF Ring
<1> HIDE DEF end
<1>3. BLOCK_SIZE * (tail + 1) \in Int /\ k \in Int
  <2>1. BLOCK_SIZE * (tail + 1) \in Int
    BY <1>1, Size
  <2> QED BY <1>1, <2>1
<1>4. \A n \in Int : end - BLOCK_SIZE * (tail - n + 1) = k + BLOCK_SIZE * n
  BY <1>1, Size
<1>5. ASSUME NEW s \in 0 .. cap - 1, Used(K[s])
      PROVE  \E m \in Int : K[s] = k + BLOCK_SIZE * (s + cap * m)
  <2>1. CASE RExact(cap, tail, K, end, s) /\ s <= tail
    <3>1. K[s] = k + BLOCK_SIZE * s
      BY <1>1, <1>4, <2>1 DEF RExact, RAge
    <3>2. s + cap * 0 = s
      BY <1>1
    <3> HIDE DEF k
    <3> QED BY <3>1, <3>2
  <2>2. CASE RExact(cap, tail, K, end, s) /\ ~(s <= tail)
    <3>1. RAge(cap, tail, s) + 1 = tail - (s - cap) + 1 /\ s - cap \in Int
      BY <1>1, <2>2 DEF RAge
    <3>2. K[s] = k + BLOCK_SIZE * (s - cap)
      BY <1>4, <2>2, <3>1 DEF RExact
    <3>3. s + cap * (-1) = s - cap
      BY <1>1
    <3> HIDE DEF k
    <3> QED BY <3>2, <3>3
  <2>3. CASE RAge(cap, tail, s) = cap - 1 /\ K[s] = end
    <3>1. s = tail + 1 \/ s = tail + 1 - cap
      BY <1>1, <2>3 DEF RAge
    <3>2. end = k + BLOCK_SIZE * (tail + 1)
      BY <1>1, <1>3
    <3> HIDE DEF k
    <3>3. CASE s = tail + 1
      <4>1. s + cap * 0 = tail + 1
        BY <1>1, <3>3
      <4> QED BY <2>3, <3>2, <4>1
    <3>4. CASE s = tail + 1 - cap
      <4>1. s + cap * 1 = tail + 1
        BY <1>1, <3>4
      <4> QED BY <2>3, <3>2, <4>1
    <3> QED BY <3>1, <3>3, <3>4
  <2> QED BY <1>2, <1>5, <2>1, <2>2, <2>3 DEF Keyed
<1> HIDE DEF k
<1> QED BY <1>3, <1>5

\* The index that new_block_index replaces becomes an old one.
LEMMA RingLap ==
    ASSUME NEW T, NEW at, NEW cap, NEW tail, NEW idx, NEW K, NEW V,
           RingTypes(T, cap, tail, K), Ring("grow", T, at, cap, tail, idx, K, V)
    PROVE  LapOf(cap, 2 * cap, K)
<1>1. \A s \in 0 .. cap - 1 : Used(K[s])
  BY DEF Ring, Stage
<1>2. cap \in Nat /\ 2 * cap = cap * 2
  BY DEF RingTypes
<1>3. \E d \in Nat : 2 * cap = cap * d
  BY <1>2
<1> QED BY <1>1, <1>3, RingPhase DEF LapOf

\* Division undoes multiplication.
LEMMA Cancels == ASSUME NEW b \in Nat, b > 0, NEW x \in Int PROVE (b * x) \div b = x
  OBVIOUS

-----------------------------------------------------------------------------
(***************************************************************************)
(* The rings in the state, and what each action does to them.              *)
(***************************************************************************)

\* The slot after the tail, as the code computes it.
LEMMA NextIs ==
    ASSUME NEW cap \in Nat, cap > 1, NEW tail \in 0 .. cap - 1
    PROVE  (tail + 1) % cap = RNext(cap, tail)
<1>1. CASE tail + 1 < cap
  <2> DEFINE a == tail + 1
  <2>1. a \in 0 .. cap - 1 /\ 0 * cap + a = a
    BY <1>1
  <2> HIDE DEF a
  <2>2. (0 * cap + a) % cap = a
    BY <2>1, ModIs
  <2>3. a % cap = a
    BY <2>1, <2>2
  <2> QED BY <1>1, <2>3 DEF RNext, a
<1>2. CASE ~(tail + 1 < cap)
  <2>1. tail + 1 = 1 * cap + 0 /\ 0 \in 0 .. cap - 1 /\ 1 \in Int
    BY <1>2
  <2>2. (1 * cap + 0) % cap = 0
    BY <2>1, ModIs
  <2> QED BY <1>2, <2>1, <2>2 DEF RNext
<1> QED BY <1>1, <1>2

\* The slot before the tail, as the code computes it.
LEMMA PrevIs ==
    ASSUME NEW cap \in Nat, cap > 1, NEW tail \in 0 .. cap - 1
    PROVE  (tail + cap - 1) % cap = RPrev(cap, tail)
<1>1. CASE tail = 0
  <2> DEFINE a == cap - 1
  <2>1. a \in 0 .. cap - 1 /\ 0 * cap + a = a
    OBVIOUS
  <2>0. tail + cap - 1 = a
    BY <1>1
  <2> HIDE DEF a
  <2>2. (0 * cap + a) % cap = a
    BY <2>1, ModIs
  <2>3. a % cap = a
    BY <2>1, <2>2
  <2> QED BY <1>1, <2>0, <2>3 DEF RPrev, a
<1>2. CASE tail > 0
  <2> DEFINE a == tail - 1
  <2>1. a \in 0 .. cap - 1 /\ tail + cap - 1 = 1 * cap + a
    BY <1>2
  <2> HIDE DEF a
  <2>2. (1 * cap + a) % cap = a
    BY <2>1, ModIs
  <2>3. (tail + cap - 1) % cap = a
    BY <2>1, <2>2
  <2> QED BY <1>2, <2>3 DEF RPrev, a
<1> QED BY <1>1, <1>2

\* The current block index of p is a ring of its type.
LEMMA CurIs ==
    ASSUME Types, NEW p \in Producers
    PROVE  /\ RingTypes(tailIndex[p], Capacity(Cur(p)), Cur(p).tail, KeysOf(p))
           /\ Cur(p).index \in [0 .. Capacity(Cur(p)) - 1 -> 1 .. Len(entry[p])]
           /\ \A s \in 0 .. Capacity(Cur(p)) - 1 :
                /\ Cur(p).index[s] \in 1 .. Len(entry[p])
                /\ KeysOf(p)[s] = entry[p][Cur(p).index[s]].key
                /\ ValuesOf(p)[s] = entry[p][Cur(p).index[s]].value
           /\ NextSlot(Cur(p)) = RNext(Capacity(Cur(p)), Cur(p).tail)
           /\ (Cur(p).tail + Capacity(Cur(p)) - 1) % Capacity(Cur(p))
                = RPrev(Capacity(Cur(p)), Cur(p).tail)
           /\ Current(p) = Len(blockIndex[p]) /\ Current(p) \in Nat /\ Current(p) >= 1
           /\ Cur(p) = blockIndex[p][Current(p)]
           /\ Len(entry[p]) \in Nat
           /\ Capacity(Cur(p)) \in Nat /\ Capacity(Cur(p)) > 1
           /\ Cur(p).tail \in 0 .. Capacity(Cur(p)) - 1
<1> DEFINE h == Cur(p)
           cap == Capacity(h)
           n == Len(entry[p])
           t == h.tail
           q == entry[p]
           x == h.index
<1>1. /\ t \in 0 .. cap - 1 /\ cap \in Nat /\ cap > 1 /\ n \in Nat
      /\ x \in [0 .. cap - 1 -> 1 .. n]
      /\ Current(p) \in Nat /\ Current(p) >= 1 /\ h = blockIndex[p][Current(p)]
  BY CurTyped DEF Cur, Slots
<1>2. q \in Seq(Entry) /\ tailIndex[p] \in Nat
  BY DEF Types, IndexTypes, CountTypes
<1>3. \A s \in 0 .. cap - 1 :
                /\ KeysOf(p)[s] = q[x[s]].key
                /\ ValuesOf(p)[s] = q[x[s]].value
  BY DEF KeysOf, ValuesOf, Slot
<1>4. Current(p) = Len(blockIndex[p])
  BY DEF Current
<1>5. NextSlot(h) = (t + 1) % cap
  BY DEF NextSlot
<1>6. n = Len(q)
  OBVIOUS
<1>7. Entry = [key : Nat, value : MaybeBlock]
  BY DEF Entry
<1> HIDE DEF h, cap, n, t, q, x
<1>8. \A s \in 0 .. cap - 1 : x[s] \in 1 .. n
  BY <1>1
<1>9. \A e \in 1 .. n : q[e] \in Entry
  BY <1>1, <1>2, <1>6
<1>10. \A e \in 1 .. n : q[e].key \in Nat
  BY <1>7, <1>9
<1>11. \A s \in 0 .. cap - 1 : KeysOf(p)[s] \in Nat
  BY <1>3, <1>8, <1>10
<1>12. RingTypes(tailIndex[p], cap, t, KeysOf(p))
  BY <1>1, <1>2, <1>11 DEF RingTypes
<1>13. (t + 1) % cap = RNext(cap, t) /\ (t + cap - 1) % cap = RPrev(cap, t)
  BY <1>1, NextIs, PrevIs
<1> QED BY Zenon, <1>1, <1>3, <1>4, <1>5, <1>8, <1>12, <1>13 DEF h, cap, n, t, q, x

\* The block index of p and its entries are as they were.
LEMMA RingKept ==
    ASSUME NEW p, blockIndex'[p] = blockIndex[p], entry'[p] = entry[p]
    PROVE  /\ RingOf(p)' = Ring(pc'[p], tailIndex'[p], loc'[p].at, Capacity(Cur(p)),
                             Cur(p).tail, Cur(p).index, KeysOf(p), ValuesOf(p))
           /\ Covers(p)' = Covers(p)
           /\ Laps(p)' = Laps(p)
<1>1. Cur(p)' = Cur(p) /\ KeysOf(p)' = KeysOf(p) /\ ValuesOf(p)' = ValuesOf(p)
  BY DEF Cur, KeysOf, ValuesOf, Slot
<1>2. Covers(p)' = Covers(p)
  BY <1>1 DEF Covers
<1>3. \A i : OldKeys(p, i)' = OldKeys(p, i)
  BY DEF OldKeys, EntryAt
<1>4. Laps(p)' = Laps(p)
  BY <1>1, <1>3 DEF Laps
<1> QED BY <1>1, <1>2, <1>4 DEF RingOf

\* A producer that does not move keeps its index.
LEMMA IndexedSame ==
    ASSUME NEW p, blockIndex'[p] = blockIndex[p], entry'[p] = entry[p], pc'[p] = pc[p],
           loc'[p] = loc[p], tailIndex'[p] = tailIndex[p], Indexed1(p)
    PROVE  Indexed1(p)'
<1>1. Covers(p)' /\ Laps(p)'
  BY RingKept DEF Indexed1
<1>2. RingOf(p)'
  BY RingKept DEF Indexed1, RingOf
<1> QED BY <1>1, <1>2 DEF Indexed1

\* A producer that moves within the stages of the ring keeps its index.
LEMMA IndexedStep ==
    ASSUME NEW p, blockIndex'[p] = blockIndex[p], entry'[p] = entry[p], Indexed1(p),
           REnd(pc'[p], tailIndex'[p]) = REnd(pc[p], tailIndex[p]),
           RExposed(pc'[p], tailIndex'[p]) => /\ RExposed(pc[p], tailIndex[p])
                 /\ loc'[p].at = loc[p].at /\ (pc[p] = "publish" => pc'[p] = "publish"),
           Stage(pc'[p], tailIndex'[p], loc'[p].at, Capacity(Cur(p)), Cur(p).tail, Cur(p).index,
                 KeysOf(p), ValuesOf(p))
    PROVE  Indexed1(p)'
<1>1. Covers(p)' /\ Laps(p)'
  BY RingKept DEF Indexed1
<1>2. RingOf(p)
  BY DEF Indexed1
<1>3. RingOf(p)'
  BY <1>2, RingKept, RingStep DEF RingOf
<1> QED BY <1>1, <1>3 DEF Indexed1

\* An entry of p gets or loses its block.
LEMMA RingValued ==
    ASSUME Types, NEW p \in Producers, NEW e, NEW b \in MaybeBlock,
           SetValue(p, e, b), blockIndex' = blockIndex
    PROVE  \A q \in Producers :
             /\ q # p => blockIndex'[q] = blockIndex[q] /\ entry'[q] = entry[q]
             /\ Cur(q)' = Cur(q)
             /\ KeysOf(q)' = KeysOf(q)
             /\ \A s \in 0 .. Capacity(Cur(q)) - 1 :
                  ValuesOf(q)'[s] = IF q = p /\ Cur(q).index[s] = e THEN b
                                    ELSE ValuesOf(q)[s]
             /\ Covers(q) => Covers(q)'
             /\ Laps(q) => Laps(q)'
<1> SUFFICES ASSUME NEW q \in Producers
             PROVE  /\ q # p => blockIndex'[q] = blockIndex[q] /\ entry'[q] = entry[q]
                    /\ Cur(q)' = Cur(q)
                    /\ KeysOf(q)' = KeysOf(q)
                    /\ \A s \in 0 .. Capacity(Cur(q)) - 1 :
                         ValuesOf(q)'[s] = IF q = p /\ Cur(q).index[s] = e THEN b
                                           ELSE ValuesOf(q)[s]
                    /\ Covers(q) => Covers(q)'
                    /\ Laps(q) => Laps(q)'
  OBVIOUS
<1>1. /\ Len(entry'[q]) = Len(entry[q])
      /\ \A i \in 1 .. Len(entry[q]) :
           /\ entry'[q][i].value = IF q = p /\ i = e THEN b ELSE entry[q][i].value
           /\ entry'[q][i].key = entry[q][i].key
  BY ValueSet
<1>2. q # p => blockIndex'[q] = blockIndex[q] /\ entry'[q] = entry[q]
  BY DEF SetValue, Types, IndexTypes
<1>3. Cur(q)' = Cur(q)
  BY DEF Cur
<1>4. \A s \in 0 .. Capacity(Cur(q)) - 1 : Cur(q).index[s] \in 1 .. Len(entry[q])
  BY CurIs
<1>5. KeysOf(q)' = KeysOf(q)
  BY <1>1, <1>3, <1>4 DEF KeysOf, Slot
<1>6. \A s \in 0 .. Capacity(Cur(q)) - 1 :
         ValuesOf(q)'[s] = IF q = p /\ Cur(q).index[s] = e THEN b ELSE ValuesOf(q)[s]
  BY <1>1, <1>3, <1>4 DEF ValuesOf, Slot
<1>7. Covers(q) => Covers(q)'
  BY <1>1, <1>3 DEF Covers
<1>8. ASSUME Laps(q) PROVE Laps(q)'
  <2>1. ASSUME NEW i \in 1 .. Len(blockIndex[q]) - 1
        PROVE  OldKeys(q, i)' = OldKeys(q, i)
    <3> DEFINE h == blockIndex[q][i]
    <3>1. i \in 1 .. Len(blockIndex[q])
      BY DEF Types, IndexTypes
    <3>2. \A s \in 0 .. Capacity(h) - 1 : h.index[s] \in 1 .. Len(entry[q])
      BY <3>1 DEF Types, IndexTypes
    <3> QED BY <1>1, <3>2 DEF OldKeys, EntryAt
  <2> QED BY <1>3, <1>8, <2>1 DEF Laps
<1> QED BY <1>2, <1>3, <1>5, <1>6, <1>7, <1>8

\* A block leaves an entry, and the producer stays where it is.
LEMMA IndexedReleased ==
    ASSUME Types, NEW p \in Producers, NEW e, SetValue(p, e, None), blockIndex' = blockIndex,
           tailIndex' = tailIndex, NEW q \in Producers, Indexed1(q), pc'[q] = pc[q], loc'[q] = loc[q]
    PROVE  Indexed1(q)'
<1>0. None \in MaybeBlock
  BY DEF MaybeBlock
<1>1. /\ Cur(q)' = Cur(q)
      /\ KeysOf(q)' = KeysOf(q)
      /\ \A s \in 0 .. Capacity(Cur(q)) - 1 :
           ValuesOf(q)'[s] = IF q = p /\ Cur(q).index[s] = e THEN None
                             ELSE ValuesOf(q)[s]
      /\ Covers(q)' /\ Laps(q)'
  BY <1>0, RingValued DEF Indexed1
<1>2. \A s \in 0 .. Capacity(Cur(q)) - 1 : ValuesOf(q)'[s] # ValuesOf(q)[s] => ValuesOf(q)'[s] = None
  BY <1>1
<1>3. Ring(pc[q], tailIndex[q], loc[q].at, Capacity(Cur(q)), Cur(q).tail, Cur(q).index, KeysOf(q), ValuesOf(q))
  BY DEF Indexed1, RingOf
<1>4. RingTypes(tailIndex[q], Capacity(Cur(q)), Cur(q).tail, KeysOf(q))
  BY CurIs
<1> DEFINE V2 == ValuesOf(q)'
<1>5. V2 = ValuesOf(q)'
  OBVIOUS
<1> HIDE DEF V2
<1>6. Ring(pc[q], tailIndex[q], loc[q].at, Capacity(Cur(q)), Cur(q).tail, Cur(q).index, KeysOf(q), V2)
  BY <1>2, <1>3, <1>4, <1>5, RingRelease
<1>7. RingOf(q)'
  BY <1>1, <1>5, <1>6 DEF RingOf
<1> QED BY <1>1, <1>7 DEF Indexed1

\* The new block of p gets into its entry.
LEMMA IndexedConstructed ==
    ASSUME Types, NEW p \in Producers, NEW b \in MaybeBlock, SetValue(p, loc[p].at, b), blockIndex' = blockIndex,
           tailIndex' = tailIndex, Indexed1(p), pc[p] = "construct", pc'[p] = "publish", New(p), loc'[p] = loc[p]
    PROVE  Indexed1(p)'
<1>1. /\ Cur(p)' = Cur(p)
      /\ KeysOf(p)' = KeysOf(p)
      /\ \A s \in 0 .. Capacity(Cur(p)) - 1 : Cur(p).index[s] # loc[p].at =>
           ValuesOf(p)'[s] = ValuesOf(p)[s]
      /\ Covers(p)' /\ Laps(p)'
  BY RingValued DEF Indexed1
<1>3. Ring("construct", tailIndex[p], loc[p].at, Capacity(Cur(p)), Cur(p).tail, Cur(p).index, KeysOf(p), ValuesOf(p))
  BY DEF Indexed1, RingOf
<1>4. RingTypes(tailIndex[p], Capacity(Cur(p)), Cur(p).tail, KeysOf(p))
  BY CurIs
<1>5. RNew(tailIndex[p])
  BY DEF New, RNew
<1> DEFINE V2 == ValuesOf(p)'
<1>6. V2 = ValuesOf(p)'
  OBVIOUS
<1> HIDE DEF V2
<1>7. Ring("publish", tailIndex[p], loc[p].at, Capacity(Cur(p)), Cur(p).tail, Cur(p).index, KeysOf(p), V2)
  BY <1>1, <1>3, <1>4, <1>5, <1>6, RingConstruct
<1>8. RingOf(p)'
  BY <1>1, <1>6, <1>7 DEF RingOf
<1> QED BY <1>1, <1>8 DEF Indexed1

\* The entry after the tail gets the key of the next block.
LEMMA IndexedInserted ==
    ASSUME Types, NEW p \in Producers, SetKey(p, Cur(p).index[NextSlot(Cur(p))], tailIndex[p]),
           blockIndex' = blockIndex, tailIndex' = tailIndex, Indexed1(p),
           pc[p] \in {"insert", "grown"}, pc'[p] = "expose",
           loc'[p].at = Cur(p).index[NextSlot(Cur(p))],
           pc[p] = "grown" \/ ~Valid(Slot(p, NextSlot(Cur(p)))) \/ Slot(p, NextSlot(Cur(p))).value = None
    PROVE  Indexed1(p)'
<1> DEFINE cap == Capacity(Cur(p))
           tail == Cur(p).tail
           x == Cur(p).index
           n == Len(entry[p])
           to == RNext(cap, tail)
           K == KeysOf(p)
           V == ValuesOf(p)
           T == tailIndex[p]
           K2 == KeysOf(p)'
           V2 == ValuesOf(p)'
<1>1. /\ RingTypes(T, cap, tail, K)
      /\ cap \in Nat /\ cap > 1 /\ tail \in 0 .. cap - 1
      /\ NextSlot(Cur(p)) = to
      /\ \A s \in 0 .. cap - 1 : x[s] \in 1 .. n /\ K[s] = entry[p][x[s]].key /\ V[s] = entry[p][x[s]].value
  BY CurIs
<1>2. T \in Nat
  BY DEF Types, CountTypes
<1>3. to \in 0 .. cap - 1
  BY <1>1, NextAge
<1>4. /\ Len(entry'[p]) = Len(entry[p])
      /\ \A i \in 1 .. n :
           /\ entry'[p][i].key = IF i = x[to] THEN T ELSE entry[p][i].key
           /\ entry'[p][i].value = entry[p][i].value
  BY <1>1, <1>2, KeySet
<1>5. Cur(p)' = Cur(p)
  BY DEF Cur
<1>6. Ring(pc[p], T, loc[p].at, cap, tail, x, K, V)
  BY DEF Indexed1, RingOf
<1>7. \A s \in 0 .. cap - 1 : x[s] = x[to] => s = to
  BY <1>3, <1>6 DEF Ring, Injective
<1>8. \A s \in 0 .. cap - 1 : K2[s] = (IF s = to THEN T ELSE K[s]) /\ V2[s] = V[s]
  <2>1. /\ K2 = [s \in 0 .. cap - 1 |-> entry'[p][x[s]].key]
        /\ V2 = [s \in 0 .. cap - 1 |-> entry'[p][x[s]].value]
    BY <1>5 DEF KeysOf, ValuesOf, Slot
  <2> HIDE DEF K2, V2, cap, x, K, V, T, tail, n
  <2>2. \A s \in 0 .. cap - 1 : K2[s] = entry'[p][x[s]].key /\ V2[s] = entry'[p][x[s]].value
    BY <2>1
  <2>3. ASSUME NEW s \in 0 .. cap - 1, s = to
        PROVE  K2[s] = T /\ V2[s] = V[s]
    BY <1>1, <1>4, <2>2, <2>3
  <2>4. ASSUME NEW s \in 0 .. cap - 1, s # to
        PROVE  K2[s] = K[s] /\ V2[s] = V[s]
    <3>1. x[s] # x[to]
      BY <1>7, <2>4
    <3> QED BY <1>1, <1>4, <2>2, <2>4, <3>1
  <2> QED BY <2>3, <2>4
<1>9. pc[p] = "grown" \/ ~Used(K[to]) \/ V[to] = None
  BY <1>1, <1>3 DEF Valid, Used, Slot
<1>10. Ring("expose", T, x[to], cap, tail, x, K2, V2)
  <2> DEFINE l == pc[p]
             at == loc[p].at
  <2>1. l \in {"insert", "grown"} /\ (l = "grown" \/ ~Used(K[to]) \/ V[to] = None)
        /\ Ring(l, T, at, cap, tail, x, K, V)
    BY <1>6, <1>9
  <2> HIDE DEF cap, tail, x, K, V, T, K2, V2, l, at
  <2>2. LET t2 == RNext(cap, tail) IN
             /\ l = "grown" \/ ~Used(K[t2]) \/ V[t2] = None
             /\ \A s \in 0 .. cap - 1 : K2[s] = (IF s = t2 THEN T ELSE K[s]) /\ V2[s] = V[s]
    BY <1>8, <2>1
  <2> QED BY <1>1, <2>1, <2>2, RingInsert
<1>11. RingOf(p)'
  BY <1>1, <1>5, <1>10 DEF RingOf
<1>12. Covers(p)'
  BY <1>4, <1>5 DEF Indexed1, Covers
<1>13. K[to] = T \/ T = K[to] + BLOCK_SIZE * cap \/ ~Used(K[to])
  <2>1. RNew(T) /\ REnd(pc[p], T) = T
    BY <1>2, <1>6 DEF REnd, Ring, Stage, RExposed, Inserting
  <2>2. RAge(cap, tail, to) = cap - 1
    BY <1>1, NextAge
  <2>3. Used(K[to]) => K[to] = T \/ K[to] = T - BLOCK_SIZE * ((cap - 1) + 1)
    BY <1>3, <1>6, <2>1, <2>2 DEF Ring, Keyed, RExact
  <2>4. (cap - 1) + 1 = cap
    BY <1>1
  <2>5. BLOCK_SIZE * cap \in Int
    BY <1>1, Size
  <2>6. K[to] \in Nat
    BY <1>1, <1>3 DEF RingTypes
  <2> HIDE DEF K, T, cap
  <2> QED BY <1>2, <2>3, <2>4, <2>5, <2>6
<1>14. Laps(p)'
  <2> SUFFICES ASSUME NEW i \in 1 .. Len(blockIndex[p]) - 1
               PROVE  LapOf(Capacity(blockIndex[p][i]), cap, OldKeys(p, i)')
    BY <1>5 DEF Laps, OldKeys
  <2> DEFINE c == Capacity(blockIndex[p][i])
             y == blockIndex[p][i].index
             E == OldKeys(p, i)
             E2 == OldKeys(p, i)'
  <2>1. LapOf(c, cap, E)
    BY DEF Indexed1, Laps
  <2>2. i \in 1 .. Len(blockIndex[p]) /\ c \in Nat
    <3>1. blockIndex[p] \in Seq(Header)
      BY DEF Types, IndexTypes
    <3>2. i \in 1 .. Len(blockIndex[p])
      BY <3>1
    <3>3. \A j \in 1 .. Len(blockIndex[p]) : Capacity(blockIndex[p][j]) \in Nat
      BY DEF Types, IndexTypes
    <3> QED BY <3>2, <3>3
  <2>3. \A s \in 0 .. c - 1 : y[s] \in 1 .. n
    BY <2>2 DEF Types, IndexTypes
  <2>4. \A s \in 0 .. c - 1 : E[s] = entry[p][y[s]].key /\ E2[s] = entry'[p][y[s]].key
    BY DEF OldKeys, EntryAt
  <2>5. \A s \in 0 .. c - 1 : E2[s] = IF y[s] = x[to] THEN T ELSE E[s]
    BY <1>4, <2>3, <2>4
  <2>6. \A s \in 0 .. c - 1 : y[s] = x[to] => E[s] = K[to]
    BY <1>1, <1>3, <2>4
  <2>7. \A s \in 0 .. c - 1 : Used(E[s])
    BY <2>1 DEF LapOf
  <2>8. Used(T)
    BY <1>2, <1>6, Size DEF Used, RNew, INVALID_BLOCK_BASE, Ring, Stage, Inserting
  <2>9. \A s \in 0 .. c - 1 : Used(E2[s]) /\ (E2[s] = E[s] \/ E2[s] = E[s] + BLOCK_SIZE * cap)
    <3> HIDE DEF c, y, E, E2, cap, x, K, T, to
    <3> QED BY <1>13, <2>5, <2>6, <2>7, <2>8
  <2> HIDE DEF c, E, E2, cap
  <2>10. LapOf(c, cap, E2)
    BY <1>1, <2>1, <2>2, <2>9, LapInsert
  <2> QED BY <2>10 DEF c, E2
<1> QED BY <1>11, <1>12, <1>14 DEF Indexed1

\* The tail of the current block index of p moves.
LEMMA RingMoved ==
    ASSUME Types, NEW p \in Producers, NEW to \in 0 .. Capacity(Cur(p)) - 1, MoveTail(p, to),
           entry' = entry
    PROVE  /\ Cur(p)'.tail = to /\ Cur(p)'.index = Cur(p).index
           /\ Capacity(Cur(p))' = Capacity(Cur(p))
           /\ KeysOf(p)' = KeysOf(p) /\ ValuesOf(p)' = ValuesOf(p)
           /\ Covers(p) => Covers(p)'
           /\ Laps(p) => Laps(p)'
           /\ \A q \in Producers : q # p => blockIndex'[q] = blockIndex[q] /\ entry'[q] = entry[q]
           /\ \A q \in Producers : \A i \in 1 .. Len(blockIndex[q]) :
                blockIndex'[q][i].index = blockIndex[q][i].index
<1>0. to \in Slots(Cur(p))
  BY DEF Slots
<1>1. /\ Len(blockIndex'[p]) = Len(blockIndex[p])
      /\ \A i \in 1 .. Len(blockIndex[p]) :
           /\ blockIndex'[p][i].index = blockIndex[p][i].index
           /\ blockIndex'[p][i].tail = IF i = Current(p) THEN to ELSE blockIndex[p][i].tail
      /\ blockIndex' \in [Producers -> Seq(Header)]
  BY <1>0, TailMoved
<1>2. Current(p) \in 1 .. Len(blockIndex[p]) /\ Current(p) = Len(blockIndex[p])
      /\ Cur(p) = blockIndex[p][Current(p)] /\ Len(blockIndex[p]) \in Nat /\ Len(blockIndex[p]) >= 1
  BY CurIs
<1>3. Cur(p)' = blockIndex'[p][Current(p)]
  <2>1. blockIndex'[p] \in Seq(Header) /\ Len(blockIndex'[p]) >= 1
    BY <1>1, <1>2
  <2> QED BY <1>1, <1>2, <2>1 DEF Cur, Last
<1>4. Cur(p)'.tail = to /\ Cur(p)'.index = Cur(p).index
  BY <1>1, <1>2, <1>3
<1>5. Capacity(Cur(p))' = Capacity(Cur(p))
  BY <1>4 DEF Capacity
<1>6. KeysOf(p)' = KeysOf(p) /\ ValuesOf(p)' = ValuesOf(p)
  BY <1>4, <1>5 DEF KeysOf, ValuesOf, Slot
<1>7. Covers(p) => Covers(p)'
  BY <1>4, <1>5 DEF Covers
<1>8. ASSUME Laps(p) PROVE Laps(p)'
  <2>1. ASSUME NEW i \in 1 .. Len(blockIndex[p]) - 1
        PROVE  OldKeys(p, i)' = OldKeys(p, i) /\ Capacity(blockIndex'[p][i]) = Capacity(blockIndex[p][i])
    <3>1. blockIndex'[p][i].index = blockIndex[p][i].index
      BY <1>1, <1>2
    <3> QED BY <3>1 DEF OldKeys, EntryAt, Capacity
  <2> QED BY <1>1, <1>5, <1>8, <2>1 DEF Laps
<1>9. \A q \in Producers : q # p => blockIndex'[q] = blockIndex[q] /\ entry'[q] = entry[q]
  BY DEF MoveTail, Types, IndexTypes
<1>10. \A q \in Producers : \A i \in 1 .. Len(blockIndex[q]) :
                blockIndex'[q][i].index = blockIndex[q][i].index
  BY <1>0, TailMoved
<1> QED BY <1>4, <1>5, <1>6, <1>7, <1>8, <1>9, <1>10

\* Expose keeps the index: the tail moves to the entry that was taken.
LEMMA IndexedExposed ==
    ASSUME Types, NEW p \in Producers, MoveTail(p, NextSlot(Cur(p))), entry' = entry,
           tailIndex' = tailIndex, loc'[p] = loc[p], pc[p] = "expose", pc'[p] = "pool", Indexed1(p)
    PROVE  Indexed1(p)'
<1> DEFINE cap == Capacity(Cur(p))
           to == NextSlot(Cur(p))
<1>1. /\ RingTypes(tailIndex[p], cap, Cur(p).tail, KeysOf(p))
      /\ to = RNext(cap, Cur(p).tail) /\ cap \in Nat /\ cap > 1 /\ Cur(p).tail \in 0 .. cap - 1
  BY CurIs
<1>2. to \in 0 .. cap - 1
  BY <1>1, NextAge
<1>3. /\ Cur(p)'.tail = to /\ Cur(p)'.index = Cur(p).index /\ Capacity(Cur(p))' = cap
      /\ KeysOf(p)' = KeysOf(p) /\ ValuesOf(p)' = ValuesOf(p)
      /\ Covers(p)' /\ Laps(p)'
  BY <1>2, RingMoved DEF Indexed1
<1>4. Ring("expose", tailIndex[p], loc[p].at, cap, Cur(p).tail, Cur(p).index, KeysOf(p), ValuesOf(p))
  BY DEF Indexed1, RingOf
<1>5. Ring("pool", tailIndex[p], loc[p].at, cap, RNext(cap, Cur(p).tail), Cur(p).index, KeysOf(p), ValuesOf(p))
  BY <1>1, <1>4, RingExpose
<1>6. RingOf(p)'
  BY <1>1, <1>3, <1>5 DEF RingOf
<1> QED BY <1>3, <1>6 DEF Indexed1

\* Rewind keeps the index: the tail moves back.
LEMMA IndexedRewound ==
    ASSUME Types, NEW p \in Producers,
           MoveTail(p, (Cur(p).tail + Capacity(Cur(p)) - 1) % Capacity(Cur(p))), entry' = entry,
           tailIndex' = tailIndex, loc'[p] = loc[p], pc[p] = "rewind", pc'[p] = "forget", Indexed1(p)
    PROVE  Indexed1(p)'
<1> DEFINE cap == Capacity(Cur(p))
           to == (Cur(p).tail + cap - 1) % cap
<1>1. /\ RingTypes(tailIndex[p], cap, Cur(p).tail, KeysOf(p))
      /\ to = RPrev(cap, Cur(p).tail) /\ cap \in Nat /\ cap > 1 /\ Cur(p).tail \in 0 .. cap - 1
  BY CurIs
<1>2. to \in 0 .. cap - 1
  BY <1>1, PrevAge
<1>3. /\ Cur(p)'.tail = to /\ Cur(p)'.index = Cur(p).index /\ Capacity(Cur(p))' = cap
      /\ KeysOf(p)' = KeysOf(p) /\ ValuesOf(p)' = ValuesOf(p)
      /\ Covers(p)' /\ Laps(p)'
  BY <1>2, RingMoved DEF Indexed1
<1>4. Ring("rewind", tailIndex[p], loc[p].at, cap, Cur(p).tail, Cur(p).index, KeysOf(p), ValuesOf(p))
  BY DEF Indexed1, RingOf
<1>5. Ring("forget", tailIndex[p], loc[p].at, cap, RPrev(cap, Cur(p).tail), Cur(p).index, KeysOf(p), ValuesOf(p))
  BY <1>1, <1>4, RingRewind
<1> HIDE DEF to
<1>6. RingOf(p)'
  BY <1>1, <1>3, <1>5 DEF RingOf
<1> QED BY <1>3, <1>6 DEF Indexed1

\* The current block index of p is replaced by one with twice the slots.
LEMMA IndexedGrown ==
    ASSUME Types, NEW p \in Producers, NewBlockIndex(p), Indexed1(p),
           tailIndex' = tailIndex, loc'[p] = loc[p], pc[p] = "grow", pc'[p] = "grown"
    PROVE  Indexed1(p)'
<1> DEFINE cap == Capacity(Cur(p))
           tail == Cur(p).tail
           x == Cur(p).index
           n == Len(entry[p])
           m == Len(blockIndex[p])
           K == KeysOf(p)
           V == ValuesOf(p)
           T == tailIndex[p]
           at == loc[p].at
           g == Grown(p)
           y == g.index
           K2 == KeysOf(p)'
           V2 == ValuesOf(p)'
           q == entry[p]
           q2 == entry'[p]
<1>1. /\ RingTypes(T, cap, tail, K)
      /\ cap \in Nat /\ cap > 1 /\ tail \in 0 .. cap - 1
      /\ \A s \in 0 .. cap - 1 : x[s] \in 1 .. n /\ K[s] = q[x[s]].key /\ V[s] = q[x[s]].value
      /\ m \in Nat /\ m >= 1 /\ n \in Nat /\ Cur(p) = blockIndex[p][m]
  BY CurIs
<1>2. /\ Len(blockIndex'[p]) = m + 1
      /\ \A i \in 1 .. m : blockIndex'[p][i] = blockIndex[p][i]
      /\ blockIndex'[p][m + 1] = g
      /\ Capacity(g) = 2 * cap /\ g.tail = cap - 1
      /\ \A i \in 0 .. cap - 1 : y[i] = x[(tail + 1 + i) % cap]
      /\ \A i \in cap .. 2 * cap - 1 : y[i] = n + i - cap + 1
      /\ Len(q2) = n + cap
      /\ \A e \in 1 .. n : q2[e] = q[e]
      /\ \A e \in n + 1 .. n + cap : q2[e] = Unused
  BY GrownIs
<1>3. Cur(p)' = g
  BY <1>1, <1>2 DEF Cur, Last
<1>4. \A i \in 0 .. cap - 1 : y[i] = x[Turned(cap, tail, i)] /\ Turned(cap, tail, i) \in 0 .. cap - 1
  <2> HIDE DEF cap, tail, x, y
  <2>1. \A i \in 0 .. cap - 1 : (tail + 1 + i) % cap = Turned(cap, tail, i)
    BY <1>1, Wrap DEF Turned
  <2>2. \A i \in 0 .. cap - 1 : Turned(cap, tail, i) \in 0 .. cap - 1
    BY <1>1, TurnedAge
  <2> QED BY <1>2, <2>1, <2>2
<1>5. /\ K2 = [s \in 0 .. 2 * cap - 1 |-> q2[y[s]].key]
      /\ V2 = [s \in 0 .. 2 * cap - 1 |-> q2[y[s]].value]
  BY <1>2, <1>3 DEF KeysOf, ValuesOf, Slot
<1>6. Ring("grow", T, at, cap, tail, x, K, V)
  BY DEF Indexed1, RingOf
<1>7. RingOf(p)' = Ring("grown", T, at, 2 * cap, cap - 1, y, K2, V2)
  BY <1>2, <1>3 DEF RingOf
<1>8. Ring("grown", T, at, 2 * cap, cap - 1, y, K2, V2)
  <2> HIDE DEF cap, tail, x, y, n, m, K, V, T, at, g, K2, V2, q, q2
  <2>1. \A i \in 0 .. cap - 1 : LET s == Turned(cap, tail, i) IN
             y[i] = x[s] /\ K2[i] = K[s] /\ V2[i] = V[s]
    <3> SUFFICES ASSUME NEW i \in 0 .. cap - 1
                 PROVE  y[i] = x[Turned(cap, tail, i)] /\ K2[i] = K[Turned(cap, tail, i)]
                        /\ V2[i] = V[Turned(cap, tail, i)]
      OBVIOUS
    <3> DEFINE s == Turned(cap, tail, i)
    <3>1. y[i] = x[s] /\ s \in 0 .. cap - 1
      BY <1>4
    <3> HIDE DEF s
    <3>2. x[s] \in 1 .. n /\ q2[x[s]] = q[x[s]] /\ K[s] = q[x[s]].key /\ V[s] = q[x[s]].value
      BY <1>1, <1>2, <3>1
    <3>3. i \in 0 .. 2 * cap - 1
      BY <1>1
    <3>4. K2[i] = q2[y[i]].key /\ V2[i] = q2[y[i]].value
      BY <1>5, <3>3
    <3> QED BY <3>1, <3>2, <3>4 DEF s
  <2>2. \A i \in cap .. 2 * cap - 1 :
             y[i] = n + i - cap + 1 /\ K2[i] = INVALID_BLOCK_BASE /\ V2[i] = None
    <3> SUFFICES ASSUME NEW i \in cap .. 2 * cap - 1
                 PROVE  y[i] = n + i - cap + 1 /\ K2[i] = INVALID_BLOCK_BASE /\ V2[i] = None
      OBVIOUS
    <3>0. \A j \in cap .. 2 * cap - 1 : y[j] = n + j - cap + 1
      BY <1>2
    <3>1. y[i] = n + i - cap + 1 /\ i \in 0 .. 2 * cap - 1
      BY <1>1, <3>0
    <3>2. y[i] \in n + 1 .. n + cap
      BY <1>1, <3>1
    <3>3. q2[y[i]] = Unused
      BY <1>2, <3>2
    <3>4. K2[i] = q2[y[i]].key /\ V2[i] = q2[y[i]].value
      BY <1>5, <3>1
    <3> QED BY <3>1, <3>3, <3>4 DEF Unused
  <2>3. \A s \in 0 .. cap - 1 : x[s] \in 1 .. n
    BY <1>1
  <2>4. RingTypes(T, cap, tail, K) /\ n \in Nat
    BY <1>1
  <2> QED BY <1>6, <2>1, <2>2, <2>3, <2>4, RingGrow
<1>9. Covers(p)'
  <2>1. \A e \in 1 .. n + cap : \E i \in 0 .. 2 * cap - 1 : y[i] = e
    <3>1. \A e \in 1 .. n : \E s \in 0 .. cap - 1 : x[s] = e
      BY DEF Indexed1, Covers
    <3>2. \A s \in 0 .. cap - 1 : \E i \in 0 .. cap - 1 : Turned(cap, tail, i) = s
      BY <1>1, TurnedAge
    <3> HIDE DEF cap, tail, x, y, n, m, K, V, T, at, g, K2, V2, q, q2
    <3>3. \A i \in 0 .. cap - 1 : i \in 0 .. 2 * cap - 1
      BY <1>1
    <3>4. \A e \in 1 .. n : \E i \in 0 .. 2 * cap - 1 : y[i] = e
      BY <1>4, <3>1, <3>2, <3>3
    <3>5. ASSUME NEW e \in n + 1 .. n + cap PROVE \E i \in 0 .. 2 * cap - 1 : y[i] = e
      <4> DEFINE i == e - n + cap - 1
      <4>1. i \in cap .. 2 * cap - 1 /\ i \in 0 .. 2 * cap - 1 /\ n + i - cap + 1 = e
        BY <1>1, <3>5
      <4> HIDE DEF i
      <4>2. y[i] = e
        BY <1>2, <4>1
      <4> QED BY <4>1, <4>2
    <3>6. \A e \in 1 .. n + cap : e \in 1 .. n \/ e \in n + 1 .. n + cap
      BY <1>1
    <3> QED BY <3>4, <3>5, <3>6
  <2> QED BY <1>2, <1>3, <2>1 DEF Covers
<1>10. Laps(p)'
  <2> SUFFICES ASSUME NEW i \in 1 .. m
               PROVE  LapOf(Capacity(blockIndex'[p][i]), 2 * cap, OldKeys(p, i)')
    BY <1>1, <1>2, <1>3 DEF Laps
  <2> DEFINE h == blockIndex[p][i]
             c == Capacity(h)
             E == OldKeys(p, i)
  <2>1. blockIndex'[p][i] = h
    BY <1>2
  <2>2. \A s \in 0 .. c - 1 : h.index[s] \in 1 .. n
    BY DEF Types, IndexTypes
  <2>3. OldKeys(p, i)' = E
    BY <1>2, <2>1, <2>2 DEF OldKeys, EntryAt
  <2>4. c \in Nat
    BY DEF Types, IndexTypes
  <2>5. CASE i = m
    <3>1. h = Cur(p)
      BY <1>1, <2>5
    <3>2. E = K
      BY SMTT(40), <3>1 DEF OldKeys, EntryAt, KeysOf, Slot
    <3>3. LapOf(cap, 2 * cap, K)
      BY <1>1, <1>6, RingLap
    <3> QED BY SMTT(40), <2>1, <2>3, <3>1, <3>2, <3>3
  <2>6. CASE i # m
    <3>1. i \in 1 .. m - 1
      BY <1>1, <2>6
    <3>2. LapOf(c, cap, E)
      BY SMTT(40), <3>1 DEF Indexed1, Laps
    <3>3. LapOf(c, 2 * cap, E)
      BY <1>1, <2>4, <3>2, LapGrow
    <3> QED BY SMTT(40), <2>1, <2>3, <3>3
  <2> QED BY SMTT(40), <2>5, <2>6
<1> QED BY <1>7, <1>8, <1>9, <1>10 DEF Indexed1

\* The block that is allocated.
LEMMA CreateTakes ==
    ASSUME Types, NEW p \in Producers, Create(p)
    PROVE  \E b \in Blocks \ (created \union Range(InitialBlocks)) :
             /\ created' = created \union {b}
             /\ Locals(loc'[p], loc[p].from, loc[p].seen, loc[p].count, loc[p].header, loc[p].slot,
                       loc[p].at, b, loc[p].item)
<1>0. LocTypes /\ p \in Threads /\ Shape(loc[p])
  BY Members, QueueAssumption DEF Types, LocTypes, WfLoc
<1> DEFINE unused == Blocks \ (created \union Range(InitialBlocks))
           b == CHOOSE x \in unused : TRUE
<1>1. unused # {} /\ created' = created \union {b} /\ loc' = [loc EXCEPT ![p].block = b]
  BY DEF Create
<1>2. b \in unused
  BY <1>1
<1> HIDE DEF b
<1>3. loc' = [loc EXCEPT ![p] = [loc[p] EXCEPT !.block = b]]
  BY <1>0, <1>1 DEF LocTypes
<1>4. loc'[p] = [loc[p] EXCEPT !.block = b]
  BY <1>0, <1>3 DEF LocTypes
<1>5. Locals(loc'[p], loc[p].from, loc[p].seen, loc[p].count, loc[p].header, loc[p].slot,
             loc[p].at, b, loc[p].item)
  BY <1>0, <1>4, SetBlock
<1> QED BY <1>1, <1>2, <1>5

\* What a step of p leaves of the other streams.
LEMMA OthersIndex ==
    ASSUME Types, NEW p \in Producers, Produce(p), NEW q \in Producers, q # p
    PROVE  blockIndex'[q] = blockIndex[q] /\ entry'[q] = entry[q] /\ tailIndex'[q] = tailIndex[q]
<1>1. /\ blockIndex' = blockIndex \/ \E x : blockIndex' = [blockIndex EXCEPT ![p] = x]
      /\ entry' = entry \/ \E x : entry' = [entry EXCEPT ![p] = x]
      /\ tailIndex' = tailIndex \/ \E x : tailIndex' = [tailIndex EXCEPT ![p] = x]
  <2>1. CASE Enqueue(p)
    BY SMTT(40), <2>1 DEF Enqueue, countVars, indexVars
  <2>2. CASE InsertBlockIndexEntry(p)
    BY <2>2 DEF InsertBlockIndexEntry, InsertIn, countVars, indexVars
  <2>3. CASE NewBlockIndex(p)
    BY <2>3 DEF NewBlockIndex, countVars, indexVars
  <2>4. CASE NewBlockIndexFails(p)
    BY <2>4 DEF NewBlockIndexFails, countVars, indexVars
  <2>5. CASE Expose(p)
    BY <2>5 DEF Expose, MoveTail, countVars, indexVars
  <2>6. CASE AskPool(p)
    BY <2>6 DEF AskPool, countVars, indexVars
  <2>7. CASE ClaimFromPool(p)
    BY <2>7 DEF ClaimFromPool, countVars, indexVars
  <2>8. CASE FromFreeList(p)
    BY <2>8 DEF FromFreeList, countVars, indexVars
  <2>9. CASE Create(p)
    BY <2>9 DEF Create, countVars, indexVars
  <2>10. CASE CreateFails(p)
    BY <2>10 DEF CreateFails, countVars, indexVars
  <2>11. CASE Construct(p)
    BY <2>11 DEF Construct, countVars, indexVars
  <2>12. CASE ConstructThrows(p)
    BY <2>12 DEF ConstructThrows, countVars, indexVars
  <2>13. CASE Rewind(p)
    BY <2>13 DEF Rewind, MoveTail, countVars, indexVars
  <2>14. CASE Forget(p)
    BY <2>14 DEF Forget, countVars, indexVars
  <2>15. CASE Publish(p)
    BY <2>15 DEF Publish, countVars, indexVars
  <2> QED BY <2>1, <2>2, <2>3, <2>4, <2>5, <2>6, <2>7, <2>8, <2>9, <2>10, <2>11, <2>12, <2>13, <2>14, <2>15 DEF Produce
<1> QED BY <1>1 DEF Types, IndexTypes, CountTypes

\* A failed enqueue takes the block out of its entry.
LEMMA IndexedForgotten ==
    ASSUME Types, NEW p \in Producers, SetValue(p, loc[p].at, None), blockIndex' = blockIndex,
           tailIndex' = tailIndex, Indexed1(p), pc[p] = "forget", pc'[p] \in {"idle", "give_back"}
    PROVE  Indexed1(p)'
<1>0. None \in MaybeBlock
  BY DEF MaybeBlock
<1>1. /\ Cur(p)' = Cur(p)
      /\ KeysOf(p)' = KeysOf(p)
      /\ \A s \in 0 .. Capacity(Cur(p)) - 1 :
           ValuesOf(p)'[s] = IF Cur(p).index[s] = loc[p].at THEN None ELSE ValuesOf(p)[s]
      /\ Covers(p)' /\ Laps(p)'
  BY <1>0, RingValued DEF Indexed1
<1>2. \A s \in 0 .. Capacity(Cur(p)) - 1 : ValuesOf(p)'[s] # ValuesOf(p)[s] => ValuesOf(p)'[s] = None
  BY <1>1
<1>3. Ring("forget", tailIndex[p], loc[p].at, Capacity(Cur(p)), Cur(p).tail, Cur(p).index, KeysOf(p), ValuesOf(p))
  BY DEF Indexed1, RingOf
<1>4. RingTypes(tailIndex[p], Capacity(Cur(p)), Cur(p).tail, KeysOf(p))
  BY CurIs
<1> DEFINE V2 == ValuesOf(p)'
<1>5. V2 = ValuesOf(p)'
  OBVIOUS
<1> HIDE DEF V2
<1>6. Ring("forget", tailIndex[p], loc[p].at, Capacity(Cur(p)), Cur(p).tail, Cur(p).index, KeysOf(p), V2)
  BY <1>2, <1>3, <1>4, <1>5, RingRelease
<1> DEFINE l2 == pc'[p]
           at2 == loc'[p].at
<1>7. REnd(l2, tailIndex[p]) = REnd("forget", tailIndex[p]) /\ ~RExposed(l2, tailIndex[p])
      /\ Stage(l2, tailIndex[p], at2, Capacity(Cur(p)), Cur(p).tail, Cur(p).index, KeysOf(p), V2)
  BY DEF REnd, RExposed, Stage, Inserting
<1> HIDE DEF l2, at2
<1>8. Ring(l2, tailIndex[p], at2, Capacity(Cur(p)), Cur(p).tail, Cur(p).index, KeysOf(p), V2)
  BY <1>6, <1>7, RingStep
<1>9. RingOf(p)'
  BY <1>1, <1>5, <1>8 DEF RingOf, l2, at2
<1> QED BY <1>1, <1>9 DEF Indexed1

\* A step that changes the stage of p only.
LEMMA IndexedGoes ==
    ASSUME Types, NEW p \in Producers, Indexed1(p), blockIndex'[p] = blockIndex[p],
           entry'[p] = entry[p], tailIndex'[p] = tailIndex[p],
           \/ pc[p] = "idle" /\ New(p) /\ pc'[p] = "insert"
           \/ pc[p] = "idle" /\ ~New(p) /\ pc'[p] = "construct"
           \/ pc[p] = "grow" /\ pc'[p] = "idle"
           \/ pc[p] = "give_back" /\ pc'[p] = "idle"
           \/ pc[p] = "construct" /\ ~New(p) /\ pc'[p] \in {"publish", "idle"}
           \/ /\ pc[p] \in {"pool", "claim", "free_list"} /\ loc'[p].at = loc[p].at
              /\ pc'[p] \in {"claim", "free_list", "construct", "rewind"}
           \/ pc[p] = "construct" /\ New(p) /\ pc'[p] = "rewind" /\ loc'[p].at = loc[p].at
    PROVE  Indexed1(p)'
<1> DEFINE l == pc[p]
           l2 == pc'[p]
           T == tailIndex[p]
           at == loc[p].at
           at2 == loc'[p].at
<1>1. Ring(l, T, at, Capacity(Cur(p)), Cur(p).tail, Cur(p).index, KeysOf(p), ValuesOf(p))
  BY DEF Indexed1, RingOf
<1>2. l \in Inserting => RNew(T)
  BY <1>1 DEF Ring, Stage
<1>3. REnd(l2, T) = REnd(l, T) /\ (RExposed(l2, T) => RExposed(l, T) /\ at2 = at /\ l # "publish")
  BY <1>2 DEF REnd, RExposed, RNew, New, Inserting
<1>4. Stage(l2, T, at2, Capacity(Cur(p)), Cur(p).tail, Cur(p).index, KeysOf(p), ValuesOf(p))
  BY <1>2 DEF Stage, Inserting, RNew, New
<1> QED BY <1>3, <1>4, IndexedStep

\* Publish keeps the index.
LEMMA IndexedPublished ==
    ASSUME Types, NEW p \in Producers, Publish(p), Indexed1(p)
    PROVE  Indexed1(p)'
<1>1. /\ pc[p] = "publish" /\ pc'[p] = "idle" /\ blockIndex'[p] = blockIndex[p] /\ entry'[p] = entry[p]
      /\ tailIndex'[p] = tailIndex[p] + 1 /\ tailIndex[p] \in Nat
  BY PublishDoes DEF Publish, Types, CountTypes
<1>2. Ring("publish", tailIndex[p], loc[p].at, Capacity(Cur(p)), Cur(p).tail, Cur(p).index, KeysOf(p), ValuesOf(p))
  BY <1>1 DEF Indexed1, RingOf
<1> DEFINE at2 == loc'[p].at
<1> HIDE DEF at2
<1>3. Ring("idle", tailIndex[p] + 1, at2, Capacity(Cur(p)), Cur(p).tail, Cur(p).index, KeysOf(p), ValuesOf(p))
  BY <1>1, <1>2, RingPublish
<1>4. RingOf(p)' /\ Covers(p)' /\ Laps(p)'
  BY <1>1, <1>3, RingKept DEF at2, Indexed1
<1> QED BY <1>4 DEF Indexed1

\* Every step of p keeps its index.
LEMMA IndexedProduce ==
    ASSUME Types, NEW p \in Producers, Produce(p), Indexed1(p)
    PROVE  Indexed1(p)'
<1>1. CASE Enqueue(p)
  BY <1>1, EnqueueDoes, IndexedGoes
<1>2. CASE InsertBlockIndexEntry(p)
  <2> DEFINE to == NextSlot(Cur(p))
             room == pc[p] = "grown" \/ ~Valid(Slot(p, to)) \/ Slot(p, to).value = None
  <2>1. /\ pc[p] \in {"insert", "grown"} /\ blockIndex' = blockIndex /\ tailIndex' = tailIndex
        /\ room => /\ pc'[p] = "expose" /\ loc'[p].at = Cur(p).index[to]
                   /\ SetKey(p, Cur(p).index[to], tailIndex[p])
        /\ ~room => pc'[p] = "grow" /\ loc'[p] = loc[p] /\ entry' = entry
    BY <1>2, InsertBlockIndexEntryDoes DEF Locals
  <2>2. CASE room
    BY <2>1, <2>2, IndexedInserted
  <2>3. CASE ~room
    <3> DEFINE cap == Capacity(Cur(p))
               tail == Cur(p).tail
               K == KeysOf(p)
               V == ValuesOf(p)
               l == pc[p]
               x == Cur(p).index
               T == tailIndex[p]
               at == loc[p].at
    <3>1. /\ RingTypes(T, cap, tail, K) /\ to = RNext(cap, tail) /\ tail \in 0 .. cap - 1
          /\ cap \in Nat /\ cap > 1
          /\ \A s \in 0 .. cap - 1 : K[s] = Slot(p, s).key /\ V[s] = Slot(p, s).value
      BY CurIs DEF Slot
    <3>2. to \in 0 .. cap - 1
      BY <3>1, NextAge
    <3>3. Ring(l, T, at, cap, tail, x, K, V) /\ l \in {"insert", "grown"}
      BY <2>1 DEF Indexed1, RingOf
    <3>4. ~(l = "grown" \/ ~Used(K[to]) \/ V[to] = None)
      BY <2>3, <3>1, <3>2 DEF Used, Valid
    <3> HIDE DEF cap, tail, K, V, l, x, T, at, to
    <3>5. Ring("grow", T, at, cap, tail, x, K, V)
      BY <3>1, <3>3, <3>4, RingFull
    <3>6. RingOf(p)' /\ Covers(p)' /\ Laps(p)'
      BY <2>1, <2>3, <3>5, RingKept DEF cap, tail, K, V, x, T, at, Indexed1
    <3> QED BY <3>6 DEF Indexed1
  <2> QED BY <2>2, <2>3
<1>3. CASE NewBlockIndex(p)
  BY <1>3, NewBlockIndexDoes, IndexedGrown
<1>4. CASE NewBlockIndexFails(p)
  BY <1>4, NewBlockIndexFailsDoes, IndexedGoes
<1>5. CASE Expose(p)
  BY <1>5, ExposeDoes, IndexedExposed
<1>6. CASE AskPool(p)
  BY <1>6, AskPoolDoes, IndexedGoes
<1>7. CASE ClaimFromPool(p)
  <2>1. pc[p] = "claim" /\ pc'[p] \in {"construct", "free_list"} /\ loc'[p].at = loc[p].at
        /\ blockIndex' = blockIndex /\ entry' = entry /\ tailIndex' = tailIndex
    BY <1>7, ClaimFromPoolDoes DEF Locals
  <2> QED BY <2>1, IndexedGoes
<1>8. CASE FromFreeList(p)
  <2>1. pc[p] = "free_list" /\ pc'[p] = "construct" /\ loc'[p].at = loc[p].at
        /\ blockIndex' = blockIndex /\ entry' = entry /\ tailIndex' = tailIndex
    BY <1>8, FromFreeListDoes DEF Locals
  <2> QED BY <2>1, IndexedGoes
<1>9. CASE Create(p)
  <2>1. pc[p] = "free_list" /\ pc'[p] = "construct" /\ loc'[p].at = loc[p].at
        /\ blockIndex' = blockIndex /\ entry' = entry /\ tailIndex' = tailIndex
    BY <1>9, CreateDoes, CreateTakes DEF Locals
  <2> QED BY <2>1, IndexedGoes
<1>10. CASE CreateFails(p)
  BY <1>10, CreateFailsDoes, IndexedGoes
<1>11. CASE Construct(p)
  <2>1. CASE New(p)
    <3>1. loc[p].block \in MaybeBlock
      BY Members DEF Types, LocTypes, WfLoc
    <3> QED BY <1>11, <2>1, <3>1, ConstructDoes, IndexedConstructed
  <2>2. CASE ~New(p)
    BY <1>11, <2>2, ConstructDoes, IndexedGoes
  <2> QED BY <2>1, <2>2
<1>12. CASE ConstructThrows(p)
  BY <1>12, ConstructThrowsDoes, IndexedGoes
<1>13. CASE Rewind(p)
  BY <1>13, RewindDoes, IndexedRewound
<1>14. CASE Forget(p)
  BY <1>14, ForgetDoes, IndexedForgotten
<1>15. CASE Publish(p)
  BY <1>15, IndexedPublished
<1> QED BY <1>1, <1>2, <1>3, <1>4, <1>5, <1>6, <1>7, <1>8, <1>9, <1>10, <1>11, <1>12, <1>13, <1>14, <1>15 DEF Produce

\* What the consumers leave of the streams.
LEMMA ConsumeIndex ==
    ASSUME Types, NEW c \in Consumers, Consume(c)
    PROVE  /\ blockIndex' = blockIndex /\ tailIndex' = tailIndex
           /\ \A q \in Producers : pc'[q] = pc[q] /\ loc'[q] = loc[q]
           /\ \/ entry' = entry
              \/ /\ pc[c] = "release" /\ loc[c].from \in Producers
                 /\ SetValue(loc[c].from, loc[c].at, None)
<1>1. \A q \in Producers : pc'[q] = pc[q] /\ loc'[q] = loc[q]
  BY OnlyConsumer, Members
<1>2. CASE Release(c)
  <2>1. loc[c].from \in Producers
    BY <1>2, ReleaseDoes, Members2 DEF Types, LocTypes
  <2> QED BY <1>1, <1>2, <2>1, ReleaseDoes
<1>3. CASE ~Release(c)
  <2>1. blockIndex' = blockIndex /\ tailIndex' = tailIndex /\ entry' = entry
    BY Zenon, <1>3 DEF Consume, Dequeue, SeemsEmpty, SeemsNonEmpty,
       AddOptimistic, Recheck, AddOvercommit, ClaimHead, LoadBlockIndex, MoveElement, SetEmpty,
       countVars, indexVars
  <2> QED BY <1>1, <2>1
<1> QED BY <1>2, <1>3

\* Every step keeps every index.
LEMMA IndexedAll ==
    ASSUME Types, \A p \in Producers : Indexed1(p), [Next]_vars
    PROVE  \A p \in Producers : Indexed1(p)'
<1> SUFFICES ASSUME NEW q \in Producers PROVE Indexed1(q)'
  OBVIOUS
<1>1. CASE UNCHANGED vars
  BY <1>1, IndexedSame DEF vars, indexVars, countVars
<1>2. ASSUME NEW p \in Producers, Produce(p) PROVE Indexed1(q)'
  <2>1. CASE q = p
    BY <1>2, <2>1, IndexedProduce
  <2>2. CASE q # p
    <3>1. pc'[q] = pc[q] /\ loc'[q] = loc[q]
      BY <1>2, <2>2, OnlyProducer, Members
    <3> QED BY <1>2, <2>2, <3>1, OthersIndex, IndexedSame
  <2> QED BY <2>1, <2>2
<1>3. ASSUME NEW c \in Consumers, Consume(c) PROVE Indexed1(q)'
  <2>1. /\ blockIndex' = blockIndex /\ tailIndex' = tailIndex /\ pc'[q] = pc[q] /\ loc'[q] = loc[q]
        /\ \/ entry' = entry
           \/ loc[c].from \in Producers /\ SetValue(loc[c].from, loc[c].at, None)
    BY <1>3, ConsumeIndex
  <2>2. CASE entry' = entry
    BY <2>1, <2>2, IndexedSame
  <2>3. CASE loc[c].from \in Producers /\ SetValue(loc[c].from, loc[c].at, None)
    BY <2>1, <2>3, IndexedReleased
  <2> QED BY <2>1, <2>2, <2>3
<1>4. ASSUME NEW t \in Threads, GivenBack(t) PROVE Indexed1(q)'
  <2>1. CASE q = t
    BY <1>4, <2>1, GivenBackDoes, IndexedGoes
  <2>2. CASE q # t
    BY <1>4, <2>2, GivenBackDoes, IndexedSame, Members
  <2> QED BY <2>1, <2>2
<1>5. ASSUME NEW t \in Threads, InFreeList(t) PROVE Indexed1(q)'
  BY <1>5, IndexedSame DEF InFreeList, countVars, indexVars
<1> QED BY <1>1, <1>2, <1>3, <1>4, <1>5 DEF Next

-----------------------------------------------------------------------------
(***************************************************************************)
(* The entries stay where a consumer has found them.                       *)
(***************************************************************************)

\* The block indices and the entries of q are kept; one that was used stays
\* so, and one with a block keeps its key.
KeysStay(q) ==
    /\ Len(blockIndex[q]) <= Len(blockIndex'[q])
    /\ \A i \in 1 .. Len(blockIndex[q]) : blockIndex'[q][i].index = blockIndex[q][i].index
    /\ Len(entry[q]) <= Len(entry'[q])
    /\ \A e \in 1 .. Len(entry[q]) :
         /\ Used(entry[q][e].key) => Used(entry'[q][e].key)
         /\ entry[q][e].value # None => entry'[q][e].key = entry[q][e].key

\* An index that is not written stays.
LEMMA SameStay ==
    ASSUME Types, NEW q \in Producers, blockIndex'[q] = blockIndex[q], entry'[q] = entry[q]
    PROVE  KeysStay(q)
<1>1. Len(blockIndex[q]) \in Nat /\ Len(entry[q]) \in Nat
  BY DEF Types, IndexTypes
<1> QED BY <1>1 DEF KeysStay

\* A step that sets a block leaves the keys and the indices.
LEMMA ValueStay ==
    ASSUME Types, NEW p \in Producers, NEW e, NEW b \in MaybeBlock, SetValue(p, e, b), blockIndex' = blockIndex,
           NEW q \in Producers
    PROVE  KeysStay(q)
<1>1. Len(blockIndex[q]) \in Nat /\ Len(entry[q]) \in Nat
  BY DEF Types, IndexTypes
<1> QED BY <1>1, ValueSet DEF KeysStay

\* The entry after the tail has no block when it is taken.
LEMMA NextIsFree ==
    ASSUME Types, NEW p \in Producers, Indexed1(p), pc[p] \in {"insert", "grown"},
           pc[p] = "grown" \/ ~Valid(Slot(p, NextSlot(Cur(p)))) \/ Slot(p, NextSlot(Cur(p))).value = None
    PROVE  /\ Slot(p, NextSlot(Cur(p))).value = None
           /\ NextSlot(Cur(p)) \in 0 .. Capacity(Cur(p)) - 1
           /\ New(p)
<1> DEFINE cap == Capacity(Cur(p))
           tail == Cur(p).tail
           K == KeysOf(p)
           V == ValuesOf(p)
           to == NextSlot(Cur(p))
<1>1. /\ RingTypes(tailIndex[p], cap, tail, K) /\ to = RNext(cap, tail) /\ tail \in 0 .. cap - 1
      /\ cap \in Nat /\ cap > 1
      /\ \A s \in 0 .. cap - 1 : K[s] = Slot(p, s).key /\ V[s] = Slot(p, s).value
  BY CurIs DEF Slot
<1>2. to \in 0 .. cap - 1 /\ RAge(cap, tail, to) = cap - 1
  BY <1>1, NextAge
<1>3. /\ Filled1(cap, tail, K, V) /\ (pc[p] = "grown" => ~Used(K[RNext(cap, tail)]) /\ V[RNext(cap, tail)] = None)
      /\ RNew(tailIndex[p])
  BY DEF Indexed1, RingOf, Ring, Stage, Inserting
<1>4. V[to] # None => Used(K[to])
  <2>1. RAge(cap, tail, to) <= RAge(cap, tail, to)
    BY <1>1, <1>2
  <2> QED BY <1>2, <1>3, <2>1 DEF Filled1
<1>5. V[to] = None
  BY <1>1, <1>2, <1>3, <1>4 DEF Used, Valid
<1> QED BY <1>1, <1>2, <1>3, <1>5 DEF RNew, New

\* The slots next to the tail are slots.
LEMMA TailInside ==
    ASSUME Types, NEW p \in Producers
    PROVE  /\ NextSlot(Cur(p)) \in 0 .. Capacity(Cur(p)) - 1
           /\ (Cur(p).tail + Capacity(Cur(p)) - 1) % Capacity(Cur(p)) \in 0 .. Capacity(Cur(p)) - 1
<1> DEFINE cap == Capacity(Cur(p))
           tail == Cur(p).tail
           a == NextSlot(Cur(p))
           b == (Cur(p).tail + Capacity(Cur(p)) - 1) % Capacity(Cur(p))
<1>1. a = RNext(cap, tail) /\ b = RPrev(cap, tail) /\ tail \in 0 .. cap - 1 /\ cap \in Nat /\ cap > 1
  BY CurIs
<1> HIDE DEF cap, tail, a, b
<1>2. a \in 0 .. cap - 1 /\ b \in 0 .. cap - 1
  BY <1>1 DEF RNext, RPrev
<1> QED BY <1>2 DEF cap, a, b

\* Every step of p leaves what consumers know of its index.
LEMMA ProduceStay ==
    ASSUME Types, NEW p \in Producers, Indexed1(p), Produce(p)
    PROVE  KeysStay(p)
<1>1. CASE InsertBlockIndexEntry(p)
  <2> DEFINE to == NextSlot(Cur(p))
             room == pc[p] = "grown" \/ ~Valid(Slot(p, to)) \/ Slot(p, to).value = None
  <2>1. /\ pc[p] \in {"insert", "grown"} /\ blockIndex' = blockIndex
        /\ room => SetKey(p, Cur(p).index[to], tailIndex[p])
        /\ ~room => entry' = entry
    BY <1>1, InsertBlockIndexEntryDoes
  <2>2. CASE ~room
    BY <2>1, <2>2, SameStay
  <2>3. CASE room
    <3>1. Slot(p, to).value = None /\ New(p)
      BY <2>1, <2>3, NextIsFree
    <3>2. Len(blockIndex[p]) \in Nat /\ Len(entry[p]) \in Nat /\ tailIndex[p] \in Nat
      BY DEF Types, IndexTypes, CountTypes
    <3> DEFINE k == Cur(p).index[to]
    <3>3. /\ Len(entry'[p]) = Len(entry[p])
          /\ \A i \in 1 .. Len(entry[p]) :
               /\ entry'[p][i].key = IF i = k THEN tailIndex[p] ELSE entry[p][i].key
               /\ entry'[p][i].value = entry[p][i].value
      BY <2>1, <2>3, <3>2, KeySet
    <3>4. Used(tailIndex[p])
      BY <3>1, <3>2, Size DEF New, Used, INVALID_BLOCK_BASE
    <3>5. entry[p][k].value = None
      BY <3>1 DEF Slot
    <3> HIDE DEF k
    <3> QED BY <2>1, <3>2, <3>3, <3>4, <3>5 DEF KeysStay
  <2> QED BY <2>2, <2>3
<1>2. CASE NewBlockIndex(p)
  <2>1. /\ Len(blockIndex'[p]) = Len(blockIndex[p]) + 1
        /\ \A i \in 1 .. Len(blockIndex[p]) : blockIndex'[p][i] = blockIndex[p][i]
        /\ Len(entry'[p]) = Len(entry[p]) + Capacity(Cur(p))
        /\ \A e \in 1 .. Len(entry[p]) : entry'[p][e] = entry[p][e]
    BY <1>2, GrownIs
  <2>2. Len(blockIndex[p]) \in Nat /\ Len(entry[p]) \in Nat
    BY DEF Types, IndexTypes
  <2>3. Capacity(Cur(p)) \in Nat
    BY CurTyped DEF Cur
  <2>4. Len(blockIndex[p]) <= Len(blockIndex'[p]) /\ Len(entry[p]) <= Len(entry'[p])
    BY SMTT(40), <2>1, <2>2, <2>3
  <2> QED BY <2>1, <2>4 DEF KeysStay
<1>3. ASSUME NEW to \in 0 .. Capacity(Cur(p)) - 1, MoveTail(p, to), entry' = entry
      PROVE  KeysStay(p)
  <2>1. \A i \in 1 .. Len(blockIndex[p]) : blockIndex'[p][i].index = blockIndex[p][i].index
    BY <1>3, RingMoved
  <2>2. Len(blockIndex'[p]) = Len(blockIndex[p])
    BY <1>3, TailMoved DEF Slots
  <2>3. Len(blockIndex[p]) \in Nat /\ Len(entry[p]) \in Nat
    BY DEF Types, IndexTypes
  <2> QED BY <1>3, <2>1, <2>2, <2>3 DEF KeysStay
<1>4. CASE Expose(p)
  <2>1. NextSlot(Cur(p)) \in 0 .. Capacity(Cur(p)) - 1
    BY TailInside
  <2> QED BY <1>3, <1>4, <2>1, ExposeDoes
<1>5. CASE Rewind(p)
  <2>1. (Cur(p).tail + Capacity(Cur(p)) - 1) % Capacity(Cur(p)) \in 0 .. Capacity(Cur(p)) - 1
    BY TailInside
  <2> QED BY <1>3, <1>5, <2>1, RewindDoes
<1>6. CASE Construct(p)
  <2>1. loc[p].block \in MaybeBlock /\ blockIndex' = blockIndex
    BY <1>6, Members, ConstructDoes DEF Types, LocTypes, WfLoc
  <2>2. CASE New(p)
    BY <1>6, <2>1, <2>2, ConstructDoes, ValueStay
  <2>3. CASE ~New(p)
    BY <1>6, <2>1, <2>3, ConstructDoes, SameStay
  <2> QED BY <2>2, <2>3
<1>7. CASE Forget(p)
  <2>1. None \in MaybeBlock
    BY DEF MaybeBlock
  <2> QED BY <1>7, <2>1, ForgetDoes, ValueStay
<1>8. CASE Enqueue(p) \/ NewBlockIndexFails(p) \/ AskPool(p) \/ ClaimFromPool(p) \/ FromFreeList(p)
           \/ Create(p) \/ CreateFails(p) \/ ConstructThrows(p) \/ Publish(p)
  <2>1. blockIndex' = blockIndex /\ entry' = entry
    BY <1>8 DEF Enqueue, NewBlockIndexFails, AskPool, ClaimFromPool, FromFreeList, Create, CreateFails,
       ConstructThrows, Publish, indexVars
  <2> QED BY <2>1, SameStay
<1> QED BY <1>1, <1>2, <1>4, <1>5, <1>6, <1>7, <1>8 DEF Produce

\* Every step leaves what consumers know of the indices.
LEMMA AllStay ==
    ASSUME Types, \A p \in Producers : Indexed1(p), [Next]_vars
    PROVE  \A q \in Producers : KeysStay(q)
<1> SUFFICES ASSUME NEW q \in Producers PROVE KeysStay(q)
  OBVIOUS
<1>1. CASE UNCHANGED vars
  BY <1>1, SameStay DEF vars, indexVars
<1>2. ASSUME NEW p \in Producers, Produce(p) PROVE KeysStay(q)
  <2>1. CASE q = p
    BY <1>2, <2>1, ProduceStay
  <2>2. CASE q # p
    BY <1>2, <2>2, OthersIndex, SameStay
  <2> QED BY <2>1, <2>2
<1>3. ASSUME NEW c \in Consumers, Consume(c) PROVE KeysStay(q)
  <2>1. None \in MaybeBlock
    BY DEF MaybeBlock
  <2> QED BY <1>3, <2>1, ConsumeIndex, SameStay, ValueStay
<1>4. ASSUME NEW t \in Threads, GivenBack(t) PROVE KeysStay(q)
  BY <1>4, GivenBackDoes, SameStay
<1>5. ASSUME NEW t \in Threads, InFreeList(t) PROVE KeysStay(q)
  BY <1>5, SameStay DEF InFreeList, indexVars
<1> QED BY <1>1, <1>2, <1>3, <1>4, <1>5 DEF Next

\* An element that is dequeued is before the head.
LEMMA BehindStep ==
    ASSUME Types, [Next]_vars, NEW c \in Consumers, Behind(c)
    PROVE  Behind(c)'
<1>0. c \in Threads /\ headIndex \in [Producers -> Nat] /\ loc[c].count \in Nat
      /\ (pc[c] \notin {"idle", "give_back"} => loc[c].from \in Producers)
  BY Members2 DEF Types, CountTypes, LocTypes, WfLoc
<1>1. \A p \in Producers : headIndex'[p] \in Nat /\ headIndex[p] <= headIndex'[p]
  <2>1. headIndex' = headIndex \/ \E p \in Producers : headIndex' = [headIndex EXCEPT ![p] = @ + 1]
    <3>1. CASE UNCHANGED vars
      BY SMTT(40), <3>1 DEF vars, countVars
    <3>2. ASSUME NEW p \in Producers, Produce(p) PROVE headIndex' = headIndex
      BY <3>2 DEF Produce, Enqueue, InsertBlockIndexEntry, NewBlockIndex, NewBlockIndexFails, Expose,
         AskPool, ClaimFromPool, FromFreeList, Create, CreateFails, Construct, ConstructThrows,
         Rewind, Forget, Publish, countVars
    <3>3. ASSUME NEW d \in Consumers, Consume(d)
          PROVE  headIndex' = headIndex \/ \E p \in Producers : headIndex' = [headIndex EXCEPT ![p] = @ + 1]
      <4>1. CASE ClaimHead(d)
        <5>1. loc[d].from \in Producers
          BY <4>1, Members2 DEF ClaimHead, Types, LocTypes
        <5> QED BY <4>1, <5>1 DEF ClaimHead
      <4>2. CASE ~ClaimHead(d)
        BY Zenon, <3>3, <4>2 DEF Consume, Dequeue, SeemsEmpty, SeemsNonEmpty,
           AddOptimistic, Recheck, AddOvercommit, LoadBlockIndex, MoveElement, SetEmpty, Release, countVars
      <4> QED BY <4>1, <4>2
    <3>4. ASSUME NEW t \in Threads, GivenBack(t) \/ InFreeList(t) PROVE headIndex' = headIndex
      BY <3>4 DEF GivenBack, InFreeList, countVars
    <3> QED BY <3>1, <3>2, <3>3, <3>4 DEF Next
  <2> QED BY <1>0, <2>1
<1>2. ASSUME pc[c] \in {"block_index", "entry"}, loc'[c].from = loc[c].from, loc'[c].count = loc[c].count
      PROVE  Behind(c)'
  BY <1>0, <1>1, <1>2 DEF Behind
<1>3. ASSUME pc'[c] \notin {"block_index", "entry"} PROVE Behind(c)'
  BY <1>3 DEF Behind
<1>4. ASSUME pc'[c] = pc[c], loc'[c] = loc[c] PROVE Behind(c)'
  BY <1>2, <1>3, <1>4
<1>5. CASE UNCHANGED vars
  BY <1>4, <1>5 DEF vars
<1>6. ASSUME NEW p \in Producers, Produce(p) PROVE Behind(c)'
  BY <1>0, <1>4, <1>6, OnlyProducer, Members2
<1>7. ASSUME NEW d \in Consumers, Consume(d) PROVE Behind(c)'
  <2>1. CASE d # c
    BY <1>0, <1>4, <1>7, <2>1, OnlyConsumer
  <2>2. CASE d = c
    <3>1. CASE ClaimHead(c)
      <4> DEFINE p == loc[c].from
      <4>1. p \in Producers /\ headIndex' = [headIndex EXCEPT ![p] = @ + 1]
        BY <1>0, <3>1 DEF ClaimHead
      <4>2. loc'[c].from = p /\ loc'[c].count = headIndex[p]
        BY <3>1, ClaimHeadDoes DEF Locals
      <4>3. headIndex'[p] = headIndex[p] + 1 /\ headIndex[p] \in Nat
        BY <1>0, <4>1
      <4> HIDE DEF p
      <4> QED BY <4>2, <4>3 DEF Behind
    <3>2. CASE LoadBlockIndex(c)
      BY <1>2, <3>2, LoadBlockIndexDoes DEF Locals
    <3>3. CASE \E p \in Producers : Dequeue(c, p)
      BY <1>3, <3>3, DequeueDoes
    <3>4. CASE SeemsEmpty(c)
      BY <1>3, <3>4, SeemsEmptyDoes
    <3>5. CASE SeemsNonEmpty(c)
      BY <1>3, <3>5, SeemsNonEmptyDoes
    <3>6. CASE AddOptimistic(c)
      BY <1>3, <3>6, AddOptimisticDoes
    <3>7. CASE Recheck(c)
      BY <1>3, <3>7, RecheckDoes
    <3>8. CASE AddOvercommit(c)
      BY <1>3, <3>8, AddOvercommitDoes
    <3>9. CASE MoveElement(c)
      BY <1>3, <3>9, MoveElementDoes
    <3>10. CASE SetEmpty(c)
      BY <1>3, <3>10, SetEmptyDoes
    <3>11. CASE Release(c)
      BY <1>3, <3>11, ReleaseDoes
    <3> QED BY <1>7, <2>2, <3>1, <3>2, <3>3, <3>4, <3>5, <3>6, <3>7, <3>8, <3>9, <3>10, <3>11 DEF Consume
  <2> QED BY <2>1, <2>2
<1>8. ASSUME NEW t \in Threads, GivenBack(t) PROVE Behind(c)'
  <2>1. CASE t = c
    BY <1>3, <1>8, <2>1, GivenBackDoes
  <2>2. CASE t # c
    BY <1>0, <1>4, <1>8, <2>2, GivenBackDoes
  <2> QED BY <2>1, <2>2
<1>9. ASSUME NEW t \in Threads, InFreeList(t) PROVE Behind(c)'
  BY <1>4, <1>9 DEF InFreeList
<1> QED BY <1>5, <1>6, <1>7, <1>8, <1>9 DEF Next

\* Only LoadBlockIndex comes to the entry.
LEMMA StaysOne ==
    ASSUME Types, [Next]_vars, NEW c \in Consumers, ~LoadBlockIndex(c)
    PROVE  pc'[c] = "entry" => pc[c] = "entry" /\ loc'[c] = loc[c]
<1>1. CASE UNCHANGED vars
  BY <1>1 DEF vars
<1>2. ASSUME NEW p \in Producers, Produce(p) PROVE pc'[c] = pc[c] /\ loc'[c] = loc[c]
  BY <1>2, OnlyProducer, Members, Members2
<1>3. ASSUME NEW d \in Consumers, Consume(d)
      PROVE  pc'[c] = "entry" => pc[c] = "entry" /\ loc'[c] = loc[c]
  <2>1. CASE d # c
    BY <1>3, <2>1, OnlyConsumer, Members2
  <2>2. CASE d = c
    <3>1. pc'[c] # "entry"
      BY Zenon, <1>3, <2>2, Members2 DEF Types, PcTypes, Consume, Dequeue, SeemsEmpty, SeemsNonEmpty,
         AddOptimistic, Recheck, AddOvercommit, ClaimHead, MoveElement, SetEmpty,
         Release, Back, Goto
    <3> QED BY <3>1
  <2> QED BY <2>1, <2>2
<1>4. ASSUME NEW t \in Threads, GivenBack(t) PROVE pc'[c] = "entry" => pc[c] = "entry" /\ loc'[c] = loc[c]
  <2>1. pc'[t] # "entry"
    BY <1>4 DEF Types, PcTypes, GivenBack, Back, Goto
  <2> QED BY <1>4, <2>1, OnlyGivenBack, Members2
<1>5. ASSUME NEW t \in Threads, InFreeList(t) PROVE pc'[c] = "entry" => pc[c] = "entry" /\ loc'[c] = loc[c]
  BY <1>5, OnlyInFreeList
<1> QED BY <1>1, <1>2, <1>3, <1>4, <1>5 DEF Next

\* The last entry of a stream with elements is used.
LEMMA LastIsUsed ==
    ASSUME Types, NEW p \in Producers, Indexed1(p), tailIndex[p] > 0
    PROVE  Used(entry[p][Cur(p).index[Cur(p).tail]].key)
<1>1. tailIndex[p] \in Nat
  BY DEF Types, CountTypes
<1>2. REnd(pc[p], tailIndex[p]) > 0
  <2> DEFINE T == tailIndex[p]
  <2>1. T % BLOCK_SIZE \in 0 .. BLOCK_SIZE - 1 /\ BlockBase(T) = T - (T % BLOCK_SIZE) /\ T > 0
    BY <1>1, Size, Modulo DEF BlockBase
  <2> HIDE DEF T
  <2>2. REnd(pc[p], T) > 0
    BY <2>1, <1>1, Size DEF REnd, RNew, T
  <2> QED BY <2>2 DEF T
<1>3. Used(KeysOf(p)[Cur(p).tail])
  BY <1>2 DEF Indexed1, RingOf, Ring
<1> QED BY <1>3, CurIs

\* The tail that a consumer read with the index was used, and stays so.
LEMMA LoadedStep ==
    ASSUME Types, Claims, IndexOK, [Next]_vars, NEW c \in Consumers
    PROVE  LoadedOne(c)'
<1> USE DEF IndexOK
<1>1. \A q \in Producers : KeysStay(q)
  BY AllStay
<1>2. CASE LoadBlockIndex(c)
  <2> DEFINE p == loc[c].from
  <2>1. p \in Producers /\ pc[c] = "block_index" /\ loc'[c].from = p
        /\ loc'[c].header = Current(p) /\ loc'[c].slot = Cur(p).tail
        /\ blockIndex' = blockIndex /\ entry' = entry
    BY <1>2, LoadBlockIndexDoes, Members2 DEF Types, LocTypes, Locals
  <2> HIDE DEF p
  <2>2. headIndex[p] > loc[c].count /\ headIndex[p] <= tailIndex[p] /\ loc[c].count \in Nat
        /\ headIndex[p] \in Nat /\ tailIndex[p] \in Nat
    <3>1. headIndex[p] <= tailIndex[p]
      BY <2>1, ClaimsImply
    <3>2. Behind(c)
      OBVIOUS
    <3>3. loc[c].count < headIndex[p]
      BY <2>1, <3>2 DEF Behind, p
    <3>4. loc[c].count \in Nat /\ headIndex[p] \in Nat /\ tailIndex[p] \in Nat
      BY <2>1, Members2 DEF Types, LocTypes, WfLoc, CountTypes
    <3> QED BY <3>1, <3>3, <3>4
  <2>3. tailIndex[p] > 0
    BY <2>2
  <2>4. Used(entry[p][Cur(p).index[Cur(p).tail]].key)
    BY <2>1, <2>3, LastIsUsed
  <2>5. Cur(p) = blockIndex[p][Current(p)]
    BY <2>1, CurIs
  <2>6. Used(entry'[p][blockIndex'[p][loc'[c].header].index[loc'[c].slot]].key)
    BY Zenon, <2>1, <2>4, <2>5
  <2> QED BY Zenon, <2>1, <2>6 DEF LoadedOne, EntryAt
<1>3. CASE ~LoadBlockIndex(c)
  <2>1. pc'[c] = "entry" => pc[c] = "entry" /\ loc'[c] = loc[c]
    BY <1>3, StaysOne
  <2>2. SUFFICES ASSUME pc'[c] = "entry" PROVE LoadedOne(c)'
    BY DEF LoadedOne
  <2> DEFINE f == loc[c]
             p == f.from
             h == blockIndex[p][f.header]
             e == h.index[f.slot]
  <2>3. pc[c] = "entry" /\ loc'[c] = f
    BY SMTT(40), <2>1, <2>2
  <2>4. p \in Producers /\ f.header \in 1 .. Len(blockIndex[p]) /\ f.slot \in 0 .. Capacity(h) - 1
        /\ h.index \in [0 .. Capacity(h) - 1 -> 1 .. Len(entry[p])]
    BY <2>3, Members2 DEF Types, LocTypes, IndexTypes
  <2>5. e \in 1 .. Len(entry[p])
    BY <2>4
  <2>6. Used(entry[p][e].key)
    <3>1. LoadedOne(c)
      OBVIOUS
    <3> QED BY Zenon, <2>3, <3>1 DEF LoadedOne, EntryAt
  <2>7. blockIndex'[p][f.header].index = h.index /\ Used(entry'[p][e].key)
    BY Zenon, <1>1, <2>4, <2>5, <2>6 DEF KeysStay
  <2>8. Used(entry'[p][blockIndex'[p][f.header].index[f.slot]].key)
    BY Zenon, <2>7
  <2> QED BY Zenon, <2>3, <2>8 DEF LoadedOne, EntryAt
<1> QED BY <1>2, <1>3

\* Every step keeps the indices.
LEMMA IndexStep ==
    ASSUME Types, Claims, IndexOK, [Next]_vars
    PROVE  IndexOK'
<1>1. \A p \in Producers : Indexed1(p)'
  BY IndexedAll DEF IndexOK
<1>2. \A c \in Consumers : Behind(c)' /\ LoadedOne(c)'
  BY BehindStep, LoadedStep DEF IndexOK
<1> QED BY <1>1, <1>2 DEF IndexOK

-----------------------------------------------------------------------------
(***************************************************************************)
(* The free list. The references of a block tell where it is: with nobody  *)
(* at work on it, the count is the number of readers (nobody's, or in      *)
(* use), one more (on the list), or has the mark (the last reader puts it  *)
(* on the list).                                                           *)
(***************************************************************************)

\* The mark is above every number of references.
LEMMA MarkIs == Cardinality(Threads) \in Nat /\ MARK = Cardinality(Threads) + 3 /\ MARK \in Nat
  BY QueueAssumption, FS_CardinalityType DEF MARK, SHOULD_BE_ON_FREELIST

\* The readers of a block are counted.
LEMMA Refds ==
    \A b : /\ IsFiniteSet(ReadersOf(b)) /\ Refd(b) \in Nat /\ Refd(b) <= Cardinality(Threads)
           /\ Refd(b) = 0 <=> \A t \in Threads : ~Reads(fl[t], b)
<1> TAKE b
<1>1. ReadersOf(b) \in SUBSET Threads /\ IsFiniteSet(Threads)
  BY QueueAssumption DEF ReadersOf
<1>2. IsFiniteSet(ReadersOf(b)) /\ Refd(b) \in Nat
  BY <1>1, FS_Subset, FS_CardinalityType DEF Refd
<1>3. Refd(b) <= Cardinality(Threads)
  BY <1>1, FS_Subset DEF Refd
<1>4. Refd(b) = 0 <=> ReadersOf(b) = {}
  BY <1>2, FS_EmptySet DEF Refd
<1> QED BY <1>2, <1>3, <1>4 DEF ReadersOf

\* The readers of a block in a step of one thread.
LEMMA RefdsMove ==
    ASSUME NEW t \in Threads, \A u \in Threads : u # t => fl'[u] = fl[u], NEW b
    PROVE  /\ Reads(fl[t], b) /\ ~Reads(fl'[t], b) => Refd(b)' = Refd(b) - 1
           /\ ~Reads(fl[t], b) /\ Reads(fl'[t], b) => Refd(b)' = Refd(b) + 1
           /\ (Reads(fl[t], b) <=> Reads(fl'[t], b)) => Refd(b)' = Refd(b)
<1> DEFINE S == ReadersOf(b)
           S2 == {u \in Threads : Reads(fl'[u], b)}
<1>1. IsFiniteSet(S)
  BY Refds
<1>2. S2 \ {t} = S \ {t}
  BY DEF ReadersOf
<1>3. (t \in S <=> Reads(fl[t], b)) /\ (t \in S2 <=> Reads(fl'[t], b))
  BY DEF ReadersOf
<1>4. Refd(b)' = Cardinality(S2) /\ Refd(b) = Cardinality(S)
  BY DEF Refd, ReadersOf
<1> HIDE DEF S, S2
<1> QED BY <1>1, <1>2, <1>3, <1>4, OneMoves

\* A step of t that touches b0 only.
LEMMA RefsStep ==
    ASSUME FreeRefs, NEW t \in Threads, \A u \in Threads : u # t => fl'[u] = fl[u],
           NEW b0 \in Blocks,
           \A b \in Blocks : b # b0 =>
             /\ freeListRefs'[b] = freeListRefs[b]
             /\ ~Reads(fl[t], b) /\ ~Reads(fl'[t], b) /\ ~Works(fl[t], b) /\ ~Works(fl'[t], b),
           fl'[t].at \in Working =>
             /\ fl'[t].node = b0 /\ \A u \in Threads : u # t => ~Works(fl[u], b0)
             /\ Fits(fl'[t].at, freeListRefs'[b0], Refd(b0)'),
           \A u \in Threads : u # t /\ Works(fl[u], b0) =>
             Fits(fl[u].at, freeListRefs'[b0], Refd(b0)'),
           fl'[t].at \notin Working /\ (\A u \in Threads : u # t => ~Works(fl[u], b0)) =>
             \/ freeListRefs'[b0] = Refd(b0)'
             \/ freeListRefs'[b0] = Refd(b0)' + 1
             \/ freeListRefs'[b0] = MARK + Refd(b0)' /\ Refd(b0)' > 0
    PROVE  /\ FreeRefs'
           /\ \A b \in Blocks : b # b0 => (LooseB(b)' <=> LooseB(b)) /\ (Listed(b)' <=> Listed(b))
<1>1. \A b \in Blocks : b # b0 => Refd(b)' = Refd(b)
  BY RefdsMove
<1>2. \A b \in Blocks : b # b0 => (Free1(b)' <=> Free1(b))
  BY DEF Free1
<1>3. \A b \in Blocks : b # b0 => /\ LooseB(b)' <=> LooseB(b)
                                  /\ Listed(b)' <=> Listed(b)
                                  /\ Waits(b)' <=> Waits(b)
  BY <1>1, <1>2 DEF LooseB, Listed, Waits
<1>4. \A b \in Blocks : Free1(b)' => LooseB(b)' \/ Listed(b)' \/ Waits(b)'
  <2>1. ASSUME Free1(b0)' PROVE LooseB(b0)' \/ Listed(b0)' \/ Waits(b0)'
    <3>1. \A u \in Threads : ~Works(fl'[u], b0)
      BY <2>1 DEF Free1
    <3>2. fl'[t].at \notin Working /\ \A u \in Threads : u # t => ~Works(fl[u], b0)
      BY <3>1 DEF Works
    <3> QED BY <2>1, <3>2 DEF LooseB, Listed, Waits
  <2>2. ASSUME NEW b \in Blocks, b # b0, Free1(b)' PROVE LooseB(b)' \/ Listed(b)' \/ Waits(b)'
    BY <1>2, <1>3, <2>2 DEF FreeRefs
  <2> QED BY <2>1, <2>2
<1>5. ASSUME NEW u \in Threads, fl'[u].at \in Working
      PROVE  fl'[u].node \in Blocks
  BY <1>5 DEF FreeRefs
<1>6. ASSUME NEW u \in Threads, NEW b \in Blocks, Works(fl'[u], b)
      PROVE  Fits(fl'[u].at, freeListRefs'[b], Refd(b)')
  <2>1. CASE u = t
    BY <1>6, <2>1 DEF Works
  <2>2. CASE u # t
    <3>1. fl'[u] = fl[u] /\ Works(fl[u], b)
      BY <1>6, <2>2
    <3>2. Fits(fl[u].at, freeListRefs[b], Refd(b))
      BY <3>1 DEF FreeRefs
    <3>3. CASE b = b0
      BY <2>2, <3>1, <3>3
    <3>4. CASE b # b0
      BY <1>1, <3>1, <3>2, <3>4
    <3> QED BY <3>3, <3>4
  <2> QED BY <2>1, <2>2
<1>7. ASSUME NEW u \in Threads, NEW w \in Threads, NEW b \in Blocks, Works(fl'[u], b), Works(fl'[w], b)
      PROVE  u = w
  <2>1. CASE u # t /\ w # t
    <3>1. Works(fl[u], b) /\ Works(fl[w], b)
      BY <1>7, <2>1
    <3> QED BY <3>1 DEF FreeRefs
  <2>2. CASE u = t
    BY <1>7, <2>2 DEF Works
  <2>3. CASE w = t
    BY <1>7, <2>3 DEF Works
  <2> QED BY <2>1, <2>2, <2>3
<1> QED BY <1>3, <1>4, <1>5, <1>6, <1>7 DEF FreeRefs

\* f neither reads a block nor works on one.
Idle(f) == f.at \in {"out", "added", "get", "ref", "empty"}

\* A thread that is idle in the list has no block of it.
LEMMA IdleIs == ASSUME NEW f, Idle(f) PROVE f.at \notin Working /\ \A b : ~Works(f, b) /\ ~Reads(f, b)
  BY DEF Idle, Works, Reads, Working

\* The locals that the steps of the free list make: which of them are idle.
LEMMA RecordsAre ==
    /\ \A h \in MaybeBlock : Idle(Test(h))
    /\ \A f \in FlRecord : Idle(AfterPush(f))
    /\ Idle(Getting) /\ Idle(Outside)
    /\ \A b \in MaybeBlock : Adding(b).at = "add" /\ Adding(b).node = b
<1>1. ASSUME NEW h \in MaybeBlock PROVE Idle(Test(h))
  <2>1. CASE h = None
    BY <2>1 DEF Test, Outside, Idle
  <2>2. CASE h # None
    BY <2>2 DEF Test, Outside, Idle
  <2> QED BY <2>1, <2>2
<1>2. ASSUME NEW f \in FlRecord PROVE Idle(AfterPush(f))
  <2>1. f.head \in MaybeBlock
    BY DEF FlRecord
  <2>2. Idle([Outside EXCEPT !.at = "added"])
    BY DEF Outside, Idle
  <2>3. CASE f.getting = TRUE
    BY <2>1, <2>3, <1>1 DEF AfterPush
  <2>4. CASE f.getting # TRUE
    <3>1. f.getting = FALSE
      BY <2>4 DEF FlRecord
    <3> QED BY <2>2, <3>1 DEF AfterPush
  <2> QED BY <2>3, <2>4
<1>3. Idle(Getting) /\ Idle(Outside)
  BY DEF Getting, Outside, Idle
<1>4. \A b \in MaybeBlock : Adding(b).at = "add" /\ Adding(b).node = b
  BY DEF Adding, Outside
<1> QED BY <1>1, <1>2, <1>3, <1>4

\* The locals of a thread in the free list, field by field.
LEMMA FlIs ==
    ASSUME FreeTypes, NEW t \in Threads
    PROVE  /\ fl[t] \in FlRecord /\ Wf(fl[t])
           /\ fl[t].at \in FlAt /\ fl[t].node \in MaybeBlock /\ fl[t].head \in MaybeBlock
           /\ fl[t].old \in MaybeBlock /\ fl[t].next \in MaybeBlock
           /\ fl[t].at \in {"ref", "next", "pop"} => fl[t].head \in Blocks
<1>1. fl[t] \in FlRecord /\ Wf(fl[t])
  BY DEF FreeTypes, Wf
<1> QED BY <1>1 DEF FlRecord, Wf

\* One thread moves in the free list.
LEMMA FlSet ==
    ASSUME FreeTypes, NEW t \in Threads, NEW f, fl' = [fl EXCEPT ![t] = f]
    PROVE  fl'[t] = f /\ \A u \in Threads : u # t => fl'[u] = fl[u]
  BY DEF FreeTypes

\* A thread moves on in the free list with its locals.
LEMMA AtSet ==
    ASSUME NEW f \in FlRecord, NEW a
    PROVE  LET g == [f EXCEPT !.at = a] IN
           /\ g.at = a /\ g.node = f.node /\ g.old = f.old /\ g.head = f.head /\ g.next = f.next
  BY DEF FlRecord

\* t touches nothing that FreeOK is about.
LEMMA RefsQuiet ==
    ASSUME FreeRefs, NEW t \in Threads, \A u \in Threads : u # t => fl'[u] = fl[u],
           Idle(fl[t]), Idle(fl'[t]), freeListRefs' = freeListRefs
    PROVE  /\ FreeRefs'
           /\ \A b \in Blocks : (LooseB(b)' <=> LooseB(b)) /\ (Listed(b)' <=> Listed(b))
<1>1. /\ \A b : ~Works(fl[t], b) /\ ~Reads(fl[t], b) /\ ~Works(fl'[t], b) /\ ~Reads(fl'[t], b)
      /\ fl'[t].at \notin Working
  BY IdleIs
<1>2. \A b : Refd(b)' = Refd(b)
  BY <1>1, RefdsMove
<1>3. \A u \in Threads : \A b : Works(fl'[u], b) <=> Works(fl[u], b)
  BY <1>1
<1>4. \A b \in Blocks : Free1(b)' <=> Free1(b)
  BY <1>3 DEF Free1
<1>5. \A b \in Blocks : /\ LooseB(b)' <=> LooseB(b)
                        /\ Listed(b)' <=> Listed(b)
                        /\ Waits(b)' <=> Waits(b)
  BY <1>2, <1>4 DEF LooseB, Listed, Waits
<1>6. \A b \in Blocks : Free1(b)' => LooseB(b)' \/ Listed(b)' \/ Waits(b)'
  BY <1>4, <1>5 DEF FreeRefs
<1>7. ASSUME NEW u \in Threads, fl'[u].at \in Working PROVE fl'[u].node \in Blocks
  BY <1>7, <1>1 DEF FreeRefs
<1>8. ASSUME NEW u \in Threads, NEW b \in Blocks, Works(fl'[u], b)
      PROVE  Fits(fl'[u].at, freeListRefs'[b], Refd(b)')
  <2>1. u # t /\ fl'[u] = fl[u]
    BY <1>1, <1>8
  <2> QED BY <1>2, <1>8, <2>1 DEF FreeRefs
<1>9. ASSUME NEW u \in Threads, NEW w \in Threads, NEW b \in Blocks, Works(fl'[u], b), Works(fl'[w], b)
      PROVE  u = w
  BY <1>3, <1>9 DEF FreeRefs
<1> QED BY <1>5, <1>6, <1>7, <1>8, <1>9 DEF FreeRefs

\* t works on node and goes on or hands it over.
LEMMA RefsWork ==
    ASSUME FreeRefs, FreeTypes, NEW t \in Threads, \A u \in Threads : u # t => fl'[u] = fl[u],
           NEW b0 \in Blocks, Works(fl[t], b0),
           \A b \in Blocks : b # b0 => freeListRefs'[b] = freeListRefs[b],
           \/ Works(fl'[t], b0) /\ Fits(fl'[t].at, freeListRefs'[b0], Refd(b0))
           \/ Idle(fl'[t]) /\ \/ freeListRefs'[b0] = Refd(b0) + 1
                              \/ freeListRefs'[b0] = MARK + Refd(b0) /\ Refd(b0) > 0
    PROVE  /\ FreeRefs'
           /\ \A b \in Blocks : LooseB(b)' <=> LooseB(b)
           /\ \A b \in Blocks : b # b0 => (Listed(b)' <=> Listed(b))
           /\ Listed(b0)' <=> Idle(fl'[t]) /\ freeListRefs'[b0] = Refd(b0) + 1
           /\ ~Listed(b0) /\ Refd(b0)' = Refd(b0)
<1>1. \A b : ~Reads(fl[t], b) /\ ~Reads(fl'[t], b)
  BY IdleIs DEF Works, Reads, Working
<1>2. \A b : Refd(b)' = Refd(b)
  BY <1>1, RefdsMove
<1>3. \A u \in Threads : u # t => ~Works(fl[u], b0)
  BY DEF FreeRefs
<1>4. Works(fl'[t], b0) => ~Idle(fl'[t])
  BY IdleIs
<1>5. \A b \in Blocks : b # b0 => ~Works(fl[t], b) /\ ~Works(fl'[t], b)
  BY IdleIs DEF Works
<1>6. fl'[t].at \in Working => fl'[t].node = b0 /\ Fits(fl'[t].at, freeListRefs'[b0], Refd(b0)')
  BY <1>2, IdleIs DEF Works
<1>7. fl'[t].at \notin Working =>
             \/ freeListRefs'[b0] = Refd(b0)'
             \/ freeListRefs'[b0] = Refd(b0)' + 1
             \/ freeListRefs'[b0] = MARK + Refd(b0)' /\ Refd(b0)' > 0
  BY <1>2 DEF Works
<1>8. /\ FreeRefs'
      /\ \A b \in Blocks : b # b0 => (LooseB(b)' <=> LooseB(b)) /\ (Listed(b)' <=> Listed(b))
  BY <1>1, <1>3, <1>5, <1>6, <1>7, RefsStep
<1>9. ~Free1(b0) /\ (Free1(b0)' <=> ~Works(fl'[t], b0))
  BY <1>3 DEF Free1
<1>10. Refd(b0) \in Nat /\ MARK \in Nat /\ MARK > 1
  BY Refds, MarkIs
<1>11. ~LooseB(b0) /\ ~Listed(b0)
  BY <1>9 DEF LooseB, Listed
<1>12. ~LooseB(b0)'
  <2>1. CASE Works(fl'[t], b0)
    BY <1>9, <2>1 DEF LooseB
  <2>2. CASE ~Works(fl'[t], b0)
    BY <1>2, <1>10, <2>2 DEF LooseB
  <2> QED BY <2>1, <2>2
<1>13. Listed(b0)' <=> Idle(fl'[t]) /\ freeListRefs'[b0] = Refd(b0) + 1
  <2>1. CASE Works(fl'[t], b0)
    BY <1>4, <1>9, <2>1 DEF Listed
  <2>2. CASE ~Works(fl'[t], b0)
    BY <1>2, <1>9, <1>10, <2>2 DEF Listed
  <2> QED BY <2>1, <2>2
<1> QED BY <1>2, <1>8, <1>11, <1>12, <1>13

\* A thread at work on a block has one, and the count that fits.
LEMMA WorksIs ==
    ASSUME FreeRefs, NEW t \in Threads, fl[t].at \in Working
    PROVE  /\ fl[t].node \in Blocks /\ Works(fl[t], fl[t].node)
           /\ Fits(fl[t].at, freeListRefs[fl[t].node], Refd(fl[t].node))
  BY DEF FreeRefs, Works

-----------------------------------------------------------------------------
(***************************************************************************)
(* What each step of add and try_get does to the references.               *)
(***************************************************************************)

\* The counts are good after the step, and no block gets off the list or on
\* it unseen.
RefsGood == FreeRefs' /\ \A b \in Blocks : LooseB(b)' <=> LooseB(b)

\* The same blocks are on the list.
ListedSame == \A b \in Blocks : Listed(b)' <=> Listed(b)

\* add: the mark is set, and the block is pushed if nobody reads it.
LEMMA AddRefs ==
    ASSUME FreeRefs, FreeTypes, NEW t \in Threads, Add(t)
    PROVE  /\ RefsGood /\ ListedSame
           /\ \/ fl'[t].at = "load" /\ fl'[t].node = fl[t].node
              \/ Idle(fl'[t])
           /\ freeListHead' = freeListHead /\ freeListNext' = freeListNext
           /\ \A u \in Threads : u # t => fl'[u] = fl[u]
<1>1. fl[t].at = "add" /\ fl[t].at \in Working
  BY DEF Add, Working
<1> PICK b \in Blocks : b = fl[t].node
  BY <1>1, WorksIs
<1>2. b \in Blocks /\ Works(fl[t], b) /\ freeListRefs[b] = Refd(b)
  BY <1>1, WorksIs DEF Fits
<1>3. fl' = [fl EXCEPT ![t] = IF freeListRefs[b] = 0 THEN [fl[t] EXCEPT !.at = "load"] ELSE AfterPush(fl[t])]
  BY DEF Add, FreeTypes
<1>4. /\ fl'[t] = IF freeListRefs[b] = 0 THEN [fl[t] EXCEPT !.at = "load"] ELSE AfterPush(fl[t])
      /\ \A u \in Threads : u # t => fl'[u] = fl[u]
  BY <1>3, FlSet
<1>5. /\ freeListRefs'[b] = freeListRefs[b] + MARK
      /\ \A x \in Blocks : x # b => freeListRefs'[x] = freeListRefs[x]
      /\ freeListHead' = freeListHead /\ freeListNext' = freeListNext
  BY <1>2 DEF Add, FreeTypes, MARK
<1>6. fl[t] \in FlRecord
  BY FlIs
<1>7. MARK \in Nat /\ MARK > 1 /\ Refd(b) \in Nat
  BY MarkIs, Refds
<1>8. freeListRefs[b] = 0 => fl'[t].at = "load" /\ fl'[t].node = b /\ Works(fl'[t], b)
  BY <1>4, <1>6, AtSet DEF Works, Working
<1>9. freeListRefs[b] # 0 => Idle(fl'[t])
  BY <1>4, <1>6, RecordsAre
<1>10. freeListRefs[b] = 0 => Fits(fl'[t].at, freeListRefs'[b], Refd(b))
  BY <1>2, <1>5, <1>7, <1>8 DEF Fits
<1>11. freeListRefs[b] # 0 => freeListRefs'[b] = MARK + Refd(b) /\ Refd(b) > 0
  BY <1>2, <1>5, <1>7
<1>12. freeListRefs[b] # 0 => freeListRefs'[b] # Refd(b) + 1
  BY <1>11, <1>7
<1>13. freeListRefs[b] = 0 => ~Idle(fl'[t])
  BY <1>8 DEF Idle
<1>16. \/ Works(fl'[t], b) /\ Fits(fl'[t].at, freeListRefs'[b], Refd(b))
       \/ Idle(fl'[t]) /\ \/ freeListRefs'[b] = Refd(b) + 1
                          \/ freeListRefs'[b] = MARK + Refd(b) /\ Refd(b) > 0
  BY <1>8, <1>9, <1>10, <1>11
<1>17. \A u \in Threads : u # t => fl'[u] = fl[u]
  BY <1>4
<1>18. \A x \in Blocks : x # b => freeListRefs'[x] = freeListRefs[x]
  BY <1>5
<1>19. Works(fl[t], b)
  BY <1>2
<1>14. /\ FreeRefs'
       /\ \A x \in Blocks : LooseB(x)' <=> LooseB(x)
       /\ \A x \in Blocks : x # b => (Listed(x)' <=> Listed(x))
       /\ Listed(b)' <=> Idle(fl'[t]) /\ freeListRefs'[b] = Refd(b) + 1
       /\ ~Listed(b)
  BY <1>16, <1>17, <1>18, <1>19, RefsWork
<1>15. ~Listed(b)'
  BY <1>12, <1>13, <1>14
<1> QED BY <1>4, <1>5, <1>8, <1>9, <1>14, <1>15 DEF RefsGood, ListedSame

\* The head is read.
LEMMA PushLoadRefs ==
    ASSUME FreeRefs, FreeTypes, NEW t \in Threads, PushLoad(t)
    PROVE  /\ RefsGood /\ ListedSame
           /\ fl'[t].at = "count"
           /\ freeListHead' = freeListHead /\ freeListNext' = freeListNext
           /\ \A u \in Threads : u # t => fl'[u] = fl[u]
<1>1. fl[t].at = "load" /\ fl[t].at \in Working
  BY DEF PushLoad, Working
<1> PICK b \in Blocks : b = fl[t].node
  BY <1>1, WorksIs
<1>2. b \in Blocks /\ Works(fl[t], b) /\ freeListRefs[b] = MARK /\ Refd(b) = 0
  BY <1>1, WorksIs DEF Fits
<1>3. fl' = [fl EXCEPT ![t] = [fl[t] EXCEPT !.old = freeListHead, !.at = "count"]]
  BY DEF PushLoad, FreeTypes
<1>4. /\ fl'[t] = [fl[t] EXCEPT !.old = freeListHead, !.at = "count"]
      /\ \A u \in Threads : u # t => fl'[u] = fl[u]
  BY <1>3, FlSet
<1>5. freeListHead' = freeListHead /\ freeListNext' = freeListNext /\ freeListRefs' = freeListRefs
  BY DEF PushLoad
<1>6. fl[t] \in FlRecord
  BY FlIs
<1>8. fl'[t].at = "count" /\ fl'[t].node = b
  BY <1>4, <1>6 DEF FlRecord
<1>9. Works(fl'[t], b) /\ Fits(fl'[t].at, freeListRefs'[b], Refd(b)) /\ ~Idle(fl'[t])
  BY <1>2, <1>5, <1>8 DEF Works, Working, Fits, Idle
<1>14. /\ FreeRefs'
       /\ \A x \in Blocks : LooseB(x)' <=> LooseB(x)
       /\ \A x \in Blocks : x # b => (Listed(x)' <=> Listed(x))
       /\ Listed(b)' <=> Idle(fl'[t]) /\ freeListRefs'[b] = Refd(b) + 1
       /\ ~Listed(b)
  BY <1>2, <1>4, <1>5, <1>9, RefsWork
<1> QED BY <1>4, <1>5, <1>8, <1>9, <1>14 DEF RefsGood, ListedSame

\* The count of a block that nobody reads is set to 1; from here its next may
\* be read.
LEMMA PushCountRefs ==
    ASSUME FreeRefs, FreeTypes, NEW t \in Threads, PushCount(t)
    PROVE  /\ RefsGood /\ ListedSame
           /\ fl[t].node \in Blocks /\ Refd(fl[t].node) = 0 /\ ~Listed(fl[t].node)
           /\ fl'[t].at = "push" /\ fl'[t].node = fl[t].node /\ fl'[t].old = fl[t].old
           /\ freeListHead' = freeListHead
           /\ freeListNext' = [freeListNext EXCEPT ![fl[t].node] = fl[t].old]
           /\ \A u \in Threads : u # t => fl'[u] = fl[u] /\ ~Works(fl[u], fl[t].node)
<1>1. fl[t].at = "count" /\ fl[t].at \in Working
  BY DEF PushCount, Working
<1> PICK b \in Blocks : b = fl[t].node
  BY <1>1, WorksIs
<1>2. b \in Blocks /\ Works(fl[t], b) /\ freeListRefs[b] = MARK /\ Refd(b) = 0
  BY <1>1, WorksIs DEF Fits
<1>3. fl' = [fl EXCEPT ![t] = [fl[t] EXCEPT !.at = "push"]]
  BY DEF PushCount, FreeTypes
<1>4. /\ fl'[t] = [fl[t] EXCEPT !.at = "push"]
      /\ \A u \in Threads : u # t => fl'[u] = fl[u]
  BY <1>3, FlSet
<1>5. /\ freeListHead' = freeListHead
      /\ freeListNext' = [freeListNext EXCEPT ![b] = fl[t].old]
      /\ freeListRefs'[b] = 1
      /\ \A x \in Blocks : x # b => freeListRefs'[x] = freeListRefs[x]
  BY <1>2 DEF PushCount, FreeTypes
<1>6. fl[t] \in FlRecord
  BY FlIs
<1>8. fl'[t].at = "push" /\ fl'[t].node = b /\ fl'[t].old = fl[t].old
  BY <1>4, <1>6, AtSet
<1>9. Works(fl'[t], b) /\ Fits(fl'[t].at, freeListRefs'[b], Refd(b)) /\ ~Idle(fl'[t])
  BY <1>2, <1>5, <1>8 DEF Works, Working, Fits, Idle
<1>10. \A u \in Threads : u # t => ~Works(fl[u], b)
  BY <1>2 DEF FreeRefs
<1>14. /\ FreeRefs'
       /\ \A x \in Blocks : LooseB(x)' <=> LooseB(x)
       /\ \A x \in Blocks : x # b => (Listed(x)' <=> Listed(x))
       /\ Listed(b)' <=> Idle(fl'[t]) /\ freeListRefs'[b] = Refd(b) + 1
       /\ ~Listed(b)
  BY <1>2, <1>4, <1>5, <1>9, RefsWork
<1> QED BY <1>2, <1>4, <1>5, <1>8, <1>9, <1>10, <1>14 DEF RefsGood, ListedSame

\* The block becomes the head, or there is another head.
LEMMA PushRefs ==
    ASSUME FreeRefs, FreeTypes, NEW t \in Threads, Push(t)
    PROVE  /\ RefsGood
           /\ fl[t].node \in Blocks /\ ~Listed(fl[t].node) /\ fl[t].at = "push"
           /\ \/ /\ freeListHead = fl[t].old /\ freeListHead' = fl[t].node
                 /\ Idle(fl'[t])
                 /\ \A b \in Blocks : Listed(b)' <=> Listed(b) \/ b = fl[t].node
              \/ /\ freeListHead' = freeListHead /\ ListedSame
                 /\ fl'[t].at = "repush"
           /\ freeListNext' = freeListNext
           /\ \A u \in Threads : u # t => fl'[u] = fl[u]
<1>1. fl[t].at = "push" /\ fl[t].at \in Working
  BY DEF Push, Working
<1> PICK b \in Blocks : b = fl[t].node
  BY <1>1, WorksIs
<1>2. b \in Blocks /\ Works(fl[t], b) /\ freeListRefs[b] = Refd(b) + 1
  BY <1>1, WorksIs DEF Fits
<1>5. freeListNext' = freeListNext /\ freeListRefs' = freeListRefs
  BY DEF Push
<1>6. fl[t] \in FlRecord
  BY FlIs
<1>7. CASE freeListHead = fl[t].old
  <2>1. fl' = [fl EXCEPT ![t] = AfterPush(fl[t])] /\ freeListHead' = b
    BY <1>7 DEF Push, FreeTypes
  <2>2. fl'[t] = AfterPush(fl[t]) /\ \A u \in Threads : u # t => fl'[u] = fl[u]
    BY <2>1, FlSet
  <2>3. Idle(fl'[t])
    BY <2>2, <1>6, RecordsAre
  <2>4. freeListRefs'[b] = Refd(b) + 1
    BY <1>2, <1>5
  <2>5. /\ FreeRefs'
        /\ \A x \in Blocks : LooseB(x)' <=> LooseB(x)
        /\ \A x \in Blocks : x # b => (Listed(x)' <=> Listed(x))
        /\ Listed(b)' <=> Idle(fl'[t]) /\ freeListRefs'[b] = Refd(b) + 1
        /\ ~Listed(b)
    BY <1>2, <1>5, <2>2, <2>3, <2>4, RefsWork
  <2>6. \A x \in Blocks : Listed(x)' <=> Listed(x) \/ x = b
    BY <2>3, <2>4, <2>5
  <2> QED BY <1>1, <1>2, <1>5, <1>7, <2>1, <2>2, <2>3, <2>5, <2>6 DEF RefsGood
<1>8. CASE freeListHead # fl[t].old
  <2>1. fl' = [fl EXCEPT ![t] = [fl[t] EXCEPT !.old = freeListHead, !.at = "repush"]] /\ freeListHead' = freeListHead
    BY <1>8 DEF Push, FreeTypes
  <2>2. fl'[t] = [fl[t] EXCEPT !.old = freeListHead, !.at = "repush"] /\ \A u \in Threads : u # t => fl'[u] = fl[u]
    BY <2>1, FlSet
  <2>3. fl'[t].at = "repush" /\ fl'[t].node = b
    BY <2>2, <1>6 DEF FlRecord
  <2>4. Works(fl'[t], b) /\ Fits(fl'[t].at, freeListRefs'[b], Refd(b)) /\ ~Idle(fl'[t])
    BY <1>2, <1>5, <2>3 DEF Works, Working, Fits, Idle
  <2>5. /\ FreeRefs'
        /\ \A x \in Blocks : LooseB(x)' <=> LooseB(x)
        /\ \A x \in Blocks : x # b => (Listed(x)' <=> Listed(x))
        /\ Listed(b)' <=> Idle(fl'[t]) /\ freeListRefs'[b] = Refd(b) + 1
        /\ ~Listed(b)
    BY <1>2, <1>5, <2>2, <2>4, RefsWork
  <2>6. ListedSame
    BY <2>4, <2>5 DEF ListedSame
  <2> QED BY <1>1, <1>2, <1>5, <2>1, <2>2, <2>3, <2>5, <2>6 DEF RefsGood
<1> QED BY <1>7, <1>8

\* The push is tried again if no reader is left.
LEMMA RepushRefs ==
    ASSUME FreeRefs, FreeTypes, NEW t \in Threads, Repush(t)
    PROVE  /\ RefsGood /\ ListedSame
           /\ fl'[t].at = "count" \/ Idle(fl'[t])
           /\ freeListHead' = freeListHead /\ freeListNext' = freeListNext
           /\ \A u \in Threads : u # t => fl'[u] = fl[u]
<1>1. fl[t].at = "repush" /\ fl[t].at \in Working
  BY DEF Repush, Working
<1> PICK b \in Blocks : b = fl[t].node
  BY <1>1, WorksIs
<1>2. b \in Blocks /\ Works(fl[t], b) /\ freeListRefs[b] = Refd(b) + 1
  BY <1>1, WorksIs DEF Fits
<1>3. fl' = [fl EXCEPT ![t] = IF freeListRefs[b] = 1 THEN [fl[t] EXCEPT !.at = "count"] ELSE AfterPush(fl[t])]
  BY DEF Repush, FreeTypes
<1>4. /\ fl'[t] = IF freeListRefs[b] = 1 THEN [fl[t] EXCEPT !.at = "count"] ELSE AfterPush(fl[t])
      /\ \A u \in Threads : u # t => fl'[u] = fl[u]
  BY <1>3, FlSet
<1>5. /\ freeListRefs'[b] = freeListRefs[b] + MARK - 1
      /\ \A x \in Blocks : x # b => freeListRefs'[x] = freeListRefs[x]
      /\ freeListHead' = freeListHead /\ freeListNext' = freeListNext
  BY <1>2 DEF Repush, FreeTypes, MARK
<1>6. fl[t] \in FlRecord
  BY FlIs
<1>7. MARK \in Nat /\ MARK > 1 /\ Refd(b) \in Nat
  BY MarkIs, Refds
<1>8. freeListRefs[b] = 1 => fl'[t].at = "count" /\ fl'[t].node = b /\ Works(fl'[t], b)
  BY <1>4, <1>6, AtSet DEF Works, Working
<1>9. freeListRefs[b] # 1 => Idle(fl'[t])
  BY <1>4, <1>6, RecordsAre
<1>10. freeListRefs[b] = 1 => Fits(fl'[t].at, freeListRefs'[b], Refd(b))
  BY <1>2, <1>5, <1>7, <1>8 DEF Fits
<1>11. freeListRefs[b] # 1 => freeListRefs'[b] = MARK + Refd(b) /\ Refd(b) > 0
  BY <1>2, <1>5, <1>7
<1>12. freeListRefs[b] # 1 => freeListRefs'[b] # Refd(b) + 1
  BY <1>11, <1>7
<1>13. freeListRefs[b] = 1 => ~Idle(fl'[t])
  BY <1>8 DEF Idle
<1>16. \/ Works(fl'[t], b) /\ Fits(fl'[t].at, freeListRefs'[b], Refd(b))
       \/ Idle(fl'[t]) /\ \/ freeListRefs'[b] = Refd(b) + 1
                          \/ freeListRefs'[b] = MARK + Refd(b) /\ Refd(b) > 0
  BY <1>8, <1>9, <1>10, <1>11
<1>14. /\ FreeRefs'
       /\ \A x \in Blocks : LooseB(x)' <=> LooseB(x)
       /\ \A x \in Blocks : x # b => (Listed(x)' <=> Listed(x))
       /\ Listed(b)' <=> Idle(fl'[t]) /\ freeListRefs'[b] = Refd(b) + 1
       /\ ~Listed(b)
  BY ZenonT(40), <1>2, <1>4, <1>5, <1>16, RefsWork
<1>15. ~Listed(b)'
  BY <1>12, <1>13, <1>14
<1> QED BY <1>4, <1>5, <1>8, <1>9, <1>14, <1>15 DEF RefsGood, ListedSame

\* The references of a block that was popped: its own and the list's are
\* taken off.
LEMMA GotRefs ==
    ASSUME FreeRefs, FreeTypes, NEW t \in Threads, Got(t)
    PROVE  /\ RefsGood /\ ListedSame
           /\ fl'[t].at = "got" /\ fl'[t].node = fl[t].node
           /\ freeListHead' = freeListHead /\ freeListNext' = freeListNext
           /\ \A u \in Threads : u # t => fl'[u] = fl[u]
<1>1. fl[t].at = "popped" /\ fl[t].at \in Working
  BY DEF Got, Working
<1> PICK b \in Blocks : b = fl[t].node
  BY <1>1, WorksIs
<1>2. b \in Blocks /\ Works(fl[t], b) /\ freeListRefs[b] = Refd(b) + 2
  BY <1>1, WorksIs DEF Fits
<1>3. fl' = [fl EXCEPT ![t] = [fl[t] EXCEPT !.at = "got"]]
  BY DEF Got, FreeTypes
<1>4. /\ fl'[t] = [fl[t] EXCEPT !.at = "got"]
      /\ \A u \in Threads : u # t => fl'[u] = fl[u]
  BY <1>3, FlSet
<1>5. /\ freeListHead' = freeListHead /\ freeListNext' = freeListNext
      /\ freeListRefs'[b] = freeListRefs[b] - 2
      /\ \A x \in Blocks : x # b => freeListRefs'[x] = freeListRefs[x]
  BY <1>2 DEF Got, FreeTypes
<1>6. fl[t] \in FlRecord /\ Refd(b) \in Nat
  BY FlIs, Refds
<1>8. fl'[t].at = "got" /\ fl'[t].node = b
  BY <1>4, <1>6, AtSet
<1>9. Works(fl'[t], b) /\ Fits(fl'[t].at, freeListRefs'[b], Refd(b)) /\ ~Idle(fl'[t])
  BY <1>2, <1>5, <1>6, <1>8 DEF Works, Working, Fits, Idle
<1>14. /\ FreeRefs'
       /\ \A x \in Blocks : LooseB(x)' <=> LooseB(x)
       /\ \A x \in Blocks : x # b => (Listed(x)' <=> Listed(x))
       /\ Listed(b)' <=> Idle(fl'[t]) /\ freeListRefs'[b] = Refd(b) + 1
       /\ ~Listed(b)
  BY <1>2, <1>4, <1>5, <1>9, RefsWork
<1> QED BY <1>4, <1>5, <1>8, <1>9, <1>14 DEF RefsGood, ListedSame

\* t reads b0 before the step, or after it, and does not work on it.
LEMMA RefsRead ==
    ASSUME FreeRefs, FreeTypes, NEW t \in Threads, \A u \in Threads : u # t => fl'[u] = fl[u],
           NEW b0 \in Blocks, fl[t].at \notin Working, fl'[t].at \notin Working,
           \A b \in Blocks : b # b0 => freeListRefs'[b] = freeListRefs[b] /\ ~Reads(fl[t], b) /\ ~Reads(fl'[t], b),
           NEW k \in Int, freeListRefs'[b0] = freeListRefs[b0] + k, Refd(b0)' = Refd(b0) + k,
           \A u \in Threads : Works(fl[u], b0) => fl[u].at \notin {"load", "count"},
           Waits(b0) => Refd(b0) + k > 0
    PROVE  RefsGood /\ ListedSame
<1>1. \A b : ~Works(fl[t], b) /\ ~Works(fl'[t], b)
  BY DEF Works
<1>2. \A u \in Threads : u # t => (\A b : Works(fl'[u], b) <=> Works(fl[u], b))
  OBVIOUS
<1>3. Free1(b0)' <=> Free1(b0)
  BY <1>1, <1>2 DEF Free1
<1>4. freeListRefs[b0] \in Int /\ Refd(b0) \in Nat /\ MARK \in Nat /\ Refd(b0)' \in Int
  BY Refds, MarkIs DEF FreeTypes
<1>5. \A u \in Threads : u # t /\ Works(fl[u], b0) => Fits(fl[u].at, freeListRefs'[b0], Refd(b0)')
  <2>1. SUFFICES ASSUME NEW u \in Threads, Works(fl[u], b0)
                 PROVE  Fits(fl[u].at, freeListRefs[b0] + k, Refd(b0) + k)
    OBVIOUS
  <2>2. Fits(fl[u].at, freeListRefs[b0], Refd(b0)) /\ fl[u].at \notin {"load", "count"}
    BY <2>1 DEF FreeRefs
  <2> QED BY <1>4, <2>2 DEF Fits
<1>6. Free1(b0) => LooseB(b0) \/ Listed(b0) \/ Waits(b0)
  BY DEF FreeRefs
<1>7. Free1(b0) => \/ freeListRefs'[b0] = Refd(b0)'
                   \/ freeListRefs'[b0] = Refd(b0)' + 1
                   \/ freeListRefs'[b0] = MARK + Refd(b0)' /\ Refd(b0)' > 0
  BY <1>4, <1>6 DEF LooseB, Listed, Waits
<1>8. (\A u \in Threads : u # t => ~Works(fl[u], b0)) => Free1(b0)
  BY <1>1 DEF Free1
<1>9. /\ FreeRefs'
      /\ \A b \in Blocks : b # b0 => (LooseB(b)' <=> LooseB(b)) /\ (Listed(b)' <=> Listed(b))
  BY <1>1, <1>5, <1>7, <1>8, RefsStep
<1>10. (LooseB(b0)' <=> LooseB(b0)) /\ (Listed(b0)' <=> Listed(b0))
  BY <1>3, <1>4 DEF LooseB, Listed
<1> QED BY <1>9, <1>10 DEF RefsGood, ListedSame

\* The head is read.
LEMMA GetLoadRefs ==
    ASSUME FreeRefs, FreeTypes, NEW t \in Threads, GetLoad(t)
    PROVE  /\ RefsGood /\ ListedSame
           /\ Idle(fl'[t])
           /\ freeListHead' = freeListHead /\ freeListNext' = freeListNext
           /\ \A u \in Threads : u # t => fl'[u] = fl[u]
<1>1. fl' = [fl EXCEPT ![t] = Test(freeListHead)] /\ Idle(fl[t])
  BY DEF GetLoad, Idle
<1>2. Idle(fl'[t]) /\ \A u \in Threads : u # t => fl'[u] = fl[u]
  BY <1>1, FlSet, RecordsAre DEF FreeTypes
<1>3. freeListHead' = freeListHead /\ freeListNext' = freeListNext /\ freeListRefs' = freeListRefs
  BY DEF GetLoad
<1> QED BY <1>1, <1>2, <1>3, RefsQuiet DEF RefsGood, ListedSame

\* A block with a reference of a thread is not about to be pushed.
LEMMA ReadIs ==
    ASSUME FreeRefs, NEW t \in Threads, NEW b \in Blocks, Reads(fl[t], b)
    PROVE  /\ Refd(b) > 0
           /\ \A u \in Threads : Works(fl[u], b) => fl[u].at \notin {"load", "count"}
<1>1. Refd(b) # 0 /\ Refd(b) \in Nat
  BY Refds
<1> QED BY <1>1 DEF FreeRefs, Fits

\* A reference to the head is taken, unless its count is 0.
LEMMA GetRefRefs ==
    ASSUME FreeRefs, FreeTypes, NEW t \in Threads, GetRef(t)
    PROVE  /\ RefsGood /\ ListedSame
           /\ Idle(fl'[t]) \/ fl'[t].at = "next"
           /\ freeListHead' = freeListHead /\ freeListNext' = freeListNext
           /\ \A u \in Threads : u # t => fl'[u] = fl[u]
<1>1. fl[t].at = "ref" /\ fl[t].head \in Blocks /\ fl[t] \in FlRecord
  BY FlIs DEF GetRef
<1> PICK b \in Blocks : b = fl[t].head
  BY <1>1
<1>2. freeListHead' = freeListHead /\ freeListNext' = freeListNext
  BY DEF GetRef
<1>3. CASE freeListRefs' = freeListRefs /\ fl' = [fl EXCEPT ![t] = Getting]
  <2>1. Idle(fl'[t]) /\ \A u \in Threads : u # t => fl'[u] = fl[u]
    BY <1>3, FlSet, RecordsAre
  <2>2. Idle(fl[t])
    BY <1>1 DEF Idle
  <2> QED BY <1>2, <1>3, <2>1, <2>2, RefsQuiet DEF RefsGood, ListedSame
<1>4. CASE /\ RefsMasked(freeListRefs[b]) # 0
           /\ freeListRefs' = [freeListRefs EXCEPT ![b] = @ + 1]
           /\ fl' = [fl EXCEPT ![t].at = "next"]
  <2>1. fl' = [fl EXCEPT ![t] = [fl[t] EXCEPT !.at = "next"]]
    BY <1>4 DEF FreeTypes
  <2>2. fl'[t] = [fl[t] EXCEPT !.at = "next"] /\ \A u \in Threads : u # t => fl'[u] = fl[u]
    BY <2>1, FlSet
  <2>3. fl'[t].at = "next" /\ fl'[t].head = b
    BY <1>1, <2>2, AtSet
  <2>4. /\ Reads(fl'[t], b) /\ \A x \in Blocks : x # b => ~Reads(fl'[t], x)
        /\ \A x : ~Reads(fl[t], x)
        /\ fl[t].at \notin Working /\ fl'[t].at \notin Working
    BY <1>1, <2>3 DEF Reads, Working
  <2>5. Refd(b)' = Refd(b) + 1
    BY <2>2, <2>4, RefdsMove
  <2>6. /\ freeListRefs'[b] = freeListRefs[b] + 1
        /\ \A x \in Blocks : x # b => freeListRefs'[x] = freeListRefs[x]
    BY <1>4 DEF FreeTypes
  <2>7. MARK % MARK = 0
    BY MarkIs
  <2>8. ASSUME NEW u \in Threads, Works(fl[u], b) PROVE fl[u].at \notin {"load", "count"}
    <3>1. fl[u].at \in {"load", "count"} => freeListRefs[b] = MARK
      BY <2>8 DEF FreeRefs, Fits
    <3> QED BY <1>4, <2>7, <3>1 DEF RefsMasked, MARK
  <2>9. Refd(b) + 1 > 0
    BY Refds
  <2>11. \A x \in Blocks : x # b =>
           freeListRefs'[x] = freeListRefs[x] /\ ~Reads(fl[t], x) /\ ~Reads(fl'[t], x)
    BY <2>4, <2>6
  <2>12. \A u \in Threads : u # t => fl'[u] = fl[u]
    BY <2>2
  <2>13. freeListRefs'[b] = freeListRefs[b] + 1 /\ fl[t].at \notin Working /\ fl'[t].at \notin Working
    BY <2>4, <2>6
  <2>14. 1 \in Int
    OBVIOUS
  <2>10. RefsGood /\ ListedSame
    BY <2>5, <2>8, <2>9, <2>11, <2>12, <2>13, <2>14, RefsRead
  <2> QED BY <1>2, <2>2, <2>3, <2>10
<1> QED BY <1>3, <1>4 DEF GetRef

\* The next of the head is read under the reference: it cannot change before
\* the head is popped.
LEMMA GetNextRefs ==
    ASSUME FreeRefs, FreeTypes, NEW t \in Threads, GetNext(t)
    PROVE  /\ RefsGood /\ ListedSame
           /\ fl'[t].at = "pop" /\ fl'[t].head = fl[t].head /\ fl[t].head \in Blocks
           /\ fl'[t].next = freeListNext[fl[t].head]
           /\ freeListHead' = freeListHead /\ freeListNext' = freeListNext
           /\ \A u \in Threads : u # t => fl'[u] = fl[u]
<1>1. fl[t].at = "next" /\ fl[t].head \in Blocks /\ fl[t] \in FlRecord
  BY FlIs DEF GetNext
<1> PICK b \in Blocks : b = fl[t].head
  BY <1>1
<1>2. freeListHead' = freeListHead /\ freeListNext' = freeListNext /\ freeListRefs' = freeListRefs
  BY DEF GetNext
<1>3. fl' = [fl EXCEPT ![t] = [fl[t] EXCEPT !.next = freeListNext[b], !.at = "pop"]]
  BY DEF GetNext, FreeTypes
<1>4. fl'[t] = [fl[t] EXCEPT !.next = freeListNext[b], !.at = "pop"] /\ \A u \in Threads : u # t => fl'[u] = fl[u]
  BY <1>3, FlSet
<1>5. fl'[t].at = "pop" /\ fl'[t].head = b /\ fl'[t].next = freeListNext[b]
  BY <1>1, <1>4 DEF FlRecord
<1>6. /\ Reads(fl[t], b) /\ Reads(fl'[t], b)
      /\ \A x \in Blocks : x # b => ~Reads(fl'[t], x) /\ ~Reads(fl[t], x)
      /\ fl[t].at \notin Working /\ fl'[t].at \notin Working
  BY <1>1, <1>5 DEF Reads, Working
<1>7. Refd(b)' = Refd(b) + 0 /\ Refd(b) > 0
  BY <1>4, <1>6, RefdsMove, Refds, ReadIs
<1>8. freeListRefs'[b] = freeListRefs[b] + 0
  BY <1>2 DEF FreeTypes
<1>9. \A u \in Threads : Works(fl[u], b) => fl[u].at \notin {"load", "count"}
  BY <1>6, ReadIs
<1>10. Refd(b) + 0 > 0
  BY <1>7, Refds
<1>12. \A x \in Blocks : x # b =>
         freeListRefs'[x] = freeListRefs[x] /\ ~Reads(fl[t], x) /\ ~Reads(fl'[t], x)
  BY <1>2, <1>6
<1>13. \A u \in Threads : u # t => fl'[u] = fl[u]
  BY <1>4
<1>14. 0 \in Int
  OBVIOUS
<1>11. RefsGood /\ ListedSame
  BY <1>6, <1>7, <1>8, <1>9, <1>10, <1>12, <1>13, <1>14, RefsRead
<1> QED BY <1>2, <1>4, <1>5, <1>11

\* The head is on the list.
LEMMA HeadListed ==
    ASSUME FreeLinks, freeListHead # None
    PROVE  freeListHead \in Blocks => Listed(freeListHead)
<1>1. PICK n \in Nat : \E q \in [1 .. n -> Blocks] : ListIs(n, q)
  BY DEF FreeLinks
<1>2. PICK q \in [1 .. n -> Blocks] : ListIs(n, q)
  BY <1>1
<1>3. n # 0 /\ n \in 1 .. n /\ freeListHead = q[n] /\ \A b \in Blocks : Listed(b) <=> \E i \in 1 .. n : q[i] = b
  BY <1>2 DEF ListIs
<1> QED BY <1>3

\* The head is popped if it is still the head: its next is still what was
\* read.
LEMMA PopRefs ==
    ASSUME FreeRefs, FreeTypes, FreeLinks, NEW t \in Threads, Pop(t)
    PROVE  /\ RefsGood
           /\ fl[t].at = "pop" /\ fl[t].head \in Blocks
           /\ \/ /\ freeListHead = fl[t].head /\ freeListHead' = fl[t].next
                 /\ fl'[t].at = "popped" /\ fl'[t].node = fl[t].head
                 /\ \A b \in Blocks : Listed(b)' <=> Listed(b) /\ b # fl[t].head
              \/ /\ freeListHead' = freeListHead /\ ListedSame
                 /\ fl'[t].at = "unref" /\ fl'[t].node = fl[t].head
           /\ freeListNext' = freeListNext
           /\ \A u \in Threads : u # t => fl'[u] = fl[u]
<1>1. fl[t].at = "pop" /\ fl[t].head \in Blocks /\ fl[t] \in FlRecord
  BY FlIs DEF Pop
<1> PICK b \in Blocks : b = fl[t].head
  BY <1>1
<1>2. freeListNext' = freeListNext /\ freeListRefs' = freeListRefs
  BY DEF Pop
<1>3. Reads(fl[t], b) /\ (\A x \in Blocks : x # b => ~Reads(fl[t], x)) /\ fl[t].at \notin Working
      /\ \A x : ~Works(fl[t], x)
  BY <1>1 DEF Reads, Working, Works
<1>4. Refd(b) \in Nat /\ Refd(b) > 0 /\ MARK \in Nat
  BY <1>3, ReadIs, Refds, MarkIs
<1>5. CASE freeListHead = b
  <2>1. fl' = [fl EXCEPT ![t] = [Outside EXCEPT !.at = "popped", !.node = b]] /\ freeListHead' = fl[t].next
    BY <1>5 DEF Pop, FreeTypes
  <2>2. fl'[t] = [Outside EXCEPT !.at = "popped", !.node = b] /\ \A u \in Threads : u # t => fl'[u] = fl[u]
    BY <2>1, FlSet
  <2>3. fl'[t].at = "popped" /\ fl'[t].node = b
    BY <2>2 DEF Outside
  <2>4. b # None
    BY QueueAssumption
  <2>5. Listed(b)
    BY <1>5, <2>4, HeadListed
  <2>6. Free1(b) /\ freeListRefs[b] = Refd(b) + 1
    BY <2>5 DEF Listed
  <2>7. /\ ~Reads(fl'[t], b) /\ Works(fl'[t], b) /\ fl'[t].at \in Working
        /\ \A x \in Blocks : x # b => ~Reads(fl'[t], x) /\ ~Works(fl'[t], x)
    BY <2>3 DEF Reads, Works, Working
  <2>8. Refd(b)' = Refd(b) - 1
    BY <1>3, <2>2, <2>7, RefdsMove
  <2>9. Fits(fl'[t].at, freeListRefs'[b], Refd(b)')
    BY <1>2, <1>4, <2>3, <2>6, <2>8 DEF Fits
  <2>10. \A u \in Threads : ~Works(fl[u], b)
    BY <2>6 DEF Free1
  <2>11. \A u \in Threads : u # t => fl'[u] = fl[u]
    BY <2>2
  <2>12. \A x \in Blocks : x # b =>
             /\ freeListRefs'[x] = freeListRefs[x]
             /\ ~Reads(fl[t], x) /\ ~Reads(fl'[t], x) /\ ~Works(fl[t], x) /\ ~Works(fl'[t], x)
    BY <1>2, <1>3, <2>7
  <2>13. /\ FreeRefs'
         /\ \A x \in Blocks : x # b => (LooseB(x)' <=> LooseB(x)) /\ (Listed(x)' <=> Listed(x))
    BY <2>3, <2>7, <2>9, <2>10, <2>11, <2>12, RefsStep
  <2>14. ~Free1(b)'
    BY <2>7 DEF Free1
  <2>15. ~LooseB(b)' /\ ~Listed(b)'
    BY <2>14 DEF LooseB, Listed
  <2>16. ~LooseB(b)
    BY <1>4, <2>6 DEF LooseB
  <2>17. \A x \in Blocks : Listed(x)' <=> Listed(x) /\ x # b
    BY <2>13, <2>15
  <2>18. RefsGood
    BY <2>13, <2>15, <2>16 DEF RefsGood
  <2> QED BY <1>1, <1>2, <1>5, <2>1, <2>3, <2>11, <2>17, <2>18
<1>6. CASE freeListHead # b
  <2>1. fl' = [fl EXCEPT ![t] = [Outside EXCEPT !.at = "unref", !.node = b, !.getting = TRUE, !.head = freeListHead]]
        /\ freeListHead' = freeListHead
    BY <1>6 DEF Pop, FreeTypes
  <2>2. fl'[t] = [Outside EXCEPT !.at = "unref", !.node = b, !.getting = TRUE, !.head = freeListHead]
        /\ \A u \in Threads : u # t => fl'[u] = fl[u]
    BY <2>1, FlSet
  <2>3. fl'[t].at = "unref" /\ fl'[t].node = b
    BY <2>2 DEF Outside
  <2>4. /\ Reads(fl'[t], b) /\ \A x \in Blocks : x # b => ~Reads(fl'[t], x)
        /\ fl'[t].at \notin Working
    BY <2>3 DEF Reads, Working
  <2>5. \A u \in Threads : u # t => fl'[u] = fl[u]
    BY <2>2
  <2>6. Refd(b)' = Refd(b) + 0 /\ Refd(b) + 0 > 0
    BY <1>3, <1>4, <2>4, <2>5, RefdsMove
  <2>7. freeListRefs'[b] = freeListRefs[b] + 0
    BY <1>2 DEF FreeTypes
  <2>8. \A u \in Threads : Works(fl[u], b) => fl[u].at \notin {"load", "count"}
    BY <1>3, ReadIs
  <2>9. \A x \in Blocks : x # b =>
           freeListRefs'[x] = freeListRefs[x] /\ ~Reads(fl[t], x) /\ ~Reads(fl'[t], x)
    BY <1>2, <1>3, <2>4
  <2>10. 0 \in Int /\ fl[t].at \notin Working /\ fl'[t].at \notin Working
    BY <1>3, <2>4
  <2>11. RefsGood /\ ListedSame
    BY <2>5, <2>6, <2>7, <2>8, <2>9, <2>10, RefsRead
  <2> QED BY <1>1, <1>2, <2>1, <2>3, <2>5, <2>11
<1> QED BY <1>5, <1>6

\* The reference is given back; the last reader of a block with the mark
\* pushes it.
LEMMA UnrefRefs ==
    ASSUME FreeRefs, FreeTypes, NEW t \in Threads, Unref(t), fl[t].node \in Blocks
    PROVE  /\ RefsGood /\ ListedSame
           /\ fl'[t].at = "load" \/ Idle(fl'[t])
           /\ freeListHead' = freeListHead /\ freeListNext' = freeListNext
           /\ \A u \in Threads : u # t => fl'[u] = fl[u]
<1>1. fl[t].at = "unref" /\ fl[t] \in FlRecord /\ fl[t].head \in MaybeBlock
  BY FlIs DEF Unref
<1> PICK b \in Blocks : b = fl[t].node
  OBVIOUS
<1>2. /\ freeListHead' = freeListHead /\ freeListNext' = freeListNext
      /\ freeListRefs'[b] = freeListRefs[b] - 1
      /\ \A x \in Blocks : x # b => freeListRefs'[x] = freeListRefs[x]
      /\ freeListRefs[b] \in Int
  BY DEF Unref, FreeTypes
<1>3. Reads(fl[t], b) /\ (\A x \in Blocks : x # b => ~Reads(fl[t], x)) /\ fl[t].at \notin Working
      /\ \A x : ~Works(fl[t], x)
  BY <1>1 DEF Reads, Working, Works
<1>4. Refd(b) \in Nat /\ Refd(b) > 0 /\ MARK \in Nat /\ MARK > 2 /\ Refd(b) <= MARK - 3
  BY <1>3, ReadIs, Refds, MarkIs
<1>5. \A u \in Threads : Works(fl[u], b) => fl[u].at \notin {"load", "count"}
  BY <1>3, ReadIs
<1>6. fl' = [fl EXCEPT ![t] = IF freeListRefs[b] = MARK + 1 THEN [fl[t] EXCEPT !.at = "load"] ELSE Test(fl[t].head)]
  BY DEF Unref, MARK, FreeTypes
<1>7. /\ fl'[t] = IF freeListRefs[b] = MARK + 1 THEN [fl[t] EXCEPT !.at = "load"] ELSE Test(fl[t].head)
      /\ \A u \in Threads : u # t => fl'[u] = fl[u]
  BY <1>6, FlSet
<1>8. \A u \in Threads : u # t => fl'[u] = fl[u]
  BY <1>7
<1>9. CASE freeListRefs[b] = MARK + 1
  <2>1. fl'[t] = [fl[t] EXCEPT !.at = "load"]
    BY <1>7, <1>9
  <2>2. fl'[t].at = "load" /\ fl'[t].node = b
    BY <1>1, <2>1, AtSet
  <2>3. ASSUME NEW u \in Threads PROVE ~Works(fl[u], b)
    <3>1. SUFFICES ASSUME Works(fl[u], b) PROVE FALSE
      OBVIOUS
    <3>2. Fits(fl[u].at, freeListRefs[b], Refd(b)) /\ fl[u].at \in {"add", "push", "repush", "popped", "got"}
      BY <1>5, <3>1 DEF FreeRefs, Works, Working
    <3> QED BY <1>4, <1>9, <3>2 DEF Fits
  <2>4. Waits(b) /\ ~LooseB(b) /\ ~Listed(b)
    <3>1. Free1(b)
      BY <2>3 DEF Free1
    <3>2. ~LooseB(b) /\ ~Listed(b)
      BY <1>4, <1>9 DEF LooseB, Listed
    <3> QED BY <3>1, <3>2 DEF FreeRefs
  <2>5. Refd(b) = 1
    BY <1>4, <1>9, <2>4 DEF Waits
  <2>6. /\ ~Reads(fl'[t], b) /\ Works(fl'[t], b) /\ fl'[t].at \in Working
        /\ \A x \in Blocks : x # b => ~Reads(fl'[t], x) /\ ~Works(fl'[t], x)
    BY <2>2 DEF Reads, Works, Working
  <2>7. Refd(b)' = Refd(b) - 1
    BY <1>3, <1>8, <2>6, RefdsMove
  <2>8. Fits(fl'[t].at, freeListRefs'[b], Refd(b)')
    BY <1>2, <1>4, <1>9, <2>2, <2>5, <2>7 DEF Fits
  <2>9. \A x \in Blocks : x # b =>
             /\ freeListRefs'[x] = freeListRefs[x]
             /\ ~Reads(fl[t], x) /\ ~Reads(fl'[t], x) /\ ~Works(fl[t], x) /\ ~Works(fl'[t], x)
    BY <1>2, <1>3, <2>6
  <2>10. /\ FreeRefs'
         /\ \A x \in Blocks : x # b => (LooseB(x)' <=> LooseB(x)) /\ (Listed(x)' <=> Listed(x))
    BY <1>8, <2>2, <2>3, <2>6, <2>8, <2>9, RefsStep
  <2>11. ~Free1(b)'
    BY <2>6 DEF Free1
  <2>12. ~LooseB(b)' /\ ~Listed(b)'
    BY <2>11 DEF LooseB, Listed
  <2>13. RefsGood /\ ListedSame
    BY <2>4, <2>10, <2>12 DEF RefsGood, ListedSame
  <2> QED BY <1>2, <1>8, <2>2, <2>13
<1>10. CASE freeListRefs[b] # MARK + 1
  <2>1. fl'[t] = Test(fl[t].head)
    BY <1>7, <1>10
  <2>2. Idle(fl'[t])
    BY <1>1, <2>1, RecordsAre
  <2>3. fl'[t].at \notin Working /\ \A x : ~Reads(fl'[t], x)
    BY <2>2, IdleIs
  <2>4. Refd(b)' = Refd(b) - 1
    BY <1>3, <1>8, <2>3, RefdsMove
  <2>5. Refd(b)' = Refd(b) + (-1) /\ freeListRefs'[b] = freeListRefs[b] + (-1)
    BY <1>2, <1>4, <2>4
  <2>6. Waits(b) => Refd(b) + (-1) > 0
    BY <1>4, <1>10 DEF Waits
  <2>7. \A x \in Blocks : x # b =>
           freeListRefs'[x] = freeListRefs[x] /\ ~Reads(fl[t], x) /\ ~Reads(fl'[t], x)
    BY <1>2, <1>3, <2>3
  <2>8. (-1) \in Int /\ fl[t].at \notin Working /\ fl'[t].at \notin Working
    BY <1>3, <2>3
  <2>9. RefsGood /\ ListedSame
    BY <1>5, <1>8, <2>5, <2>6, <2>7, <2>8, RefsRead
  <2> QED BY <1>2, <1>8, <2>2, <2>9
<1> QED BY <1>9, <1>10

-----------------------------------------------------------------------------
(***************************************************************************)
(* The links of the list, and every step of it.                            *)
(***************************************************************************)

\* The list is not written.
LEMMA LinksSame ==
    ASSUME FreeLinks, ListedSame, freeListHead' = freeListHead,
           \A b \in Blocks : Listed(b) => freeListNext'[b] = freeListNext[b]
    PROVE  FreeLinks'
<1>1. PICK n \in Nat : \E q \in [1 .. n -> Blocks] : ListIs(n, q)
  BY DEF FreeLinks
<1>2. PICK q \in [1 .. n -> Blocks] : ListIs(n, q)
  BY <1>1
<1>3. \A i \in 1 .. n : Listed(q[i]) /\ q[i] \in Blocks
  BY <1>2 DEF ListIs
<1>4. ListIs(n, q)'
  <2>1. /\ \A i, j \in 1 .. n : q[i] = q[j] => i = j
        /\ freeListHead' = IF n = 0 THEN None ELSE q[n]
    BY <1>2 DEF ListIs
  <2>2. \A i \in 1 .. n : freeListNext'[q[i]] = IF i = 1 THEN None ELSE q[i - 1]
    BY <1>2, <1>3 DEF ListIs
  <2>3. \A b \in Blocks : Listed(b)' <=> \E i \in 1 .. n : q[i] = b
    BY <1>2 DEF ListIs, ListedSame
  <2> QED BY <2>1, <2>2, <2>3 DEF ListIs
<1> QED BY <1>4 DEF FreeLinks

\* A block is pushed on the list.
LEMMA LinksPush ==
    ASSUME FreeLinks, NEW b0 \in Blocks, ~Listed(b0), freeListHead' = b0,
           freeListNext' = freeListNext, freeListNext[b0] = freeListHead,
           \A b \in Blocks : Listed(b)' <=> Listed(b) \/ b = b0
    PROVE  FreeLinks'
<1>1. PICK n \in Nat : \E q \in [1 .. n -> Blocks] : ListIs(n, q)
  BY DEF FreeLinks
<1>2. PICK q \in [1 .. n -> Blocks] : ListIs(n, q)
  BY <1>1
<1> DEFINE m == n + 1
           r == [i \in 1 .. m |-> IF i = m THEN b0 ELSE q[i]]
<1>3. r \in [1 .. m -> Blocks] /\ m \in Nat /\ r[m] = b0 /\ m # 0
      /\ \A i \in 1 .. n : r[i] = q[i] /\ i # m /\ i \in 1 .. m
  OBVIOUS
<1>4. \A i \in 1 .. m : i = m \/ i \in 1 .. n
  OBVIOUS
<1>5. m \in 1 .. m /\ m - 1 = n /\ (m = 1 <=> n = 0)
  OBVIOUS
<1> HIDE DEF m, r
<1>6. \A i \in 1 .. n : q[i] # b0 /\ q[i] \in Blocks
  BY <1>2 DEF ListIs
<1>7. ListIs(m, r)'
  <2>1. ASSUME NEW i \in 1 .. m, NEW j \in 1 .. m, r[i] = r[j] PROVE i = j
    BY <1>2, <1>3, <1>4, <1>6, <2>1 DEF ListIs
  <2>2. freeListHead' = IF m = 0 THEN None ELSE r[m]
    BY <1>3
  <2>3. ASSUME NEW i \in 1 .. m
        PROVE  freeListNext'[r[i]] = IF i = 1 THEN None ELSE r[i - 1]
    <3>1. CASE i = m
      <4>1. n = 0 => freeListHead = None
        BY <1>2 DEF ListIs
      <4>2. n # 0 => freeListHead = q[n] /\ n \in 1 .. n
        BY <1>2 DEF ListIs
      <4> QED BY <1>3, <1>5, <3>1, <4>1, <4>2
    <3>2. CASE i # m
      <4>1. i \in 1 .. n /\ r[i] = q[i]
        BY <1>3, <1>4, <3>2
      <4>2. i # 1 => i - 1 \in 1 .. n
        BY <4>1
      <4>3. freeListNext[q[i]] = IF i = 1 THEN None ELSE q[i - 1]
        BY <1>2, <4>1 DEF ListIs
      <4> QED BY <1>3, <4>1, <4>2, <4>3
    <3> QED BY <3>1, <3>2
  <2>4. \A b \in Blocks : Listed(b)' <=> \E i \in 1 .. m : r[i] = b
    <3>1. \A b \in Blocks : Listed(b) <=> \E i \in 1 .. n : q[i] = b
      BY <1>2 DEF ListIs
    <3> QED BY <1>3, <1>4, <1>5, <3>1
  <2> QED BY <2>1, <2>2, <2>3, <2>4 DEF ListIs
<1> QED BY <1>3, <1>7 DEF FreeLinks

\* The head is popped.
LEMMA LinksPop ==
    ASSUME FreeLinks, NEW b0 \in Blocks, freeListHead = b0, freeListHead' = freeListNext[b0],
           freeListNext' = freeListNext,
           \A b \in Blocks : Listed(b)' <=> Listed(b) /\ b # b0
    PROVE  FreeLinks'
<1>1. PICK n \in Nat : \E q \in [1 .. n -> Blocks] : ListIs(n, q)
  BY DEF FreeLinks
<1>2. PICK q \in [1 .. n -> Blocks] : ListIs(n, q)
  BY <1>1
<1>3. n # 0 /\ q[n] = b0 /\ n \in 1 .. n
  BY <1>2, QueueAssumption DEF ListIs
<1> DEFINE m == n - 1
           r == [i \in 1 .. m |-> q[i]]
<1>4. r \in [1 .. m -> Blocks] /\ m \in Nat /\ \A i \in 1 .. m : r[i] = q[i] /\ i \in 1 .. n /\ i # n
  BY <1>3
<1>5. \A i \in 1 .. n : i = n \/ i \in 1 .. m
  BY <1>3
<1>6. (m = 0 <=> n = 1) /\ (m # 0 => m \in 1 .. m /\ m = n - 1)
  BY <1>3
<1> HIDE DEF m, r
<1>7. ListIs(m, r)'
  <2>1. ASSUME NEW i \in 1 .. m, NEW j \in 1 .. m, r[i] = r[j] PROVE i = j
    BY <1>2, <1>4, <2>1 DEF ListIs
  <2>2. freeListHead' = IF m = 0 THEN None ELSE r[m]
    <3>1. freeListNext[q[n]] = IF n = 1 THEN None ELSE q[n - 1]
      BY <1>2, <1>3 DEF ListIs
    <3> QED BY <1>3, <1>4, <1>6, <3>1
  <2>3. ASSUME NEW i \in 1 .. m
        PROVE  freeListNext'[r[i]] = IF i = 1 THEN None ELSE r[i - 1]
    <3>1. r[i] = q[i] /\ i \in 1 .. n
      BY <1>4
    <3>2. i # 1 => r[i - 1] = q[i - 1]
      <4>1. i # 1 => i - 1 \in 1 .. m
        BY <1>4
      <4> QED BY <1>4, <4>1
    <3> QED BY <1>2, <3>1, <3>2 DEF ListIs
  <2>4. \A b \in Blocks : Listed(b)' <=> \E i \in 1 .. m : r[i] = b
    <3>1. \A b \in Blocks : Listed(b) <=> \E i \in 1 .. n : q[i] = b
      BY <1>2 DEF ListIs
    <3>2. \A i \in 1 .. m : q[i] # b0
      BY <1>2, <1>3, <1>4 DEF ListIs
    <3> QED BY <1>3, <1>4, <1>5, <3>1, <3>2
  <2> QED BY <2>1, <2>2, <2>3, <2>4 DEF ListIs
<1> QED BY <1>4, <1>7 DEF FreeLinks

\* FreeLocals of one thread.
LocalsFit(f, next) ==
    /\ f.at = "unref" => f.node \in Blocks
    /\ f.at = "pop" => f.next = next[f.head]
    /\ f.at = "push" => next[f.node] = f.old

\* The locals in the free list, thread by thread.
LEMMA FreeLocalsAre == FreeLocals <=> \A t \in Threads : LocalsFit(fl[t], freeListNext)
  BY DEF FreeLocals, LocalsFit

\* A step of t that changes no link keeps the locals of the others.
LEMMA LocalsKept ==
    ASSUME FreeLocals, NEW t \in Threads, \A u \in Threads : u # t => fl'[u] = fl[u],
           freeListNext' = freeListNext, LocalsFit(fl'[t], freeListNext)
    PROVE  FreeLocals'
  BY FreeLocalsAre DEF FreeLocals, LocalsFit

\* A thread that remembers nothing of the links fits them.
LEMMA IdleFits == ASSUME NEW f, NEW next, Idle(f) \/ f.at \in {"add", "load", "count", "repush", "popped", "got"}
                  PROVE  LocalsFit(f, next)
  BY DEF Idle, LocalsFit

\* Every step of add and try_get keeps the free list, and moves no block that
\* is off the list.
LEMMA FreeStepOK ==
    ASSUME FreeTypes, FreeOK, NEW t \in Threads, FreeStep(t)
    PROVE  /\ FreeOK'
           /\ \A b \in Blocks : LooseB(b)' <=> LooseB(b)
<1>0. FreeRefs /\ FreeLinks /\ FreeLocals
  BY DEF FreeOK
<1>1. CASE Add(t)
  <2>1. /\ RefsGood /\ ListedSame
        /\ LocalsFit(fl'[t], freeListNext)
        /\ freeListHead' = freeListHead /\ freeListNext' = freeListNext
        /\ \A u \in Threads : u # t => fl'[u] = fl[u]
    BY <1>0, <1>1, AddRefs, IdleFits
  <2> QED BY <1>0, <2>1, LinksSame, LocalsKept DEF FreeOK, RefsGood
<1>2. CASE PushLoad(t)
  <2>1. /\ RefsGood /\ ListedSame
        /\ LocalsFit(fl'[t], freeListNext)
        /\ freeListHead' = freeListHead /\ freeListNext' = freeListNext
        /\ \A u \in Threads : u # t => fl'[u] = fl[u]
    BY <1>0, <1>2, PushLoadRefs, IdleFits
  <2> QED BY <1>0, <2>1, LinksSame, LocalsKept DEF FreeOK, RefsGood
<1>3. CASE PushCount(t)
  <2>1. /\ RefsGood /\ ListedSame
        /\ fl[t].node \in Blocks /\ Refd(fl[t].node) = 0 /\ ~Listed(fl[t].node)
        /\ fl'[t].at = "push" /\ fl'[t].node = fl[t].node /\ fl'[t].old = fl[t].old
        /\ freeListHead' = freeListHead
        /\ freeListNext' = [freeListNext EXCEPT ![fl[t].node] = fl[t].old]
        /\ \A u \in Threads : u # t => fl'[u] = fl[u] /\ ~Works(fl[u], fl[t].node)
    BY <1>0, <1>3, PushCountRefs
  <2> PICK b \in Blocks : b = fl[t].node
    BY <2>1
  <2>2. freeListNext'[b] = fl[t].old /\ \A x \in Blocks : x # b => freeListNext'[x] = freeListNext[x]
    BY <2>1 DEF FreeTypes
  <2>3. FreeLinks'
    <3>1. \A x \in Blocks : Listed(x) => freeListNext'[x] = freeListNext[x]
      BY <2>1, <2>2
    <3> QED BY <1>0, <2>1, <3>1, LinksSame
  <2>4. \A u \in Threads : ~Reads(fl[u], b)
    BY <2>1, Refds
  <2>5. ASSUME NEW u \in Threads PROVE LocalsFit(fl'[u], freeListNext')
    <3>1. CASE u = t
      BY <2>1, <2>2, <3>1 DEF LocalsFit
    <3>2. CASE u # t
      <4>1. fl'[u] = fl[u] /\ ~Works(fl[u], b) /\ ~Reads(fl[u], b)
        BY <2>1, <2>4, <3>2
      <4>2. LocalsFit(fl[u], freeListNext)
        BY <1>0, FreeLocalsAre
      <4>3. fl[u].at = "pop" => fl[u].head \in Blocks /\ fl[u].head # b
        BY <4>1, FlIs DEF Reads
      <4>4. fl[u].at = "push" => fl[u].node \in Blocks /\ fl[u].node # b
        BY <1>0, <4>1 DEF Works, Working, FreeRefs
      <4> QED BY <2>2, <4>1, <4>2, <4>3, <4>4 DEF LocalsFit
    <3> QED BY <3>1, <3>2
  <2>6. FreeLocals'
    BY <2>5 DEF FreeLocals, LocalsFit
  <2> QED BY <2>1, <2>3, <2>6 DEF FreeOK, RefsGood
<1>4. CASE Push(t)
  <2>1. /\ RefsGood
        /\ fl[t].node \in Blocks /\ ~Listed(fl[t].node) /\ fl[t].at = "push"
        /\ freeListNext' = freeListNext
        /\ \A u \in Threads : u # t => fl'[u] = fl[u]
    BY <1>0, <1>4, PushRefs
  <2>2. \/ /\ freeListHead = fl[t].old /\ freeListHead' = fl[t].node
           /\ Idle(fl'[t])
           /\ \A b \in Blocks : Listed(b)' <=> Listed(b) \/ b = fl[t].node
        \/ freeListHead' = freeListHead /\ ListedSame /\ fl'[t].at = "repush"
    BY <1>0, <1>4, PushRefs
  <2>3. freeListNext[fl[t].node] = fl[t].old
    BY <1>0, <2>1 DEF FreeLocals
  <2>4. LocalsFit(fl'[t], freeListNext)
    BY <2>2, IdleFits
  <2>5. FreeLinks'
    <3>1. CASE freeListHead' = freeListHead /\ ListedSame
      BY <1>0, <2>1, <3>1, LinksSame
    <3>2. CASE /\ freeListHead = fl[t].old /\ freeListHead' = fl[t].node
               /\ \A b \in Blocks : Listed(b)' <=> Listed(b) \/ b = fl[t].node
      <4> PICK b0 \in Blocks : b0 = fl[t].node
        BY <2>1
      <4>1. ~Listed(b0) /\ freeListHead' = b0 /\ freeListNext[b0] = freeListHead
            /\ \A b \in Blocks : Listed(b)' <=> Listed(b) \/ b = b0
        BY <2>1, <2>3, <3>2
      <4> QED BY <1>0, <2>1, <4>1, LinksPush
    <3> QED BY <2>2, <3>1, <3>2
  <2> QED BY <1>0, <2>1, <2>4, <2>5, LocalsKept DEF FreeOK, RefsGood
<1>5. CASE Repush(t)
  <2>1. /\ RefsGood /\ ListedSame
        /\ LocalsFit(fl'[t], freeListNext)
        /\ freeListHead' = freeListHead /\ freeListNext' = freeListNext
        /\ \A u \in Threads : u # t => fl'[u] = fl[u]
    BY <1>0, <1>5, RepushRefs, IdleFits
  <2> QED BY <1>0, <2>1, LinksSame, LocalsKept DEF FreeOK, RefsGood
<1>6. CASE GetLoad(t)
  <2>1. /\ RefsGood /\ ListedSame
        /\ LocalsFit(fl'[t], freeListNext)
        /\ freeListHead' = freeListHead /\ freeListNext' = freeListNext
        /\ \A u \in Threads : u # t => fl'[u] = fl[u]
    BY <1>0, <1>6, GetLoadRefs, IdleFits
  <2> QED BY <1>0, <2>1, LinksSame, LocalsKept DEF FreeOK, RefsGood
<1>7. CASE GetRef(t)
  <2>1. /\ RefsGood /\ ListedSame
        /\ Idle(fl'[t]) \/ fl'[t].at = "next"
        /\ freeListHead' = freeListHead /\ freeListNext' = freeListNext
        /\ \A u \in Threads : u # t => fl'[u] = fl[u]
    BY <1>0, <1>7, GetRefRefs
  <2>2. LocalsFit(fl'[t], freeListNext)
    BY <2>1 DEF Idle, LocalsFit
  <2> QED BY <1>0, <2>1, <2>2, LinksSame, LocalsKept DEF FreeOK, RefsGood
<1>8. CASE GetNext(t)
  <2>1. /\ RefsGood /\ ListedSame
        /\ fl'[t].at = "pop" /\ fl'[t].head = fl[t].head
        /\ fl'[t].next = freeListNext[fl[t].head]
        /\ freeListHead' = freeListHead /\ freeListNext' = freeListNext
        /\ \A u \in Threads : u # t => fl'[u] = fl[u]
    BY <1>0, <1>8, GetNextRefs
  <2>2. LocalsFit(fl'[t], freeListNext)
    BY <2>1 DEF LocalsFit
  <2> QED BY <1>0, <2>1, <2>2, LinksSame, LocalsKept DEF FreeOK, RefsGood
<1>9. CASE Pop(t)
  <2>1. /\ RefsGood
        /\ fl[t].at = "pop" /\ fl[t].head \in Blocks
        /\ freeListNext' = freeListNext
        /\ \A u \in Threads : u # t => fl'[u] = fl[u]
    BY <1>0, <1>9, PopRefs
  <2>2. \/ /\ freeListHead = fl[t].head /\ freeListHead' = fl[t].next
           /\ fl'[t].at = "popped"
           /\ \A b \in Blocks : Listed(b)' <=> Listed(b) /\ b # fl[t].head
        \/ /\ freeListHead' = freeListHead /\ ListedSame
           /\ fl'[t].at = "unref" /\ fl'[t].node = fl[t].head
    BY <1>0, <1>9, PopRefs
  <2>3. fl[t].next = freeListNext[fl[t].head]
    BY <1>0, <2>1 DEF FreeLocals
  <2>4. LocalsFit(fl'[t], freeListNext)
    BY <2>1, <2>2 DEF LocalsFit
  <2>5. FreeLinks'
    <3>1. CASE freeListHead' = freeListHead /\ ListedSame
      BY <1>0, <2>1, <3>1, LinksSame
    <3>2. CASE /\ freeListHead = fl[t].head /\ freeListHead' = fl[t].next
               /\ \A b \in Blocks : Listed(b)' <=> Listed(b) /\ b # fl[t].head
      <4> PICK b0 \in Blocks : b0 = fl[t].head
        BY <2>1
      <4>1. freeListHead = b0 /\ freeListHead' = freeListNext[b0]
            /\ \A b \in Blocks : Listed(b)' <=> Listed(b) /\ b # b0
        BY <2>3, <3>2
      <4> QED BY <1>0, <2>1, <4>1, LinksPop
    <3> QED BY <2>2, <3>1, <3>2
  <2> QED BY <1>0, <2>1, <2>4, <2>5, LocalsKept DEF FreeOK, RefsGood
<1>10. CASE Got(t)
  <2>1. /\ RefsGood /\ ListedSame
        /\ LocalsFit(fl'[t], freeListNext)
        /\ freeListHead' = freeListHead /\ freeListNext' = freeListNext
        /\ \A u \in Threads : u # t => fl'[u] = fl[u]
    BY <1>0, <1>10, GotRefs, IdleFits
  <2> QED BY <1>0, <2>1, LinksSame, LocalsKept DEF FreeOK, RefsGood
<1>11. CASE Unref(t)
  <2>0. fl[t].node \in Blocks
    BY <1>0, <1>11 DEF FreeLocals, Unref
  <2>1. /\ RefsGood /\ ListedSame
        /\ LocalsFit(fl'[t], freeListNext)
        /\ freeListHead' = freeListHead /\ freeListNext' = freeListNext
        /\ \A u \in Threads : u # t => fl'[u] = fl[u]
    BY <1>0, <1>11, <2>0, UnrefRefs, IdleFits
  <2> QED BY <1>0, <2>1, LinksSame, LocalsKept DEF FreeOK, RefsGood
<1> QED
  BY <1>1, <1>2, <1>3, <1>4, <1>5, <1>6, <1>7, <1>8, <1>9, <1>10, <1>11 DEF FreeStep

\* The list is not written.
ListKept == UNCHANGED <<freeListHead, freeListRefs, freeListNext>>

\* A thread that is not in the middle of add or try_get.
LEMMA FreeIdle ==
    ASSUME FreeOK, ListKept, NEW t \in Threads, \A u \in Threads : u # t => fl'[u] = fl[u],
           Idle(fl[t]), Idle(fl'[t])
    PROVE  FreeOK' /\ \A b \in Blocks : LooseB(b)' <=> LooseB(b)
<1>1. RefsGood /\ ListedSame
  BY RefsQuiet DEF ListKept, RefsGood, ListedSame, FreeOK
<1>2. FreeLinks'
  BY <1>1, LinksSame DEF ListKept, FreeOK
<1>3. FreeLocals'
  BY IdleFits, LocalsKept DEF ListKept, FreeOK
<1> QED BY <1>1, <1>2, <1>3 DEF FreeOK, RefsGood

\* The block that try_get returned leaves the list.
LEMMA FreeTaken ==
    ASSUME FreeOK, FreeTypes, ListKept, NEW t \in Threads, \A u \in Threads : u # t => fl'[u] = fl[u],
           fl[t].at = "got", Idle(fl'[t]), NEW b0 \in Blocks, fl[t].node = b0
    PROVE  FreeOK' /\ \A b \in Blocks : LooseB(b)' <=> LooseB(b) \/ b = b0
<1>1. /\ Works(fl[t], b0) /\ freeListRefs[b0] = Refd(b0) /\ fl[t].at \in Working
      /\ \A u \in Threads : u # t => ~Works(fl[u], b0)
      /\ FreeRefs
  <2>1. fl[t].at \in Working /\ FreeRefs
    BY DEF Working, FreeOK
  <2>2. Works(fl[t], b0) /\ Fits(fl[t].at, freeListRefs[b0], Refd(b0))
    BY <2>1, WorksIs
  <2> QED BY <2>1, <2>2 DEF FreeRefs, Fits
<1>2. /\ \A x : ~Reads(fl[t], x) /\ ~Reads(fl'[t], x) /\ ~Works(fl'[t], x)
      /\ fl'[t].at \notin Working
  BY IdleIs DEF Reads
<1>3. Refd(b0)' = Refd(b0) /\ Refd(b0) \in Nat
  BY <1>2, RefdsMove, Refds
<1>4. freeListRefs'[b0] = Refd(b0)' /\ freeListRefs' = freeListRefs
  BY <1>1, <1>3 DEF ListKept
<1>5. \A x \in Blocks : x # b0 =>
             /\ freeListRefs'[x] = freeListRefs[x]
             /\ ~Reads(fl[t], x) /\ ~Reads(fl'[t], x) /\ ~Works(fl[t], x) /\ ~Works(fl'[t], x)
  BY <1>2, <1>4 DEF Works
<1>6. /\ FreeRefs'
      /\ \A x \in Blocks : x # b0 => (LooseB(x)' <=> LooseB(x)) /\ (Listed(x)' <=> Listed(x))
  BY <1>1, <1>2, <1>4, <1>5, RefsStep
<1>7. Free1(b0)' /\ ~Free1(b0)
  BY <1>1, <1>2 DEF Free1
<1>8. LooseB(b0)' /\ ~Listed(b0)' /\ ~Listed(b0)
  BY <1>3, <1>4, <1>7 DEF LooseB, Listed
<1>9. ListedSame
  BY <1>6, <1>8 DEF ListedSame
<1>10. FreeLinks'
  BY <1>9, LinksSame DEF ListKept, FreeOK
<1>11. FreeLocals'
  BY IdleFits, LocalsKept DEF ListKept, FreeOK
<1> QED BY <1>6, <1>8, <1>10, <1>11 DEF FreeOK

\* A loose block is given to add.
LEMMA FreeGiven ==
    ASSUME FreeOK, FreeTypes, ListKept, NEW t \in Threads, \A u \in Threads : u # t => fl'[u] = fl[u],
           Idle(fl[t]), NEW b0 \in Blocks, fl'[t].at = "add", fl'[t].node = b0, LooseB(b0)
    PROVE  FreeOK' /\ \A b \in Blocks : LooseB(b)' <=> LooseB(b) /\ b # b0
<1>1. /\ freeListRefs[b0] = Refd(b0)
      /\ \A u \in Threads : ~Works(fl[u], b0)
      /\ FreeRefs
  BY DEF LooseB, Free1, FreeOK
<1>2. /\ \A x : ~Reads(fl[t], x) /\ ~Reads(fl'[t], x) /\ ~Works(fl[t], x)
      /\ fl'[t].at \in Working
  BY IdleIs DEF Reads, Working
<1>3. Refd(b0)' = Refd(b0) /\ Refd(b0) \in Nat
  BY <1>2, RefdsMove, Refds
<1>4. freeListRefs'[b0] = Refd(b0)' /\ freeListRefs' = freeListRefs
  BY <1>1, <1>3 DEF ListKept
<1>5. \A x \in Blocks : x # b0 =>
             /\ freeListRefs'[x] = freeListRefs[x]
             /\ ~Reads(fl[t], x) /\ ~Reads(fl'[t], x) /\ ~Works(fl[t], x) /\ ~Works(fl'[t], x)
  BY <1>2, <1>4 DEF Works
<1>6. Fits(fl'[t].at, freeListRefs'[b0], Refd(b0)')
  BY <1>4 DEF Fits
<1>7. /\ FreeRefs'
      /\ \A x \in Blocks : x # b0 => (LooseB(x)' <=> LooseB(x)) /\ (Listed(x)' <=> Listed(x))
  BY <1>1, <1>2, <1>5, <1>6, RefsStep
<1>8. ~Free1(b0)'
  BY <1>2 DEF Free1, Works
<1>9. ~LooseB(b0)' /\ ~Listed(b0)' /\ ~Listed(b0)
  BY <1>1, <1>3, <1>8 DEF LooseB, Listed
<1>10. ListedSame
  BY <1>7, <1>9 DEF ListedSame
<1>11. FreeLinks'
  BY <1>10, LinksSame DEF ListKept, FreeOK
<1>12. FreeLocals'
  BY IdleFits, LocalsKept DEF ListKept, FreeOK
<1> QED BY <1>7, <1>9, <1>11, <1>12 DEF FreeOK

\* No thread moves in the list.
LEMMA FreeStill ==
    ASSUME FreeOK, FreeTypes, ListKept, \A u \in Threads : fl'[u] = fl[u]
    PROVE  FreeOK' /\ \A b \in Blocks : LooseB(b)' <=> LooseB(b)
<1>2. \A u \in Threads : \A b : (Works(fl'[u], b) <=> Works(fl[u], b)) /\ (Reads(fl'[u], b) <=> Reads(fl[u], b))
  OBVIOUS
<1>3. \A b : ReadersOf(b)' = ReadersOf(b)
  BY <1>2 DEF ReadersOf
<1>4. \A b : Refd(b)' = Refd(b)
  BY <1>3 DEF Refd
<1>5. \A b : Free1(b)' <=> Free1(b)
  BY <1>2 DEF Free1
<1>6. freeListRefs' = freeListRefs /\ freeListHead' = freeListHead /\ freeListNext' = freeListNext
  BY DEF ListKept
<1>7. \A b \in Blocks : (LooseB(b)' <=> LooseB(b)) /\ (Listed(b)' <=> Listed(b)) /\ (Waits(b)' <=> Waits(b))
  BY <1>4, <1>5, <1>6 DEF LooseB, Listed, Waits
<1>8. FreeRefs'
  BY <1>2, <1>4, <1>5, <1>6, <1>7 DEF FreeRefs, FreeOK
<1>9. FreeLinks'
  BY <1>6, <1>7, LinksSame DEF FreeOK, ListedSame
<1>10. FreeLocals'
  BY <1>6 DEF FreeLocals, FreeOK
<1> QED BY <1>7, <1>8, <1>9, <1>10 DEF FreeOK

-----------------------------------------------------------------------------
(***************************************************************************)
(* The list that OnList reads off the links is the set of the blocks whose *)
(* count says so.                                                          *)
(***************************************************************************)

\* A set of numbers has a least one.
LEMMA LeastNat == ASSUME NEW T, T \subseteq Nat, T # {} PROVE \E x \in T : \A y \in T : x <= y
<1> DEFINE R == {ss \in Nat \X Nat : ss[1] < ss[2]}
<1>1. IsWellFoundedOn(R, Nat)
  BY NatLessThanWellFounded DEF OpToRel
<1>2. \E x \in T : \A y \in T : ~ (<<y, x>> \in R)
  <2> HIDE DEF R
  <2> QED BY <1>1, WFMin
<1>3. PICK x \in T : \A y \in T : ~ (<<y, x>> \in R)
  BY <1>2
<1>4. ASSUME NEW y \in T PROVE x <= y
  <2>1. y \in Nat /\ x \in Nat
    OBVIOUS
  <2>2. ~(y < x)
    <3>1. <<y, x>> \notin R
      BY <1>3
    <3> QED BY <2>1, <3>1
  <2> QED BY <2>1, <2>2
<1> QED BY <1>4

\* The counts are in their range, and the mark of a popped block is not set.
LEMMA RefsRange ==
    ASSUME FreeRefs, FreeTypes
    PROVE  /\ freeListRefs \in [Blocks -> 0 .. 2 * MARK - 1]
           /\ \A t \in Threads : fl[t].at = "popped" => freeListRefs[fl[t].node] < MARK
<1>1. ASSUME NEW b \in Blocks PROVE freeListRefs[b] \in 0 .. 2 * MARK - 1
  <2>1. Refd(b) \in Nat /\ Refd(b) <= MARK - 3 /\ MARK \in Nat /\ MARK > 2
    BY Refds, MarkIs
  <2>2. CASE Free1(b)
    <3>1. LooseB(b) \/ Listed(b) \/ Waits(b)
      BY <2>2 DEF FreeRefs
    <3> QED BY <2>1, <3>1 DEF LooseB, Listed, Waits
  <2>3. CASE ~Free1(b)
    <3>1. PICK t \in Threads : Works(fl[t], b)
      BY <2>3 DEF Free1
    <3>2. Fits(fl[t].at, freeListRefs[b], Refd(b))
      BY <3>1 DEF FreeRefs
    <3>3. fl[t].at \in {"add", "load", "count", "push", "repush", "popped", "got"}
      BY <3>1 DEF Works, Working
    <3>4. \/ freeListRefs[b] = Refd(b) \/ freeListRefs[b] = MARK
          \/ freeListRefs[b] = Refd(b) + 1 \/ freeListRefs[b] = Refd(b) + 2
      BY <3>2, <3>3 DEF Fits
    <3> QED BY <2>1, <3>4
  <2> QED BY <2>2, <2>3
<1>2. freeListRefs \in [Blocks -> 0 .. 2 * MARK - 1]
  BY <1>1 DEF FreeTypes
<1>3. ASSUME NEW t \in Threads, fl[t].at = "popped" PROVE freeListRefs[fl[t].node] < MARK
  <2>1. fl[t].node \in Blocks /\ freeListRefs[fl[t].node] = Refd(fl[t].node) + 2
    BY <1>3, WorksIs DEF Fits, Working
  <2>2. Refd(fl[t].node) \in Nat /\ Refd(fl[t].node) <= MARK - 3 /\ MARK \in Nat
    BY Refds, MarkIs
  <2> QED BY <2>1, <2>2
<1> QED BY <1>2, <1>3

\* The nodes from the head down.
Walk(f) == [k \in 0 .. Cardinality(Blocks) |->
              IF k = 0 THEN freeListHead
              ELSE IF f[k - 1] = None THEN None ELSE freeListNext[f[k - 1]]]

\* A list without repetitions is not longer than the number of blocks.
LEMMA ListIsShort ==
    ASSUME NEW n \in Nat, NEW q \in [1 .. n -> Blocks], \A i, j \in 1 .. n : q[i] = q[j] => i = j
    PROVE  Cardinality(Blocks) \in Nat /\ n <= Cardinality(Blocks)
<1>1. IsFiniteSet(Blocks) /\ Cardinality(Blocks) \in Nat
  BY QueueAssumption, FS_CardinalityType
<1>2. q \in Injection(1 .. n, Blocks)
  BY DEF Injection, IsInjective
<1>3. Cardinality(1 .. n) <= Cardinality(Blocks)
  BY <1>1, <1>2, FS_Injection
<1>4. Cardinality(1 .. n) = n
  <2>1. 1 \in Int /\ n \in Int
    OBVIOUS
  <2>2. Cardinality(1 .. n) = IF 1 > n THEN 0 ELSE n - 1 + 1
    BY <2>1, FS_Interval
  <2> QED BY <2>2
<1> QED BY <1>1, <1>3, <1>4

\* The walk from the head finds the nodes of the list in order.
LEMMA WalkIs ==
    ASSUME NEW n \in Nat, NEW q \in [1 .. n -> Blocks], ListIs(n, q), NEW f, f = Walk(f)
    PROVE  f = [k \in 0 .. Cardinality(Blocks) |-> IF k < n THEN q[n - k] ELSE None]
<1> DEFINE N == Cardinality(Blocks)
           g == [k \in 0 .. N |-> IF k < n THEN q[n - k] ELSE None]
           T == {k \in 0 .. N : f[k] # g[k]}
<1>1. N \in Nat /\ n <= N
  BY ListIsShort DEF ListIs
<1>2. \A k \in 0 .. N : f[k] = IF k = 0 THEN freeListHead
              ELSE IF f[k - 1] = None THEN None ELSE freeListNext[f[k - 1]]
  BY DEF Walk
<1>3. f = [k \in 0 .. N |-> f[k]]
  BY DEF Walk
<1>4. SUFFICES ASSUME T # {} PROVE FALSE
  BY <1>3
<1>5. T \subseteq Nat
  BY <1>1
<1>6. PICK k \in T : \A j \in T : k <= j
  BY <1>4, <1>5, LeastNat
<1>7. k \in 0 .. N /\ f[k] # g[k] /\ k \in Nat
  BY <1>1, <1>6
<1>8. CASE k = 0
  <2>1. f[k] = freeListHead /\ g[k] = IF n = 0 THEN None ELSE q[n]
    BY <1>2, <1>7, <1>8
  <2> QED BY <1>7, <2>1 DEF ListIs
<1>9. CASE k # 0
  <2>1. k - 1 \in 0 .. N /\ k - 1 \notin T
    <3>1. k - 1 \in 0 .. N /\ ~(k <= k - 1)
      BY <1>1, <1>7, <1>9
    <3> HIDE DEF T
    <3> QED BY <1>6, <3>1
  <2>2. f[k - 1] = g[k - 1] /\ f[k] = IF f[k - 1] = None THEN None ELSE freeListNext[f[k - 1]]
    BY <1>2, <1>7, <1>9, <2>1
  <2>3. CASE k - 1 < n
    <3>1. g[k - 1] = q[n - (k - 1)] /\ n - (k - 1) \in 1 .. n
      BY <1>7, <2>1, <2>3
    <3>2. q[n - (k - 1)] \in Blocks /\ q[n - (k - 1)] # None
      BY <3>1, QueueAssumption
    <3>3. freeListNext[q[n - (k - 1)]] = IF n - (k - 1) = 1 THEN None ELSE q[n - (k - 1) - 1]
      BY <3>1 DEF ListIs
    <3>4. n - (k - 1) - 1 = n - k /\ (n - (k - 1) = 1 <=> ~(k < n))
      BY <1>7, <2>3
    <3>5. f[k] = IF k < n THEN q[n - k] ELSE None
      BY <2>2, <3>1, <3>2, <3>3, <3>4
    <3> QED BY <1>7, <3>5
  <2>4. CASE ~(k - 1 < n)
    <3>1. g[k - 1] = None /\ g[k] = None
      BY <1>1, <1>7, <2>1, <2>4
    <3> QED BY <1>7, <2>2, <3>1
  <2> QED BY <2>3, <2>4
<1> QED BY <1>8, <1>9

\* The nodes of the list in order are a walk.
LEMMA WalkExists ==
    ASSUME NEW n \in Nat, NEW q \in [1 .. n -> Blocks], ListIs(n, q)
    PROVE  LET g == [k \in 0 .. Cardinality(Blocks) |-> IF k < n THEN q[n - k] ELSE None] IN g = Walk(g)
<1> DEFINE N == Cardinality(Blocks)
           g == [k \in 0 .. N |-> IF k < n THEN q[n - k] ELSE None]
<1>1. N \in Nat /\ n <= N
  BY ListIsShort DEF ListIs
<1>2. ASSUME NEW k \in 0 .. N
      PROVE  g[k] = IF k = 0 THEN freeListHead
              ELSE IF g[k - 1] = None THEN None ELSE freeListNext[g[k - 1]]
  <2>1. CASE k = 0
    BY <1>1, <2>1 DEF ListIs
  <2>2. CASE k # 0 /\ k - 1 < n
    <3>1. g[k - 1] = q[n - (k - 1)] /\ n - (k - 1) \in 1 .. n
      BY <1>1, <2>2
    <3>2. q[n - (k - 1)] \in Blocks /\ q[n - (k - 1)] # None
      BY <3>1, QueueAssumption
    <3>3. freeListNext[q[n - (k - 1)]] = IF n - (k - 1) = 1 THEN None ELSE q[n - (k - 1) - 1]
      BY <3>1 DEF ListIs
    <3>4. n - (k - 1) - 1 = n - k /\ (n - (k - 1) = 1 <=> ~(k < n))
      BY <2>2
    <3> HIDE DEF g
    <3>5. freeListNext[g[k - 1]] = IF k < n THEN q[n - k] ELSE None
      BY <3>1, <3>3, <3>4
    <3>6. g[k] = IF k < n THEN q[n - k] ELSE None
      BY DEF g
    <3> QED BY <2>2, <3>1, <3>2, <3>5, <3>6
  <2>3. CASE k # 0 /\ ~(k - 1 < n)
    <3>1. g[k - 1] = None /\ g[k] = None
      BY <1>1, <2>3
    <3> HIDE DEF g
    <3> QED BY <2>3, <3>1
  <2> QED BY <2>1, <2>2, <2>3
<1> QED BY <1>2 DEF Walk

\* The blocks on the list are those whose count says so.
LEMMA OnListIs ==
    ASSUME FreeLinks
    PROVE  OnList = {b \in Blocks : Listed(b)}
<1>1. PICK n \in Nat : \E q \in [1 .. n -> Blocks] : ListIs(n, q)
  BY DEF FreeLinks
<1>2. PICK q \in [1 .. n -> Blocks] : ListIs(n, q)
  BY <1>1
<1> DEFINE At == CHOOSE f : f = Walk(f)
           g == [k \in 0 .. Cardinality(Blocks) |-> IF k < n THEN q[n - k] ELSE None]
<1>3. g = Walk(g)
  BY <1>2, WalkExists
<1>4. At = Walk(At)
  <2> HIDE DEF g
  <2> QED BY <1>3
<1>5. At = g
  <2> HIDE DEF At
  <2> QED BY <1>2, <1>4, WalkIs
<1>6. OnList = {At[k] : k \in DOMAIN At} \ {None}
  BY DEF OnList, Walk
<1>7. OnList = {g[k] : k \in 0 .. Cardinality(Blocks)} \ {None}
  <2> HIDE DEF At
  <2> QED BY <1>5, <1>6
<1>8. Cardinality(Blocks) \in Nat /\ n <= Cardinality(Blocks)
  BY <1>2, ListIsShort DEF ListIs
<1>9. ASSUME NEW b \in OnList PROVE b \in Blocks /\ Listed(b)
  <2>1. PICK k \in 0 .. Cardinality(Blocks) : b = g[k] /\ b # None
    BY <1>7
  <2>2. k < n /\ b = q[n - k] /\ n - k \in 1 .. n
    BY <1>8, <2>1
  <2> QED BY <1>2, <2>2 DEF ListIs
<1>10. ASSUME NEW b \in Blocks, Listed(b) PROVE b \in OnList
  <2>1. PICK i \in 1 .. n : q[i] = b
    BY <1>2, <1>10 DEF ListIs
  <2>2. n - i \in 0 .. Cardinality(Blocks) /\ n - i < n /\ n - (n - i) = i
    BY <1>8
  <2>3. g[n - i] = b /\ b # None
    BY <2>1, <2>2, QueueAssumption
  <2> HIDE DEF g
  <2> QED BY <1>7, <2>2, <2>3
<1> QED BY <1>9, <1>10
=============================================================================
