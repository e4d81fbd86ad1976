------------------------------ MODULE FreeList ------------------------------
(***************************************************************************)
(* FreeList of concurentqueue.hh: the stack of free blocks, without locks.  *)
(* A block on the list has a reference of the list, a thread inside try_get *)
(* another one; a block whose count is not zero is not pushed, it is marked *)
(* with SHOULD_BE_ON_FREELIST and pushed by the thread that brings the      *)
(* count to zero.  One action is one access to a shared variable.  The load *)
(* of the count and its compare-exchange in try_get are one action: when    *)
(* the exchange fails the thread starts over, which changes nothing.        *)
(***************************************************************************)
EXTENDS Integers, Sequences, FiniteSets

CONSTANTS
    Threads, \* the threads that call add and try_get
    Blocks,  \* the nodes
    None     \* the null pointer

\* SHOULD_BE_ON_FREELIST is above any count: one reference per thread and two.
SHOULD_BE_ON_FREELIST == Cardinality(Threads) + 3

RefsMasked(refs) == refs % SHOULD_BE_ON_FREELIST

VARIABLES
    freeListHead, \* the top of the stack
    freeListRefs, \* of each block: its references, and the mark
    freeListNext, \* of each block: the one below
    fl            \* of each thread: where it is in the list, and its locals

freeVars == <<freeListHead, freeListRefs, freeListNext, fl>>

\* at: the next access; node: the block that add works on; old: the head that
\* add saw; head, next: the locals of try_get, which is under way when getting.
Outside == [at |-> "out", node |-> None, old |-> None, getting |-> FALSE,
            head |-> None, next |-> None]

FreeInit ==
    /\ freeListHead = None
    /\ freeListRefs = [b \in Blocks |-> 0]
    /\ freeListNext = [b \in Blocks |-> None]
    /\ fl = [t \in Threads |-> Outside]

\* try_get with a new head: its caller reads "got" or "empty".
Test(head) ==
    IF head = None THEN [Outside EXCEPT !.at = "empty"]
    ELSE [Outside EXCEPT !.at = "ref", !.getting = TRUE, !.head = head]

\* add_knowing_refcount_is_zero is done: back to try_get, or to the caller.
AfterPush(f) ==
    IF f.getting THEN Test(f.head) ELSE [Outside EXCEPT !.at = "added"]

-----------------------------------------------------------------------------
(***************************************************************************)
(* add.                                                                     *)
(***************************************************************************)

\* What the caller of add(b) sets fl[t] to.
Adding(b) == [Outside EXCEPT !.at = "add", !.node = b]

Add(t) ==
    LET b == fl[t].node IN
    /\ fl[t].at = "add"
    /\ freeListRefs' = [freeListRefs EXCEPT ![b] = @ + SHOULD_BE_ON_FREELIST]
    /\ fl' = [fl EXCEPT ![t] = IF freeListRefs[b] = 0
                               THEN [@ EXCEPT !.at = "load"] ELSE AfterPush(@)]
    /\ UNCHANGED <<freeListHead, freeListNext>>

PushLoad(t) ==
    /\ fl[t].at = "load"
    /\ fl' = [fl EXCEPT ![t].old = freeListHead, ![t].at = "count"]
    /\ UNCHANGED <<freeListHead, freeListRefs, freeListNext>>

\* Nobody can take a reference before the count is one, and read the link.
PushCount(t) ==
    LET b == fl[t].node IN
    /\ fl[t].at = "count"
    /\ freeListNext' = [freeListNext EXCEPT ![b] = fl[t].old]
    /\ freeListRefs' = [freeListRefs EXCEPT ![b] = 1]
    /\ fl' = [fl EXCEPT ![t].at = "push"]
    /\ UNCHANGED freeListHead

\* The compare-exchange of the head; when it fails it loads the head.
Push(t) ==
    /\ fl[t].at = "push"
    /\ \/ /\ freeListHead = fl[t].old
          /\ freeListHead' = fl[t].node
          /\ fl' = [fl EXCEPT ![t] = AfterPush(@)]
       \/ /\ freeListHead # fl[t].old
          /\ fl' = [fl EXCEPT ![t].old = freeListHead, ![t].at = "repush"]
          /\ UNCHANGED freeListHead
    /\ UNCHANGED <<freeListRefs, freeListNext>>

\* The push failed: it is tried again once nobody else has a reference, by the
\* thread that drops the last one.
Repush(t) ==
    LET b == fl[t].node IN
    /\ fl[t].at = "repush"
    /\ freeListRefs' =
         [freeListRefs EXCEPT ![b] = @ + SHOULD_BE_ON_FREELIST - 1]
    /\ fl' = [fl EXCEPT ![t] =
                IF freeListRefs[b] = 1 THEN [@ EXCEPT !.at = "count"]
                ELSE AfterPush(@)]
    /\ UNCHANGED <<freeListHead, freeListNext>>

-----------------------------------------------------------------------------
(***************************************************************************)
(* try_get.                                                                 *)
(***************************************************************************)

\* What the caller of try_get() sets fl[t] to.
Getting == [Outside EXCEPT !.at = "get", !.getting = TRUE]

GetLoad(t) ==
    /\ fl[t].at = "get"
    /\ fl' = [fl EXCEPT ![t] = Test(freeListHead)]
    /\ UNCHANGED <<freeListHead, freeListRefs, freeListNext>>

\* Mutant of GetRef: the block is used without a reference.
GetRefNot(t) ==
    /\ fl[t].at = "ref"
    /\ fl' = [fl EXCEPT ![t].at = "next"]
    /\ UNCHANGED <<freeListHead, freeListRefs, freeListNext>>

\* A reference is taken, unless the count is zero.
GetRef(t) ==
    LET b == fl[t].head IN
    /\ fl[t].at = "ref"
    /\ \/ /\ RefsMasked(freeListRefs[b]) = 0
          /\ fl' = [fl EXCEPT ![t] = Getting]
          /\ UNCHANGED freeListRefs
       \/ /\ RefsMasked(freeListRefs[b]) # 0
          /\ freeListRefs' = [freeListRefs EXCEPT ![b] = @ + 1]
          /\ fl' = [fl EXCEPT ![t].at = "next"]
    /\ UNCHANGED <<freeListHead, freeListNext>>

GetNext(t) ==
    /\ fl[t].at = "next"
    /\ fl' = [fl EXCEPT ![t].next = freeListNext[fl[t].head], ![t].at = "pop"]
    /\ UNCHANGED <<freeListHead, freeListRefs, freeListNext>>

Pop(t) ==
    LET b == fl[t].head IN
    /\ fl[t].at = "pop"
    /\ \/ /\ freeListHead = b
          /\ freeListHead' = fl[t].next
          /\ fl' = [fl EXCEPT ![t] =
                      [Outside EXCEPT !.at = "popped", !.node = b]]
       \/ /\ freeListHead # b
          /\ fl' = [fl EXCEPT ![t] =
                      [Outside EXCEPT !.at = "unref", !.node = b,
                                      !.getting = TRUE, !.head = freeListHead]]
          /\ UNCHANGED freeListHead
    /\ UNCHANGED <<freeListRefs, freeListNext>>

\* The reference of the thread and the one of the list are dropped.
Got(t) ==
    /\ fl[t].at = "popped"
    /\ freeListRefs' = [freeListRefs EXCEPT ![fl[t].node] = @ - 2]
    /\ fl' = [fl EXCEPT ![t].at = "got"]
    /\ UNCHANGED <<freeListHead, freeListNext>>

\* Mutant of Unref: nobody pushes the block that was to be pushed.
UnrefOnly(t) ==
    LET f == fl[t] IN
    /\ f.at = "unref"
    /\ freeListRefs' = [freeListRefs EXCEPT ![f.node] = @ - 1]
    /\ fl' = [fl EXCEPT ![t] = Test(f.head)]
    /\ UNCHANGED <<freeListHead, freeListNext>>

\* The head had changed: the reference is dropped, and the block pushed if that
\* was the last one and add has marked it.
Unref(t) ==
    LET f == fl[t] IN
    /\ f.at = "unref"
    /\ freeListRefs' = [freeListRefs EXCEPT ![f.node] = @ - 1]
    /\ fl' = [fl EXCEPT ![t] =
                IF freeListRefs[f.node] = SHOULD_BE_ON_FREELIST + 1
                THEN [@ EXCEPT !.at = "load"] ELSE Test(f.head)]
    /\ UNCHANGED <<freeListHead, freeListNext>>

FreeStep(t) ==
    \/ Add(t) \/ PushLoad(t) \/ PushCount(t) \/ Push(t)
    \/ Repush(t)
    \/ GetLoad(t) \/ GetRef(t) \/ GetNext(t) \/ Pop(t) \/ Got(t) \/ Unref(t)

-----------------------------------------------------------------------------
\* The blocks from the head down; a list that ends has at most all of them.
OnList ==
    LET At[n \in 0 .. Cardinality(Blocks)] ==
          IF n = 0 THEN freeListHead
          ELSE IF At[n - 1] = None THEN None ELSE freeListNext[At[n - 1]]
    IN {At[n] : n \in DOMAIN At} \ {None}

FreeTypeOK ==
    /\ freeListHead \in Blocks \union {None}
    /\ freeListRefs \in [Blocks -> 0 .. 2 * SHOULD_BE_ON_FREELIST - 1]
    /\ freeListNext \in [Blocks -> Blocks \union {None}]
    /\ fl \in [Threads ->
                 [at : {"out", "add", "load", "count", "push", "repush",
                        "added", "get", "ref", "next", "pop", "popped",
                        "unref", "got", "empty"},
                  node : Blocks \union {None}, old : Blocks \union {None},
                  getting : BOOLEAN, head : Blocks \union {None},
                  next : Blocks \union {None}]]
=============================================================================
