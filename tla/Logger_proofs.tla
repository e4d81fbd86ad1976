---------------------------- MODULE Logger_proofs ----------------------------
(***************************************************************************)
(* For any number of threads, any hash function, table size and workload:   *)
(*  - the order of the lines of a thread: while tables are replaced, a       *)
(*    thread that has a producer finds it, so that it never gets a second    *)
(*    one, and one stream is first in, first out;                            *)
(*  - the free slot that every table keeps: count is how many threads are    *)
(*    registered, and fewer of them are let into the tables of a threshold   *)
(*    than that threshold;                                                   *)
(*  - the types;                                                             *)
(*  - what the destructor may lose: the message it sends is the last of its  *)
(*    stream, and the scan that takes it has seen the other streams.         *)
(***************************************************************************)
EXTENDS Logger, FiniteSetTheorems, WellFoundedInduction, TLAPS

Slots == {None} \cup (Senders \X Nat)
Tables == UNION {[0 .. s - 1 -> Slots] : s \in Nat \ {0}}

Labels == {"idle", "search", "full", "resize", "release", "give_up", "room",
           "create", "insert", "enqueue"}
Locals == [table : Nat, count : Int, producer : Nat]

TypedHash ==
    /\ tables \in Seq(Tables) /\ tables # <<>>
    /\ owner \in Seq(Senders)

TypedQueue ==
    /\ stream \in [Producers -> Seq(Senders \X Nat)]
    /\ DOMAIN hand = {"logger"}

TypedSend ==
    /\ count \in Int
    /\ pc \in [Senders -> Labels]
    /\ loc \in [Senders -> Locals]
    /\ sent \in [Senders -> Nat]

TypedRun ==
    /\ run \in {"scan", "message", "stopped"}
    /\ run = "message" => hand["logger"] \in Senders \X Nat
    /\ scan \in [at : Nat, found : Nat, best : Nat, size : Nat]
    /\ printed \in [Senders -> Nat]

Typed == TypedHash /\ TypedQueue /\ TypedSend /\ TypedRun

\* A thread that searches or registers works on a table there is; the producer
\* of a thread that is to use one is its own.
Located ==
    \A t \in Senders :
      /\ pc[t] \notin {"idle", "enqueue"} => loc[t].table \in 1 .. Len(tables)
      /\ pc[t] \in {"insert", "enqueue"} =>
           /\ loc[t].producer \in 1 .. Len(owner)
           /\ owner[loc[t].producer] = t

\* An entry of a table is the producer of its thread.
TablesTrue ==
    \A h \in 1 .. Len(tables) : \A i \in DOMAIN tables[h] :
      tables[h][i] # None =>
        /\ tables[h][i][2] \in 1 .. Len(owner)
        /\ owner[tables[h][i][2]] = tables[h][i][1]

\* A thread has one producer.
OneStream ==
    \A p, q \in 1 .. Len(owner) : owner[p] = owner[q] => p = q

\* A thread that has a producer is about to insert it, or it is in a table, and in
\* one that it looks at when it searches: it does not register again.
Registered ==
    \A p \in 1 .. Len(owner) :
      \/ pc[owner[p]] = "insert"
      \/ /\ pc[owner[p]] \in {"idle", "search", "enqueue"}
         /\ \E h \in 1 .. Len(tables) :
              /\ In(owner[p], h)
              /\ pc[owner[p]] = "search" => h <= loc[owner[p]].table

\* t is in a Send whose message is not yet in its stream.
Unsent(t) == pc[t] # "idle" /\ ~(t = Main /\ main = "closing")

\* n is the number of a message of t that is in the queue, or was.
Old(t, n) == n <= sent[t] /\ (Unsent(t) => n < sent[t])

\* What t has printed, and what is about to be printed, is before n.
After(t, n) ==
    /\ printed[t] < n
    /\ run = "message" /\ hand["logger"][1] = t => hand["logger"][2] < n

\* The messages of a thread are in their order: those that are printed, the one
\* that is taken, the ones that wait and the one that is being sent.
HandOrdered ==
    run = "message" /\ hand["logger"] # Done =>
      /\ printed[hand["logger"][1]] < hand["logger"][2]
      /\ Old(hand["logger"][1], hand["logger"][2])

StreamOrdered(p) ==
    /\ p > Len(owner) => stream[p] = <<>>
    /\ \A i \in 1 .. Len(stream[p]) :
         /\ stream[p][i][1] = owner[p]
         /\ stream[p][i] # Done =>
              /\ After(owner[p], stream[p][i][2])
              /\ Old(owner[p], stream[p][i][2])
              /\ \A j \in 1 .. i - 1 : stream[p][j][2] < stream[p][i][2]

Ordered ==
    /\ \A t \in Senders : Old(t, printed[t])
    /\ HandOrdered
    /\ \A p \in Producers : StreamOrdered(p)

\* The scan chooses a producer of the list.
Scanning ==
    /\ scan.at <= Len(owner)
    /\ scan.found = 0 => scan.size = 0
    /\ scan.found > 0 => scan.best \in 1 .. Len(owner)

Inv == Typed /\ Located /\ TablesTrue /\ OneStream /\ Registered /\ Ordered
         /\ Scanning

-----------------------------------------------------------------------------
(***************************************************************************)
(* Lemmas about numbers and lists.                                          *)
(***************************************************************************)

\* A set of numbers has a least one, and below a bound a greatest one.
LEMMA LeastOf ==
    ASSUME NEW S, S \subseteq Nat, S # {}
    PROVE  \E x \in S : \A y \in S : x <= y
<1>1. PICK x \in S : \A y \in S : ~(<<y, x>> \in OpToRel(<, Nat))
  BY NatLessThanWellFounded, WFMin
<1>2. \A y \in S : x <= y
  <2> TAKE y \in S
  <2>1. x \in Nat /\ y \in Nat
    OBVIOUS
  <2>2. ~(y < x)
    BY <1>1, <2>1 DEF OpToRel
  <2>3. QED
    BY <2>1, <2>2
<1>3. QED
  BY <1>2

LEMMA GreatestOf ==
    ASSUME NEW n \in Nat, NEW S, S \subseteq 1 .. n, S # {}
    PROVE  Max(S) \in S
<1> DEFINE R == {n - y : y \in S}
<1>1. R \subseteq Nat /\ R # {}
  <2>1. \A y \in S : n - y \in Nat
    OBVIOUS
  <2>2. PICK y \in S : TRUE
    OBVIOUS
  <2>3. n - y \in R
    OBVIOUS
  <2> QED
    BY <2>1, <2>3
<1>2. PICK x \in R : \A y \in R : x <= y
  <2> HIDE DEF R
  <2> QED
    BY <1>1, LeastOf
<1>3. PICK m \in S : x = n - m
  OBVIOUS
<1>4. \A y \in S : m >= y
  <2> TAKE y \in S
  <2>1. n - m <= n - y
    BY <1>2, <1>3
  <2> QED
    BY <2>1
<1> QED
  BY <1>4 DEF Max

\* What is left of a list without its first element.
LEMMA TailIs ==
    ASSUME NEW S, NEW q \in Seq(S), q # <<>>
    PROVE  /\ Head(q) = q[1] /\ Len(Tail(q)) = Len(q) - 1
           /\ \A i \in 1 .. Len(q) - 1 : Tail(q)[i] = q[i + 1]
OBVIOUS

\* There is room for the streams of all threads.
LEMMA StreamsSuffice ==
    ASSUME owner \in Seq(Senders), OneStream
    PROVE  1 .. Len(owner) \subseteq Producers
<1>1. IsFiniteSet(Senders) /\ Cardinality(Senders) \in Nat
  BY LoggerAssumption, FS_CardinalityType
<1>2. owner \in Injection(1 .. Len(owner), Senders)
  BY DEF OneStream, Injection, IsInjective
<1>3. Cardinality(1 .. Len(owner)) <= Cardinality(Senders)
  BY <1>1, <1>2, FS_Injection
<1>4. Cardinality(1 .. Len(owner)) = Len(owner)
  <2>1. Len(owner) \in Nat
    OBVIOUS
  <2>2. CASE Len(owner) = 0
    BY <2>2, FS_EmptySet
  <2>3. CASE Len(owner) > 0
    BY <2>1, <2>3, FS_Interval
  <2> QED
    BY <2>1, <2>2, <2>3
<1> QED
  BY <1>1, <1>3, <1>4 DEF Producers

-----------------------------------------------------------------------------
(***************************************************************************)
(* Lemmas about the tables.                                                 *)
(***************************************************************************)

\* The capacity of a table is how many slots it has.
LEMMA CapacityIs ==
    ASSUME tables \in Seq(Tables), NEW h \in 1 .. Len(tables)
    PROVE  \E s \in Nat \ {0} :
             tables[h] \in [0 .. s - 1 -> Slots] /\ Capacity(h) = s
<1>1. tables[h] \in Tables
  OBVIOUS
<1>2. PICK s \in Nat \ {0} : tables[h] \in [0 .. s - 1 -> Slots]
  BY <1>1 DEF Tables
<1>3. Cardinality(0 .. s - 1) = s
  BY FS_Interval
<1> QED
  BY <1>2, <1>3 DEF Capacity

\* A probe hits a slot.
LEMMA ProbeHits ==
    ASSUME tables \in Seq(Tables), NEW h \in 1 .. Len(tables),
           NEW t \in Senders, NEW i \in Nat
    PROVE  Probe(t, h, i) \in DOMAIN tables[h]
<1>1. PICK s \in Nat \ {0} :
        tables[h] \in [0 .. s - 1 -> Slots] /\ Capacity(h) = s
  BY CapacityIs
<1>2. HashOf[t] + i \in Nat
  BY LoggerAssumption
<1>3. (HashOf[t] + i) % s \in 0 .. s - 1
  BY <1>2
<1> QED
  BY <1>1, <1>3 DEF Probe

\* The slot that a thread takes is free, and those that it probes before are not.
LEMMA FirstFreeIs ==
    ASSUME tables \in Seq(Tables), NEW h \in 1 .. Len(tables),
           NEW t \in Senders, FreeSlots(t, h) # {}
    PROVE  \E i \in DOMAIN tables[h] :
             /\ FirstFree(t, h) = Probe(t, h, i)
             /\ tables[h][Probe(t, h, i)] = None
             /\ \A j \in 0 .. i - 1 : tables[h][Probe(t, h, j)] # None
<1>1. PICK s \in Nat \ {0} : tables[h] \in [0 .. s - 1 -> Slots]
  BY CapacityIs
<1>2. FreeSlots(t, h) \subseteq 0 .. s - 1
  BY <1>1 DEF FreeSlots
<1>3. \E i \in FreeSlots(t, h) : \A j \in FreeSlots(t, h) : i <= j
  BY <1>2, LeastOf
<1> DEFINE i == CHOOSE i \in FreeSlots(t, h) :
                  \A j \in FreeSlots(t, h) : i <= j
<1>4. i \in FreeSlots(t, h) /\ \A j \in FreeSlots(t, h) : i <= j
  BY <1>3
<1>5. FirstFree(t, h) = Probe(t, h, i)
  BY DEF FirstFree
<1> HIDE DEF i
<1>6. i \in DOMAIN tables[h] /\ tables[h][Probe(t, h, i)] = None
  BY <1>4 DEF FreeSlots
<1>7. ASSUME NEW j \in 0 .. i - 1, tables[h][Probe(t, h, j)] = None
      PROVE  FALSE
  <2>1. i \in 0 .. s - 1
    BY <1>2, <1>4
  <2>2. j \in 0 .. s - 1 /\ j < i
    BY <2>1
  <2>3. j \in FreeSlots(t, h)
    BY <1>1, <1>7, <2>2 DEF FreeSlots
  <2> QED
    BY <1>4, <2>1, <2>2, <2>3
<1> QED
  BY <1>5, <1>6, <1>7

\* What a step does to the tables: there may be more, slots stay, and so does
\* what is in them.
Grows ==
    /\ tables' \in Seq(Tables) /\ Len(tables) <= Len(tables')
    /\ \A g \in 1 .. Len(tables) :
         /\ DOMAIN tables'[g] = DOMAIN tables[g]
         /\ \A i \in DOMAIN tables[g] :
              tables[g][i] # None => tables'[g][i] = tables[g][i]

\* So a thread that is in a table stays in it.
LEMMA InStays ==
    ASSUME tables \in Seq(Tables), Grows,
           NEW g \in 1 .. Len(tables), NEW u \in Senders, In(u, g)
    PROVE  In(u, g)'
<1>1. PICK s \in Nat \ {0} : tables[g] \in [0 .. s - 1 -> Slots]
  BY CapacityIs
<1>2. PICK i \in DOMAIN tables[g] :
        /\ tables[g][Probe(u, g, i)] # None
        /\ tables[g][Probe(u, g, i)][1] = u
        /\ \A j \in 0 .. i - 1 : tables[g][Probe(u, g, j)] # None
  BY DEF In
<1>3. DOMAIN tables'[g] = DOMAIN tables[g]
  BY DEF Grows
<1>4. \A j : Probe(u, g, j)' = Probe(u, g, j)
  BY <1>3 DEF Probe, Capacity
<1>5. \A j \in 0 .. i : tables[g][Probe(u, g, j)] # None =>
        tables'[g][Probe(u, g, j)] = tables[g][Probe(u, g, j)]
  <2> TAKE j \in 0 .. i
  <2>1. j \in Nat
    OBVIOUS
  <2>2. Probe(u, g, j) \in DOMAIN tables[g]
    BY <2>1, ProbeHits
  <2> QED
    BY <2>2 DEF Grows
<1>6. i \in Nat
  BY <1>1
<1>7. /\ tables'[g][Probe(u, g, i)] # None
      /\ tables'[g][Probe(u, g, i)][1] = u
      /\ \A j \in 0 .. i - 1 : tables'[g][Probe(u, g, j)] # None
  BY <1>2, <1>5, <1>6
<1> QED
  BY <1>2, <1>3, <1>4, <1>7 DEF In

\* A thread that puts itself into a table is in it then.
LEMMA PutKeeps ==
    ASSUME tables \in Seq(Tables), NEW h \in 1 .. Len(tables),
           NEW t \in Senders, NEW p \in Nat, FreeSlots(t, h) # {}, Put(t, h, p)
    PROVE  /\ Grows /\ Len(tables') = Len(tables)
           /\ \A g \in 1 .. Len(tables) : \A i \in DOMAIN tables[g] :
                tables'[g][i] \in {tables[g][i], <<t, p>>}
           /\ In(t, h)'
<1>1. PICK s \in Nat \ {0} : tables[h] \in [0 .. s - 1 -> Slots]
  BY CapacityIs
<1>2. PICK i \in DOMAIN tables[h] :
        /\ FirstFree(t, h) = Probe(t, h, i)
        /\ tables[h][Probe(t, h, i)] = None
        /\ \A j \in 0 .. i - 1 : tables[h][Probe(t, h, j)] # None
  BY FirstFreeIs
<1>3. i \in 0 .. s - 1 /\ i \in Nat
  BY <1>1
<1> DEFINE k == Probe(t, h, i)
           new == [tables[h] EXCEPT ![k] = <<t, p>>]
<1>4. k \in 0 .. s - 1
  BY <1>1, <1>3, ProbeHits
<1>5. tables' = [tables EXCEPT ![h] = new]
  BY <1>2 DEF Put
<1>6. <<t, p>> \in Slots /\ <<t, p>> # None
  BY LoggerAssumption DEF Slots
<1>7. new \in [0 .. s - 1 -> Slots]
  BY <1>1, <1>4, <1>6
<1>8. new \in Tables
  BY <1>7 DEF Tables
<1>9. tables' \in Seq(Tables) /\ Len(tables') = Len(tables)
  <2> HIDE DEF new
  <2> QED
    BY <1>5, <1>8
<1>10. tables'[h] = new /\ \A g \in 1 .. Len(tables) : g # h => tables'[g] = tables[g]
  <2> HIDE DEF new
  <2> QED
    BY <1>5
<1>11. \A g \in 1 .. Len(tables) : DOMAIN tables'[g] = DOMAIN tables[g]
  BY <1>10
<1>12. new[k] = <<t, p>> /\ \A j \in 0 .. s - 1 : j # k => new[j] = tables[h][j]
  BY <1>1, <1>4
<1>13. \A g \in 1 .. Len(tables) : \A j \in DOMAIN tables[g] :
        \/ tables'[g][j] = tables[g][j]
        \/ tables[g][j] = None /\ tables'[g][j] = <<t, p>>
  <2> TAKE g \in 1 .. Len(tables)
  <2> TAKE j \in DOMAIN tables[g]
  <2>1. CASE g # h
    BY <2>1, <1>10
  <2>2. CASE g = h
    <3> HIDE DEF k, new
    <3>1. j \in 0 .. s - 1 /\ tables'[g][j] = new[j]
      BY <2>2, <1>1, <1>10
    <3>2. tables[h][k] = None
      BY <1>2 DEF k
    <3> QED
      BY <2>2, <3>1, <3>2, <1>12
  <2> QED
    BY <2>1, <2>2
<1>14. Grows
  BY <1>9, <1>11, <1>13 DEF Grows
<1>15. In(t, h)'
  <2>1. \A j : Probe(t, h, j)' = Probe(t, h, j)
    BY <1>11 DEF Probe, Capacity
  <2>2. tables'[h][k] = <<t, p>>
    <3> HIDE DEF k, new
    <3> QED
      BY <1>10, <1>12
  <2>3. \A j \in 0 .. i - 1 : tables'[h][Probe(t, h, j)] # None
    <3> TAKE j \in 0 .. i - 1
    <3>1. j \in Nat /\ tables[h][Probe(t, h, j)] # None
      BY <1>2, <1>3
    <3>2. Probe(t, h, j) \in DOMAIN tables[h]
      BY <3>1, ProbeHits
    <3> QED
      BY <3>1, <3>2, <1>14 DEF Grows
  <2>4. i \in DOMAIN tables'[h]
    BY <1>2, <1>11
  <2>5. /\ tables'[h][Probe(t, h, i)'] = <<t, p>>
        /\ \A j \in 0 .. i - 1 : tables'[h][Probe(t, h, j)'] # None
    BY <2>1, <2>2, <2>3
  <2>6. tables'[h][Probe(t, h, i)'] # None /\ tables'[h][Probe(t, h, i)'][1] = t
    BY <2>5, <1>6
  <2> QED
    BY <2>4, <2>5, <2>6 DEF In
<1> QED
  BY <1>9, <1>13, <1>14, <1>15

\* A new table is empty.
LEMMA AppendKeeps ==
    ASSUME tables \in Seq(Tables), NEW c \in Nat \ {0},
           tables' = Append(tables, Table(c))
    PROVE  /\ Grows /\ Len(tables') = Len(tables) + 1
           /\ \A g \in 1 .. Len(tables) : tables'[g] = tables[g]
           /\ \A i \in DOMAIN tables'[Len(tables')] :
                tables'[Len(tables')][i] = None
<1>1. Table(c) \in [0 .. c - 1 -> Slots]
  BY DEF Table, Slots
<1>2. Table(c) \in Tables
  BY <1>1 DEF Tables
<1>3. \A i \in DOMAIN Table(c) : Table(c)[i] = None
  BY DEF Table
<1>4. /\ tables' \in Seq(Tables) /\ Len(tables') = Len(tables) + 1
      /\ \A g \in 1 .. Len(tables) : tables'[g] = tables[g]
      /\ tables'[Len(tables')] = Table(c)
  BY <1>2
<1>5. Grows
  BY <1>4 DEF Grows
<1> QED
  BY <1>3, <1>4, <1>5

\* A table that replaces another one is not empty.
LEMMA LargerSize ==
    ASSUME tables \in Seq(Tables), tables # <<>>, NEW n \in Int,
           NEW c \in Larger(2 * Capacity(Len(tables)), n)
    PROVE  c \in Nat \ {0}
<1>1. Len(tables) \in 1 .. Len(tables)
  OBVIOUS
<1>2. PICK s \in Nat \ {0} : Capacity(Len(tables)) = s
  BY <1>1, CapacityIs
<1>3. c \in 2 * s .. 2 * s + 4 * n + 2
  BY <1>2 DEF Larger
<1> QED
  BY <1>3

\* The producer that a thread finds is its own.
LEMMA ValueIs ==
    ASSUME tables \in Seq(Tables), TablesTrue, NEW h \in 1 .. Len(tables),
           NEW t \in Senders, In(t, h)
    PROVE  Value(t, h) \in 1 .. Len(owner) /\ owner[Value(t, h)] = t
<1>1. PICK s \in Nat \ {0} : tables[h] \in [0 .. s - 1 -> Slots]
  BY CapacityIs
<1>2. PICK i \in DOMAIN tables[h] :
        /\ tables[h][Probe(t, h, i)] # None
        /\ tables[h][Probe(t, h, i)][1] = t
  BY DEF In
<1>3. Probe(t, h, i) \in DOMAIN tables[h]
  BY <1>1, ProbeHits
<1>4. \E k \in DOMAIN tables[h] : tables[h][k] # None /\ tables[h][k][1] = t
  BY <1>2, <1>3
<1> DEFINE k == CHOOSE k \in DOMAIN tables[h] :
                  tables[h][k] # None /\ tables[h][k][1] = t
<1>5. k \in DOMAIN tables[h] /\ tables[h][k] # None /\ tables[h][k][1] = t
  BY <1>4
<1>6. Value(t, h) = tables[h][k][2]
  BY DEF Value
<1> HIDE DEF k
<1> QED
  BY <1>5, <1>6 DEF TablesTrue

-----------------------------------------------------------------------------
(***************************************************************************)
(* The invariant.                                                           *)
(***************************************************************************)

LEMMA InitInv == Init => Inv
<1> SUFFICES ASSUME Init PROVE Inv
  OBVIOUS
<1>1. TypedHash
  <2>1. Table(HashSize) \in [0 .. HashSize - 1 -> Slots]
    BY DEF Table, Slots
  <2>2. Table(HashSize) \in Tables
    BY <2>1, LoggerAssumption DEF Tables
  <2> QED
    BY <2>2 DEF Init, TypedHash
<1>2. TypedQueue
  BY DEF Init, Queue!Init, TypedQueue
<1>3. TypedSend
  BY DEF Init, TypedSend, Labels, Locals, NoLocals
<1>4. TypedRun
  BY DEF Init, TypedRun, NoScan
<1>5. Located
  BY DEF Init, Located
<1>6. TablesTrue
  <2>1. \A h \in 1 .. Len(tables) : tables[h] = Table(HashSize)
    BY DEF Init
  <2>2. \A i \in DOMAIN Table(HashSize) : Table(HashSize)[i] = None
    BY DEF Table
  <2> QED
    BY <2>1, <2>2 DEF TablesTrue
<1>7. OneStream /\ Registered
  BY DEF Init, OneStream, Registered
<1>8. Ordered
  <2>1. stream = [p \in Producers |-> <<>>]
    BY DEF Init, Queue!Init
  <2> QED
    BY <2>1 DEF Init, Ordered, HandOrdered, StreamOrdered, Old, Unsent
<1>9. Scanning
  BY DEF Init, Scanning, NoScan
<1> QED
  BY <1>1, <1>2, <1>3, <1>4, <1>5, <1>6, <1>7, <1>8, <1>9 DEF Inv, Typed

\* The table in which a thread that searches finds itself, and its producer there.
LEMMA SearchFinds ==
    ASSUME Inv, NEW t \in Senders, pc[t] = "search", Found(t) # {}
    PROVE  \E h \in 1 .. Len(tables), p \in 1 .. Len(owner) :
             h = Max(Found(t)) /\ In(t, h) /\ p = Value(t, h) /\ owner[p] = t
<1>1. tables \in Seq(Tables) /\ TablesTrue
  BY DEF Inv, Typed, TypedHash
<1>2. loc[t].table \in 1 .. Len(tables)
  BY DEF Inv, Located
<1>3. PICK k \in 1 .. Len(tables) : k = loc[t].table
  BY <1>2
<1>4. Found(t) \subseteq 1 .. k
  BY <1>3 DEF Found
<1>5. Max(Found(t)) \in Found(t)
  BY <1>4, GreatestOf
<1>6. PICK h \in 1 .. Len(tables) : h = Max(Found(t)) /\ In(t, h)
  <2> DEFINE m == Max(Found(t))
  <2>1. m \in {h \in 1 .. k : In(t, h)}
    BY <1>3, <1>5 DEF Found
  <2> HIDE DEF m
  <2>2. m \in 1 .. Len(tables) /\ In(t, m)
    BY <2>1
  <2> QED
    BY <2>2 DEF m
<1>7. Value(t, h) \in 1 .. Len(owner) /\ owner[Value(t, h)] = t
  BY <1>1, <1>6, ValueIs
<1> QED
  BY <1>6, <1>7

-----------------------------------------------------------------------------
\* What a step does to the tables and to the list of producers.
LEMMA HashStep ==
    ASSUME Inv, [Next]_vars
    PROVE  /\ Grows /\ tables' # <<>>
           /\ \/ UNCHANGED owner
              \/ \E t \in Senders : Create(t)
<1> tables \in Seq(Tables) /\ tables # <<>>
  BY DEF Inv, Typed, TypedHash
<1>1. ASSUME UNCHANGED tables PROVE Grows /\ tables' # <<>>
  <2>1. Len(tables) \in Nat
    OBVIOUS
  <2> QED
    BY <1>1, <2>1 DEF Grows
<1>2. ASSUME NEW t \in Senders, Search(t) PROVE Grows /\ tables' # <<>>
  <2>1. pc[t] = "search" /\ Found(t) # {}
    BY <1>2 DEF Search
  <2>2. PICK h \in 1 .. Len(tables), p \in 1 .. Len(owner) :
          h = Max(Found(t)) /\ p = Value(t, h)
    BY <2>1, SearchFinds
  <2>3. PICK g \in 1 .. Len(tables) : g = loc[t].table
    BY <2>1 DEF Inv, Located
  <2>4. CASE FreeSlots(t, g) # {} /\ Put(t, g, p)
    BY <2>4, PutKeeps DEF Grows
  <2> QED
    BY <1>1, <1>2, <2>2, <2>3, <2>4 DEF Search
<1>3. ASSUME NEW t \in Senders, Resize(t) PROVE Grows /\ tables' # <<>>
  <2>1. PICK n \in Int : n = loc[t].count
    BY DEF Inv, Typed, TypedSend, Locals
  <2>2. ASSUME NEW c \in Larger(2 * Capacity(Len(tables)), n),
               tables' = Append(tables, Table(c))
        PROVE  Grows /\ tables' # <<>>
    <3>1. c \in Nat \ {0}
      BY <2>2, LargerSize
    <3> QED
      BY <2>2, <3>1, AppendKeeps DEF Grows
  <2> QED
    BY <1>1, <1>3, <2>1, <2>2 DEF Resize
<1>4. ASSUME NEW t \in Senders, Insert(t) PROVE Grows /\ tables' # <<>>
  <2>1. PICK g \in 1 .. Len(tables), p \in 1 .. Len(owner) :
          g = loc[t].table /\ p = loc[t].producer
    BY <1>4 DEF Insert, Inv, Located
  <2> QED
    BY <1>4, <2>1, PutKeeps DEF Insert, Grows
<1>5. \/ UNCHANGED tables
      \/ \E t \in Senders : Search(t) \/ Resize(t) \/ Insert(t)
  BY DEF Next, InSend, Run, Send, Close, Join, Register, TestFull, ResizeFails,
         Release, GiveUp, TestRoom, Create, CreateFails, Enqueue, EnqueueFails,
         Scan, Sleep, Dequeue, RunMessage, vars, hashVars
<1>6. \/ UNCHANGED owner
      \/ \E t \in Senders : Create(t)
  BY DEF Next, InSend, Run, Send, Close, Join, Search, Register, TestFull,
         Resize, ResizeFails, Release, GiveUp, TestRoom, CreateFails, Insert,
         Enqueue, EnqueueFails, Scan, Sleep, Dequeue, RunMessage, vars, hashVars
<1> QED
  BY <1>1, <1>2, <1>3, <1>4, <1>5, <1>6

-----------------------------------------------------------------------------
(***************************************************************************)
(* Types.                                                                   *)
(***************************************************************************)

LEMMA TypedHashStep == Inv /\ [Next]_vars => TypedHash'
<1> SUFFICES ASSUME Inv, [Next]_vars PROVE TypedHash'
  OBVIOUS
<1>1. owner \in Seq(Senders)
  BY DEF Inv, Typed, TypedHash
<1>2. ASSUME NEW t \in Senders, Create(t) PROVE owner' \in Seq(Senders)
  BY <1>1, <1>2 DEF Create
<1>3. owner' \in Seq(Senders)
  BY <1>1, <1>2, HashStep
<1> QED
  BY <1>3, HashStep DEF TypedHash, Grows

LEMMA TypedQueueStep == Inv /\ [Next]_vars => TypedQueue'
<1> SUFFICES ASSUME Inv, [Next]_vars PROVE TypedQueue'
  OBVIOUS
<1>1. TypedQueue
  BY DEF Inv, Typed
<1>2. 1 .. Len(owner) \subseteq Producers
  BY StreamsSuffice DEF Inv, Typed, TypedHash
<1>3. ASSUME NEW t \in Senders, Enqueue(t) PROVE TypedQueue'
  <2>1. PICK p \in Producers : p = loc[t].producer
    BY <1>2, <1>3 DEF Enqueue, Inv, Located
  <2>2. PICK n \in Nat : n = sent[t]
    BY DEF Inv, Typed, TypedSend
  <2>3. Message(t) \in Senders \X Nat
    BY <2>2, LoggerAssumption DEF Message, Done
  <2>4. UNCHANGED hand /\ stream' = [stream EXCEPT ![p] = Append(@, Message(t))]
    BY <1>3, <2>1 DEF Enqueue, Queue!Enqueue
  <2> QED
    BY <1>1, <2>3, <2>4 DEF TypedQueue
<1>4. CASE Dequeue
  <2>1. PICK p \in Producers : p = scan.best
    BY <1>2, <1>4 DEF Dequeue, Inv, Scanning
  <2>2. /\ stream[p] # <<>>
        /\ stream' = [stream EXCEPT ![p] = Tail(@)]
        /\ hand' = [hand EXCEPT !["logger"] = Head(stream[p])]
    BY <1>4, <2>1 DEF Dequeue, Queue!Dequeue
  <2>3. Tail(stream[p]) \in Seq(Senders \X Nat)
    BY <1>1, <2>2 DEF TypedQueue
  <2> QED
    BY <1>1, <2>2, <2>3 DEF TypedQueue
<1>5. CASE RunMessage
  BY <1>1, <1>5 DEF RunMessage, Queue!Return, TypedQueue
<1>6. CASE UNCHANGED <<stream, hand>>
  BY <1>1, <1>6 DEF TypedQueue
<1>7. \/ UNCHANGED <<stream, hand>> \/ Dequeue \/ RunMessage
      \/ \E t \in Senders : Enqueue(t)
  BY DEF Next, InSend, Run, Send, Close, Join, Search, Register, TestFull,
         Resize, ResizeFails, Release, GiveUp, TestRoom, Create, CreateFails,
         Insert, EnqueueFails, Scan, Sleep, vars, queueVars
<1> QED
  BY <1>3, <1>4, <1>5, <1>6, <1>7

LEMMA TypedSendStep == Inv /\ [Next]_vars => TypedSend'
<1> SUFFICES ASSUME Inv, [Next]_vars PROVE TypedSend'
  OBVIOUS
<1>1. TypedSend
  BY DEF Inv, Typed
<1>2. PICK size \in Nat : size = Len(tables)
  BY DEF Inv, Typed, TypedHash
<1>3. PICK len \in Nat : len = Len(owner)
  BY DEF Inv, Typed, TypedHash
<1> USE DEF TypedSend, Labels, Locals, Goto, NoLocals
<1>4. ASSUME NEW t \in Senders, Send(t) PROVE TypedSend'
  <2>1. /\ UNCHANGED count /\ pc' = [pc EXCEPT ![t] = "search"]
        /\ loc' = [loc EXCEPT ![t].table = size]
        /\ sent' = [sent EXCEPT ![t] = @ + 1]
    BY <1>2, <1>4 DEF Send, Call, hashVars
  <2> QED
    BY <1>1, <2>1
<1>5. CASE Close
  <2>1. /\ UNCHANGED <<count, sent>> /\ pc' = [pc EXCEPT ![Main] = "search"]
        /\ loc' = [loc EXCEPT ![Main].table = size]
    BY <1>2, <1>5 DEF Close, Call, hashVars
  <2>2. Main \in Senders
    BY LoggerAssumption
  <2> QED
    BY <1>1, <2>1, <2>2
<1>6. ASSUME NEW t \in Senders, Search(t) PROVE TypedSend'
  <2>1. PICK p \in Nat : p = Value(t, Max(Found(t)))
    <3>1. \E h, p : p \in Nat /\ h = Max(Found(t)) /\ p = Value(t, h)
      BY <1>3, <1>6, SearchFinds DEF Search
    <3> QED
      BY <3>1
  <2>2. loc' = [loc EXCEPT ![t] = [NoLocals EXCEPT !.producer = p]]
    BY <1>6, <2>1 DEF Search
  <2>3. UNCHANGED <<count, sent>> /\ pc' = [pc EXCEPT ![t] = "enqueue"]
    BY <1>6 DEF Search
  <2> QED
    BY <1>1, <2>2, <2>3
<1>7. ASSUME NEW t \in Senders, Register(t) PROVE TypedSend'
  BY <1>1, <1>7 DEF Register
<1>8. ASSUME NEW t \in Senders, TestFull(t) PROVE TypedSend'
  BY <1>1, <1>8 DEF TestFull
<1>9. ASSUME NEW t \in Senders, Resize(t) PROVE TypedSend'
  <2>1. /\ \/ loc' = [loc EXCEPT ![t].table = size]
           \/ loc' = [loc EXCEPT ![t].table = size + 1]
        /\ UNCHANGED <<count, sent>> /\ pc' = [pc EXCEPT ![t] = "release"]
    BY <1>2, <1>9 DEF Resize
  <2> QED
    BY <1>1, <2>1
<1>10. ASSUME NEW t \in Senders, ResizeFails(t) PROVE TypedSend'
  BY <1>1, <1>10 DEF ResizeFails
<1>11. ASSUME NEW t \in Senders, Release(t) PROVE TypedSend'
  BY <1>1, <1>11 DEF Release
<1>12. ASSUME NEW t \in Senders, GiveUp(t) PROVE TypedSend'
  BY <1>1, <1>12 DEF GiveUp, Return
<1>13. ASSUME NEW t \in Senders, TestRoom(t) PROVE TypedSend'
  <2>1. UNCHANGED <<count, sent>>
    BY <1>13 DEF TestRoom, hashVars
  <2>2. \/ /\ pc' = [pc EXCEPT ![t] = "create"]
           /\ loc' = [loc EXCEPT ![t].count = 0]
        \/ /\ pc' = [pc EXCEPT ![t] = "full"]
           /\ loc' = [loc EXCEPT ![t].table = size]
    BY <1>2, <1>13 DEF TestRoom
  <2> QED
    BY <1>1, <2>1, <2>2
<1>14. ASSUME NEW t \in Senders, Create(t) PROVE TypedSend'
  <2>1. /\ UNCHANGED <<count, sent>> /\ pc' = [pc EXCEPT ![t] = "insert"]
        /\ loc' = [loc EXCEPT ![t].producer = len + 1]
    BY <1>3, <1>14 DEF Create
  <2> QED
    BY <1>1, <2>1
<1>15. ASSUME NEW t \in Senders, CreateFails(t) PROVE TypedSend'
  BY <1>1, <1>15 DEF CreateFails, Return
<1>16. ASSUME NEW t \in Senders, Insert(t) PROVE TypedSend'
  BY <1>1, <1>16 DEF Insert
<1>17. ASSUME NEW t \in Senders, Enqueue(t) PROVE TypedSend'
  BY <1>1, <1>17 DEF Enqueue, Return, hashVars
<1>18. ASSUME NEW t \in Senders, EnqueueFails(t) PROVE TypedSend'
  BY SMTT(40), <1>1, <1>18 DEF EnqueueFails, Return, hashVars
<1>19. CASE UNCHANGED <<count, pc, loc, sent>>
  BY <1>1, <1>19
<1>20. Join \/ Run \/ UNCHANGED vars => UNCHANGED <<count, pc, loc, sent>>
  BY DEF Join, Run, Scan, Sleep, Dequeue, RunMessage, vars, hashVars, sendVars
<1> QED
  BY <1>4, <1>5, <1>6, <1>7, <1>8, <1>9, <1>10, <1>11, <1>12, <1>13, <1>14,
     <1>15, <1>16, <1>17, <1>18, <1>19, <1>20 DEF Next, InSend

LEMMA TypedRunStep == Inv /\ [Next]_vars => TypedRun'
<1> SUFFICES ASSUME Inv, [Next]_vars PROVE TypedRun'
  OBVIOUS
<1>1. TypedRun /\ TypedQueue
  BY DEF Inv, Typed
<1>2. PICK len \in Nat : len = Len(owner)
  BY DEF Inv, Typed, TypedHash
<1>3. 1 .. Len(owner) \subseteq Producers
  BY StreamsSuffice DEF Inv, Typed, TypedHash
<1>4. CASE Scan
  <2>1. scan.at \in Producers
    BY <1>1, <1>2, <1>3, <1>4 DEF Scan, TypedRun, Inv, Scanning
  <2>2. PICK n \in Nat : n = Len(stream[scan.at])
    BY <1>1, <2>1 DEF TypedQueue
  <2>3. UNCHANGED <<run, hand, printed>>
    BY <1>4 DEF Scan, queueVars
  <2>4. scan' \in [at : Nat, found : Nat, best : Nat, size : Nat]
    BY <1>1, <1>4, <2>2 DEF Scan, TypedRun
  <2> QED
    BY <1>1, <2>3, <2>4 DEF TypedRun
<1>5. CASE Sleep
  BY <1>1, <1>2, <1>5 DEF Sleep, TryDequeue, NoScan, queueVars, TypedRun
<1>6. CASE Dequeue
  <2>1. PICK p \in Producers : p = scan.best
    BY <1>3, <1>6 DEF Dequeue, Inv, Scanning
  <2>2. /\ stream[p] # <<>>
        /\ hand' = [hand EXCEPT !["logger"] = Head(stream[p])]
    BY <1>6, <2>1 DEF Dequeue, Queue!Dequeue
  <2>3. Head(stream[p]) \in Senders \X Nat
    BY <1>1, <2>2 DEF TypedQueue
  <2>4. hand'["logger"] \in Senders \X Nat
    BY <1>1, <2>2, <2>3 DEF TypedQueue
  <2> QED
    BY <1>1, <1>6, <2>4 DEF Dequeue, NoScan, TypedRun
<1>7. CASE RunMessage
  <2>1. PICK u \in Senders, n \in Nat : hand["logger"] = <<u, n>>
    BY <1>1, <1>7 DEF RunMessage, TypedRun
  <2>2. CASE hand["logger"] = Done
    BY <1>1, <1>7, <2>2 DEF RunMessage, TypedRun
  <2>3. CASE hand["logger"] # Done
    BY <1>1, <1>2, <1>7, <2>1, <2>3 DEF RunMessage, TryDequeue, NoScan, TypedRun
  <2> QED
    BY <2>2, <2>3
<1>8. CASE UNCHANGED <<hand, run, scan, printed>>
  BY <1>1, <1>8 DEF TypedRun
<1>9. \/ UNCHANGED <<hand, run, scan, printed>>
      \/ Scan \/ Sleep \/ Dequeue \/ RunMessage
  BY DEF Next, InSend, Run, Send, Close, Join, Search, Register, TestFull,
         Resize, ResizeFails, Release, GiveUp, TestRoom, Create, CreateFails,
         Insert, Enqueue, Queue!Enqueue, EnqueueFails, vars, queueVars, runVars
<1> QED
  BY <1>4, <1>5, <1>6, <1>7, <1>8, <1>9

-----------------------------------------------------------------------------
(***************************************************************************)
(* The tables and the list of producers.                                    *)
(***************************************************************************)

\* A producer stays in the list.
LEMMA OwnerKeeps ==
    ASSUME Inv, [Next]_vars
    PROVE  /\ Len(owner) \in Nat /\ Len(owner') \in Nat /\ Len(owner) <= Len(owner')
           /\ \A p \in 1 .. Len(owner) : owner'[p] = owner[p]
<1>1. owner \in Seq(Senders)
  BY DEF Inv, Typed, TypedHash
<1>2. ASSUME NEW t \in Senders, Create(t)
      PROVE  /\ Len(owner') = Len(owner) + 1
             /\ \A p \in 1 .. Len(owner) : owner'[p] = owner[p]
  BY <1>1, <1>2 DEF Create
<1>3. Len(owner) \in Nat
  BY <1>1
<1>4. CASE UNCHANGED owner
  BY <1>3, <1>4
<1> QED
  BY <1>2, <1>3, <1>4, HashStep

LEMMA TablesTrueStep == Inv /\ [Next]_vars => TablesTrue'
<1> SUFFICES ASSUME Inv, [Next]_vars PROVE TablesTrue'
  OBVIOUS
<1>1. TablesTrue /\ tables \in Seq(Tables) /\ tables # <<>>
  BY DEF Inv, Typed, TypedHash
<1>2. ASSUME NEW t \in Senders, NEW p \in 1 .. Len(owner), owner[p] = t,
             NEW g \in 1 .. Len(tables), FreeSlots(t, g) # {}, Put(t, g, p)
      PROVE  TablesTrue'
  <2>1. p \in Nat
    BY OwnerKeeps
  <2>2. /\ Grows /\ Len(tables') = Len(tables)
        /\ \A h \in 1 .. Len(tables) : \A i \in DOMAIN tables[h] :
             tables'[h][i] \in {tables[h][i], <<t, p>>}
    BY <1>1, <1>2, <2>1, PutKeeps
  <2> SUFFICES ASSUME NEW h \in 1 .. Len(tables), NEW i \in DOMAIN tables[h],
                      tables'[h][i] # None
               PROVE  /\ tables'[h][i][2] \in 1 .. Len(owner')
                      /\ owner'[tables'[h][i][2]] = tables'[h][i][1]
    BY <2>2 DEF TablesTrue, Grows
  <2>3. CASE tables'[h][i] = <<t, p>>
    BY <1>2, <2>3, OwnerKeeps
  <2>4. CASE tables'[h][i] = tables[h][i]
    <3>1. PICK q \in 1 .. Len(owner) :
            q = tables[h][i][2] /\ owner[q] = tables[h][i][1]
      BY <1>1, <2>4 DEF TablesTrue
    <3> QED
      BY <2>4, <3>1, OwnerKeeps
  <2> QED
    BY <2>2, <2>3, <2>4
<1>3. ASSUME UNCHANGED tables PROVE TablesTrue'
  <2> SUFFICES ASSUME NEW h \in 1 .. Len(tables), NEW i \in DOMAIN tables[h],
                      tables[h][i] # None
               PROVE  /\ tables[h][i][2] \in 1 .. Len(owner')
                      /\ owner'[tables[h][i][2]] = tables[h][i][1]
    BY <1>3 DEF TablesTrue
  <2>1. PICK q \in 1 .. Len(owner) :
          q = tables[h][i][2] /\ owner[q] = tables[h][i][1]
    BY <1>1 DEF TablesTrue
  <2> QED
    BY <2>1, OwnerKeeps
<1>4. ASSUME NEW t \in Senders, Search(t) PROVE TablesTrue'
  <2>1. PICK h \in 1 .. Len(tables), p \in 1 .. Len(owner) :
          h = Max(Found(t)) /\ p = Value(t, h) /\ owner[p] = t
    BY <1>4, SearchFinds DEF Search
  <2>2. PICK g \in 1 .. Len(tables) : g = loc[t].table
    BY <1>4 DEF Search, Inv, Located
  <2> QED
    BY <1>2, <1>3, <1>4, <2>1, <2>2 DEF Search
<1>5. ASSUME NEW t \in Senders, Resize(t) PROVE TablesTrue'
  <2>1. PICK n \in Int : n = loc[t].count
    BY DEF Inv, Typed, TypedSend, Locals
  <2>2. ASSUME NEW c \in Larger(2 * Capacity(Len(tables)), n),
               tables' = Append(tables, Table(c))
        PROVE  TablesTrue'
    <3>1. c \in Nat \ {0}
      BY <1>1, <2>2, LargerSize
    <3>2. /\ Len(tables') = Len(tables) + 1
          /\ \A g \in 1 .. Len(tables) : tables'[g] = tables[g]
          /\ \A i \in DOMAIN tables'[Len(tables')] :
               tables'[Len(tables')][i] = None
      BY <1>1, <2>2, <3>1, AppendKeeps
    <3> SUFFICES ASSUME NEW h \in 1 .. Len(tables'), NEW i \in DOMAIN tables'[h],
                        tables'[h][i] # None
                 PROVE  /\ tables'[h][i][2] \in 1 .. Len(owner')
                        /\ owner'[tables'[h][i][2]] = tables'[h][i][1]
      BY DEF TablesTrue
    <3>3. h \in 1 .. Len(tables) /\ tables'[h] = tables[h]
      <4>1. h # Len(tables')
        BY <3>2
      <4>2. Len(tables) \in Nat
        BY <1>1
      <4> QED
        BY <3>2, <4>1, <4>2
    <3>4. PICK q \in 1 .. Len(owner) :
            q = tables[h][i][2] /\ owner[q] = tables[h][i][1]
      BY <1>1, <3>3 DEF TablesTrue
    <3> QED
      BY <3>3, <3>4, OwnerKeeps
  <2> QED
    BY <1>3, <1>5, <2>1, <2>2 DEF Resize
<1>6. ASSUME NEW t \in Senders, Insert(t) PROVE TablesTrue'
  <2>1. PICK g \in 1 .. Len(tables), p \in 1 .. Len(owner) :
          g = loc[t].table /\ p = loc[t].producer /\ owner[p] = t
    BY <1>6 DEF Insert, Inv, Located
  <2> QED
    BY <1>2, <1>6, <2>1 DEF Insert
<1>7. \/ UNCHANGED tables
      \/ \E t \in Senders : Search(t) \/ Resize(t) \/ Insert(t)
  BY DEF Next, InSend, Run, Send, Close, Join, Register, TestFull, ResizeFails,
         Release, GiveUp, TestRoom, Create, CreateFails, Enqueue, EnqueueFails,
         Scan, Sleep, Dequeue, RunMessage, vars, hashVars
<1> QED
  BY <1>3, <1>4, <1>5, <1>6, <1>7

\* A thread that creates a producer has none: it has found itself in no table.
LEMMA OneStreamStep == Inv /\ [Next]_vars => OneStream'
<1> SUFFICES ASSUME Inv, [Next]_vars PROVE OneStream'
  OBVIOUS
<1>1. OneStream /\ Registered /\ owner \in Seq(Senders)
  BY DEF Inv, Typed, TypedHash
<1>2. CASE UNCHANGED owner
  BY <1>1, <1>2 DEF OneStream
<1>3. ASSUME NEW t \in Senders, Create(t) PROVE OneStream'
  <2>1. pc[t] = "create" /\ owner' = Append(owner, t)
    BY <1>3 DEF Create
  <2>2. \A p \in 1 .. Len(owner) : owner[p] # t
    BY <1>1, <2>1 DEF Registered
  <2>3. /\ Len(owner') = Len(owner) + 1 /\ owner'[Len(owner) + 1] = t
        /\ \A p \in 1 .. Len(owner) : owner'[p] = owner[p]
    BY <1>1, <2>1
  <2> SUFFICES ASSUME NEW p \in 1 .. Len(owner) + 1, NEW q \in 1 .. Len(owner) + 1,
                      owner'[p] = owner'[q]
               PROVE  p = q
    BY <2>3 DEF OneStream
  <2>4. Len(owner) \in Nat
    BY <1>1
  <2>5. CASE p \in 1 .. Len(owner) /\ q \in 1 .. Len(owner)
    BY <1>1, <2>3, <2>5 DEF OneStream
  <2>6. CASE p = Len(owner) + 1 \/ q = Len(owner) + 1
    BY <2>2, <2>3, <2>4, <2>6
  <2> QED
    BY <2>4, <2>5, <2>6
<1> QED
  BY <1>2, <1>3, HashStep

-----------------------------------------------------------------------------
(***************************************************************************)
(* Where the threads are.                                                   *)
(***************************************************************************)

\* A step of t leaves the other threads where they are.
LEMMA Others ==
    ASSUME Inv, NEW t \in Senders, NEW u \in Senders, u # t,
           Send(t) \/ InSend(t) \/ (Close /\ t = Main)
    PROVE  pc'[u] = pc[u] /\ loc'[u] = loc[u]
<1>1. pc \in [Senders -> Labels] /\ loc \in [Senders -> Locals]
  BY DEF Inv, Typed, TypedSend
<1>2. pc'[u] = pc[u]
  BY <1>1 DEF Send, Close, Call, Goto, InSend, Search, Register, TestFull, Resize,
       ResizeFails, Release, GiveUp, TestRoom, Create, CreateFails, Insert,
       Enqueue, EnqueueFails, Return
<1>3. loc'[u] = loc[u]
  BY <1>1 DEF Send, Close, Call, InSend, Search, Register, TestFull, Resize,
       ResizeFails, Release, GiveUp, TestRoom, Create, CreateFails, Insert,
       Enqueue, EnqueueFails, Return
<1> QED
  BY <1>2, <1>3

\* What Located says of one thread.
At(t) ==
    /\ pc[t] \notin {"idle", "enqueue"} => loc[t].table \in 1 .. Len(tables)
    /\ pc[t] \in {"insert", "enqueue"} =>
         /\ loc[t].producer \in 1 .. Len(owner)
         /\ owner[loc[t].producer] = t

LEMMA LocatedStep == Inv /\ [Next]_vars => Located'
<1> SUFFICES ASSUME Inv, [Next]_vars PROVE \A t \in Senders : At(t)'
  BY DEF Located, At
<1>1. \A t \in Senders : At(t)
  BY DEF Inv, Located, At
<1>2. /\ pc \in [Senders -> Labels] /\ loc \in [Senders -> Locals]
      /\ tables \in Seq(Tables) /\ tables # <<>> /\ owner \in Seq(Senders)
  BY DEF Inv, Typed, TypedSend, TypedHash
<1>3. Len(tables) \in 1 .. Len(tables) /\ Len(tables') \in Nat
  <2>1. tables' \in Seq(Tables)
    BY HashStep DEF Grows
  <2> QED
    BY <1>2, <2>1
<1>4. \A g \in 1 .. Len(tables) : g \in 1 .. Len(tables')
  BY <1>3, HashStep DEF Grows
<1>5. \A p \in 1 .. Len(owner) : p \in 1 .. Len(owner') /\ owner'[p] = owner[p]
  BY OwnerKeeps
<1>6. ASSUME NEW u \in Senders, pc'[u] = pc[u], loc'[u] = loc[u]
      PROVE  At(u)'
  BY <1>1, <1>4, <1>5, <1>6 DEF At
<1>7. ASSUME NEW t \in Senders, Send(t) \/ InSend(t) \/ (Close /\ t = Main)
      PROVE  At(t)'
  <2>1. ASSUME Send(t) \/ (Close /\ t = Main) PROVE At(t)'
    <3>1. pc'[t] = "search" /\ loc'[t].table = Len(tables) /\ UNCHANGED tables
      BY <1>2, <2>1 DEF Send, Close, Call, Goto, hashVars, Locals
    <3> QED
      BY <1>3, <3>1 DEF At
  <2>2. ASSUME Search(t) PROVE At(t)'
    <3>1. PICK h \in 1 .. Len(tables), p \in 1 .. Len(owner) :
            h = Max(Found(t)) /\ p = Value(t, h) /\ owner[p] = t
      BY <2>2, SearchFinds DEF Search
    <3>2. pc'[t] = "enqueue" /\ loc'[t].producer = p
      BY <1>2, <2>2, <3>1 DEF Search, Goto, NoLocals
    <3> QED
      BY <1>5, <3>1, <3>2 DEF At
  <2>3. ASSUME Register(t) \/ TestFull(t) \/ Release(t) \/ ResizeFails(t)
        PROVE  At(t)'
    <3>1. /\ pc'[t] \notin {"idle", "enqueue", "insert"}
          /\ pc[t] \notin {"idle", "enqueue"}
          /\ loc'[t].table = loc[t].table
      BY <1>2, <2>3 DEF Register, TestFull, Release, ResizeFails, Goto, Locals
    <3> QED
      BY <1>1, <1>4, <3>1 DEF At
  <2>4. ASSUME Resize(t) PROVE At(t)'
    <3>1. pc'[t] = "release"
      BY <1>2, <2>4 DEF Resize, Goto
    <3>2. \/ loc'[t].table = Len(tables)
          \/ loc'[t].table = Len(tables) + 1 /\ Len(tables') = Len(tables) + 1
      <4>1. CASE HalfFull(t, Len(tables))
        <5>1. loc'[t].table = Len(tables) + 1
          BY <1>2, <2>4, <4>1 DEF Resize, Locals
        <5>2. \E c : tables' = Append(tables, Table(c))
          BY <2>4, <4>1 DEF Resize
        <5>3. Len(tables') = Len(tables) + 1
          BY <1>2, <5>2
        <5> QED
          BY <5>1, <5>3
      <4>2. CASE ~HalfFull(t, Len(tables))
        BY <1>2, <2>4, <4>2 DEF Resize, Locals
      <4> QED
        BY <4>1, <4>2
    <3>3. loc'[t].table \in 1 .. Len(tables')
      BY <1>3, <1>4, <3>2
    <3> QED
      BY <3>1, <3>3 DEF At
  <2>5. ASSUME TestRoom(t) PROVE At(t)'
    <3>1. /\ pc'[t] \in {"create", "full"} /\ pc[t] = "room"
          /\ loc'[t].table \in {loc[t].table, Len(tables)}
      BY <1>2, <2>5 DEF TestRoom, Goto, Locals
    <3> QED
      BY <1>1, <1>3, <1>4, <3>1 DEF At
  <2>6. ASSUME Create(t) PROVE At(t)'
    <3>1. /\ pc'[t] = "insert" /\ pc[t] = "create"
          /\ loc'[t].table = loc[t].table /\ loc'[t].producer = Len(owner) + 1
      BY <1>2, <2>6 DEF Create, Goto, Locals
    <3>2. Len(owner') = Len(owner) + 1 /\ owner'[Len(owner) + 1] = t
      BY <1>2, <2>6 DEF Create
    <3>3. Len(owner) + 1 \in 1 .. Len(owner')
      BY <1>2, <3>2
    <3> QED
      BY <1>1, <1>4, <3>1, <3>2, <3>3 DEF At
  <2>7. ASSUME Insert(t) PROVE At(t)'
    <3>1. /\ pc'[t] = "enqueue" /\ pc[t] = "insert"
          /\ loc'[t].producer = loc[t].producer
      BY <1>2, <2>7 DEF Insert, Goto, Locals
    <3> QED
      BY <1>1, <1>5, <3>1 DEF At
  <2>8. ASSUME GiveUp(t) \/ CreateFails(t) \/ Enqueue(t) \/ EnqueueFails(t)
        PROVE  At(t)'
    <3>1. pc'[t] = "idle"
      BY <1>2, <2>8 DEF GiveUp, CreateFails, Enqueue, EnqueueFails, Return, Goto
    <3> QED
      BY <3>1 DEF At
  <2> QED
    BY <1>7, <2>1, <2>2, <2>3, <2>4, <2>5, <2>6, <2>7, <2>8 DEF InSend
<1>8. ASSUME NEW t \in Senders, Send(t) \/ InSend(t) \/ (Close /\ t = Main)
      PROVE  \A u \in Senders : At(u)'
  <2> TAKE u \in Senders
  <2>1. CASE u = t
    BY <1>7, <1>8, <2>1
  <2>2. CASE u # t
    BY <1>6, <1>8, <2>2, Others
  <2> QED
    BY <2>1, <2>2
<1>9. ASSUME UNCHANGED <<pc, loc>> PROVE \A u \in Senders : At(u)'
  BY <1>6, <1>9
<1>10. Join \/ Run \/ UNCHANGED vars => UNCHANGED <<pc, loc>>
  BY DEF Join, Run, Scan, Sleep, Dequeue, RunMessage, vars, sendVars
<1>11. Main \in Senders
  BY LoggerAssumption
<1> QED
  BY <1>8, <1>9, <1>10, <1>11 DEF Next

\* What Registered says of the producer p.
Kept(p) ==
    \/ pc[owner[p]] = "insert"
    \/ /\ pc[owner[p]] \in {"idle", "search", "enqueue"}
       /\ \E h \in 1 .. Len(tables) :
            /\ In(owner[p], h)
            /\ pc[owner[p]] = "search" => h <= loc[owner[p]].table

LEMMA RegisteredStep == Inv /\ [Next]_vars => Registered'
<1> SUFFICES ASSUME Inv, [Next]_vars PROVE \A p \in 1 .. Len(owner') : Kept(p)'
  BY DEF Registered, Kept
<1>1. \A p \in 1 .. Len(owner) : Kept(p)
  BY DEF Inv, Registered, Kept
<1>2. /\ pc \in [Senders -> Labels] /\ loc \in [Senders -> Locals]
      /\ tables \in Seq(Tables) /\ tables # <<>> /\ owner \in Seq(Senders)
  BY DEF Inv, Typed, TypedSend, TypedHash
<1>3. /\ Len(tables) \in Nat /\ Len(tables') \in Nat
      /\ \A g \in 1 .. Len(tables) : g \in 1 .. Len(tables')
  <2>1. tables' \in Seq(Tables) /\ Len(tables) <= Len(tables')
    BY HashStep DEF Grows
  <2> QED
    BY <1>2, <2>1
<1>4. \A g \in 1 .. Len(tables), u \in Senders : In(u, g) => In(u, g)'
  BY <1>2, HashStep, InStays
<1>5. ASSUME NEW p \in 1 .. Len(owner), NEW u \in Senders, owner[p] = u,
             pc'[u] = pc[u], loc'[u] = loc[u]
      PROVE  Kept(p)'
  <2>1. owner'[p] = u
    BY <1>5, OwnerKeeps
  <2>2. CASE pc[u] = "insert"
    BY <1>5, <2>1, <2>2 DEF Kept
  <2>3. CASE pc[u] # "insert"
    <3>1. PICK h \in 1 .. Len(tables) :
            In(u, h) /\ (pc[u] = "search" => h <= loc[u].table)
      BY <1>1, <1>5, <2>3 DEF Kept
    <3>2. pc[u] \in {"idle", "search", "enqueue"}
      BY <1>1, <1>5, <2>3 DEF Kept
    <3>3. In(u, h)' /\ h \in 1 .. Len(tables')
      BY <1>3, <1>4, <3>1
    <3>4. In(owner[p], h)'
      BY <2>1, <3>3 DEF In, Probe
    <3> QED
      BY <1>5, <2>1, <3>1, <3>2, <3>4, <3>3 DEF Kept
  <2> QED
    BY <2>2, <2>3
<1>6. ASSUME NEW t \in Senders, Send(t) \/ InSend(t) \/ (Close /\ t = Main),
             NEW p \in 1 .. Len(owner), owner[p] = t
      PROVE  Kept(p)'
  <2>1. owner'[p] = t
    BY <1>6, OwnerKeeps
  <2>2. pc[t] # "insert" =>
          /\ pc[t] \in {"idle", "search", "enqueue"}
          /\ \E h \in 1 .. Len(tables) :
               In(t, h) /\ (pc[t] = "search" => h <= loc[t].table)
    BY <1>1, <1>6 DEF Kept
  <2>3. ASSUME NEW h \in 1 .. Len(tables), In(t, h)',
               \/ pc'[t] \in {"idle", "enqueue"}
               \/ pc'[t] = "search" /\ h <= loc'[t].table
        PROVE  Kept(p)'
    <3>1. In(owner[p], h)'
      BY <2>1, <2>3 DEF In, Probe
    <3>2. h \in 1 .. Len(tables')
      BY <1>3
    <3> QED
      BY <2>1, <2>3, <3>1, <3>2 DEF Kept
  <2>4. ASSUME Send(t) \/ (Close /\ t = Main) PROVE Kept(p)'
    <3>1. pc[t] = "idle" /\ pc'[t] = "search" /\ loc'[t].table = Len(tables)
      BY SMTT(40), <1>2, <2>4 DEF Send, Close, Call, Goto, Locals
    <3>2. PICK h \in 1 .. Len(tables) : In(t, h)
      BY <2>2, <3>1
    <3>3. In(t, h)' /\ h <= loc'[t].table
      BY <1>3, <1>4, <3>1, <3>2
    <3> QED
      BY <2>3, <3>1, <3>2, <3>3
  <2>5. ASSUME Search(t) \/ Enqueue(t) \/ EnqueueFails(t) PROVE Kept(p)'
    <3>1. pc[t] \in {"search", "enqueue"} /\ pc'[t] \in {"idle", "enqueue"}
      BY <1>2, <2>5 DEF Search, Enqueue, EnqueueFails, Return, Goto
    <3>2. PICK h \in 1 .. Len(tables) : In(t, h)
      BY <2>2, <3>1
    <3>3. In(t, h)'
      BY <1>4, <3>2
    <3> QED
      BY <2>3, <3>1, <3>2, <3>3
  <2>6. ~Register(t)
    <3>1. SUFFICES ASSUME pc[t] = "search", Found(t) = {} PROVE FALSE
      BY DEF Register
    <3>2. PICK h \in 1 .. Len(tables) : In(t, h) /\ h <= loc[t].table
      BY <2>2, <3>1
    <3>3. h \in 1 .. loc[t].table
      <4>1. loc[t].table \in 1 .. Len(tables)
        BY <3>1 DEF Inv, Located
      <4> QED
        BY <1>3, <3>2, <4>1
    <3> QED
      BY <3>1, <3>2, <3>3 DEF Found
  <2>7. ~(\/ TestFull(t) \/ Resize(t) \/ ResizeFails(t) \/ Release(t)
          \/ GiveUp(t) \/ TestRoom(t) \/ Create(t) \/ CreateFails(t))
    BY <2>2 DEF TestFull, Resize, ResizeFails, Release, GiveUp, TestRoom, Create,
                CreateFails
  <2>8. ASSUME Insert(t) PROVE Kept(p)'
    <3>1. PICK g \in 1 .. Len(tables), q \in 1 .. Len(owner) :
            g = loc[t].table /\ q = loc[t].producer
      BY <2>8 DEF Insert, Inv, Located
    <3>2. q \in Nat
      OBVIOUS
    <3>3. In(t, g)'
      BY <1>2, <2>8, <3>1, <3>2, PutKeeps DEF Insert
    <3>4. pc'[t] = "enqueue"
      BY <1>2, <2>8 DEF Insert, Goto
    <3> QED
      BY <2>3, <3>3, <3>4
  <2> QED
    BY <1>6, <2>4, <2>5, <2>6, <2>7, <2>8 DEF InSend
<1>7. ASSUME NEW t \in Senders, Send(t) \/ InSend(t) \/ (Close /\ t = Main),
             NEW p \in 1 .. Len(owner)
      PROVE  Kept(p)'
  <2>1. PICK u \in Senders : owner[p] = u
    BY <1>2
  <2>2. CASE u = t
    BY <1>6, <1>7, <2>1, <2>2
  <2>3. CASE u # t
    BY <1>5, <1>7, <2>1, <2>3, Others
  <2> QED
    BY <2>2, <2>3
<1>8. ASSUME UNCHANGED <<pc, loc>>, NEW p \in 1 .. Len(owner)
      PROVE  Kept(p)'
  <2>1. PICK u \in Senders : owner[p] = u
    BY <1>2
  <2> QED
    BY <1>5, <1>8, <2>1
<1>9. Join \/ Run \/ UNCHANGED vars => UNCHANGED <<pc, loc>>
  BY DEF Join, Run, Scan, Sleep, Dequeue, RunMessage, vars, sendVars
<1>10. \A p \in 1 .. Len(owner) : Kept(p)'
  <2>1. Main \in Senders
    BY LoggerAssumption
  <2> QED
    BY <1>7, <1>8, <1>9, <2>1 DEF Next
<1>11. ASSUME NEW t \in Senders, Create(t), NEW p \in 1 .. Len(owner')
       PROVE  Kept(p)'
  <2>1. /\ Len(owner') = Len(owner) + 1 /\ owner'[Len(owner) + 1] = t
        /\ pc'[t] = "insert"
    BY <1>2, <1>11 DEF Create, Goto
  <2>2. Len(owner) \in Nat
    BY <1>2
  <2>3. CASE p = Len(owner) + 1
    BY <2>1, <2>3 DEF Kept
  <2>4. CASE p \in 1 .. Len(owner)
    BY <1>10, <2>4
  <2> QED
    BY <2>1, <2>2, <2>3, <2>4
<1>12. ASSUME UNCHANGED owner, NEW p \in 1 .. Len(owner') PROVE Kept(p)'
  BY <1>10, <1>12
<1> QED
  BY <1>11, <1>12, HashStep

-----------------------------------------------------------------------------
(***************************************************************************)
(* The scan and the order.                                                  *)
(***************************************************************************)

LEMMA ScanningStep == Inv /\ [Next]_vars => Scanning'
<1> SUFFICES ASSUME Inv, [Next]_vars PROVE Scanning'
  OBVIOUS
<1>1. Scanning /\ TypedRun /\ TypedQueue
  BY DEF Inv, Typed
<1>2. /\ Len(owner) \in Nat /\ Len(owner') \in Nat
      /\ Len(owner) <= Len(owner')
  BY OwnerKeeps
<1>3. CASE UNCHANGED scan
  BY <1>1, <1>2, <1>3 DEF Scanning, TypedRun
<1>4. CASE Scan
  <2>1. PICK k \in 1 .. Len(owner) : k = scan.at
    BY <1>1, <1>2, <1>4 DEF Scan, Scanning, TypedRun
  <2>2. k \in Producers
    BY StreamsSuffice DEF Inv, Typed, TypedHash
  <2>3. PICK n \in Nat : n = Len(stream[k])
    BY <1>1, <2>2 DEF TypedQueue
  <2>4. /\ UNCHANGED owner
        /\ scan' = [at    |-> k - 1,
                    found |-> scan.found + (IF n > 0 THEN 1 ELSE 0),
                    best  |-> IF n > scan.size THEN k ELSE scan.best,
                    size  |-> IF n > scan.size THEN n ELSE scan.size]
    BY <1>4, <2>1, <2>3 DEF Scan, hashVars
  <2> QED
    BY <1>1, <1>2, <2>3, <2>4 DEF Scanning, TypedRun
<1>5. CASE Sleep \/ RunMessage
  BY <1>1, <1>2, <1>5 DEF Sleep, RunMessage, TryDequeue, NoScan, hashVars,
     Scanning, TypedRun
<1>6. CASE Dequeue
  BY <1>2, <1>6 DEF Dequeue, NoScan, hashVars, Scanning
<1>7. UNCHANGED scan \/ Scan \/ Sleep \/ RunMessage \/ Dequeue
  BY DEF Next, InSend, Run, Send, Close, Join, Search, Register, TestFull,
         Resize, ResizeFails, Release, GiveUp, TestRoom, Create, CreateFails,
         Insert, Enqueue, EnqueueFails, vars, runVars
<1> QED
  BY <1>3, <1>4, <1>5, <1>6, <1>7

\* A number that is old stays old.
LEMMA OldStays ==
    ASSUME Inv, [Next]_vars, NEW u \in Senders, NEW n \in Nat, Old(u, n)
    PROVE  Old(u, n)'
<1>1. pc \in [Senders -> Labels] /\ sent \in [Senders -> Nat]
  BY DEF Inv, Typed, TypedSend
<1>2. ASSUME NEW t \in Senders, Send(t) PROVE Old(u, n)'
  <2>1. UNCHANGED main /\ sent' = [sent EXCEPT ![t] = @ + 1]
    BY <1>2 DEF Send
  <2>2. CASE u = t
    BY <1>1, <2>1, <2>2 DEF Old
  <2>3. CASE u # t
    <3>1. pc'[u] = pc[u] /\ sent'[u] = sent[u]
      BY <1>1, <1>2, <2>1, <2>3, Others
    <3> QED
      BY <2>1, <3>1 DEF Old, Unsent
  <2> QED
    BY <2>2, <2>3
<1>3. CASE Close
  <2>1. /\ UNCHANGED sent /\ main' = "closing"
        /\ u # Main => pc'[u] = "idle"
    BY <1>1, <1>3 DEF Close, Call, Goto
  <2> QED
    BY <2>1 DEF Old, Unsent
<1>4. ASSUME NEW t \in Senders, InSend(t) PROVE Old(u, n)'
  <2>1. UNCHANGED sent /\ pc[t] # "idle"
    BY <1>4 DEF InSend, Search, Register, TestFull, Resize, ResizeFails, Release,
       GiveUp, TestRoom, Create, CreateFails, Insert, Enqueue, EnqueueFails
  <2>2. UNCHANGED main \/ (t = Main /\ pc'[t] = "idle")
    BY <1>1, <1>4 DEF InSend, Search, Register, TestFull, Resize, ResizeFails,
       Release, GiveUp, TestRoom, Create, CreateFails, Insert, Enqueue,
       EnqueueFails, Return, Goto
  <2>3. u # t => pc'[u] = pc[u]
    BY <1>4, Others
  <2>4. Unsent(u)' => Unsent(u)
    BY <2>1, <2>2, <2>3 DEF Unsent
  <2> QED
    BY <2>1, <2>4 DEF Old
<1>5. CASE Join
  BY <1>5 DEF Join, Old, Unsent
<1>6. CASE UNCHANGED <<pc, main, sent>>
  BY <1>6 DEF Old, Unsent
<1>7. Run \/ UNCHANGED vars => UNCHANGED <<pc, main, sent>>
  BY DEF Run, Scan, Sleep, Dequeue, RunMessage, vars, sendVars
<1> QED
  BY <1>2, <1>3, <1>4, <1>5, <1>6, <1>7 DEF Next

\* What a step has to keep of a message <<u, n>> that waits in stream p, at i.
LEMMA StreamSays ==
    ASSUME Inv, NEW p \in Producers, NEW i \in 1 .. Len(stream[p])
    PROVE  \E u \in Senders, n \in Nat :
             /\ p \in 1 .. Len(owner) /\ owner[p] = u /\ stream[p][i] = <<u, n>>
             /\ <<u, n>> # Done =>
                  /\ After(u, n) /\ Old(u, n)
                  /\ \A j \in 1 .. i - 1 : stream[p][j][2] < n
<1>1. stream[p] \in Seq(Senders \X Nat) /\ owner \in Seq(Senders)
  BY DEF Inv, Typed, TypedQueue, TypedHash
<1>2. StreamOrdered(p) /\ stream[p] # <<>>
  BY <1>1 DEF Inv, Ordered
<1>3. p \in Nat /\ p >= 1
  BY LoggerAssumption, FS_CardinalityType DEF Producers
<1>4. p \in 1 .. Len(owner)
  BY <1>1, <1>2, <1>3 DEF StreamOrdered
<1>5. PICK u \in Senders, n \in Nat : stream[p][i] = <<u, n>>
  <2>1. stream[p][i] \in Senders \X Nat
    BY <1>1
  <2> QED
    BY <2>1
<1>6. /\ stream[p][i][1] = owner[p]
      /\ stream[p][i] # Done =>
           /\ After(owner[p], stream[p][i][2])
           /\ Old(owner[p], stream[p][i][2])
           /\ \A j \in 1 .. i - 1 : stream[p][j][2] < stream[p][i][2]
  BY <1>2 DEF StreamOrdered
<1>7. stream[p][i][1] = u /\ stream[p][i][2] = n
  BY <1>5
<1>8. owner[p] = u
  BY <1>6, <1>7
<1>9. <<u, n>> # Done =>
        /\ After(u, n) /\ Old(u, n)
        /\ \A j \in 1 .. i - 1 : stream[p][j][2] < n
  BY <1>5, <1>6, <1>7, <1>8
<1> QED
  BY <1>4, <1>5, <1>8, <1>9

LEMMA StreamFollows ==
    ASSUME NEW p \in Producers, p > Len(owner') => stream'[p] = <<>>,
           \A i \in 1 .. Len(stream'[p]) :
             \E u \in Senders, n \in Nat :
               /\ owner'[p] = u /\ stream'[p][i] = <<u, n>>
               /\ <<u, n>> # Done =>
                    /\ After(u, n)' /\ Old(u, n)'
                    /\ \A j \in 1 .. i - 1 : stream'[p][j][2] < n
    PROVE  StreamOrdered(p)'
<1> SUFFICES ASSUME NEW i \in 1 .. Len(stream'[p])
             PROVE  (/\ stream[p][i][1] = owner[p]
                     /\ stream[p][i] # Done =>
                          /\ After(owner[p], stream[p][i][2])
                          /\ Old(owner[p], stream[p][i][2])
                          /\ \A j \in 1 .. i - 1 :
                               stream[p][j][2] < stream[p][i][2])'
  BY DEF StreamOrdered
<1>1. PICK u \in Senders, n \in Nat :
        /\ owner'[p] = u /\ stream'[p][i] = <<u, n>>
        /\ <<u, n>> # Done =>
             /\ After(u, n)' /\ Old(u, n)'
             /\ \A j \in 1 .. i - 1 : stream'[p][j][2] < n
  OBVIOUS
<1>2. stream'[p][i][1] = u /\ stream'[p][i][2] = n
  BY <1>1
<1>3. stream'[p][i] # Done =>
        (After(owner[p], stream[p][i][2]) /\ Old(owner[p], stream[p][i][2]))'
  BY <1>1, <1>2 DEF After, Old, Unsent, Done
<1>4. stream'[p][i] # Done =>
        \A j \in 1 .. i - 1 : stream'[p][j][2] < stream'[p][i][2]
  BY <1>1, <1>2
<1> QED
  BY <1>1, <1>2, <1>3, <1>4 DEF Done

\* The same of the message that is taken.
LEMMA HandSays ==
    ASSUME Inv, run = "message"
    PROVE  \E u \in Senders, n \in Nat :
             /\ hand["logger"] = <<u, n>>
             /\ <<u, n>> # Done => printed[u] < n /\ Old(u, n)
<1>1. PICK u \in Senders, n \in Nat : hand["logger"] = <<u, n>>
  BY DEF Inv, Typed, TypedRun
<1> QED
  BY <1>1 DEF Inv, Ordered, HandOrdered

LEMMA HandFollows ==
    ASSUME NEW u \in Senders, NEW n \in Nat, hand'["logger"] = <<u, n>>,
           <<u, n>> # Done => printed'[u] < n /\ Old(u, n)'
    PROVE  HandOrdered'
BY DEF HandOrdered, Old, Unsent, Done

\* What is printed is old.
LEMMA PrintedOld ==
    ASSUME Inv, [Next]_vars, NEW u \in Senders, printed'[u] = printed[u]
    PROVE  Old(u, printed[u])'
<1>1. PICK n \in Nat : n = printed[u]
  BY DEF Inv, Typed, TypedRun
<1>2. Old(u, n)'
  BY <1>1, OldStays DEF Inv, Ordered
<1> QED
  BY <1>1, <1>2 DEF Old, Unsent

LEMMA HandStays ==
    ASSUME Inv, [Next]_vars, UNCHANGED <<hand, run, printed>>
    PROVE  HandOrdered'
<1>1. CASE run = "message"
  <2>1. PICK u \in Senders, n \in Nat :
          /\ hand["logger"] = <<u, n>>
          /\ <<u, n>> # Done => printed[u] < n /\ Old(u, n)
    BY <1>1, HandSays
  <2> QED
    BY <2>1, OldStays, HandFollows
<1>2. CASE run # "message"
  BY <1>2 DEF HandOrdered
<1> QED
  BY <1>1, <1>2

\* A stream that is left alone, in a step that prints and takes nothing.
LEMMA StreamStays ==
    ASSUME Inv, [Next]_vars, UNCHANGED <<hand, run, printed>>,
           NEW p \in Producers, stream'[p] = stream[p]
    PROVE  StreamOrdered(p)'
<1>1. p > Len(owner') => stream'[p] = <<>>
  <2>1. p > Len(owner') => p > Len(owner)
    BY OwnerKeeps, LoggerAssumption, FS_CardinalityType DEF Producers
  <2> QED
    BY <2>1 DEF Inv, Ordered, StreamOrdered
<1>2. ASSUME NEW i \in 1 .. Len(stream'[p])
      PROVE  \E u \in Senders, n \in Nat :
               /\ owner'[p] = u /\ stream'[p][i] = <<u, n>>
               /\ <<u, n>> # Done =>
                    /\ After(u, n)' /\ Old(u, n)'
                    /\ \A j \in 1 .. i - 1 : stream'[p][j][2] < n
  <2>1. PICK u \in Senders, n \in Nat :
          /\ p \in 1 .. Len(owner) /\ owner[p] = u /\ stream[p][i] = <<u, n>>
          /\ <<u, n>> # Done =>
               /\ After(u, n) /\ Old(u, n)
               /\ \A j \in 1 .. i - 1 : stream[p][j][2] < n
    BY StreamSays
  <2>2. owner'[p] = u
    BY <2>1, OwnerKeeps
  <2>3. <<u, n>> # Done => After(u, n)' /\ Old(u, n)'
    BY <2>1, OldStays DEF After
  <2> QED
    BY <2>1, <2>2, <2>3
<1> QED
  BY <1>1, <1>2, StreamFollows

\* The message that is sent comes after all that were.
LEMMA EnqueueOrdered ==
    ASSUME Inv, [Next]_vars, NEW t \in Senders, Enqueue(t)
    PROVE  Ordered'
<1>1. TypedRun /\ TypedQueue /\ sent \in [Senders -> Nat] /\ pc \in [Senders -> Labels]
  BY DEF Inv, Typed, TypedSend
<1>2. PICK p \in 1 .. Len(owner) : p = loc[t].producer /\ owner[p] = t
  BY DEF Enqueue, Inv, Located
<1>3. p \in Producers
  BY StreamsSuffice DEF Inv, Typed, TypedHash
<1>4. PICK n \in Nat : n = sent[t]
  BY <1>1
<1>5. PICK k \in Nat : /\ Message(t) = <<t, k>>
                       /\ <<t, k>> # Done => k = n /\ Unsent(t)
  <2>1. CASE t = Main /\ main = "closing"
    BY <2>1 DEF Message, Done
  <2>2. CASE ~(t = Main /\ main = "closing")
    BY <1>4, <2>2 DEF Enqueue, Message, Unsent
  <2> QED
    BY <2>1, <2>2
<1>6. /\ stream' = [stream EXCEPT ![p] = Append(@, <<t, k>>)]
      /\ UNCHANGED <<hand, run, printed, owner, sent>>
  BY <1>2, <1>5 DEF Enqueue, Queue!Enqueue, hashVars, runVars
<1>7. pc'[t] = "idle"
  BY <1>1 DEF Enqueue, Return, Goto
<1>8. \A u \in Senders : Old(u, printed[u])'
  BY <1>6, PrintedOld
<1>9. HandOrdered'
  BY <1>6, HandStays
<1>10. ASSUME NEW q \in Producers, q # p PROVE StreamOrdered(q)'
  <2>1. stream'[q] = stream[q]
    BY <1>1, <1>6, <1>10 DEF TypedQueue
  <2> QED
    BY <1>6, <2>1, StreamStays
<1>11. StreamOrdered(p)'
  <2>1. /\ stream[p] \in Seq(Senders \X Nat)
        /\ stream'[p] = Append(stream[p], <<t, k>>)
    BY <1>1, <1>3, <1>6 DEF TypedQueue
  <2>2. /\ Len(stream[p]) \in Nat /\ Len(stream'[p]) = Len(stream[p]) + 1
        /\ \A i \in 1 .. Len(stream[p]) : stream'[p][i] = stream[p][i]
        /\ stream'[p][Len(stream[p]) + 1] = <<t, k>>
    BY <2>1
  <2>3. \A i \in 1 .. Len(stream[p]) :
          \E u \in Senders, l \in Nat :
            /\ owner[p] = u /\ stream[p][i] = <<u, l>>
            /\ <<u, l>> # Done =>
                 /\ After(u, l) /\ Old(u, l)
                 /\ \A j \in 1 .. i - 1 : stream[p][j][2] < l
    BY <1>3, StreamSays
  <2>4. ASSUME NEW i \in 1 .. Len(stream[p])
        PROVE  \E u \in Senders, l \in Nat :
                 /\ owner'[p] = u /\ stream'[p][i] = <<u, l>>
                 /\ <<u, l>> # Done =>
                      /\ After(u, l)' /\ Old(u, l)'
                      /\ \A j \in 1 .. i - 1 : stream'[p][j][2] < l
    <3>1. PICK u \in Senders, l \in Nat :
            /\ owner[p] = u /\ stream[p][i] = <<u, l>>
            /\ <<u, l>> # Done =>
                 /\ After(u, l) /\ Old(u, l)
                 /\ \A j \in 1 .. i - 1 : stream[p][j][2] < l
      BY <2>3
    <3>2. <<u, l>> # Done => After(u, l)' /\ Old(u, l)'
      BY <1>6, <3>1, OldStays DEF After
    <3>3. \A j \in 1 .. i - 1 : stream'[p][j] = stream[p][j]
      BY <2>2
    <3> QED
      BY <1>6, <2>2, <3>1, <3>2, <3>3
  <2>5. ASSUME <<t, k>> # Done
        PROVE  /\ After(t, k)' /\ Old(t, k)'
               /\ \A j \in 1 .. Len(stream[p]) : stream'[p][j][2] < k
    <3>1. k = n /\ Unsent(t)
      BY <1>5, <2>5
    <3>2. \A l \in Nat : Old(t, l) => l < k
      BY <1>4, <3>1 DEF Old
    <3>3. printed[t] \in Nat /\ printed[t] < k
      BY <1>1, <3>2 DEF TypedRun, Inv, Ordered
    <3>4. ASSUME run = "message", hand["logger"][1] = t
          PROVE  hand["logger"][2] < k
      <4>1. PICK u \in Senders, l \in Nat :
              hand["logger"] = <<u, l>> /\ (<<u, l>> # Done => Old(u, l))
        BY <3>4, HandSays
      <4>2. CASE <<u, l>> = Done
        BY <3>3, <4>1, <4>2 DEF Done
      <4>3. CASE <<u, l>> # Done
        BY <3>2, <3>4, <4>1, <4>3
      <4> QED
        BY <4>2, <4>3
    <3>5. After(t, k)'
      BY <1>6, <3>3, <3>4 DEF After
    <3>6. Old(t, k)'
      BY <1>4, <1>6, <1>7, <3>1 DEF Old, Unsent
    <3>7. ASSUME NEW j \in 1 .. Len(stream[p]) PROVE stream'[p][j][2] < k
      <4>1. PICK u \in Senders, l \in Nat :
              /\ owner[p] = u /\ stream[p][j] = <<u, l>>
              /\ <<u, l>> # Done => Old(u, l)
        BY <2>3
      <4>2. CASE <<u, l>> = Done
        BY <2>2, <3>3, <4>1, <4>2 DEF Done
      <4>3. CASE <<u, l>> # Done
        <5>1. u = t
          BY <1>2, <4>1
        <5>2. l < k
          BY <3>2, <4>1, <4>3, <5>1
        <5>3. stream'[p][j] = <<u, l>>
          BY <2>2, <4>1
        <5> QED
          BY <5>2, <5>3
      <4> QED
        BY <4>2, <4>3
    <3> QED
      BY <3>5, <3>6, <3>7
  <2>6. ASSUME NEW i \in 1 .. Len(stream'[p])
        PROVE  \E u \in Senders, l \in Nat :
                 /\ owner'[p] = u /\ stream'[p][i] = <<u, l>>
                 /\ <<u, l>> # Done =>
                      /\ After(u, l)' /\ Old(u, l)'
                      /\ \A j \in 1 .. i - 1 : stream'[p][j][2] < l
    <3>1. CASE i \in 1 .. Len(stream[p])
      BY <2>4, <3>1
    <3>2. CASE i = Len(stream[p]) + 1
      <4>1. owner'[p] = t /\ stream'[p][i] = <<t, k>>
        BY <1>2, <1>6, <2>2, <3>2
      <4>2. \A j \in 1 .. i - 1 : j \in 1 .. Len(stream[p])
        BY <2>2, <3>2
      <4> QED
        BY <2>5, <4>1, <4>2
    <3> QED
      BY <2>2, <3>1, <3>2
  <2>7. ~(p > Len(owner'))
    BY <1>2, OwnerKeeps
  <2> QED
    BY <1>3, <2>6, <2>7, StreamFollows
<1> QED
  BY <1>8, <1>9, <1>10, <1>11 DEF Ordered

\* The first message of a stream is taken: the others come after it.
LEMMA DequeueOrdered ==
    ASSUME Inv, [Next]_vars, Dequeue
    PROVE  Ordered'
<1>1. TypedRun /\ TypedQueue /\ OneStream
  BY DEF Inv, Typed
<1>2. PICK p \in 1 .. Len(owner) : p = scan.best
  BY DEF Dequeue, Inv, Scanning
<1>3. p \in Producers
  BY StreamsSuffice DEF Inv, Typed, TypedHash
<1>4. /\ stream[p] # <<>>
      /\ stream' = [stream EXCEPT ![p] = Tail(@)]
      /\ hand' = [hand EXCEPT !["logger"] = Head(stream[p])]
      /\ UNCHANGED <<owner, printed, pc, main, sent>> /\ run' = "message"
  BY <1>2 DEF Dequeue, Queue!Dequeue, hashVars, sendVars
<1>5. /\ Len(stream[p]) \in Nat /\ 1 \in 1 .. Len(stream[p])
      /\ Len(stream'[p]) = Len(stream[p]) - 1
      /\ \A i \in 1 .. Len(stream[p]) - 1 : stream'[p][i] = stream[p][i + 1]
      /\ hand'["logger"] = stream[p][1]
  <2>1. stream[p] \in Seq(Senders \X Nat) /\ stream'[p] = Tail(stream[p])
    BY <1>1, <1>3, <1>4 DEF TypedQueue
  <2>2. hand'["logger"] = Head(stream[p])
    BY <1>1, <1>4 DEF TypedQueue
  <2>3. Len(stream[p]) \in Nat /\ 1 \in 1 .. Len(stream[p])
    BY <1>4, <2>1
  <2>4. Head(stream[p]) = stream[p][1] /\ Len(Tail(stream[p])) = Len(stream[p]) - 1
    BY <1>4, <2>1, TailIs
  <2>5. \A i \in 1 .. Len(stream[p]) - 1 : Tail(stream[p])[i] = stream[p][i + 1]
    BY <1>4, <2>1, TailIs
  <2> QED
    BY <2>1, <2>2, <2>3, <2>4, <2>5
<1>6. PICK t \in Senders, m \in Nat :
        /\ owner[p] = t /\ stream[p][1] = <<t, m>>
        /\ <<t, m>> # Done => After(t, m) /\ Old(t, m)
  BY <1>3, <1>5, StreamSays
<1>7. \A u \in Senders : Old(u, printed[u])'
  BY <1>4, PrintedOld
<1>8. HandOrdered'
  <2>1. hand'["logger"] = <<t, m>>
    BY <1>5, <1>6
  <2>2. <<t, m>> # Done => printed'[t] < m /\ Old(t, m)'
    BY <1>4, <1>6, OldStays DEF After
  <2> QED
    BY <2>1, <2>2, HandFollows
<1>9. ASSUME NEW q \in Producers, NEW i \in 1 .. Len(stream'[q])
      PROVE  \E u \in Senders, n \in Nat :
               /\ owner'[q] = u /\ stream'[q][i] = <<u, n>>
               /\ <<u, n>> # Done =>
                    /\ After(u, n)' /\ Old(u, n)'
                    /\ \A j \in 1 .. i - 1 : stream'[q][j][2] < n
  <2>1. CASE q = p
    <3>1. i \in 1 .. Len(stream[p]) - 1 /\ i + 1 \in 1 .. Len(stream[p])
      BY <1>5, <2>1
    <3>2. PICK u \in Senders, n \in Nat :
            /\ owner[p] = u /\ stream[p][i + 1] = <<u, n>>
            /\ <<u, n>> # Done =>
                 /\ After(u, n) /\ Old(u, n)
                 /\ \A j \in 1 .. i : stream[p][j][2] < n
      <4>1. PICK k \in 1 .. Len(stream[p]) : k = i + 1
        BY <3>1
      <4>2. PICK u \in Senders, n \in Nat :
              /\ owner[p] = u /\ stream[p][k] = <<u, n>>
              /\ <<u, n>> # Done =>
                   /\ After(u, n) /\ Old(u, n)
                   /\ \A j \in 1 .. k - 1 : stream[p][j][2] < n
        BY <1>3, StreamSays
      <4>3. 1 .. k - 1 = 1 .. i
        BY <3>1, <4>1
      <4> QED
        BY <4>1, <4>2, <4>3
    <3>3. ASSUME <<u, n>> # Done
          PROVE  /\ After(u, n)' /\ Old(u, n)'
                 /\ \A j \in 1 .. i - 1 : stream'[p][j][2] < n
      <4>1. \A j \in 1 .. i : stream[p][j][2] < n
        BY <3>1, <3>2, <3>3
      <4>2. stream[p][1][2] < n
        BY <3>1, <4>1
      <4>3. After(u, n)'
        BY <1>4, <1>5, <3>2, <3>3, <4>2 DEF After
      <4>4. \A j \in 1 .. i - 1 : stream'[p][j] = stream[p][j + 1]
        <5>1. \A j \in 1 .. i - 1 : j \in 1 .. Len(stream[p]) - 1
          BY <1>5, <3>1
        <5> QED
          BY <1>5, <5>1
      <4>5. \A j \in 1 .. i - 1 : j + 1 \in 1 .. i
        OBVIOUS
      <4> QED
        BY <3>2, <3>3, <4>1, <4>3, <4>4, <4>5, OldStays
    <3>4. stream'[p][i] = <<u, n>> /\ owner'[p] = u
      BY <1>4, <1>5, <3>1, <3>2
    <3> QED
      BY <2>1, <3>3, <3>4
  <2>2. CASE q # p
    <3>1. stream'[q] = stream[q]
      BY <1>1, <1>4, <2>2 DEF TypedQueue
    <3>2. PICK u \in Senders, n \in Nat :
            /\ q \in 1 .. Len(owner) /\ owner[q] = u /\ stream[q][i] = <<u, n>>
            /\ <<u, n>> # Done =>
                 /\ After(u, n) /\ Old(u, n)
                 /\ \A j \in 1 .. i - 1 : stream[q][j][2] < n
      BY <3>1, StreamSays
    <3>3. u # t
      BY <1>1, <1>6, <2>2, <3>2 DEF OneStream
    <3>4. <<u, n>> # Done => After(u, n)' /\ Old(u, n)'
      BY <1>4, <1>5, <1>6, <3>2, <3>3, OldStays DEF After
    <3> QED
      BY <1>4, <3>1, <3>2, <3>4
  <2> QED
    BY <2>1, <2>2
<1>10. ASSUME NEW q \in Producers PROVE q > Len(owner') => stream'[q] = <<>>
  <2>1. q > Len(owner) => stream[q] = <<>>
    BY DEF Inv, Ordered, StreamOrdered
  <2>2. ~(p > Len(owner))
    BY OwnerKeeps
  <2> QED
    BY <1>1, <1>4, <2>1, <2>2 DEF TypedQueue
<1>11. \A q \in Producers : StreamOrdered(q)'
  BY <1>9, <1>10, StreamFollows
<1> QED
  BY <1>7, <1>8, <1>11 DEF Ordered

\* The message that is taken is printed.
LEMMA RunOrdered ==
    ASSUME Inv, [Next]_vars, RunMessage
    PROVE  Ordered'
<1>1. TypedRun /\ TypedQueue
  BY DEF Inv, Typed
<1>2. PICK t \in Senders, m \in Nat :
        /\ hand["logger"] = <<t, m>>
        /\ <<t, m>> # Done => printed[t] < m /\ Old(t, m)
  BY HandSays DEF RunMessage
<1>3. /\ run = "message" /\ run' # "message"
      /\ UNCHANGED <<stream, owner>>
      /\ \/ <<t, m>> = Done /\ UNCHANGED printed
         \/ <<t, m>> # Done /\ printed' = [printed EXCEPT ![t] = m]
  BY <1>2 DEF RunMessage, TryDequeue, Queue!Return, hashVars
<1>4. ASSUME NEW u \in Senders PROVE Old(u, printed[u])'
  <2>1. CASE printed'[u] = printed[u]
    BY <2>1, PrintedOld
  <2>2. CASE printed'[u] # printed[u]
    <3>1. <<t, m>> # Done /\ u = t /\ printed'[u] = m
      BY <1>1, <1>3, <2>2 DEF TypedRun
    <3>2. Old(t, m)'
      BY <1>2, <3>1, OldStays
    <3> QED
      BY <3>1, <3>2 DEF Old, Unsent
  <2> QED
    BY <2>1, <2>2
<1>5. HandOrdered'
  BY <1>3 DEF HandOrdered
<1>6. ASSUME NEW q \in Producers, NEW i \in 1 .. Len(stream'[q])
      PROVE  \E u \in Senders, n \in Nat :
               /\ owner'[q] = u /\ stream'[q][i] = <<u, n>>
               /\ <<u, n>> # Done =>
                    /\ After(u, n)' /\ Old(u, n)'
                    /\ \A j \in 1 .. i - 1 : stream'[q][j][2] < n
  <2>1. PICK u \in Senders, n \in Nat :
          /\ owner[q] = u /\ stream[q][i] = <<u, n>>
          /\ <<u, n>> # Done =>
               /\ After(u, n) /\ Old(u, n)
               /\ \A j \in 1 .. i - 1 : stream[q][j][2] < n
    BY <1>3, StreamSays
  <2>2. ASSUME <<u, n>> # Done PROVE After(u, n)' /\ Old(u, n)'
    <3>1. printed[u] < n /\ (u = t => m < n)
      BY <1>2, <1>3, <2>1, <2>2 DEF After
    <3>2. printed'[u] < n
      BY <1>1, <1>3, <3>1 DEF TypedRun
    <3> QED
      BY <1>3, <2>1, <2>2, <3>2, OldStays DEF After
  <2> QED
    BY <1>3, <2>1, <2>2
<1>7. \A q \in Producers : StreamOrdered(q)'
  <2>1. \A q \in Producers : q > Len(owner') => stream'[q] = <<>>
    BY <1>3 DEF Inv, Ordered, StreamOrdered
  <2> QED
    BY <1>6, <2>1, StreamFollows
<1> QED
  BY <1>4, <1>5, <1>7 DEF Ordered

LEMMA OrderedStep == Inv /\ [Next]_vars => Ordered'
<1> SUFFICES ASSUME Inv, [Next]_vars PROVE Ordered'
  OBVIOUS
<1>1. ASSUME UNCHANGED <<stream, hand, run, printed>> PROVE Ordered'
  <2>1. \A u \in Senders : Old(u, printed[u])'
    BY <1>1, PrintedOld
  <2>2. HandOrdered'
    BY <1>1, HandStays
  <2>3. \A p \in Producers : StreamOrdered(p)'
    BY <1>1, StreamStays
  <2> QED
    BY <2>1, <2>2, <2>3 DEF Ordered
<1>2. \/ UNCHANGED <<stream, hand, run, printed>> \/ Dequeue \/ RunMessage
      \/ \E t \in Senders : Enqueue(t)
  BY DEF Next, InSend, Run, Send, Close, Join, Search, Register, TestFull,
         Resize, ResizeFails, Release, GiveUp, TestRoom, Create, CreateFails,
         Insert, EnqueueFails, Scan, Scanned, Sleep, TryDequeue, vars, queueVars,
         runVars
<1> QED
  BY <1>1, <1>2, EnqueueOrdered, DequeueOrdered, RunOrdered

-----------------------------------------------------------------------------
(***************************************************************************)
(* The order of the lines.                                                  *)
(***************************************************************************)

LEMMA InvStep == Inv /\ [Next]_vars => Inv'
BY TypedHashStep, TypedQueueStep, TypedSendStep, TypedRunStep, LocatedStep,
   TablesTrueStep, OneStreamStep, RegisteredStep, OrderedStep, ScanningStep
   DEF Inv, Typed

\* A thread has at most one producer in the list of the queue, however many
\* tables it was put into while they were replaced.
THEOREM OneProducer == Spec => []OneStream
<1>1. Inv => OneStream
  BY DEF Inv
<1> QED
  BY <1>1, InitInv, InvStep, PTL DEF Spec

\* The messages of a thread are printed in the order in which it sent them, for
\* any number of threads, hash functions and sizes, messages and faults: what is
\* printed next is newer than what was printed of that thread.
THEOREM InOrder == Spec => PrintsInOrder
<1> DEFINE Newer == \A t \in Senders :
                      printed'[t] # printed[t] => printed'[t] > printed[t]
<1>1. Inv /\ [Next]_vars => [Newer]_vars
  <2> SUFFICES ASSUME Inv, Next PROVE Newer
    OBVIOUS
  <2>1. printed \in [Senders -> Nat]
    BY DEF Inv, Typed, TypedRun
  <2>2. CASE RunMessage
    <3>1. PICK t \in Senders, m \in Nat :
            /\ hand["logger"] = <<t, m>>
            /\ <<t, m>> # Done => printed[t] < m
      BY <2>2, HandSays DEF RunMessage
    <3>2. UNCHANGED printed \/ (<<t, m>> # Done
                                  /\ printed' = [printed EXCEPT ![t] = m])
      BY <2>2, <3>1 DEF RunMessage
    <3> QED
      BY <2>1, <3>1, <3>2
  <2>3. CASE UNCHANGED printed
    BY <2>3
  <2>4. UNCHANGED printed \/ RunMessage
    BY DEF Next, InSend, Run, Send, Close, Join, Search, Register, TestFull,
         Resize, ResizeFails, Release, GiveUp, TestRoom, Create, CreateFails,
         Insert, Enqueue, EnqueueFails, Scan, Sleep, Dequeue, runVars
  <2> QED
    BY <2>2, <2>3, <2>4
<1> QED
  BY <1>1, InitInv, InvStep, PTL DEF Spec, PrintsInOrder

(***************************************************************************)
(* The room in the tables.                                                  *)
(***************************************************************************)

\* The threads that have an entry in table h, and those that have a producer.
Holds(t, h, i) == tables[h][i] # None /\ tables[h][i][1] = t
Holders(h) == {t \in Senders : \E i \in DOMAIN tables[h] : Holds(t, h, i)}
Owners == {t \in Senders : \E p \in 1 .. Len(owner) : owner[p] = t}

\* The threads that wait for a table with room, and all that count counts.
Waits == {"full", "resize", "release", "room"}
Counted == {t \in Senders : pc[t] \in Waits \cup {"create"}} \cup Owners

\* TestRoom lets a thread pass whose count is below this.
Threshold(h) == Capacity(h) \div 2 + Capacity(h) \div 4

\* The threads that are in a table of that threshold or a lower one, or on their
\* way into one, and those that would pass.
Enters(t, h) == t \in Holders(h) \/ (pc[t] \in {"create", "insert"} /\ loc[t].table = h)
Admitted(n) == {t \in Senders :
    \/ \E h \in 1 .. Len(tables) : Threshold(h) <= n /\ Enters(t, h)
    \/ pc[t] \in Waits /\ loc[t].count < n}

\* A thread finds an entry of its own, and has one in a table at most; a table is no
\* smaller than the one that it replaced.
Reached == \A h \in 1 .. Len(tables) : \A t \in Holders(h) : In(t, h)
Once == \A h \in 1 .. Len(tables) : \A t \in Senders : \A i, j \in DOMAIN tables[h] :
          Holds(t, h, i) /\ Holds(t, h, j) => i = j
Absent == \A t \in Senders : pc[t] = "insert" =>
            \A h \in 1 .. Len(tables) : t \notin Holders(h)
Growing == \A g, h \in 1 .. Len(tables) : g <= h => Capacity(g) <= Capacity(h)

\* count is how many threads are registered, and no more threads pass TestRoom for a
\* table than it has room for.
CountIs == count = Cardinality(Counted)
Room == \A n \in Nat \ {0} : Cardinality(Admitted(n)) < n

Entries == Reached /\ Once /\ Absent /\ Growing

\* A thread that registers has no producer.
LEMMA NoneYet ==
    ASSUME Inv, NEW t \in Senders,
           pc[t] \in Waits \cup {"create", "give_up"} \/ Register(t)
    PROVE  t \notin Owners
<1> SUFFICES ASSUME NEW p \in 1 .. Len(owner), owner[p] = t PROVE FALSE
  BY DEF Owners
<1>1. \/ pc[t] = "insert"
      \/ /\ pc[t] \in {"idle", "search", "enqueue"}
         /\ \E h \in 1 .. Len(tables) : In(t, h) /\ (pc[t] = "search" => h <= loc[t].table)
  BY DEF Inv, Registered
<1>2. Register(t) /\ pc[t] = "search"
  BY <1>1 DEF Waits, Register
<1>3. PICK h \in 1 .. Len(tables) : In(t, h) /\ h <= loc[t].table
  BY <1>1, <1>2
<1>4. loc[t].table \in 1 .. Len(tables) /\ Len(tables) \in Nat
  BY <1>2 DEF Inv, Located, Typed, TypedHash
<1>5. h \in 1 .. loc[t].table
  BY <1>3, <1>4
<1> QED
  BY <1>2, <1>3, <1>5 DEF Register, Found

\* A thread in a table has a producer.
LEMMA HoldersOwn ==
    ASSUME Inv, NEW h \in 1 .. Len(tables)
    PROVE  Holders(h) \subseteq Owners
<1> SUFFICES ASSUME NEW t \in Senders, NEW i \in DOMAIN tables[h], Holds(t, h, i)
             PROVE  t \in Owners
  BY DEF Holders
<1>1. tables[h][i][2] \in 1 .. Len(owner) /\ owner[tables[h][i][2]] = t
  BY DEF Inv, TablesTrue, Holds
<1> QED
  BY <1>1 DEF Owners

\* The one slot that a thread takes.
LEMMA PutIs ==
    ASSUME tables \in Seq(Tables), NEW h \in 1 .. Len(tables),
           NEW t \in Senders, NEW p \in Nat, FreeSlots(t, h) # {}, Put(t, h, p)
    PROVE  /\ Len(tables') = Len(tables)
           /\ \A g \in 1 .. Len(tables) : g # h => tables'[g] = tables[g]
           /\ DOMAIN tables'[h] = DOMAIN tables[h]
           /\ \E k \in DOMAIN tables[h] :
                /\ tables[h][k] = None /\ tables'[h][k] = <<t, p>>
                /\ \A j \in DOMAIN tables[h] : j # k => tables'[h][j] = tables[h][j]
<1>1. PICK s \in Nat \ {0} : tables[h] \in [0 .. s - 1 -> Slots]
  BY CapacityIs
<1>2. PICK i \in DOMAIN tables[h] :
        FirstFree(t, h) = Probe(t, h, i) /\ tables[h][Probe(t, h, i)] = None
  BY FirstFreeIs
<1>3. PICK k \in DOMAIN tables[h] : k = FirstFree(t, h) /\ tables[h][k] = None
  <2>1. i \in Nat
    BY <1>1
  <2> QED
    BY <1>2, <2>1, ProbeHits
<1> DEFINE new == [tables[h] EXCEPT ![k] = <<t, p>>]
<1>4. tables' = [tables EXCEPT ![h] = new]
  BY <1>3 DEF Put
<1>5. new[k] = <<t, p>> /\ \A j \in DOMAIN tables[h] : j # k => new[j] = tables[h][j]
  OBVIOUS
<1>6. DOMAIN new = DOMAIN tables[h]
  OBVIOUS
<1> HIDE DEF new
<1>7. tables'[h] = new /\ \A g \in 1 .. Len(tables) : g # h => tables'[g] = tables[g]
  BY <1>4
<1>8. Len(tables') = Len(tables)
  BY <1>4
<1> QED
  BY <1>3, <1>5, <1>6, <1>7, <1>8

\* So it becomes a holder of that table, and nothing else changes.
LEMMA PutHolders ==
    ASSUME tables \in Seq(Tables), NEW h \in 1 .. Len(tables),
           NEW t \in Senders, NEW p \in Nat, FreeSlots(t, h) # {}, Put(t, h, p),
           t \notin Holders(h), Once
    PROVE  /\ Once'
           /\ \A g \in 1 .. Len(tables) : g # h => Holders(g)' = Holders(g)
           /\ Holders(h)' = Holders(h) \cup {t}
<1>1. PICK k \in DOMAIN tables[h] :
        /\ Len(tables') = Len(tables)
        /\ \A g \in 1 .. Len(tables) : g # h => tables'[g] = tables[g]
        /\ DOMAIN tables'[h] = DOMAIN tables[h]
        /\ tables[h][k] = None /\ tables'[h][k] = <<t, p>>
        /\ \A j \in DOMAIN tables[h] : j # k => tables'[h][j] = tables[h][j]
  BY PutIs
<1>2. <<t, p>> # None
  BY LoggerAssumption
<1>3. \A g \in 1 .. Len(tables) : g # h =>
        /\ DOMAIN tables'[g] = DOMAIN tables[g]
        /\ \A u \in Senders : \A i \in DOMAIN tables[g] : Holds(u, g, i)' <=> Holds(u, g, i)
  BY <1>1 DEF Holds
<1>4. \A u \in Senders : \A i \in DOMAIN tables[h] :
        Holds(u, h, i)' <=> IF i = k THEN u = t ELSE Holds(u, h, i)
  <2> TAKE u \in Senders
  <2> TAKE i \in DOMAIN tables[h]
  <2>1. CASE i = k
    <3>1. tables'[h][i] = <<t, p>>
      BY <1>1, <2>1
    <3>2. <<t, p>>[1] = t
      OBVIOUS
    <3>3. tables'[h][i] # None /\ tables'[h][i][1] = t
      BY <1>2, <3>1, <3>2
    <3>4. Holds(u, h, i)' <=> u = t
      BY <3>3 DEF Holds
    <3> QED
      BY <2>1, <3>4
  <2>2. CASE i # k
    <3>1. tables'[h][i] = tables[h][i]
      BY <1>1, <2>2
    <3> QED
      BY <2>2, <3>1 DEF Holds
  <2> QED
    BY <2>1, <2>2
<1>5. ~\E i \in DOMAIN tables[h] : Holds(t, h, i)
  BY DEF Holders
<1>6. \A u \in Senders : ~Holds(u, h, k)
  BY <1>1 DEF Holds
<1>7. Once'
  <2> SUFFICES ASSUME NEW g \in 1 .. Len(tables), NEW u \in Senders,
                      NEW i \in DOMAIN tables[g], NEW j \in DOMAIN tables[g],
                      Holds(u, g, i)', Holds(u, g, j)'
               PROVE  i = j
    BY <1>1, <1>3 DEF Once
  <2>1. CASE g # h
    BY <1>3, <2>1 DEF Once
  <2>2. CASE g = h
    <3>1. CASE u = t
      BY <1>4, <1>5, <2>2, <3>1
    <3>2. CASE u # t
      BY <1>4, <2>2, <3>2 DEF Once
    <3> QED
      BY <3>1, <3>2
  <2> QED
    BY <2>1, <2>2
<1>8. \A g \in 1 .. Len(tables) : g # h => Holders(g)' = Holders(g)
  BY <1>3 DEF Holders
<1>9. Holders(h)' = Holders(h) \cup {t}
  <2>1. \A u \in Senders : u \in Holders(h)' <=> u \in Holders(h) \/ u = t
    <3> TAKE u \in Senders
    <3>1. u \in Holders(h)' <=> \E i \in DOMAIN tables[h] : Holds(u, h, i)'
      BY <1>1 DEF Holders
    <3>2. u \in Holders(h) <=> \E i \in DOMAIN tables[h] : Holds(u, h, i)
      BY DEF Holders
    <3> QED
      BY <1>4, <1>6, <3>1, <3>2
  <2> QED
    BY <2>1 DEF Holders
<1> QED
  BY <1>7, <1>8, <1>9

\* The greatest of a set below a bound.
LEMMA GreatestIs ==
    ASSUME NEW n \in Nat, NEW S, S \subseteq 1 .. n, S # {}
    PROVE  Max(S) \in S /\ \A y \in S : y <= Max(S)
<1>1. Max(S) \in S
  BY GreatestOf
<1>2. PICK x \in S : \A y \in S : x >= y
  <2> DEFINE R == {n - y : y \in S}
  <2>1. R \subseteq Nat /\ R # {}
    <3>1. \A y \in S : n - y \in Nat
      OBVIOUS
    <3>2. PICK y \in S : n - y \in R
      BY <1>1
    <3> QED
      BY <3>1, <3>2
  <2>2. PICK r \in R : \A y \in R : r <= y
    <3> HIDE DEF R
    <3> QED
      BY <2>1, LeastOf
  <2>3. PICK x \in S : r = n - x
    OBVIOUS
  <2>4. \A y \in S : x >= y
    <3> TAKE y \in S
    <3>1. n - x <= n - y
      BY <2>2, <2>3
    <3> QED
      BY <3>1
  <2> QED
    BY <2>4
<1>3. \A y \in S : y <= Max(S)
  BY <1>2 DEF Max
<1> QED
  BY <1>1, <1>3

\* A thread that finds itself in a table is in it.
LEMMA InHolds ==
    ASSUME tables \in Seq(Tables), NEW h \in 1 .. Len(tables),
           NEW t \in Senders, In(t, h)
    PROVE  t \in Holders(h)
<1>1. PICK s \in Nat \ {0} : tables[h] \in [0 .. s - 1 -> Slots]
  BY CapacityIs
<1>2. PICK i \in DOMAIN tables[h] :
        tables[h][Probe(t, h, i)] # None /\ tables[h][Probe(t, h, i)][1] = t
  BY DEF In
<1>3. i \in Nat
  BY <1>1
<1>4. Probe(t, h, i) \in DOMAIN tables[h]
  BY <1>3, ProbeHits
<1> QED
  BY <1>2, <1>4 DEF Holders, Holds

\* Who is in which table after a step: a thread that puts itself into one was in none,
\* or in an older one.
LEMMA TablesStep ==
    ASSUME Inv, Entries, [Next]_vars
    PROVE  \/ UNCHANGED tables
           \/ \E t \in Senders, c \in Nat \ {0} :
                /\ Resize(t) /\ tables' = Append(tables, Table(c))
                /\ c >= Capacity(Len(tables))
           \/ \E t \in Senders, h \in 1 .. Len(tables), p \in Nat :
                /\ FreeSlots(t, h) # {} /\ Put(t, h, p)
                /\ t \notin Holders(h) /\ h = loc[t].table
                /\ \/ Insert(t) /\ pc'[t] = "enqueue"
                   \/ /\ Search(t) /\ pc'[t] = "enqueue"
                      /\ \E g \in 1 .. h : t \in Holders(g)
<1>1. /\ tables \in Seq(Tables) /\ tables # <<>> /\ pc \in [Senders -> Labels]
      /\ Len(tables) \in 1 .. Len(tables)
  BY DEF Inv, Typed, TypedHash, TypedSend
<1>2. ASSUME NEW t \in Senders, Search(t), ~UNCHANGED tables
      PROVE  \E h \in 1 .. Len(tables), p \in Nat :
                /\ FreeSlots(t, h) # {} /\ Put(t, h, p)
                /\ t \notin Holders(h) /\ h = loc[t].table
                /\ Search(t) /\ pc'[t] = "enqueue"
                /\ \E g \in 1 .. h : t \in Holders(g)
  <2>1. pc[t] = "search" /\ Found(t) # {} /\ pc'[t] = "enqueue"
    BY <1>1, <1>2 DEF Search, Goto
  <2>2. PICK g \in 1 .. Len(tables), p \in 1 .. Len(owner) :
          g = Max(Found(t)) /\ In(t, g) /\ p = Value(t, g)
    BY <2>1, SearchFinds
  <2>3. PICK h \in 1 .. Len(tables) : h = loc[t].table
    BY <2>1 DEF Inv, Located
  <2>4. g # h /\ FreeSlots(t, h) # {} /\ Put(t, h, p)
    BY <1>2, <2>2, <2>3 DEF Search
  <2>5. Found(t) \subseteq 1 .. h
    BY <2>3 DEF Found
  <2>6. g \in Found(t) /\ \A f \in Found(t) : f <= g
    BY <2>1, <2>2, <2>5, GreatestIs
  <2>7. g \in 1 .. h /\ g # h /\ h \in Nat
    BY <1>1, <2>4, <2>5, <2>6
  <2>8. t \notin Holders(h)
    <3> SUFFICES ASSUME t \in Holders(h) PROVE FALSE
      OBVIOUS
    <3>1. In(t, h)
      BY DEF Entries, Reached
    <3>2. h \in Found(t)
      BY <2>3, <2>7, <3>1 DEF Found
    <3> QED
      BY <2>6, <2>7, <3>2
  <2>9. t \in Holders(g)
    BY <1>1, <2>2, InHolds
  <2>10. p \in Nat
    OBVIOUS
  <2> QED
    BY <1>2, <2>1, <2>3, <2>4, <2>7, <2>8, <2>9, <2>10
<1>3. ASSUME NEW t \in Senders, Insert(t)
      PROVE  \E h \in 1 .. Len(tables), p \in Nat :
                /\ FreeSlots(t, h) # {} /\ Put(t, h, p)
                /\ t \notin Holders(h) /\ h = loc[t].table
                /\ Insert(t) /\ pc'[t] = "enqueue"
  <2>1. PICK h \in 1 .. Len(tables), p \in 1 .. Len(owner) :
          h = loc[t].table /\ p = loc[t].producer
    BY <1>3 DEF Insert, Inv, Located
  <2>2. t \notin Holders(h)
    BY <1>3 DEF Insert, Entries, Absent
  <2>3. p \in Nat /\ FreeSlots(t, h) # {} /\ Put(t, h, p)
    BY <1>3, <2>1 DEF Insert
  <2>4. pc'[t] = "enqueue"
    BY <1>1, <1>3 DEF Insert, Goto
  <2> QED
    BY <1>3, <2>1, <2>2, <2>3, <2>4
<1>4. ASSUME NEW t \in Senders, Resize(t), ~UNCHANGED tables
      PROVE  \E c \in Nat \ {0} :
                Resize(t) /\ tables' = Append(tables, Table(c)) /\ c >= Capacity(Len(tables))
  <2>1. PICK n \in Int : n = loc[t].count
    BY DEF Inv, Typed, TypedSend, Locals
  <2>2. PICK c \in Larger(2 * Capacity(Len(tables)), n) : tables' = Append(tables, Table(c))
    BY <1>4, <2>1 DEF Resize
  <2>3. c \in Nat \ {0}
    BY <1>1, LargerSize
  <2>4. PICK s \in Nat \ {0} : Capacity(Len(tables)) = s
    BY <1>1, CapacityIs
  <2>5. c \in 2 * s .. 2 * s + 4 * n + 2
    BY <2>4 DEF Larger
  <2>6. c >= s
    BY <2>5
  <2> QED
    BY <1>4, <2>2, <2>3, <2>4, <2>6
<1>5. \/ UNCHANGED tables
      \/ \E t \in Senders : Search(t) \/ Resize(t) \/ Insert(t)
  BY DEF Next, InSend, Run, Send, Close, Join, Register, TestFull, ResizeFails,
         Release, GiveUp, TestRoom, Create, CreateFails, Enqueue, EnqueueFails,
         Scan, Sleep, Dequeue, RunMessage, vars, hashVars
<1> QED
  BY <1>2, <1>3, <1>4, <1>5

\* Who is in a table was there before, or has just put itself there.
LEMMA NewHolder ==
    ASSUME Inv, Entries, [Next]_vars, NEW u \in Senders,
           NEW g \in 1 .. Len(tables'), u \in Holders(g)'
    PROVE  /\ g \in 1 .. Len(tables)
           /\ \/ u \in Holders(g)
              \/ /\ g = loc[u].table /\ pc'[u] = "enqueue"
                 /\ \/ Insert(u)
                    \/ Search(u) /\ \E f \in 1 .. g : u \in Holders(f)
<1>1. tables \in Seq(Tables)
  BY DEF Inv, Typed, TypedHash
<1>2. CASE UNCHANGED tables
  BY <1>2 DEF Holders, Holds
<1>3. ASSUME NEW c \in Nat \ {0}, tables' = Append(tables, Table(c))
      PROVE  g \in 1 .. Len(tables) /\ u \in Holders(g)
  <2>1. /\ Len(tables') = Len(tables) + 1
        /\ \A f \in 1 .. Len(tables) : tables'[f] = tables[f]
        /\ \A i \in DOMAIN tables'[Len(tables')] : tables'[Len(tables')][i] = None
    BY <1>1, <1>3, AppendKeeps
  <2>2. g # Len(tables')
    BY <2>1 DEF Holders, Holds
  <2>3. g \in 1 .. Len(tables) /\ tables'[g] = tables[g]
    <3>1. Len(tables) \in Nat
      BY <1>1
    <3> QED
      BY <2>1, <2>2, <3>1
  <2> QED
    BY <2>3 DEF Holders, Holds
<1>4. ASSUME NEW t \in Senders, NEW h \in 1 .. Len(tables), NEW p \in Nat,
             FreeSlots(t, h) # {}, Put(t, h, p), t \notin Holders(h)
      PROVE  g \in 1 .. Len(tables) /\ (u \in Holders(g) \/ (u = t /\ g = h))
  <2>1. /\ \A f \in 1 .. Len(tables) : f # h => Holders(f)' = Holders(f)
        /\ Holders(h)' = Holders(h) \cup {t} /\ Len(tables') = Len(tables)
    BY <1>1, <1>4, PutHolders, PutIs DEF Entries
  <2>2. g \in 1 .. Len(tables)
    BY <2>1
  <2>3. CASE g = h
    <3>1. u \in Holders(h)'
      BY <2>3
    <3> QED
      BY <2>1, <2>2, <2>3, <3>1
  <2>4. CASE g # h
    BY <2>1, <2>2, <2>4
  <2> QED
    BY <2>3, <2>4
<1> QED
  BY <1>2, <1>3, <1>4, TablesStep

\* Tables keep their capacities.
LEMMA CapacityStays ==
    ASSUME Inv, [Next]_vars, NEW g \in 1 .. Len(tables)
    PROVE  /\ Capacity(g)' = Capacity(g) /\ Capacity(g) \in Nat \ {0}
           /\ g \in 1 .. Len(tables')
<1>1. tables \in Seq(Tables) /\ Grows
  BY HashStep DEF Inv, Typed, TypedHash
<1>2. Capacity(g)' = Capacity(g) /\ Capacity(g) \in Nat \ {0}
  BY <1>1, CapacityIs DEF Grows, Capacity
<1>3. g \in 1 .. Len(tables')
  <2>1. Len(tables) \in Nat /\ Len(tables') \in Nat /\ Len(tables) <= Len(tables')
    BY <1>1 DEF Grows
  <2> QED
    BY <2>1
<1> QED
  BY <1>2, <1>3

\* A thread is about to insert when it has created a producer.
LEMMA ToInsert ==
    ASSUME Inv, [Next]_vars, NEW u \in Senders, pc'[u] = "insert"
    PROVE  pc[u] = "insert" \/ Create(u)
<1>1. pc \in [Senders -> Labels] /\ Main \in Senders
  BY LoggerAssumption DEF Inv, Typed, TypedSend
<1>2. ASSUME NEW t \in Senders, Send(t) \/ InSend(t) \/ (Close /\ t = Main)
      PROVE  pc[u] = "insert" \/ Create(u)
  <2>1. CASE u # t
    BY <1>2, <2>1, Others
  <2>2. CASE u = t
    BY <1>1, <1>2, <2>2 DEF Send, Close, Call, Goto, InSend, Search, Register, TestFull,
       Resize, ResizeFails, Release, GiveUp, TestRoom, CreateFails, Insert,
       Enqueue, EnqueueFails, Return
  <2> QED
    BY <2>1, <2>2
<1>3. Join \/ Run \/ UNCHANGED vars => UNCHANGED pc
  BY DEF Join, Run, Scan, Sleep, Dequeue, RunMessage, vars, sendVars
<1> QED
  BY <1>1, <1>2, <1>3 DEF Next

\* Every step keeps what is known of the entries.
LEMMA EntriesStep == Inv /\ Entries /\ [Next]_vars => Entries'
<1> SUFFICES ASSUME Inv, Entries, [Next]_vars PROVE Entries'
  OBVIOUS
<1>1. tables \in Seq(Tables) /\ tables # <<>> /\ Grows /\ Len(tables) \in Nat
      /\ Len(tables') \in Nat
  <2>1. tables \in Seq(Tables) /\ tables # <<>> /\ tables' \in Seq(Tables) /\ Grows
    BY HashStep DEF Inv, Typed, TypedHash, Grows
  <2> QED
    BY <2>1
<1>2. Reached'
  <2> SUFFICES ASSUME NEW g \in 1 .. Len(tables'), NEW u \in Senders, u \in Holders(g)'
               PROVE  In(u, g)'
    BY DEF Reached, Holders
  <2>1. CASE g \in 1 .. Len(tables) /\ u \in Holders(g)
    <3>1. In(u, g)
      BY <2>1 DEF Entries, Reached
    <3> QED
      BY <1>1, <2>1, <3>1, InStays
  <2>2. CASE g \in 1 .. Len(tables) /\ u \notin Holders(g)
    <3>1. Insert(u) \/ Search(u)
      BY <2>2, NewHolder
    <3>2. ~UNCHANGED tables
      BY <2>2 DEF Holders, Holds
    <3>3. ASSUME NEW t \in Senders, NEW h \in 1 .. Len(tables), NEW p \in Nat,
                 FreeSlots(t, h) # {}, Put(t, h, p), t \notin Holders(h)
          PROVE  In(u, g)'
      <4>1. /\ \A f \in 1 .. Len(tables) : f # h => Holders(f)' = Holders(f)
            /\ Holders(h)' = Holders(h) \cup {t}
        BY <1>1, <3>3, PutHolders DEF Entries
      <4>2. g = h /\ u = t
        <5>1. CASE g # h
          BY <2>2, <4>1, <5>1
        <5>2. CASE g = h
          <6>1. u \in Holders(h)' /\ u \notin Holders(h)
            BY <2>2, <5>2
          <6> QED
            BY <4>1, <5>2, <6>1
        <5> QED
          BY <5>1, <5>2
      <4>3. In(t, h)'
        BY <1>1, <3>3, PutKeeps
      <4> QED
        BY <4>2, <4>3
    <3>4. \A t \in Senders : ~Resize(t)
      <4>1. pc[u] \in {"insert", "search"} /\ pc'[u] \notin {"insert", "search"}
        BY <3>1 DEF Insert, Search, Goto, Inv, Typed, TypedSend
      <4>2. ASSUME NEW t \in Senders, Resize(t) PROVE FALSE
        <5>1. u # t
          BY <4>1, <4>2 DEF Resize
        <5> QED
          BY <4>1, <4>2, <5>1, Others DEF InSend
      <4> QED
        BY <4>2
    <3> QED
      BY <3>2, <3>3, <3>4, TablesStep
  <2> QED
    BY <2>1, <2>2, NewHolder
<1>3. Once'
  <2>1. CASE UNCHANGED tables
    BY <2>1 DEF Entries, Once, Holds
  <2>2. ASSUME NEW c \in Nat \ {0}, tables' = Append(tables, Table(c)) PROVE Once'
    <3>1. /\ Len(tables') = Len(tables) + 1
          /\ \A f \in 1 .. Len(tables) : tables'[f] = tables[f]
          /\ \A i \in DOMAIN tables'[Len(tables')] : tables'[Len(tables')][i] = None
      BY <1>1, <2>2, AppendKeeps
    <3> SUFFICES ASSUME NEW g \in 1 .. Len(tables'), NEW u \in Senders,
                        NEW i \in DOMAIN tables'[g], NEW j \in DOMAIN tables'[g],
                        Holds(u, g, i)', Holds(u, g, j)'
                 PROVE  i = j
      BY DEF Once
    <3>2. g # Len(tables')
      BY <3>1 DEF Holds
    <3>3. g \in 1 .. Len(tables)
      BY <1>1, <3>1, <3>2
    <3> QED
      BY <3>1, <3>3 DEF Entries, Once, Holds
  <2>3. ASSUME NEW t \in Senders, NEW h \in 1 .. Len(tables), NEW p \in Nat,
               FreeSlots(t, h) # {}, Put(t, h, p), t \notin Holders(h)
        PROVE  Once'
    BY <1>1, <2>3, PutHolders DEF Entries
  <2> QED
    BY <2>1, <2>2, <2>3, TablesStep
<1>4. Absent'
  <2> SUFFICES ASSUME NEW u \in Senders, pc'[u] = "insert",
                      NEW g \in 1 .. Len(tables'), u \in Holders(g)'
               PROVE  FALSE
    BY DEF Absent
  <2>1. g \in 1 .. Len(tables) /\ u \in Holders(g)
    BY NewHolder
  <2>2. pc[u] = "insert" \/ Create(u)
    BY ToInsert
  <2>3. CASE pc[u] = "insert"
    BY <2>1, <2>3 DEF Entries, Absent
  <2>4. CASE Create(u)
    <3>1. u \notin Owners
      BY <2>4, NoneYet DEF Create
    <3> QED
      BY <2>1, <3>1, HoldersOwn
  <2> QED
    BY <2>2, <2>3, <2>4
<1>5. Growing'
  <2> SUFFICES ASSUME NEW f \in 1 .. Len(tables'), NEW g \in 1 .. Len(tables'), f <= g
               PROVE  Capacity(f)' <= Capacity(g)'
    BY DEF Growing
  <2>1. CASE g \in 1 .. Len(tables)
    <3>1. f \in 1 .. Len(tables)
      BY <2>1
    <3>2. Capacity(f) <= Capacity(g)
      BY <2>1, <3>1 DEF Entries, Growing
    <3> QED
      BY <2>1, <3>1, <3>2, CapacityStays
  <2>2. ASSUME NEW c \in Nat \ {0}, tables' = Append(tables, Table(c)),
               c >= Capacity(Len(tables)), g \notin 1 .. Len(tables)
        PROVE  Capacity(f)' <= Capacity(g)'
    <3>1. /\ Len(tables') = Len(tables) + 1 /\ tables'[Len(tables) + 1] = Table(c)
      BY <1>1, <2>2
    <3>2. g = Len(tables) + 1
      BY <1>1, <2>2, <3>1
    <3>3. Capacity(g)' = c
      <4>1. DOMAIN Table(c) = 0 .. c - 1
        BY DEF Table
      <4>2. Cardinality(0 .. c - 1) = c
        BY FS_Interval
      <4> QED
        BY <3>1, <3>2, <4>1, <4>2 DEF Capacity
    <3>4. CASE f = g
      BY <3>3, <3>4
    <3>5. CASE f # g
      <4>1. f \in 1 .. Len(tables) /\ Len(tables) \in 1 .. Len(tables) /\ f <= Len(tables)
        BY <1>1, <3>1, <3>2, <3>5
      <4>2. Capacity(f) <= Capacity(Len(tables))
        BY <4>1 DEF Entries, Growing
      <4> QED
        BY <2>2, <3>3, <4>1, <4>2, CapacityStays
    <3> QED
      BY <3>4, <3>5
  <2>3. Len(tables') = Len(tables) => g \in 1 .. Len(tables)
    BY <1>1
  <2>4. UNCHANGED tables => Len(tables') = Len(tables)
    OBVIOUS
  <2>5. ASSUME NEW t \in Senders, NEW h \in 1 .. Len(tables), NEW p \in Nat,
               FreeSlots(t, h) # {}, Put(t, h, p)
        PROVE  Len(tables') = Len(tables)
    BY <1>1, <2>5, PutIs
  <2> QED
    BY <2>1, <2>2, <2>3, <2>4, <2>5, TablesStep
<1> QED
  BY <1>2, <1>3, <1>4, <1>5 DEF Entries

\* Whom count counts.
Counts(t) == pc[t] \in Waits \cup {"create"} \/ t \in Owners

\* A thread becomes an owner by Create alone.
LEMMA OwnersStep ==
    ASSUME Inv, [Next]_vars, NEW u \in Senders
    PROVE  u \in Owners' <=> u \in Owners \/ Create(u)
<1>1. owner \in Seq(Senders)
  BY DEF Inv, Typed, TypedHash
<1>2. CASE UNCHANGED owner
  <2>1. ~Create(u)
    <3>1. Create(u) => Len(owner') = Len(owner) + 1
      BY <1>1 DEF Create
    <3> QED
      BY <1>1, <1>2, <3>1
  <2> QED
    BY <1>2, <2>1 DEF Owners
<1>3. ASSUME NEW t \in Senders, Create(t) PROVE u \in Owners' <=> u \in Owners \/ Create(u)
  <2>1. /\ Len(owner') = Len(owner) + 1 /\ owner'[Len(owner) + 1] = t
        /\ \A p \in 1 .. Len(owner) : owner'[p] = owner[p]
        /\ Len(owner) \in Nat
    BY <1>1, <1>3 DEF Create
  <2>2. Create(u) => u = t
    <3>1. Create(u) => owner'[Len(owner) + 1] = u
      BY <1>1 DEF Create
    <3> QED
      BY <2>1, <3>1
  <2>3. u \in Owners' <=> \E p \in 1 .. Len(owner) + 1 : owner'[p] = u
    BY <2>1 DEF Owners
  <2>4. u \in Owners <=> \E p \in 1 .. Len(owner) : owner[p] = u
    BY DEF Owners
  <2>5. (\E p \in 1 .. Len(owner) + 1 : owner'[p] = u)
          <=> (\E p \in 1 .. Len(owner) : owner[p] = u) \/ u = t
    <3>1. \A p : p \in 1 .. Len(owner) + 1 <=> p \in 1 .. Len(owner) \/ p = Len(owner) + 1
      BY <2>1
    <3> QED
      BY <2>1, <3>1
  <2> QED
    BY <1>3, <2>2, <2>3, <2>4, <2>5
<1> QED
  BY <1>2, <1>3, HashStep

\* A step of t changes at most whether t is counted.
LEMMA CountsStep ==
    ASSUME Inv, NEW t \in Senders, Send(t) \/ InSend(t) \/ (Close /\ t = Main)
    PROVE  /\ \A u \in Senders : u # t => (Counts(u)' <=> Counts(u))
           /\ \/ Register(t) /\ ~Counts(t) /\ Counts(t)' /\ count' = count + 1
              \/ CreateFails(t) /\ Counts(t) /\ ~Counts(t)' /\ count' = count - 1
              \/ ResizeFails(t) /\ Counts(t) /\ ~Counts(t)' /\ count' = count - 1
              \/ (Counts(t)' <=> Counts(t)) /\ count' = count
<1>1. /\ pc \in [Senders -> Labels] /\ [Next]_vars
  BY DEF Inv, Typed, TypedSend, Next
<1>2. \A u \in Senders : u # t => (u \in Owners' <=> u \in Owners)
  <2> TAKE u \in Senders
  <2> HAVE u # t
  <2>1. ~Create(u)
    <3>1. Create(u) => pc[u] = "create" /\ pc'[u] = "insert"
      BY <1>1 DEF Create, Goto
    <3> QED
      BY <3>1, Others
  <2> QED
    BY <1>1, <2>1, OwnersStep
<1>3. \A u \in Senders : u # t => (Counts(u)' <=> Counts(u))
  <2> TAKE u \in Senders
  <2> HAVE u # t
  <2>1. pc'[u] = pc[u]
    BY Others
  <2> QED
    BY <1>2, <2>1 DEF Counts
<1>4. ASSUME Register(t) PROVE ~Counts(t) /\ Counts(t)' /\ count' = count + 1
  <2>1. t \notin Owners
    BY <1>4, NoneYet
  <2>2. pc[t] = "search" /\ pc'[t] = "full" /\ count' = count + 1
    BY <1>1, <1>4 DEF Register, Goto
  <2> QED
    BY <2>1, <2>2 DEF Counts, Waits
<1>5. ASSUME CreateFails(t) \/ ResizeFails(t)
      PROVE  Counts(t) /\ ~Counts(t)' /\ count' = count - 1
  <2>1. /\ pc[t] \in {"create", "resize"} /\ pc'[t] \in {"idle", "give_up"}
        /\ count' = count - 1 /\ UNCHANGED owner
    BY <1>1, <1>5 DEF CreateFails, ResizeFails, Goto, Return
  <2>2. t \notin Owners
    BY <2>1, NoneYet DEF Waits
  <2>3. Owners' = Owners
    BY <2>1 DEF Owners
  <2> QED
    BY <2>1, <2>2, <2>3 DEF Counts, Waits
<1>6. ASSUME Create(t) PROVE (Counts(t)' <=> Counts(t)) /\ count' = count
  <2>1. pc[t] = "create" /\ count' = count
    BY <1>6 DEF Create
  <2>2. t \in Owners'
    BY <1>1, <1>6, OwnersStep
  <2> QED
    BY <2>1, <2>2 DEF Counts
<1>7. ASSUME Send(t) \/ (Close /\ t = Main) \/ Search(t) \/ TestFull(t) \/ Resize(t)
             \/ Release(t) \/ GiveUp(t) \/ TestRoom(t) \/ Insert(t) \/ Enqueue(t)
             \/ EnqueueFails(t)
      PROVE  (Counts(t)' <=> Counts(t)) /\ count' = count
  <2>1. UNCHANGED owner /\ count' = count
    BY <1>7 DEF Send, Close, Search, TestFull, Resize, Release, GiveUp, TestRoom,
                Insert, Enqueue, EnqueueFails, hashVars
  <2>2. Owners' = Owners
    BY <2>1 DEF Owners
  <2>3. \/ pc[t] \in Waits /\ pc'[t] \in Waits \cup {"create"}
        \/ pc[t] \notin Waits \cup {"create"} /\ pc'[t] \notin Waits \cup {"create"}
    <3>1. CASE TestFull(t) \/ Resize(t) \/ Release(t) \/ TestRoom(t)
      BY <1>1, <3>1 DEF TestFull, Resize, Release, TestRoom, Goto, Waits
    <3>2. CASE Send(t) \/ (Close /\ t = Main) \/ Search(t) \/ GiveUp(t) \/ Insert(t)
               \/ Enqueue(t) \/ EnqueueFails(t)
      BY <1>1, <3>2 DEF Send, Close, Call, Search, GiveUp, Insert, Enqueue,
                        EnqueueFails, Return, Goto, Waits
    <3> QED
      BY <1>7, <3>1, <3>2
  <2> QED
    BY <2>1, <2>2, <2>3 DEF Counts
<1> QED
  BY <1>3, <1>4, <1>5, <1>6, <1>7 DEF InSend

\* No more threads are counted than there are.
LEMMA CountedFinite ==
    /\ IsFiniteSet(Counted) /\ Cardinality(Counted) \in Nat
    /\ IsFiniteSet(Counted') /\ Cardinality(Counted') \in Nat
<1>1. Counted \subseteq Senders /\ Counted' \subseteq Senders
  BY DEF Counted, Owners
<1> QED
  BY <1>1, LoggerAssumption, FS_Subset, FS_CardinalityType

\* Every step keeps the count.
LEMMA CountStep == Inv /\ CountIs /\ [Next]_vars => CountIs'
<1> SUFFICES ASSUME Inv, CountIs, [Next]_vars PROVE CountIs'
  OBVIOUS
<1>1. ASSUME NEW t \in Senders, Send(t) \/ InSend(t) \/ (Close /\ t = Main)
      PROVE  CountIs'
  <2>1. /\ \A u \in Senders : u # t => (Counts(u)' <=> Counts(u))
        /\ \/ ~Counts(t) /\ Counts(t)' /\ count' = count + 1
           \/ Counts(t) /\ ~Counts(t)' /\ count' = count - 1
           \/ (Counts(t)' <=> Counts(t)) /\ count' = count
    BY <1>1, CountsStep
  <2>2. Counted = {u \in Senders : Counts(u)} /\ Counted' = {u \in Senders : Counts(u)'}
    BY DEF Counted, Counts, Owners
  <2>3. CASE ~Counts(t) /\ Counts(t)' /\ count' = count + 1
    <3>1. Counted' = Counted \cup {t} /\ t \notin Counted
      BY <2>1, <2>2, <2>3
    <3>2. Cardinality(Counted') = Cardinality(Counted) + 1
      BY <3>1, CountedFinite, FS_AddElement
    <3> QED
      BY <2>3, <3>2 DEF CountIs
  <2>4. CASE Counts(t) /\ ~Counts(t)' /\ count' = count - 1
    <3>1. Counted' = Counted \ {t} /\ t \in Counted
      BY <2>1, <2>2, <2>4
    <3>2. Cardinality(Counted') = Cardinality(Counted) - 1
      BY <3>1, CountedFinite, FS_RemoveElement
    <3> QED
      BY <2>4, <3>2 DEF CountIs
  <2>5. CASE (Counts(t)' <=> Counts(t)) /\ count' = count
    <3>1. Counted' = Counted
      BY <2>1, <2>2, <2>5
    <3> QED
      BY <2>5, <3>1 DEF CountIs
  <2> QED
    BY <2>1, <2>3, <2>4, <2>5
<1>2. Join \/ Run \/ UNCHANGED vars => UNCHANGED <<pc, owner, count>>
  BY DEF Join, Run, Scan, Sleep, Dequeue, RunMessage, vars, sendVars, hashVars
<1>3. UNCHANGED <<pc, owner, count>> => CountIs'
  BY DEF CountIs, Counted, Owners
<1>4. Main \in Senders
  BY LoggerAssumption
<1> QED
  BY <1>1, <1>2, <1>3, <1>4 DEF Next

\* A step of a thread, or of none.
LEMMA StepOf ==
    ASSUME Inv, [Next]_vars, NEW u \in Senders
    PROVE  \/ Send(u) \/ InSend(u) \/ (Close /\ u = Main)
           \/ pc'[u] = pc[u] /\ loc'[u] = loc[u]
<1>1. ASSUME NEW t \in Senders, u # t, Send(t) \/ InSend(t) \/ (Close /\ t = Main)
      PROVE  pc'[u] = pc[u] /\ loc'[u] = loc[u]
  BY <1>1, Others
<1>2. Join \/ Run \/ UNCHANGED vars => UNCHANGED <<pc, loc>>
  BY DEF Join, Run, Scan, Sleep, Dequeue, RunMessage, vars, sendVars
<1>3. Main \in Senders
  BY LoggerAssumption
<1> QED
  BY <1>1, <1>2, <1>3 DEF Next

\* Whom a table admits is counted.
LEMMA AdmittedCounted ==
    ASSUME Inv, NEW n
    PROVE  Admitted(n) \subseteq Counted
<1> SUFFICES ASSUME NEW t \in Senders, t \in Admitted(n) PROVE t \in Counted
  BY DEF Admitted
<1>1. CASE pc[t] \in Waits \cup {"create"}
  BY <1>1 DEF Counted
<1>2. CASE pc[t] = "insert"
  BY <1>2 DEF Inv, Located, Counted, Owners
<1>3. CASE \E h \in 1 .. Len(tables) : t \in Holders(h)
  BY <1>3, HoldersOwn DEF Counted
<1> QED
  BY <1>1, <1>2, <1>3 DEF Admitted, Enters

\* Tables keep their thresholds.
LEMMA ThresholdStays ==
    ASSUME Inv, [Next]_vars, NEW g \in 1 .. Len(tables)
    PROVE  Threshold(g)' = Threshold(g) /\ Threshold(g) \in Nat
<1>1. Capacity(g)' = Capacity(g) /\ Capacity(g) \in Nat
  BY CapacityStays
<1> QED
  BY <1>1 DEF Threshold

\* The threshold of a table is no lower than the one of the table that it replaced.
LEMMA ThresholdGrows ==
    ASSUME Inv, Entries, NEW f \in 1 .. Len(tables), NEW g \in 1 .. Len(tables), f <= g
    PROVE  Threshold(f) <= Threshold(g)
<1>1. tables \in Seq(Tables)
  BY DEF Inv, Typed, TypedHash
<1>2. PICK a \in Nat, b \in Nat : a = Capacity(f) /\ b = Capacity(g)
  BY <1>1, CapacityIs
<1>3. a <= b
  BY <1>2 DEF Entries, Growing
<1>4. a \div 2 <= b \div 2 /\ a \div 4 <= b \div 4
  BY <1>3
<1> QED
  BY <1>2, <1>4 DEF Threshold

\* Only a thread that registers comes to those that are admitted.
LEMMA AdmittedStep ==
    ASSUME Inv, Entries, [Next]_vars, NEW n \in Nat \ {0}, NEW u \in Senders,
           u \in Admitted(n)'
    PROVE  \/ u \in Admitted(n)
           \/ Register(u) /\ count' < n
<1>1. /\ pc \in [Senders -> Labels] /\ loc \in [Senders -> Locals]
      /\ tables \in Seq(Tables) /\ Len(tables) \in Nat
  BY DEF Inv, Typed, TypedSend, TypedHash
<1>2. ASSUME NEW h \in 1 .. Len(tables'), Threshold(h)' <= n, u \in Holders(h)'
      PROVE  u \in Admitted(n)
  <2>1. h \in 1 .. Len(tables)
    BY <1>2, NewHolder
  <2>2. Threshold(h) <= n /\ Threshold(h) \in Nat
    BY <1>2, <2>1, ThresholdStays
  <2>3. CASE u \in Holders(h)
    BY <2>1, <2>2, <2>3 DEF Admitted, Enters
  <2>4. CASE Insert(u) /\ h = loc[u].table
    BY <2>1, <2>2, <2>4 DEF Admitted, Enters, Insert
  <2>5. CASE \E f \in 1 .. h : u \in Holders(f)
    <3>1. PICK f \in 1 .. h : u \in Holders(f)
      BY <2>5
    <3>2. f \in 1 .. Len(tables) /\ f <= h
      BY <1>1, <2>1
    <3>3. Threshold(f) <= Threshold(h) /\ Threshold(f) \in Nat
      BY <2>1, <3>2, ThresholdGrows, ThresholdStays
    <3>4. Threshold(f) <= n
      BY <2>2, <3>3
    <3> QED
      BY <3>1, <3>2, <3>4 DEF Admitted, Enters
  <2> QED
    BY <1>2, <2>3, <2>4, <2>5, NewHolder
<1>3. ASSUME NEW h \in 1 .. Len(tables'), Threshold(h)' <= n,
             pc'[u] \in {"create", "insert"}, loc'[u].table = h
      PROVE  u \in Admitted(n)
  <2>1. CASE pc[u] \in {"create", "insert"} /\ loc[u].table = h
    <3>1. h \in 1 .. Len(tables)
      BY <2>1 DEF Inv, Located
    <3>2. Threshold(h) <= n
      BY <1>3, <3>1, ThresholdStays
    <3> QED
      BY <2>1, <3>1, <3>2 DEF Admitted, Enters
  <2>2. CASE TestRoom(u)
    <3>1. pc[u] = "room" /\ pc'[u] = "create" /\ loc[u].table = h
          /\ loc[u].count < Threshold(h)
      BY <1>1, <1>3, <2>2 DEF TestRoom, Goto, Locals, Threshold
    <3>2. h \in 1 .. Len(tables)
      BY <3>1 DEF Inv, Located
    <3>3. Threshold(h) <= n /\ Threshold(h) \in Nat
      BY <1>3, <3>2, ThresholdStays
    <3>4. loc[u].count \in Int
      BY <1>1 DEF Locals
    <3>5. loc[u].count < n
      BY <3>1, <3>3, <3>4
    <3> QED
      BY <3>1, <3>5 DEF Admitted, Waits
  <2>3. CASE Create(u)
    BY <1>1, <1>3, <2>1, <2>3 DEF Create, Locals
  <2>4. CASE Send(u) \/ (Close /\ u = Main) \/ Search(u) \/ Register(u) \/ TestFull(u)
             \/ Resize(u) \/ ResizeFails(u) \/ Release(u) \/ GiveUp(u)
             \/ CreateFails(u) \/ Insert(u) \/ Enqueue(u) \/ EnqueueFails(u)
    <3>1. pc'[u] \notin {"create", "insert"}
      BY <1>1, <2>4 DEF Send, Close, Call, Search, Register, TestFull, Resize,
           ResizeFails, Release, GiveUp, CreateFails, Insert, Enqueue, EnqueueFails,
           Return, Goto
    <3> QED
      BY <1>3, <3>1
  <2>5. CASE pc'[u] = pc[u] /\ loc'[u] = loc[u]
    BY <1>3, <2>1, <2>5
  <2> QED
    BY <2>2, <2>3, <2>4, <2>5, StepOf DEF InSend
<1>4. ASSUME pc'[u] \in Waits, loc'[u].count < n
      PROVE  u \in Admitted(n) \/ (Register(u) /\ count' < n)
  <2>1. CASE pc[u] \in Waits /\ loc[u].count = loc'[u].count
    BY <1>4, <2>1 DEF Admitted
  <2>2. CASE Register(u)
    <3>1. loc'[u].count = count'
      BY <1>1, <2>2 DEF Register, Locals
    <3> QED
      BY <1>4, <2>2, <3>1
  <2>3. CASE TestFull(u) \/ Resize(u) \/ Release(u)
    <3>1. pc[u] \in Waits /\ loc[u].count = loc'[u].count
      BY <1>1, <2>3 DEF TestFull, Resize, Release, Waits, Locals
    <3> QED
      BY <2>1, <3>1
  <2>4. CASE TestRoom(u)
    <3>1. pc[u] \in Waits /\ loc[u].count = loc'[u].count
      BY <1>1, <1>4, <2>4 DEF TestRoom, Goto, Waits, Locals
    <3> QED
      BY <2>1, <3>1
  <2>5. CASE Send(u) \/ (Close /\ u = Main) \/ Search(u) \/ ResizeFails(u) \/ GiveUp(u)
             \/ Create(u) \/ CreateFails(u) \/ Insert(u) \/ Enqueue(u) \/ EnqueueFails(u)
    <3>1. pc'[u] \notin Waits
      BY <1>1, <2>5 DEF Send, Close, Call, Search, ResizeFails, GiveUp, Create,
           CreateFails, Insert, Enqueue, EnqueueFails, Return, Goto, Waits
    <3> QED
      BY <1>4, <3>1
  <2>6. CASE pc'[u] = pc[u] /\ loc'[u] = loc[u]
    BY <1>4, <2>1, <2>6
  <2> QED
    BY <2>2, <2>3, <2>4, <2>5, <2>6, StepOf DEF InSend
<1> QED
  BY <1>2, <1>3, <1>4 DEF Admitted, Enters

\* Every step keeps the room in the tables.
LEMMA RoomStep == Inv /\ Entries /\ CountIs /\ Room /\ [Next]_vars => Room'
<1> SUFFICES ASSUME Inv, Entries, CountIs, Room, [Next]_vars, NEW n \in Nat \ {0}
             PROVE  Cardinality(Admitted(n)') < n
  BY DEF Room
<1>1. CountIs'
  BY CountStep
<1>2. CASE \E u \in Senders : Register(u) /\ count' < n
  <2>1. Admitted(n)' \subseteq Counted'
    <3> SUFFICES ASSUME NEW v \in Senders, v \in Admitted(n)' PROVE v \in Counted'
      BY DEF Admitted
    <3>1. PICK u \in Senders : Register(u)
      BY <1>2
    <3>2. Counts(u)' /\ (v # u => (Counts(v)' <=> Counts(v)))
      <4>1. ~CreateFails(u) /\ ~ResizeFails(u) /\ InSend(u) /\ count' = count + 1
        BY <3>1 DEF Register, CreateFails, ResizeFails, InSend
      <4>2. count \in Int
        BY DEF Inv, Typed, TypedSend
      <4> QED
        BY <4>1, <4>2, CountsStep
    <3>3. v = u \/ v \in Counted
      <4>1. Register(v) => v = u
        <5>1. ASSUME v # u PROVE ~Register(v)
          <6>1. pc'[v] = pc[v]
            BY <3>1, <5>1, Others DEF InSend
          <6>2. Register(v) => pc[v] = "search" /\ pc'[v] = "full"
            BY DEF Register, Goto, Inv, Typed, TypedSend
          <6> QED
            BY <6>1, <6>2
        <5> QED
          BY <5>1
      <4> QED
        BY <4>1, AdmittedStep, AdmittedCounted
    <3>4. Counts(v)'
      BY <3>2, <3>3 DEF Counted, Counts, Owners
    <3> QED
      BY <3>4 DEF Counted, Counts, Owners
  <2>2. Cardinality(Admitted(n)') <= Cardinality(Counted') /\ Cardinality(Admitted(n)') \in Nat
    BY <2>1, CountedFinite, FS_Subset, FS_CardinalityType
  <2>3. Cardinality(Counted') < n
    BY <1>1, <1>2 DEF CountIs
  <2> QED
    BY <2>2, <2>3, CountedFinite
<1>3. CASE ~\E u \in Senders : Register(u) /\ count' < n
  <2>1. Admitted(n)' \subseteq Admitted(n)
    <3> SUFFICES ASSUME NEW u \in Senders, u \in Admitted(n)' PROVE u \in Admitted(n)
      BY DEF Admitted
    <3> QED
      BY <1>3, AdmittedStep
  <2>2. IsFiniteSet(Admitted(n))
    BY AdmittedCounted, CountedFinite, FS_Subset
  <2>3. /\ Cardinality(Admitted(n)') <= Cardinality(Admitted(n))
        /\ Cardinality(Admitted(n)) \in Nat /\ Cardinality(Admitted(n)') \in Nat
    BY <2>1, <2>2, FS_Subset, FS_CardinalityType
  <2>4. Cardinality(Admitted(n)) < n
    BY DEF Room
  <2> QED
    BY <2>3, <2>4
<1> QED
  BY <1>2, <1>3

\* At first there is one table, and nobody is in it.
LEMMA RoomInit == Init => Entries /\ CountIs /\ Room
<1> SUFFICES ASSUME Init PROVE Entries /\ CountIs /\ Room
  OBVIOUS
<1>1. \A h \in 1 .. Len(tables) : h = 1 /\ Holders(h) = {}
  <2>1. Len(tables) = 1 /\ tables[1] = Table(HashSize)
    BY DEF Init
  <2>2. \A i \in DOMAIN Table(HashSize) : Table(HashSize)[i] = None
    BY DEF Table
  <2> QED
    BY <2>1, <2>2 DEF Holders, Holds
<1>2. \A t \in Senders : pc[t] = "idle"
  BY DEF Init
<1>3. Owners = {}
  BY DEF Init, Owners
<1>4. Entries
  <2>1. Capacity(1) \in Nat
    <3>1. Inv
      BY InitInv
    <3> QED
      BY <3>1, CapacityIs DEF Init, Inv, Typed, TypedHash
  <2>2. Reached /\ Absent
    BY <1>1, <1>2 DEF Reached, Absent
  <2>3. Growing
    <3> SUFFICES ASSUME NEW g \in 1 .. Len(tables), NEW h \in 1 .. Len(tables)
                 PROVE  Capacity(g) <= Capacity(h)
      BY DEF Growing
    <3> QED
      BY <1>1, <2>1
  <2>4. Once
    <3> SUFFICES ASSUME NEW h \in 1 .. Len(tables), NEW t \in Senders,
                        NEW i \in DOMAIN tables[h], Holds(t, h, i)
                 PROVE  FALSE
      BY DEF Once
    <3> QED
      BY <1>1 DEF Holders
  <2> QED
    BY <2>2, <2>3, <2>4 DEF Entries
<1>5. CountIs
  <2>1. Counted = {}
    BY <1>2, <1>3 DEF Counted, Waits
  <2> QED
    BY <2>1, FS_EmptySet DEF CountIs, Init
<1>6. Room
  <2> SUFFICES ASSUME NEW n \in Nat \ {0} PROVE Cardinality(Admitted(n)) < n
    BY DEF Room
  <2>1. Admitted(n) = {}
    BY <1>1, <1>2 DEF Admitted, Enters, Waits
  <2> QED
    BY <2>1, FS_EmptySet
<1> QED
  BY <1>4, <1>5, <1>6

\* A table whose slots are all taken has as many threads as slots.
LEMMA FullTable ==
    ASSUME Inv, Entries, NEW h \in 1 .. Len(tables),
           \A i \in DOMAIN tables[h] : tables[h][i] # None
    PROVE  Capacity(h) <= Cardinality(Holders(h))
<1>1. tables \in Seq(Tables)
  BY DEF Inv, Typed, TypedHash
<1>2. PICK s \in Nat \ {0} :
        tables[h] \in [0 .. s - 1 -> Slots] /\ Capacity(h) = s
  BY <1>1, CapacityIs
<1> DEFINE D == 0 .. s - 1
           f == [i \in D |-> tables[h][i][1]]
<1>3. \A i \in D : tables[h][i] \in Senders \X Nat
  BY <1>2 DEF Slots
<1>4. \A i \in D : f[i] \in Holders(h)
  BY <1>2, <1>3 DEF Holders, Holds
<1>5. \A i, j \in D : f[i] = f[j] => i = j
  <2> TAKE i, j \in D
  <2> HAVE f[i] = f[j]
  <2>1. PICK t \in Senders : t = f[i] /\ t = f[j]
    BY <1>3
  <2>2. Holds(t, h, i) /\ Holds(t, h, j)
    BY <1>2, <2>1 DEF Holds
  <2> QED
    BY <1>2, <2>2 DEF Entries, Once
<1>6. f \in Injection(D, Holders(h))
  <2>1. f \in [D -> Holders(h)]
    BY <1>4
  <2> HIDE DEF f
  <2> QED
    BY <1>5, <2>1 DEF Injection, IsInjective
<1>7. IsFiniteSet(Holders(h))
  <2>1. Holders(h) \subseteq Senders
    BY DEF Holders
  <2> QED
    BY <2>1, LoggerAssumption, FS_Subset
<1>8. Cardinality(D) <= Cardinality(Holders(h))
  <2> HIDE DEF f, D
  <2> QED
    BY <1>6, <1>7, FS_Injection
<1>9. Cardinality(D) = s
  BY FS_Interval
<1> QED
  BY <1>2, <1>8, <1>9

\* A full table of capacity c would have c threads, and has fewer than its threshold.
LEMMA RoomLeft == Inv /\ Entries /\ Room => TablesHaveRoom
<1> SUFFICES ASSUME Inv, Entries, Room, NEW h \in 1 .. Len(tables),
                    \A i \in DOMAIN tables[h] : tables[h][i] # None
             PROVE  FALSE
  BY DEF TablesHaveRoom
<1>1. tables \in Seq(Tables)
  BY DEF Inv, Typed, TypedHash
<1>2. PICK s \in Nat \ {0} : Capacity(h) = s
  BY <1>1, CapacityIs
<1> DEFINE k == s \div 2 + s \div 4
           n == IF k = 0 THEN 1 ELSE k
<1>3. k \in Nat /\ n \in Nat \ {0} /\ k <= n /\ n <= s
  BY <1>2
<1>4. Threshold(h) = k
  BY <1>2 DEF Threshold
<1> HIDE DEF k, n
<1>5. Holders(h) \subseteq Admitted(n)
  BY <1>3, <1>4 DEF Admitted, Enters, Holders
<1>6. IsFiniteSet(Admitted(n))
  BY AdmittedCounted, CountedFinite, FS_Subset
<1>7. /\ Cardinality(Holders(h)) <= Cardinality(Admitted(n))
      /\ Cardinality(Admitted(n)) \in Nat /\ Cardinality(Holders(h)) \in Nat
  BY <1>5, <1>6, FS_Subset, FS_CardinalityType
<1>8. Cardinality(Admitted(n)) < n
  BY <1>3 DEF Room
<1>9. s <= Cardinality(Holders(h))
  BY <1>2, FullTable
<1> QED
  BY <1>3, <1>7, <1>8, <1>9

\* The invariant of the tables.
LEMMA RoomInvariant == Spec => [](Inv /\ Entries /\ CountIs /\ Room)
<1>1. Init => Inv /\ Entries /\ CountIs /\ Room
  BY InitInv, RoomInit
<1>2. Inv /\ Entries /\ CountIs /\ Room /\ [Next]_vars
        => (Inv /\ Entries /\ CountIs /\ Room)'
  BY InvStep, EntriesStep, CountStep, RoomStep
<1> QED
  BY <1>1, <1>2, PTL DEF Spec

\* A table that threads search or insert into has a free slot at all times, so that
\* the loops of get_or_add_implicit_producer end: no interleaving of the threads that
\* replace the table lets in more of them than it has room for.
THEOREM RoomInTables == Spec => []TablesHaveRoom
<1>1. Inv /\ Entries /\ Room => TablesHaveRoom
  BY RoomLeft
<1> QED
  BY <1>1, RoomInvariant, PTL

(***************************************************************************)
(* The types.                                                               *)
(***************************************************************************)

\* What the other variables may be.
Ranges ==
    /\ resizing \in BOOLEAN
    /\ main \in {"open", "closing", "joining", "closed", "terminated"}
    /\ scan.best <= Len(owner)
    /\ \A t \in Senders : pc[t] \in {"idle", "enqueue"} => loc[t].table = 0

\* They hold at first.
LEMMA RangesInit == Init => Ranges
<1> SUFFICES ASSUME Init PROVE Ranges
  OBVIOUS
<1>1. scan.best = 0 /\ Len(owner) = 0
  BY DEF Init, NoScan
<1>2. \A t \in Senders : loc[t].table = 0
  BY DEF Init, NoLocals
<1>3. resizing \in BOOLEAN
  BY DEF Init
<1>4. main = "open"
  BY DEF Init
<1> QED
  BY <1>1, <1>2, <1>3, <1>4 DEF Ranges

\* Every step keeps them.
LEMMA RangesStep == Inv /\ Ranges /\ [Next]_vars => Ranges'
<1> SUFFICES ASSUME Inv, Ranges, [Next]_vars PROVE Ranges'
  OBVIOUS
<1>1. /\ pc \in [Senders -> Labels] /\ loc \in [Senders -> Locals]
      /\ scan \in [at : Nat, found : Nat, best : Nat, size : Nat]
  BY DEF Inv, Typed, TypedSend, TypedRun
<1>2. resizing' \in BOOLEAN
  <2>1. ASSUME NEW t \in Senders, InSend(t) PROVE resizing' \in BOOLEAN
    BY <2>1 DEF Ranges, InSend, Search, Register, TestFull, Resize, ResizeFails,
       Release, GiveUp, TestRoom, Create, CreateFails, Insert, Enqueue,
       EnqueueFails, hashVars
  <2> QED
    BY <2>1 DEF Ranges, Next, Send, Close, Join, Run, Scan, Sleep, Dequeue, RunMessage,
       hashVars, vars
<1>3. main' \in {"open", "closing", "joining", "closed", "terminated"}
  <2>1. ASSUME NEW t \in Senders, InSend(t)
        PROVE  main' \in {main, "joining", "terminated"}
    BY <2>1 DEF InSend, Search, Register, TestFull, Resize, ResizeFails,
       Release, GiveUp, TestRoom, Create, CreateFails, Insert, Enqueue,
       EnqueueFails, Return
  <2> QED
    BY <2>1 DEF Ranges, Next, Send, Close, Join, Run, Scan, Sleep, Dequeue, RunMessage,
       sendVars, vars
<1>4. scan'.best <= Len(owner')
  <2>1. Len(owner) \in Nat /\ Len(owner') \in Nat /\ Len(owner) <= Len(owner')
    BY OwnerKeeps
  <2>2. CASE UNCHANGED scan
    BY <1>1, <2>1, <2>2 DEF Ranges
  <2>3. CASE Scan
    <3>1. scan'.best \in {scan.at, scan.best}
      BY <2>3 DEF Scan
    <3>2. scan.at <= Len(owner) /\ scan.best <= Len(owner)
      BY DEF Ranges, Inv, Scanning
    <3> QED
      BY <1>1, <2>1, <3>1, <3>2
  <2>4. CASE Sleep \/ RunMessage \/ Dequeue
    <3>1. scan'.best = 0 \/ UNCHANGED scan
      BY <2>4 DEF Sleep, RunMessage, Dequeue, TryDequeue, NoScan
    <3> QED
      BY <2>1, <2>2, <3>1
  <2>5. UNCHANGED scan \/ Scan \/ Sleep \/ RunMessage \/ Dequeue
    BY DEF Next, InSend, Run, Send, Close, Join, Search, Register, TestFull,
           Resize, ResizeFails, Release, GiveUp, TestRoom, Create, CreateFails,
           Insert, Enqueue, EnqueueFails, vars, runVars
  <2> QED
    BY <2>2, <2>3, <2>4, <2>5
<1>5. ASSUME NEW u \in Senders, pc'[u] \in {"idle", "enqueue"} PROVE loc'[u].table = 0
  <2>1. CASE pc'[u] = pc[u] /\ loc'[u] = loc[u]
    BY <1>5, <2>1 DEF Ranges
  <2>2. CASE Search(u)
    <3>1. PICK v : loc' = [loc EXCEPT ![u] = [NoLocals EXCEPT !.producer = v]]
      BY <2>2 DEF Search
    <3> QED
      BY <1>1, <3>1 DEF NoLocals
  <2>3. CASE GiveUp(u) \/ CreateFails(u) \/ Enqueue(u) \/ EnqueueFails(u)
    <3>1. loc' = [loc EXCEPT ![u] = NoLocals]
      BY <2>3 DEF GiveUp, CreateFails, Enqueue, EnqueueFails, Return
    <3> QED
      BY <1>1, <3>1 DEF NoLocals
  <2>4. CASE Insert(u)
    BY <1>1, <2>4 DEF Insert, Locals
  <2>5. CASE Send(u) \/ (Close /\ u = Main) \/ Register(u) \/ TestFull(u)
             \/ Resize(u) \/ ResizeFails(u) \/ Release(u) \/ TestRoom(u) \/ Create(u)
    <3>1. pc'[u] \notin {"idle", "enqueue"}
      BY <1>1, <2>5 DEF Send, Close, Call, Register, TestFull, Resize, ResizeFails,
           Release, TestRoom, Create, Goto
    <3> QED
      BY <1>5, <3>1
  <2> QED
    BY <2>1, <2>2, <2>3, <2>4, <2>5, StepOf DEF InSend
<1> QED
  BY <1>2, <1>3, <1>4, <1>5 DEF Ranges

\* The types are among what the invariants say.
LEMMA TypesFollow == Inv /\ CountIs /\ Ranges => TypeOK
<1> SUFFICES ASSUME Inv, CountIs, Ranges PROVE TypeOK
  OBVIOUS
<1>1. /\ tables \in Seq(Tables) /\ owner \in Seq(Senders) /\ pc \in [Senders -> Labels]
      /\ loc \in [Senders -> Locals] /\ Len(tables) \in Nat
      /\ scan \in [at : Nat, found : Nat, best : Nat, size : Nat]
      /\ run \in {"scan", "message", "stopped"} /\ Len(owner) \in Nat
  BY DEF Inv, Typed, TypedHash, TypedSend, TypedRun
<1>2. ASSUME NEW h \in 1 .. Len(tables), NEW i \in DOMAIN tables[h], tables[h][i] # None
      PROVE  tables[h][i] \in Senders \X (1 .. Len(owner))
  <2>1. PICK s \in Nat : tables[h] \in [0 .. s - 1 -> Slots]
    BY <1>1, CapacityIs
  <2>2. tables[h][i] \in Senders \X Nat
    BY <1>2, <2>1 DEF Slots
  <2>3. tables[h][i][2] \in 1 .. Len(owner)
    BY <1>2 DEF Inv, TablesTrue
  <2> QED
    BY <2>2, <2>3
<1>3. count \in Nat
  BY CountedFinite DEF CountIs
<1>4. ASSUME NEW t \in Senders PROVE loc[t].table \in 0 .. Len(tables)
  <2>1. CASE pc[t] \in {"idle", "enqueue"}
    BY <1>1, <2>1 DEF Ranges
  <2>2. CASE pc[t] \notin {"idle", "enqueue"}
    BY <1>1, <2>2 DEF Inv, Located
  <2> QED
    BY <2>1, <2>2
<1>5. scan.at \in 0 .. Len(owner) /\ scan.best \in 0 .. Len(owner)
  BY <1>1 DEF Inv, Scanning, Ranges
<1> QED
  BY <1>1, <1>2, <1>3, <1>4, <1>5 DEF TypeOK, Labels, Ranges

\* The types: a thread that searches has a table to search, and the scan keeps to the
\* list of producers.
THEOREM TypeCorrect == Spec => []TypeOK
<1>1. Spec => [](Inv /\ CountIs /\ Ranges)
  <2>1. Inv /\ Entries /\ CountIs /\ Room /\ Ranges /\ [Next]_vars => Ranges'
    BY RangesStep
  <2> QED
    BY <2>1, RangesInit, RoomInvariant, PTL DEF Spec
<1> QED
  BY <1>1, TypesFollow, PTL

(***************************************************************************)
(* What the destructor loses.                                               *)
(***************************************************************************)

\* When the destructor has begun, nobody else sends.
Quiet ==
    /\ main # "open" => \A t \in Senders \ {Main} : pc[t] = "idle"
    /\ main \notin {"open", "closing"} => pc[Main] = "idle"

\* The logger has its last message.
DoneTaken == run = "stopped" \/ (run = "message" /\ hand["logger"] = Done)

\* The message of the destructor is the last of its stream until it is taken.
DoneLast ==
    \A p \in Producers : \A i \in 1 .. Len(stream[p]) : stream[p][i] = Done =>
      i = Len(stream[p]) /\ main = "joining"

\* The streams from n on that are not empty.
Full(n) == {r \in n .. Len(owner) : stream[r] # <<>>}

\* What the scan knows: as many streams are not empty as it has found, and the one
\* that it will take from, if that is to give the last message, is no shorter than
\* those it looked at since.
Seen ==
    run = "scan" =>
      /\ scan.found <= Cardinality(Full(scan.at + 1))
      /\ scan.found > 0 =>
           /\ scan.best \in scan.at + 1 .. Len(owner)
           /\ scan.size \in 1 .. Len(stream[scan.best])
           /\ stream[scan.best] = <<Done>> =>
                \A q \in scan.at + 1 .. scan.best - 1 : Len(stream[q]) <= scan.size

\* What LossBounded says of the stream of the main thread.
Loss ==
    \A p \in 1 .. Len(owner) : owner[p] = Main =>
        /\ stream[p] = <<>>
        /\ \A q \in 1 .. p - 1 : Len(stream[q]) > 1 =>
             Cardinality({r \in q + 1 .. Len(owner) :
                            r = p \/ stream[r] # <<>>}) >= 3

\* What is left once the logger has its last message; Join waits for its end.
Ended ==
    /\ DoneTaken => main \in {"joining", "closed"} /\ Loss
    /\ main = "closed" => run = "stopped"

Closing == Quiet /\ DoneLast /\ Seen /\ Ended

\* As many streams as are not empty can be counted.
LEMMA FullFinite ==
    ASSUME Inv, NEW n \in Nat
    PROVE  IsFiniteSet(Full(n)) /\ Cardinality(Full(n)) \in Nat
<1>1. Len(owner) \in Nat
  BY DEF Inv, Typed, TypedHash
<1>2. IsFiniteSet(n .. Len(owner))
  BY <1>1, FS_Interval
<1>3. Full(n) \subseteq n .. Len(owner)
  BY DEF Full
<1> QED
  BY <1>2, <1>3, FS_Subset, FS_CardinalityType

\* A thread that is idle when the destructor begins sends nothing more.
LEMMA QuietStep == Inv /\ Quiet /\ [Next]_vars => Quiet'
<1> SUFFICES ASSUME Inv, Quiet, [Next]_vars PROVE Quiet'
  OBVIOUS
<1>1. pc \in [Senders -> Labels] /\ Main \in Senders
  BY LoggerAssumption DEF Inv, Typed, TypedSend
<1>2. ASSUME NEW t \in Senders, Send(t) PROVE Quiet'
  BY <1>2 DEF Quiet, Send
<1>3. CASE Close
  <2>1. main' = "closing" /\ \A u \in Senders : u # Main => pc'[u] = "idle"
    BY <1>1, <1>3 DEF Close, Call, Goto
  <2> QED
    BY <2>1 DEF Quiet
<1>4. ASSUME NEW t \in Senders, InSend(t) PROVE Quiet'
  <2>1. pc[t] # "idle"
    BY <1>4 DEF InSend, Search, Register, TestFull, Resize, ResizeFails, Release,
       GiveUp, TestRoom, Create, CreateFails, Insert, Enqueue, EnqueueFails
  <2>2. \A u \in Senders : u # t => pc'[u] = pc[u]
    BY <1>4, Others
  <2>3. UNCHANGED main \/ (t = Main /\ main = "closing" /\ pc'[t] = "idle")
    BY <1>1, <1>4 DEF InSend, Search, Register, TestFull, Resize, ResizeFails,
       Release, GiveUp, TestRoom, Create, CreateFails, Insert, Enqueue,
       EnqueueFails, Return, Goto
  <2>4. CASE main = "open"
    BY <2>3, <2>4 DEF Quiet
  <2>5. CASE main # "open"
    <3>1. t = Main /\ main = "closing"
      BY <1>1, <2>1, <2>5 DEF Quiet
    <3>2. \A u \in Senders \ {Main} : pc'[u] = "idle"
      BY <2>2, <2>5, <3>1 DEF Quiet
    <3> QED
      BY <2>3, <3>1, <3>2 DEF Quiet
  <2> QED
    BY <2>4, <2>5
<1>5. CASE Join
  BY <1>5 DEF Quiet, Join
<1>6. CASE Run \/ UNCHANGED vars
  <2>1. UNCHANGED <<pc, main>>
    BY <1>6 DEF Run, Scan, Sleep, Dequeue, RunMessage, vars, sendVars
  <2> QED
    BY <2>1 DEF Quiet
<1> QED
  BY <1>2, <1>3, <1>4, <1>5, <1>6 DEF Next

\* What a thread sends goes to the end of its stream, before the message of the
\* destructor is in any.
LEMMA EnqueueIs ==
    ASSUME Inv, Quiet, DoneLast, NEW t \in Senders, Enqueue(t)
    PROVE  /\ main \in {"open", "closing"}
           /\ \A q \in Producers : \A i \in 1 .. Len(stream[q]) : stream[q][i] # Done
           /\ \E p \in 1 .. Len(owner) :
                /\ p \in Producers
                /\ stream' = [stream EXCEPT ![p] = Append(@, Message(t))]
                /\ Message(t) = Done => main' = "joining"
           /\ UNCHANGED <<owner, hand, run, scan>>
<1>1. pc \in [Senders -> Labels] /\ Main \in Senders /\ sent \in [Senders -> Nat]
      /\ printed \in [Senders -> Nat]
  BY LoggerAssumption DEF Inv, Typed, TypedSend, TypedRun
<1>2. pc[t] = "enqueue"
  BY DEF Enqueue
<1>3. main \in {"open", "closing"} /\ (main = "closing" => t = Main)
  BY <1>1, <1>2 DEF Quiet
<1>4. \A q \in Producers : \A i \in 1 .. Len(stream[q]) : stream[q][i] # Done
  BY <1>3 DEF DoneLast
<1>5. PICK p \in 1 .. Len(owner) : p = loc[t].producer
  BY <1>2 DEF Inv, Located
<1>6. p \in Producers
  BY StreamsSuffice DEF Inv, Typed, TypedHash
<1>7. stream' = [stream EXCEPT ![p] = Append(@, Message(t))] /\ UNCHANGED <<owner, hand, run, scan>>
  BY <1>5 DEF Enqueue, Queue!Enqueue, hashVars, runVars
<1>8. Message(t) = Done => main' = "joining"
  <2>1. CASE t = Main /\ main = "closing"
    BY <2>1 DEF Enqueue, Return
  <2>2. CASE ~(t = Main /\ main = "closing")
    <3>1. Old(t, printed[t]) /\ Unsent(t)
      BY <1>2, <2>2 DEF Unsent, Inv, Ordered
    <3>2. sent[t] # 0
      BY <1>1, <3>1 DEF Old
    <3>3. Message(t) = <<t, sent[t]>>
      BY <2>2 DEF Message
    <3> QED
      BY <3>2, <3>3 DEF Done
  <2> QED
    BY <2>1, <2>2
<1> QED
  BY <1>3, <1>4, <1>5, <1>6, <1>7, <1>8

\* The message of the destructor waits in the stream of the main thread.
LEMMA DoneWaits ==
    ASSUME Inv, Closing, NEW p \in Producers, NEW i \in 1 .. Len(stream[p]),
           stream[p][i] = Done
    PROVE  /\ p \in 1 .. Len(owner) /\ owner[p] = Main /\ i = Len(stream[p])
           /\ main = "joining" /\ ~DoneTaken
<1>1. PICK u \in Senders, n \in Nat :
        /\ p \in 1 .. Len(owner) /\ owner[p] = u /\ stream[p][i] = <<u, n>>
        /\ <<u, n>> # Done =>
             /\ After(u, n) /\ Old(u, n)
             /\ \A j \in 1 .. i - 1 : stream[p][j][2] < n
  BY StreamSays
<1>2. u = Main
  BY <1>1 DEF Done
<1>3. i = Len(stream[p]) /\ main = "joining"
  BY DEF Closing, DoneLast
<1>4. stream[p] # <<>>
  <2>1. stream[p] \in Seq(Senders \X Nat)
    BY DEF Inv, Typed, TypedQueue
  <2> QED
    BY <2>1
<1>5. ~DoneTaken
  BY <1>1, <1>2, <1>4 DEF Closing, Ended, Loss
<1> QED
  BY <1>1, <1>2, <1>3, <1>5

\* What the logger takes.
LEMMA DequeueIs ==
    ASSUME Inv, Dequeue
    PROVE  \E p \in 1 .. Len(owner) :
             /\ p \in Producers /\ p = scan.best
             /\ stream[p] \in Seq(Senders \X Nat) /\ stream[p] # <<>>
             /\ stream'[p] = Tail(stream[p])
             /\ \A q \in Producers : q # p => stream'[q] = stream[q]
             /\ hand'["logger"] = stream[p][1]
             /\ run' = "message" /\ UNCHANGED <<owner, main, pc>>
<1>1. TypedQueue
  BY DEF Inv, Typed
<1>2. PICK p \in 1 .. Len(owner) : p = scan.best
  BY DEF Dequeue, Inv, Scanning
<1>3. p \in Producers
  BY StreamsSuffice DEF Inv, Typed, TypedHash
<1>4. /\ stream[p] # <<>>
      /\ stream' = [stream EXCEPT ![p] = Tail(@)]
      /\ hand' = [hand EXCEPT !["logger"] = Head(stream[p])]
      /\ UNCHANGED <<owner, main, pc>> /\ run' = "message"
  BY <1>2 DEF Dequeue, Queue!Dequeue, hashVars, sendVars
<1>5. stream[p] \in Seq(Senders \X Nat)
  BY <1>1, <1>3 DEF TypedQueue
<1>6. hand'["logger"] = Head(stream[p]) /\ Head(stream[p]) = stream[p][1]
  BY <1>1, <1>4, <1>5, TailIs DEF TypedQueue
<1>7. stream'[p] = Tail(stream[p]) /\ \A q \in Producers : q # p => stream'[q] = stream[q]
  BY <1>1, <1>3, <1>4 DEF TypedQueue
<1> QED
  BY <1>2, <1>3, <1>4, <1>5, <1>6, <1>7

\* Nothing is sent after the message of the destructor.
LEMMA DoneLastStep == Inv /\ Closing /\ [Next]_vars => DoneLast'
<1> SUFFICES ASSUME Inv, Closing, [Next]_vars,
                    NEW q \in Producers, NEW i \in 1 .. Len(stream'[q]),
                    stream'[q][i] = Done
             PROVE  i = Len(stream'[q]) /\ main' = "joining"
  BY DEF DoneLast
<1>1. \A r \in Producers : stream[r] \in Seq(Senders \X Nat)
  BY DEF Inv, Typed, TypedQueue
<1>2. ASSUME NEW t \in Senders, Enqueue(t) PROVE i = Len(stream'[q]) /\ main' = "joining"
  <2>1. PICK p \in Producers :
          /\ stream' = [stream EXCEPT ![p] = Append(@, Message(t))]
          /\ Message(t) = Done => main' = "joining"
          /\ \A r \in Producers : \A j \in 1 .. Len(stream[r]) : stream[r][j] # Done
    BY <1>2, EnqueueIs DEF Closing
  <2>2. CASE q # p
    <3>1. stream'[q] = stream[q]
      BY <2>1, <2>2
    <3> QED
      BY <2>1, <3>1
  <2>3. CASE q = p
    <3>1. stream'[p] = Append(stream[p], Message(t))
      BY <2>1 DEF Inv, Typed, TypedQueue
    <3>2. /\ Len(stream[p]) \in Nat /\ Len(stream'[p]) = Len(stream[p]) + 1
          /\ \A j \in 1 .. Len(stream[p]) : stream'[p][j] = stream[p][j]
          /\ stream'[p][Len(stream[p]) + 1] = Message(t)
      BY <1>1, <3>1
    <3>3. i = Len(stream[p]) + 1
      <4>1. i \notin 1 .. Len(stream[p])
        BY <2>1, <2>3, <3>2
      <4> QED
        BY <2>3, <3>2, <4>1
    <3> QED
      BY <2>1, <2>3, <3>2, <3>3
  <2> QED
    BY <2>2, <2>3
<1>3. CASE Dequeue
  <2>1. PICK p \in Producers :
          /\ stream[p] # <<>> /\ stream'[p] = Tail(stream[p])
          /\ \A r \in Producers : r # p => stream'[r] = stream[r]
          /\ UNCHANGED main
    BY <1>3, DequeueIs
  <2>2. CASE q # p
    BY <2>1, <2>2 DEF Closing, DoneLast
  <2>3. CASE q = p
    <3>1. /\ Len(stream[p]) \in Nat /\ Len(stream'[p]) = Len(stream[p]) - 1
          /\ \A j \in 1 .. Len(stream[p]) - 1 : stream'[p][j] = stream[p][j + 1]
      BY <1>1, <2>1, TailIs
    <3>2. i + 1 \in 1 .. Len(stream[p]) /\ stream[p][i + 1] = Done
      BY <2>3, <3>1
    <3>3. i + 1 = Len(stream[p]) /\ main = "joining"
      BY <3>2 DEF Closing, DoneLast
    <3>4. i = Len(stream[p]) - 1
      <4>1. i \in Int
        OBVIOUS
      <4> QED
        BY <3>1, <3>3, <4>1
    <3>5. main' = "joining"
      BY <2>1, <3>3
    <3> QED
      BY <2>3, <3>1, <3>4, <3>5
  <2> QED
    BY <2>2, <2>3
<1>4. ASSUME UNCHANGED stream, ~\E t \in Senders : Enqueue(t)
      PROVE  i = Len(stream'[q]) /\ main' = "joining"
  <2>1. i = Len(stream[q]) /\ main = "joining" /\ ~DoneTaken
    BY <1>4, DoneWaits
  <2>2. \A t \in Senders : pc[t] = "idle"
    BY <2>1 DEF Closing, Quiet
  <2>3. \A t \in Senders : ~InSend(t)
    BY <2>2 DEF InSend, Search, Register, TestFull, Resize, ResizeFails, Release,
       GiveUp, TestRoom, Create, CreateFails, Insert, Enqueue, EnqueueFails
  <2>4. ~Join /\ ~Close /\ \A t \in Senders : ~Send(t)
    BY <2>1 DEF Join, DoneTaken, Close, Send
  <2>5. UNCHANGED main
    BY <2>3, <2>4 DEF Next, Run, Scan, Sleep, Dequeue, RunMessage, vars, sendVars
  <2> QED
    BY <1>4, <2>1, <2>5
<1>5. UNCHANGED stream \/ Dequeue \/ \E t \in Senders : Enqueue(t)
  BY DEF Next, InSend, Run, Send, Close, Join, Search, Register, TestFull,
         Resize, ResizeFails, Release, GiveUp, TestRoom, Create, CreateFails,
         Insert, EnqueueFails, Scan, Sleep, RunMessage, Queue!Return, vars, queueVars
<1> QED
  BY <1>2, <1>3, <1>4, <1>5

\* What Seen says, for numbers.
LEMMA SeenSays ==
    ASSUME Inv, Seen, run = "scan", scan.found > 0
    PROVE  \E b \in 1 .. Len(owner), z \in Nat \ {0} :
             /\ b = scan.best /\ z = scan.size /\ b > scan.at
             /\ b \in Producers /\ z <= Len(stream[b]) /\ Len(stream[b]) \in Nat
             /\ stream[b] = <<Done>> =>
                  \A q \in scan.at + 1 .. b - 1 : Len(stream[q]) <= z
<1>1. /\ scan \in [at : Nat, found : Nat, best : Nat, size : Nat] /\ Len(owner) \in Nat
      /\ stream \in [Producers -> Seq(Senders \X Nat)]
  BY DEF Inv, Typed, TypedRun, TypedQueue, TypedHash
<1>2. PICK b \in 1 .. Len(owner) : b = scan.best /\ b > scan.at
  BY <1>1 DEF Seen
<1>3. b \in Producers
  BY StreamsSuffice DEF Inv, Typed, TypedHash
<1>4. Len(stream[b]) \in Nat
  BY <1>1, <1>3
<1>5. PICK z \in Nat \ {0} : z = scan.size /\ z <= Len(stream[b])
  BY <1>1, <1>2, <1>4 DEF Seen
<1>6. stream[b] = <<Done>> => \A q \in scan.at + 1 .. b - 1 : Len(stream[q]) <= z
  BY <1>2, <1>5 DEF Seen
<1> QED
  BY <1>2, <1>3, <1>4, <1>5, <1>6

\* Streams that do not end and a list that grows keep what the scan knows.
LEMMA SeenStays ==
    ASSUME Inv, Seen, [Next]_vars, UNCHANGED <<run, scan>>,
           \A r \in 1 .. Len(owner) : stream[r] # <<>> => stream'[r] # <<>>,
           \A b \in 1 .. Len(owner) :
             stream'[b] = <<Done>> /\ stream[b] # <<>> => UNCHANGED stream,
           \A b \in 1 .. Len(owner) : /\ Len(stream'[b]) \in Nat
                                      /\ Len(stream[b]) <= Len(stream'[b])
    PROVE  Seen'
<1> SUFFICES ASSUME run = "scan" PROVE Seen'
  BY DEF Seen
<1>1. /\ scan \in [at : Nat, found : Nat, best : Nat, size : Nat]
      /\ Len(owner) \in Nat /\ Len(owner') \in Nat /\ Len(owner) <= Len(owner')
      /\ stream \in [Producers -> Seq(Senders \X Nat)]
  BY OwnerKeeps DEF Inv, Typed, TypedRun, TypedQueue
<1>2. PICK n \in Nat \ {0} : n = scan.at + 1
  BY <1>1
<1>3. Full(n) \subseteq Full(n)'
  <2> SUFFICES ASSUME NEW r \in n .. Len(owner), stream[r] # <<>>
               PROVE  r \in n .. Len(owner') /\ stream'[r] # <<>>
    BY DEF Full
  <2>1. r \in 1 .. Len(owner) /\ r \in n .. Len(owner')
    BY <1>1
  <2> QED
    BY <2>1
<1>4. IsFiniteSet(Full(n)') /\ Cardinality(Full(n)') \in Nat
  <2>1. Full(n)' \subseteq n .. Len(owner')
    BY DEF Full
  <2>2. IsFiniteSet(n .. Len(owner'))
    BY <1>1, FS_Interval
  <2> QED
    BY <2>1, <2>2, FS_Subset, FS_CardinalityType
<1>5. Cardinality(Full(n)) <= Cardinality(Full(n)') /\ Cardinality(Full(n)) \in Nat
  BY <1>3, <1>4, FullFinite, FS_Subset
<1>6. scan.found <= Cardinality(Full(n)')
  BY <1>1, <1>2, <1>4, <1>5 DEF Seen
<1>7. ASSUME scan.found > 0
      PROVE  /\ scan.best \in scan.at + 1 .. Len(owner')
             /\ scan.size \in 1 .. Len(stream'[scan.best])
             /\ stream'[scan.best] = <<Done>> =>
                  \A q \in scan.at + 1 .. scan.best - 1 : Len(stream'[q]) <= scan.size
  <2>1. PICK b \in 1 .. Len(owner), z \in Nat \ {0} :
             /\ b = scan.best /\ z = scan.size /\ b > scan.at
             /\ b \in Producers /\ z <= Len(stream[b]) /\ Len(stream[b]) \in Nat
             /\ stream[b] = <<Done>> =>
                  \A q \in scan.at + 1 .. b - 1 : Len(stream[q]) <= z
    BY <1>7, SeenSays
  <2>2. b \in scan.at + 1 .. Len(owner')
    BY <1>1, <2>1
  <2>3. z \in 1 .. Len(stream'[b])
    BY <2>1
  <2>4. ASSUME stream'[b] = <<Done>>
        PROVE  \A q \in scan.at + 1 .. b - 1 : Len(stream'[q]) <= z
    <3>1. stream[b] # <<>>
      BY <1>1, <2>1
    <3>2. UNCHANGED stream
      BY <2>4, <3>1
    <3> QED
      BY <2>1, <2>4, <3>2
  <2> QED
    BY <2>1, <2>2, <2>3, <2>4
<1> QED
  BY <1>2, <1>6, <1>7 DEF Seen, Full

\* The scan looks at one more stream.
LEMMA ScanSeen ==
    ASSUME Inv, Seen, Scan
    PROVE  Seen'
<1>1. /\ scan \in [at : Nat, found : Nat, best : Nat, size : Nat]
      /\ Len(owner) \in Nat
      /\ stream \in [Producers -> Seq(Senders \X Nat)]
      /\ Scanning /\ run = "scan"
  BY DEF Inv, Typed, TypedRun, TypedQueue, TypedHash, Scan
<1>2. PICK k \in 1 .. Len(owner) : k = scan.at
  BY <1>1 DEF Scan, Scanning
<1>3. k \in Producers
  BY StreamsSuffice DEF Inv, Typed, TypedHash
<1>4. PICK n \in Nat : n = Len(stream[k])
  BY <1>1, <1>3
<1>5. /\ UNCHANGED <<owner, stream>>
      /\ scan' = [at    |-> k - 1,
                  found |-> scan.found + (IF n > 0 THEN 1 ELSE 0),
                  best  |-> IF n > scan.size THEN k ELSE scan.best,
                  size  |-> IF n > scan.size THEN n ELSE scan.size]
  BY <1>2, <1>4 DEF Scan, hashVars, queueVars
<1>6. scan'.found <= Cardinality(Full(k))
  <2>1. /\ IsFiniteSet(Full(k + 1)) /\ Cardinality(Full(k + 1)) \in Nat
        /\ IsFiniteSet(Full(k)) /\ Cardinality(Full(k)) \in Nat
    BY FullFinite
  <2>2. scan.found <= Cardinality(Full(k + 1))
    BY <1>1, <1>2 DEF Seen
  <2>3. CASE n > 0
    <3>1. Full(k) = Full(k + 1) \cup {k} /\ k \notin Full(k + 1)
      <4>1. stream[k] # <<>>
        BY <1>4, <2>3
      <4>2. k .. Len(owner) = (k + 1 .. Len(owner)) \cup {k}
        BY <1>1
      <4>3. k \notin k + 1 .. Len(owner)
        OBVIOUS
      <4> QED
        BY <4>1, <4>2, <4>3 DEF Full
    <3>2. Cardinality(Full(k)) = Cardinality(Full(k + 1)) + 1
      BY <2>1, <3>1, FS_AddElement
    <3>3. scan'.found = scan.found + 1
      BY <1>5, <2>3
    <3> QED
      BY <1>1, <2>1, <2>2, <3>2, <3>3
  <2>4. CASE ~(n > 0)
    <3>1. Full(k + 1) \subseteq Full(k)
      BY <1>1 DEF Full
    <3>2. Cardinality(Full(k + 1)) <= Cardinality(Full(k))
      BY <2>1, <3>1, FS_Subset
    <3>3. scan'.found = scan.found
      BY <1>1, <1>5, <2>4
    <3> QED
      BY <1>1, <2>1, <2>2, <3>2, <3>3
  <2> QED
    BY <2>3, <2>4
<1>7. ASSUME scan'.found > 0
      PROVE  /\ scan'.best \in k .. Len(owner)
             /\ scan'.size \in 1 .. Len(stream[scan'.best])
             /\ stream[scan'.best] = <<Done>> =>
                  \A q \in k .. scan'.best - 1 : Len(stream[q]) <= scan'.size
  <2>1. CASE n > scan.size
    <3>1. scan'.best = k /\ scan'.size = n
      BY <1>5, <2>1
    <3>2. n >= 1
      BY <1>1, <2>1
    <3>3. k \in k .. Len(owner) /\ n \in 1 .. Len(stream[k])
      BY <1>4, <3>2
    <3>4. \A q \in k .. k - 1 : FALSE
      OBVIOUS
    <3> QED
      BY <3>1, <3>3, <3>4
  <2>2. CASE ~(n > scan.size)
    <3>1. scan'.best = scan.best /\ scan'.size = scan.size
      BY <1>5, <2>2
    <3>2. scan.found > 0
      <4>1. CASE n > 0
        BY <1>1, <2>2, <4>1 DEF Scanning
      <4>2. CASE ~(n > 0)
        BY <1>1, <1>5, <1>7, <4>2
      <4> QED
        BY <4>1, <4>2
    <3>3. PICK b \in 1 .. Len(owner), z \in Nat \ {0} :
             /\ b = scan.best /\ z = scan.size /\ b > scan.at
             /\ b \in Producers /\ z <= Len(stream[b]) /\ Len(stream[b]) \in Nat
             /\ stream[b] = <<Done>> =>
                  \A q \in scan.at + 1 .. b - 1 : Len(stream[q]) <= z
      BY <1>1, <3>2, SeenSays
    <3>4. b \in k .. Len(owner) /\ z \in 1 .. Len(stream[b])
      BY <1>2, <3>3
    <3>5. ASSUME stream[b] = <<Done>>, NEW q \in k .. b - 1
          PROVE  Len(stream[q]) <= z
      <4>1. CASE q = k
        BY <1>4, <2>2, <3>3, <4>1
      <4>2. CASE q # k
        <5>1. q \in scan.at + 1 .. b - 1
          BY <1>2, <4>2
        <5> QED
          BY <3>3, <3>5, <5>1
      <4> QED
        BY <4>1, <4>2
    <3> QED
      BY <3>1, <3>3, <3>4, <3>5
  <2> QED
    BY <2>1, <2>2
<1>8. scan'.at + 1 = k
  BY <1>5
<1> QED
  BY <1>5, <1>6, <1>7, <1>8 DEF Seen, Full

\* Every step keeps what the scan knows.
LEMMA SeenStep == Inv /\ Closing /\ [Next]_vars => Seen'
<1> SUFFICES ASSUME Inv, Closing, [Next]_vars PROVE Seen'
  OBVIOUS
<1>1. /\ stream \in [Producers -> Seq(Senders \X Nat)] /\ Seen
      /\ Len(owner) \in Nat /\ 1 .. Len(owner) \subseteq Producers
  BY StreamsSuffice DEF Inv, Typed, TypedHash, TypedQueue, Closing
<1>2. ASSUME NEW t \in Senders, Enqueue(t) PROVE Seen'
  <2>1. PICK p \in Producers :
          /\ stream' = [stream EXCEPT ![p] = Append(@, Message(t))]
          /\ UNCHANGED <<run, scan>>
          /\ \A r \in Producers : \A j \in 1 .. Len(stream[r]) : stream[r][j] # Done
    BY <1>2, EnqueueIs DEF Closing
  <2>2. stream'[p] = Append(stream[p], Message(t))
        /\ \A q \in Producers : q # p => stream'[q] = stream[q]
    BY <1>1, <2>1
  <2>3. /\ Len(stream[p]) \in Nat /\ Len(stream'[p]) = Len(stream[p]) + 1
        /\ (stream[p] # <<>> => Len(stream[p]) >= 1)
    BY <1>1, <2>2
  <2>4. \A q \in 1 .. Len(owner) :
          /\ stream[q] # <<>> => stream'[q] # <<>>
          /\ Len(stream'[q]) \in Nat /\ Len(stream[q]) <= Len(stream'[q])
    <3> TAKE q \in 1 .. Len(owner)
    <3>1. CASE q = p
      <4>1. stream'[p] # <<>>
        BY <2>3
      <4> QED
        BY <2>3, <3>1, <4>1
    <3>2. CASE q # p
      <4>1. stream'[q] = stream[q] /\ stream[q] \in Seq(Senders \X Nat)
        BY <1>1, <2>2, <3>2
      <4>2. Len(stream[q]) \in Nat
        BY <4>1
      <4> QED
        BY <4>1, <4>2
    <3> QED
      BY <3>1, <3>2
  <2>5. \A q \in 1 .. Len(owner) : ~(stream'[q] = <<Done>> /\ stream[q] # <<>>)
    <3> SUFFICES ASSUME NEW q \in 1 .. Len(owner), stream'[q] = <<Done>>, stream[q] # <<>>
                 PROVE  FALSE
      OBVIOUS
    <3>1. CASE q = p
      <4>1. stream'[p] = <<Done>> /\ stream[p] # <<>>
        BY <3>1
      <4>2. Len(<<Done>>) = 1
        OBVIOUS
      <4>3. Len(stream'[p]) = 1
        BY <4>1, <4>2
      <4> QED
        BY <2>3, <4>1, <4>3
    <3>2. CASE q # p
      <4>1. stream[q] = <<Done>>
        BY <1>1, <2>2, <3>2
      <4>2. Len(stream[q]) = 1 /\ stream[q][1] = Done
        BY <4>1
      <4>3. 1 \in 1 .. Len(stream[q]) /\ q \in Producers
        BY <1>1, <4>2
      <4> QED
        BY <2>1, <4>2, <4>3
    <3> QED
      BY <3>1, <3>2
  <2> QED
    BY <1>1, <2>1, <2>4, <2>5, SeenStays
<1>3. ASSUME UNCHANGED <<stream, run, scan>> PROVE Seen'
  <2>1. \A q \in 1 .. Len(owner) : Len(stream'[q]) \in Nat /\ Len(stream[q]) <= Len(stream'[q])
    <3> TAKE q \in 1 .. Len(owner)
    <3>1. stream[q] \in Seq(Senders \X Nat) /\ stream'[q] = stream[q]
      BY <1>1, <1>3
    <3>2. Len(stream[q]) \in Nat
      BY <3>1
    <3> QED
      BY <3>1, <3>2
  <2> QED
    BY <1>1, <1>3, <2>1, SeenStays
<1>4. CASE Scan
  BY <1>1, <1>4, ScanSeen
<1>5. CASE Sleep \/ RunMessage
  <2>1. run' = "stopped" \/ (run' = "scan" /\ scan' = [NoScan EXCEPT !.at = Len(owner)]
                              /\ UNCHANGED owner)
    BY <1>5 DEF Sleep, RunMessage, TryDequeue, hashVars
  <2>2. CASE run' = "stopped"
    BY <2>2 DEF Seen
  <2>3. CASE run' = "scan" /\ scan' = [NoScan EXCEPT !.at = Len(owner)] /\ UNCHANGED owner
    <3>1. scan'.found = 0 /\ scan'.at = Len(owner)
      BY <2>3 DEF NoScan
    <3>2. Full(Len(owner) + 1)' = {}
      <4>1. Len(owner) + 1 .. Len(owner) = {}
        BY <1>1
      <4> QED
        BY <2>3, <4>1 DEF Full
    <3>3. Cardinality(Full(scan.at + 1)') = 0
      BY <2>3, <3>1, <3>2, FS_EmptySet DEF Full
    <3> QED
      BY <3>1, <3>3 DEF Seen
  <2> QED
    BY <2>1, <2>2, <2>3
<1>6. CASE Dequeue
  <2>1. run' = "message"
    BY <1>6 DEF Dequeue
  <2> QED
    BY <2>1 DEF Seen
<1>7. \/ UNCHANGED <<stream, run, scan>> \/ Scan \/ Sleep \/ RunMessage \/ Dequeue
      \/ \E t \in Senders : Enqueue(t)
  BY DEF Next, InSend, Run, Send, Close, Join, Search, Register, TestFull,
         Resize, ResizeFails, Release, GiveUp, TestRoom, Create, CreateFails,
         Insert, EnqueueFails, vars, queueVars, runVars
<1> QED
  BY <1>2, <1>3, <1>4, <1>5, <1>6, <1>7

\* What the logger leaves when it takes its last message.
LEMMA LossLeft ==
    ASSUME Inv, Closing, Dequeue, hand'["logger"] = Done
    PROVE  Loss' /\ main' = "joining"
<1>1. /\ stream \in [Producers -> Seq(Senders \X Nat)] /\ owner \in Seq(Senders)
      /\ Len(owner) \in Nat /\ 1 .. Len(owner) \subseteq Producers
      /\ scan \in [at : Nat, found : Nat, best : Nat, size : Nat]
  BY StreamsSuffice DEF Inv, Typed, TypedHash, TypedQueue, TypedRun
<1>2. PICK p \in 1 .. Len(owner) :
             /\ p \in Producers /\ p = scan.best
             /\ stream[p] \in Seq(Senders \X Nat) /\ stream[p] # <<>>
             /\ stream'[p] = Tail(stream[p])
             /\ \A q \in Producers : q # p => stream'[q] = stream[q]
             /\ hand'["logger"] = stream[p][1]
             /\ run' = "message" /\ UNCHANGED <<owner, main, pc>>
  BY DequeueIs
<1>3. 1 \in 1 .. Len(stream[p]) /\ stream[p][1] = Done
  BY <1>2
<1>4. owner[p] = Main /\ Len(stream[p]) = 1 /\ main = "joining"
  BY <1>2, <1>3, DoneWaits
<1>5. stream[p] = <<Done>> /\ stream'[p] = <<>>
  <2>1. stream[p] = <<stream[p][1]>>
    BY <1>2, <1>4
  <2>2. stream[p] = <<Done>>
    BY <1>3, <2>1
  <2>3. Tail(<<Done>>) = <<>>
    OBVIOUS
  <2> QED
    BY <1>2, <2>2, <2>3
<1>6. run = "scan" /\ scan.found > 0 /\ (scan.at = 0 \/ scan.found = 3)
  BY DEF Dequeue, Scanned
<1>7. PICK b \in 1 .. Len(owner), z \in Nat \ {0} :
             /\ b = scan.best /\ z = scan.size /\ b > scan.at
             /\ b \in Producers /\ z <= Len(stream[b]) /\ Len(stream[b]) \in Nat
             /\ stream[b] = <<Done>> =>
                  \A q \in scan.at + 1 .. b - 1 : Len(stream[q]) <= z
  BY <1>6, SeenSays DEF Closing
<1>8. b = p /\ z = 1
  <2>1. b = p
    BY <1>2, <1>7
  <2>2. z <= 1
    BY <1>4, <1>7, <2>1
  <2> QED
    BY <2>1, <2>2
<1>9. ASSUME NEW q \in 1 .. p - 1, Len(stream'[q]) > 1
      PROVE  Cardinality({r \in q + 1 .. Len(owner) : r = p \/ stream'[r] # <<>>}) >= 3
  <2> DEFINE R == {r \in q + 1 .. Len(owner) : r = p \/ stream'[r] # <<>>}
  <2> HIDE DEF R
  <2>1. q \in Producers /\ q # p /\ q \in Nat
    <3>1. q \in Nat /\ q < p /\ q >= 1 /\ p \in Nat /\ p <= Len(owner)
      BY <1>1
    <3>2. q \in 1 .. Len(owner)
      BY <1>1, <3>1
    <3> QED
      BY <1>1, <3>1, <3>2
  <2>2. stream'[q] = stream[q]
    BY <1>2, <2>1
  <2>3. q <= scan.at
    <3>1. ~(q \in scan.at + 1 .. p - 1)
      <4> SUFFICES ASSUME q \in scan.at + 1 .. p - 1 PROVE FALSE
        OBVIOUS
      <4>1. Len(stream[q]) <= 1
        BY <1>5, <1>7, <1>8
      <4>2. Len(stream[q]) \in Nat
        BY <1>1, <2>1
      <4> QED
        BY <1>9, <2>2, <4>1, <4>2
    <3> QED
      BY <1>1, <2>1, <3>1
  <2>4. scan.found = 3
    BY <1>6, <2>1, <2>3
  <2>5. PICK n \in Nat : n = scan.at + 1
    BY <1>1
  <2>6. 3 <= Cardinality(Full(n))
    BY <1>6, <2>4, <2>5 DEF Closing, Seen
  <2>7. Full(n) \subseteq R
    <3> SUFFICES ASSUME NEW r \in n .. Len(owner), stream[r] # <<>>, r # p
                 PROVE  r \in q + 1 .. Len(owner) /\ stream'[r] # <<>>
      BY SMTT(40), <1>1, <2>1, <2>3, <2>5 DEF Full, R
    <3>1. r \in q + 1 .. Len(owner) /\ r \in 1 .. Len(owner)
      BY <1>1, <2>1, <2>3, <2>5
    <3>2. stream'[r] = stream[r]
      BY <1>1, <1>2, <3>1
    <3> QED
      BY <3>1, <3>2
  <2>8. IsFiniteSet(R)
    <3>1. R \subseteq q + 1 .. Len(owner)
      BY DEF R
    <3>2. q + 1 \in Int /\ Len(owner) \in Int
      BY <1>1, <2>1
    <3>3. IsFiniteSet(q + 1 .. Len(owner))
      BY <3>2, FS_Interval
    <3> QED
      BY <3>1, <3>3, FS_Subset
  <2>9. /\ Cardinality(Full(n)) <= Cardinality(R)
        /\ Cardinality(Full(n)) \in Nat /\ Cardinality(R) \in Nat
    BY <2>7, <2>8, FullFinite, FS_Subset, FS_CardinalityType
  <2>10. Cardinality(R) >= 3
    BY <2>6, <2>9
  <2> QED
    BY <2>10 DEF R
<1>10. Loss'
  <2> SUFFICES ASSUME NEW s \in 1 .. Len(owner'), owner'[s] = Main
               PROVE  /\ stream'[s] = <<>>
                      /\ \A q \in 1 .. s - 1 : Len(stream'[q]) > 1 =>
                           Cardinality({r \in q + 1 .. Len(owner') :
                                          r = s \/ stream'[r] # <<>>}) >= 3
    BY DEF Loss
  <2>1. s = p
    BY <1>2, <1>4 DEF Inv, OneStream
  <2> QED
    BY <1>2, <1>5, <1>9, <2>1
<1> QED
  BY <1>2, <1>4, <1>10

\* Every step keeps what is left when the logger has its last message.
LEMMA EndedStep == Inv /\ Closing /\ [Next]_vars => Ended'
<1> SUFFICES ASSUME Inv, Closing, [Next]_vars PROVE Ended'
  OBVIOUS
<1>1. CASE DoneTaken
  <2>1. main \in {"joining", "closed"} /\ Loss
    BY <1>1 DEF Closing, Ended
  <2>2. \A t \in Senders : pc[t] = "idle"
    BY <2>1 DEF Closing, Quiet
  <2>3. \A t \in Senders : ~InSend(t) /\ ~Send(t)
    BY <2>1, <2>2 DEF Send, InSend, Search, Register, TestFull, Resize, ResizeFails,
       Release, GiveUp, TestRoom, Create, CreateFails, Insert, Enqueue, EnqueueFails
  <2>4. ~Close /\ ~Scan /\ ~Sleep /\ ~Dequeue
    BY <1>1, <2>1 DEF Close, Scan, Sleep, Dequeue, Scanned, DoneTaken
  <2>5. Join \/ RunMessage \/ UNCHANGED vars
    BY <2>3, <2>4 DEF Next, Run
  <2>6. UNCHANGED <<stream, owner>>
    BY <2>5 DEF Join, RunMessage, Queue!Return, vars, hashVars, queueVars
  <2>7. Loss'
    BY <2>1, <2>6 DEF Loss
  <2>8. main' \in {"joining", "closed"} /\ (main' = "closed" => run' = "stopped")
    <3>1. CASE Join
      BY <3>1 DEF Join, runVars
    <3>2. CASE RunMessage
      <4>1. run = "message" /\ UNCHANGED main
        BY <3>2 DEF RunMessage, sendVars
      <4>2. main # "closed"
        BY <4>1 DEF Closing, Ended
      <4> QED
        BY <2>1, <4>1, <4>2
    <3>3. CASE UNCHANGED vars
      BY <2>1, <3>3 DEF vars, sendVars, runVars, Closing, Ended
    <3> QED
      BY <2>5, <3>1, <3>2, <3>3
  <2> QED
    BY <2>7, <2>8 DEF Ended
<1>2. CASE ~DoneTaken
  <2>1. main # "closed"
    BY <1>2 DEF Closing, Ended, DoneTaken
  <2>2. main' # "closed"
    <3>1. ~Join
      BY <1>2 DEF Join, DoneTaken
    <3>2. ASSUME NEW t \in Senders, InSend(t) PROVE main' # "closed"
      BY <2>1, <3>2 DEF InSend, Search, Register, TestFull, Resize, ResizeFails,
         Release, GiveUp, TestRoom, Create, CreateFails, Insert, Enqueue,
         EnqueueFails, Return
    <3> QED
      BY <2>1, <3>1, <3>2 DEF Next, Send, Close, Run, Scan, Sleep, Dequeue, RunMessage,
         sendVars, vars
  <2>3. ASSUME DoneTaken' PROVE Dequeue /\ hand'["logger"] = Done
    <3>1. ASSUME UNCHANGED <<run, hand>> PROVE FALSE
      BY <1>2, <2>3, <3>1 DEF DoneTaken
    <3>2. ~Scan /\ ~Sleep
      <4>1. Scan \/ Sleep => run' = "scan"
        BY DEF Scan, Sleep, TryDequeue
      <4> QED
        BY <2>3, <4>1 DEF DoneTaken
    <3>3. ~RunMessage
      <4>1. RunMessage => run' = "scan"
        BY <1>2 DEF RunMessage, DoneTaken, TryDequeue
      <4> QED
        BY <2>3, <4>1 DEF DoneTaken
    <3>4. \/ UNCHANGED <<run, hand>> \/ Scan \/ Sleep \/ RunMessage \/ Dequeue
      BY DEF Next, InSend, Run, Send, Close, Join, Search, Register, TestFull,
         Resize, ResizeFails, Release, GiveUp, TestRoom, Create, CreateFails, Enqueue,
         Queue!Enqueue, Insert, EnqueueFails, vars, queueVars, runVars
    <3>5. Dequeue
      BY <3>1, <3>2, <3>3, <3>4
    <3>6. run' = "message"
      BY <3>5 DEF Dequeue
    <3> QED
      BY <2>3, <3>5, <3>6 DEF DoneTaken
  <2> QED
    BY <2>2, <2>3, LossLeft DEF Ended
<1> QED
  BY <1>1, <1>2

\* When ~Logger has joined its thread, the stream of the main thread is empty, and an
\* earlier stream that still has two messages or more is followed by two others that
\* try_dequeue preferred: the message that stops the thread overtakes no more than that.
THEOREM LittleIsLost == Spec => []LossBounded
<1>1. Init => Closing
  <2> SUFFICES ASSUME Init PROVE Closing
    OBVIOUS
  <2>1. \A p \in Producers : Len(stream[p]) = 0
    BY DEF Init, Queue!Init
  <2>2. Quiet /\ DoneLast
    BY <2>1 DEF Init, Quiet, DoneLast
  <2>3. scan.found = 0 /\ scan.at = 0 /\ owner = <<>> /\ run = "scan" /\ main = "open"
    BY DEF Init, NoScan
  <2>4. Full(scan.at + 1) = {}
    BY <2>3 DEF Full
  <2>5. Seen
    <3>1. Cardinality(Full(scan.at + 1)) = 0
      BY <2>4, FS_EmptySet
    <3> QED
      BY <2>3, <3>1 DEF Seen
  <2>6. Ended
    BY <2>3 DEF Ended, DoneTaken
  <2> QED
    BY <2>2, <2>5, <2>6 DEF Closing
<1>2. Inv /\ Closing /\ [Next]_vars => Closing'
  BY QuietStep, DoneLastStep, SeenStep, EndedStep DEF Closing
<1>3. Closing => LossBounded
  BY DEF Closing, Ended, DoneTaken, Loss, LossBounded
<1> QED
  BY <1>1, <1>2, <1>3, InitInv, InvStep, PTL DEF Spec

=============================================================================
