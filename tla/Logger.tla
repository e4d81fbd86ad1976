------------------------------- MODULE Logger -------------------------------
(***************************************************************************)
(* The logger: an Active with a thread that prints, and the queue that     *)
(* takes it the messages of the other threads.  A thread that sends for    *)
(* the first time adds a producer to the list of the queue and itself to a *)
(* hash table, which is replaced by a larger one, while others use it,     *)
(* when it fills up.  The streams of the producers are MessageStreams'.    *)
(*                                                                         *)
(* A thread only reads its own entries of the tables, and an entry stays,  *)
(* so that a search, or the search for a free entry and its                *)
(* compare-exchange, is one action.                                        *)
(***************************************************************************)
EXTENDS Integers, Sequences, SequencesExt, FiniteSets

CONSTANTS
    Senders,     \* the threads that log
    Main,        \* the one that destroys the logger
    HashOf,      \* hash_thread_id of each
    HashSize,    \* INITIAL_IMPLICIT_PRODUCER_HASH_SIZE
    None,        \* no entry, no message
    Workloads    \* bound: the messages of each sender, and the allocations and
                 \* copies that fail

ASSUME LoggerAssumption ==
    /\ IsFiniteSet(Senders) /\ Main \in Senders
    /\ HashOf \in [Senders -> Nat]
    /\ HashSize \in Nat \ {0}
    /\ Workloads \subseteq [messages : [Senders -> Nat], faults : Nat]
    /\ None \notin Senders \X Nat

\* The numbers of the producers, and the message that sets done_.
Producers == 1 .. 2 * Cardinality(Senders)
Done == <<Main, 0>>

VARIABLES
    tables,   \* implicitProducerHash: the current table last
    count,    \* implicitProducerHashCount
    resizing, \* implicitProducerHashResizeInProgress
    owner,    \* the list of producers, oldest first: the thread of each
    stream,   \* of each producer: the messages that wait
    hand,     \* the message that the thread of the logger runs
    pc,       \* of each sender: where it is in Send
    loc,      \* its locals: mainHash, newCount and producer
    sent,     \* how many messages it sent
    main,     \* the main thread: "open", then in the destructor of Active
    run,      \* where the thread of the logger is
    scan,     \* its locals in try_dequeue
    printed,  \* of each sender: the last message that was printed
    work      \* the messages and the faults that are left

hashVars == <<tables, count, resizing, owner>>
queueVars == <<stream, hand>>
sendVars == <<pc, loc, sent, main>>
runVars == <<run, scan, printed>>
vars == <<hashVars, queueVars, sendVars, runVars, work>>

Queue == INSTANCE MessageStreams WITH
    Consumers <- {"logger"},
    Messages <- [p \in Producers |->
                   UNION {{t} \X Nat : t \in Senders}],
    NoMessage <- None

Table(size) == [i \in 0 .. size - 1 |-> None]
NoLocals == [table |-> 0, count |-> 0, producer |-> 0]
NoScan == [at |-> 0, found |-> 0, best |-> 0, size |-> 0]

Init ==
    /\ tables = <<Table(HashSize)>>
    /\ count = 0
    /\ resizing = FALSE
    /\ owner = <<>>
    /\ Queue!Init
    /\ pc = [t \in Senders |-> "idle"]
    /\ loc = [t \in Senders |-> NoLocals]
    /\ sent = [t \in Senders |-> 0]
    /\ main = "open"
    /\ run = "scan"
    /\ scan = NoScan
    /\ printed = [t \in Senders |-> 0]
    /\ work \in Workloads

Goto(t, l) == pc' = [pc EXCEPT ![t] = l]

Fault == work.faults > 0 /\ work' = [work EXCEPT !.faults = @ - 1]

-----------------------------------------------------------------------------
(***************************************************************************)
(* The tables.                                                              *)
(***************************************************************************)

Capacity(h) == Cardinality(DOMAIN tables[h])

\* The slots of table h from the hash of t on, and the one where t, or where
\* nobody is.
Probe(t, h, i) == (HashOf[t] + i) % Capacity(h)
FreeSlots(t, h) == {i \in DOMAIN tables[h] : tables[h][Probe(t, h, i)] = None}
FirstFree(t, h) ==
    Probe(t, h, CHOOSE i \in FreeSlots(t, h) :
                  \A j \in FreeSlots(t, h) : i <= j)

\* t finds itself in table h: no slot before its own is free.
In(t, h) == \E i \in DOMAIN tables[h] :
    /\ tables[h][Probe(t, h, i)] # None /\ tables[h][Probe(t, h, i)][1] = t
    /\ \A j \in 0 .. i - 1 : tables[h][Probe(t, h, j)] # None

\* The producer of t in table h.
Value(t, h) ==
    LET i == CHOOSE i \in DOMAIN tables[h] :
               tables[h][i] # None /\ tables[h][i][1] = t
    IN tables[h][i][2]

Put(t, h, p) == tables' = [tables EXCEPT ![h][FirstFree(t, h)] = <<t, p>>]

\* Mutant of Found: the tables that were replaced are not searched.
FoundCurrent(t) == {h \in {loc[t].table} : In(t, h)}

\* The tables up to the one that t took for the current one where t is.
Found(t) == {h \in 1 .. loc[t].table : In(t, h)}

-----------------------------------------------------------------------------
(***************************************************************************)
(* Send: get_or_add_implicit_producer and enqueue.                          *)
(***************************************************************************)

\* The call begins: the current table is loaded.
Call(t) ==
    /\ loc' = [loc EXCEPT ![t].table = Len(tables)]
    /\ Goto(t, "search")

Send(t) ==
    /\ main = "open" /\ pc[t] = "idle" /\ work.messages[t] > 0
    /\ work' = [work EXCEPT !.messages[t] = @ - 1]
    /\ sent' = [sent EXCEPT ![t] = @ + 1]
    /\ Call(t)
    /\ UNCHANGED <<hashVars, queueVars, main, runVars>>

\* The destructor of Active, when the main thread has joined the others, sends
\* the message that ends the thread of the logger ...
Close ==
    /\ main = "open" /\ \A t \in Senders : pc[t] = "idle"
    /\ main' = "closing"
    /\ Call(Main)
    /\ UNCHANGED <<hashVars, queueVars, sent, runVars, work>>

\* ... and joins that thread.
Join ==
    /\ main = "joining" /\ run = "stopped"
    /\ main' = "closed"
    /\ UNCHANGED <<hashVars, queueVars, pc, loc, sent, runVars, work>>

\* What t sends.
Message(t) == IF t = Main /\ main = "closing" THEN Done ELSE <<t, sent[t]>>

\* enqueue returns to Send, which looks at no result.
Return(t) ==
    /\ Goto(t, "idle")
    /\ loc' = [loc EXCEPT ![t] = NoLocals]
    /\ main' = IF t = Main /\ main = "closing" THEN "joining" ELSE main

\* t is in a table: if in an older one, it adds itself to the current one.
Search(t) ==
    LET h == Max(Found(t)) IN
    /\ pc[t] = "search" /\ Found(t) # {}
    /\ loc' = [loc EXCEPT ![t] = [NoLocals EXCEPT !.producer = Value(t, h)]]
    /\ IF h = loc[t].table THEN UNCHANGED tables
       ELSE /\ FreeSlots(t, loc[t].table) # {}
            /\ Put(t, loc[t].table, Value(t, h))
    /\ Goto(t, "enqueue")
    /\ UNCHANGED <<count, resizing, owner, queueVars, sent, main, runVars,
                   work>>

\* t is in no table.
Register(t) ==
    /\ pc[t] = "search" /\ Found(t) = {}
    /\ count' = count + 1
    /\ loc' = [loc EXCEPT ![t].count = count + 1]
    /\ Goto(t, "full")
    /\ UNCHANGED <<tables, resizing, owner, queueVars, sent, main, runVars,
                   work>>

HalfFull(t, h) == loc[t].count >= Capacity(h) \div 2

\* A table that is half full is replaced by the thread that gets the flag.
TestFull(t) ==
    /\ pc[t] = "full"
    /\ IF HalfFull(t, loc[t].table) /\ ~resizing
       THEN resizing' = TRUE /\ Goto(t, "resize")
       ELSE Goto(t, "room") /\ UNCHANGED resizing
    /\ UNCHANGED <<tables, count, owner, queueVars, loc, sent, main, runVars,
                   work>>

\* The capacity is doubled until the table is less than half full.
Larger(size, n) ==
    {c \in size .. size + 4 * n + 2 :
        /\ n < c \div 2
        /\ \E k \in 0 .. n : c = size * 2 ^ k /\ (k = 0 \/ n >= c \div 4)}

\* The holder of the flag looks again, and publishes a new table.
Resize(t) ==
    LET h == Len(tables) IN
    /\ pc[t] = "resize"
    /\ IF HalfFull(t, h)
       THEN /\ \E c \in Larger(2 * Capacity(h), loc[t].count) :
                 tables' = Append(tables, Table(c))
            /\ loc' = [loc EXCEPT ![t].table = h + 1]
       ELSE loc' = [loc EXCEPT ![t].table = h] /\ UNCHANGED tables
    /\ Goto(t, "release")
    /\ UNCHANGED <<count, resizing, owner, queueVars, sent, main, runVars,
                   work>>

\* Mutant of Release: the flag stays.
ReleaseNot(t) ==
    /\ pc[t] = "release"
    /\ Goto(t, "room")
    /\ UNCHANGED <<hashVars, queueVars, loc, sent, main, runVars, work>>

Release(t) ==
    /\ pc[t] = "release"
    /\ resizing' = FALSE
    /\ Goto(t, "room")
    /\ UNCHANGED <<tables, count, owner, queueVars, loc, sent, main, runVars,
                   work>>

\* The new table cannot be allocated: nullptr, and enqueue returns false.
ResizeFails(t) ==
    /\ pc[t] = "resize" /\ HalfFull(t, Len(tables))
    /\ Fault
    /\ count' = count - 1
    /\ Goto(t, "give_up")
    /\ UNCHANGED <<tables, resizing, owner, queueVars, loc, sent, main, runVars>>

\* Mutant of GiveUp: the count is taken back a second time.
GiveUpCounted(t) ==
    /\ pc[t] = "give_up"
    /\ resizing' = FALSE
    /\ count' = count - 1
    /\ Return(t)
    /\ UNCHANGED <<tables, owner, queueVars, sent, runVars, work>>

GiveUp(t) ==
    /\ pc[t] = "give_up"
    /\ resizing' = FALSE
    /\ Return(t)
    /\ UNCHANGED <<tables, count, owner, queueVars, sent, runVars, work>>

\* Mutant of TestRoom: the last slots of a table are used as well.
TestRoomToTheLast(t) ==
    /\ pc[t] = "room"
    /\ IF loc[t].count <= Capacity(loc[t].table)
       THEN Goto(t, "create") /\ loc' = [loc EXCEPT ![t].count = 0]
       ELSE /\ loc' = [loc EXCEPT ![t].table = Len(tables)]
            /\ Goto(t, "full")
    /\ UNCHANGED <<hashVars, queueVars, sent, main, runVars, work>>

\* A table that is three quarters full takes nobody: t waits for the next one.
TestRoom(t) ==
    LET size == Capacity(loc[t].table) IN
    /\ pc[t] = "room"
    /\ IF loc[t].count < size \div 2 + size \div 4
       THEN Goto(t, "create") /\ loc' = [loc EXCEPT ![t].count = 0]
       ELSE /\ loc' = [loc EXCEPT ![t].table = Len(tables)]
            /\ Goto(t, "full")
    /\ UNCHANGED <<hashVars, queueVars, sent, main, runVars, work>>

\* recycle_or_create_producer: no producer is ever inactive, as the threads do
\* not announce their end; add_producer makes the new one the first of the list.
\* Its block index is taken to be there, see Init of ImplicitQueue.
Create(t) ==
    /\ pc[t] = "create"
    /\ owner' = Append(owner, t)
    /\ loc' = [loc EXCEPT ![t].producer = Len(owner) + 1]
    /\ Goto(t, "insert")
    /\ UNCHANGED <<tables, count, resizing, queueVars, sent, main, runVars,
                   work>>

CreateFails(t) ==
    /\ pc[t] = "create"
    /\ Fault
    /\ count' = count - 1
    /\ Return(t)
    /\ UNCHANGED <<tables, resizing, owner, queueVars, sent, runVars>>

Insert(t) ==
    /\ pc[t] = "insert" /\ FreeSlots(t, loc[t].table) # {}
    /\ Put(t, loc[t].table, loc[t].producer)
    /\ loc' = [loc EXCEPT ![t].table = 0]
    /\ Goto(t, "enqueue")
    /\ UNCHANGED <<count, resizing, owner, queueVars, sent, main, runVars,
                   work>>

Enqueue(t) ==
    /\ pc[t] = "enqueue"
    /\ Queue!Enqueue(loc[t].producer, Message(t))
    /\ Return(t)
    /\ UNCHANGED <<hashVars, sent, runVars, work>>

\* The producer has no memory, and Send loses the message, or its copy throws,
\* which ends the process when it happens in the destructor.
EnqueueFails(t) ==
    /\ pc[t] = "enqueue"
    /\ Fault
    /\ \/ Return(t)
       \/ /\ t = Main /\ main = "closing"
          /\ main' = "terminated"
          /\ Goto(t, "idle")
          /\ loc' = [loc EXCEPT ![t] = NoLocals]
    /\ UNCHANGED <<hashVars, queueVars, sent, runVars>>

-----------------------------------------------------------------------------
(***************************************************************************)
(* Run, in the thread of the logger; it alone reads done_, and sets it.      *)
(***************************************************************************)

\* try_dequeue begins: it scans the producers, the newest first.
TryDequeue == run' = "scan" /\ scan' = [NoScan EXCEPT !.at = Len(owner)]

\* Mutant of Scan: the first stream that is not empty is taken.
ScanFirst ==
    LET n == Len(stream[scan.at]) IN
    /\ run = "scan" /\ scan.at > 0 /\ scan.found = 0
    /\ scan' = IF n = 0 THEN [scan EXCEPT !.at = @ - 1]
               ELSE [at |-> 0, found |-> 1, best |-> scan.at, size |-> n]
    /\ UNCHANGED <<hashVars, queueVars, sendVars, run, printed, work>>

\* The longest stream of the first three that are not empty is chosen.
Scan ==
    LET n == Len(stream[scan.at]) IN
    /\ run = "scan" /\ scan.at > 0 /\ scan.found < 3
    /\ scan' = [at    |-> scan.at - 1,
                found |-> scan.found + (IF n > 0 THEN 1 ELSE 0),
                best  |-> IF n > scan.size THEN scan.at ELSE scan.best,
                size  |-> IF n > scan.size THEN n ELSE scan.size]
    /\ UNCHANGED <<hashVars, queueVars, sendVars, run, printed, work>>

Scanned == run = "scan" /\ (scan.at = 0 \/ scan.found = 3)

\* All streams seemed empty: the thread sleeps and tries again.
Sleep ==
    /\ Scanned /\ scan.found = 0
    /\ TryDequeue
    /\ UNCHANGED <<hashVars, queueVars, sendVars, printed, work>>

\* Nobody else dequeues, so that the stream still has its first message.
Dequeue ==
    /\ Scanned /\ scan.found > 0
    /\ Queue!Dequeue("logger", scan.best)
    /\ run' = "message"
    /\ scan' = NoScan
    /\ UNCHANGED <<hashVars, sendVars, printed, work>>

\* The message runs: it prints, or sets done_, at which the loop looks.
RunMessage ==
    LET message == hand["logger"] IN
    /\ run = "message"
    /\ IF message = Done
       THEN run' = "stopped" /\ UNCHANGED <<scan, printed>>
       ELSE TryDequeue /\ printed' = [printed EXCEPT ![message[1]] = message[2]]
    /\ Queue!Return("logger")
    /\ UNCHANGED <<hashVars, sendVars, work>>

InSend(t) ==
    \/ Search(t) \/ Register(t) \/ TestFull(t) \/ Resize(t) \/ ResizeFails(t)
    \/ Release(t) \/ GiveUp(t) \/ TestRoom(t) \/ Create(t) \/ CreateFails(t)
    \/ Insert(t) \/ Enqueue(t) \/ EnqueueFails(t)

Run == Scan \/ Sleep \/ Dequeue \/ RunMessage

Next ==
    \/ \E t \in Senders : Send(t) \/ InSend(t)
    \/ Close \/ Join
    \/ Run

Spec == Init /\ [][Next]_vars

\* The system runs every thread that can run.
FairSpec ==
    /\ Spec
    /\ \A t \in Senders : WF_vars(InSend(t))
    /\ WF_vars(Run)
    /\ WF_vars(Join)

-----------------------------------------------------------------------------
(***************************************************************************)
(* Properties.                                                              *)
(***************************************************************************)

TypeOK ==
    /\ \A h \in 1 .. Len(tables) :
         \A i \in DOMAIN tables[h] :
           tables[h][i] = None \/ tables[h][i] \in Senders \X (1 .. Len(owner))
    /\ count \in Nat /\ resizing \in BOOLEAN
    /\ owner \in Seq(Senders)
    /\ pc \in [Senders -> {"idle", "search", "full", "resize", "release",
                           "give_up", "room", "create", "insert", "enqueue"}]
    /\ \A t \in Senders : loc[t].table \in 0 .. Len(tables)
    /\ main \in {"open", "closing", "joining", "closed", "terminated"}
    /\ run \in {"scan", "message", "stopped"}
    /\ scan.at \in 0 .. Len(owner) /\ scan.best \in 0 .. Len(owner)

\* A search ends: every table, those that were replaced too, keeps a free slot,
\* however many threads add themselves while a larger one is made.
TablesHaveRoom ==
    \A h \in 1 .. Len(tables) : \E i \in DOMAIN tables[h] : tables[h][i] = None

\* The messages of a thread are printed in the order in which it sent them: it
\* has one stream, whatever became of the tables.
PrintsInOrder ==
    [][\A t \in Senders :
         printed'[t] # printed[t] => printed'[t] > printed[t]]_vars

\* What the destructor leaves unprinted: nothing of the main thread; of a stream
\* that is older than its own one message, and more only when the scan had found
\* three streams before.  (A newer stream may have been passed when it was empty,
\* and can lose any number.)
LossBounded ==
    main = "closed" =>
      \A p \in 1 .. Len(owner) : owner[p] = Main =>
        /\ stream[p] = <<>>
        /\ \A q \in 1 .. p - 1 : Len(stream[q]) > 1 =>
             Cardinality({r \in q + 1 .. Len(owner) :
                            r = p \/ stream[r] # <<>>}) >= 3

\* When the threads send no more, every Send returns, nobody waits for ever for
\* a table, and every message is printed, the one of the destructor too, which
\* then ends; it waits for ever only if its message was lost.  (A thread that
\* sends without end could keep a shorter stream waiting.)
Pending == {p \in DOMAIN owner : stream[p] # <<>>}
Settles ==
    <>[](/\ \A t \in Senders : pc[t] = "idle"
         /\ IF run = "stopped" THEN main = "closed" ELSE Pending = {})
=============================================================================
