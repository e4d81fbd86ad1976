---------------------------- MODULE Server_proofs ----------------------------
(***************************************************************************)
(* The safety properties of Server, for every number of threads and clients. *)
(* The inductive invariant is Inv; every action has a lemma of its own.       *)
(***************************************************************************)
EXTENDS Server, FiniteSetTheorems, TLAPS

\* A session is read by the thread that serves it, or by one async_read, or by
\* nobody; a thread serves a session from its dispatch to the handler's return.
Single ==
    /\ \A c \in Clients : reader[c] <= 1
    /\ \A w \in Workers :
         serves[w] # None =>
             /\ pc[w] \in {"handle", "recv_ack"}
             /\ serves[w] \in Clients /\ reader[serves[w]] = 0
    /\ \A v, w \in Workers : serves[v] # None /\ serves[v] = serves[w] => v = w

\* One accept, outstanding or being completed.
Accepting ==
    /\ \A v, w \in Workers : pc[v] = "accepted" /\ pc[w] = "accepted" => v = w
    /\ accept # "none" => \A w \in Workers : pc[w] # "accepted"

\* Some thread waits for the acknowledgement of client c.
Awaited(c) == \E w \in Workers : pc[w] = "recv_ack" /\ serves[w] = c
HasAck(c) == \E i \in 1 .. Len(inbox[c]) : inbox[c][i] = "ack"
Awaits ==
    /\ \A c \in Clients : client[c] = "has part" \/ HasAck(c) => Awaited(c)
    /\ AcksReachHandler

\* As long as nothing was stopped and nothing failed there is an accept.
Accepts ==
    main = "pause" /\ faults = 0 =>
        /\ accept = "none" => \E w \in Workers : pc[w] = "accepted"
        /\ accept # "error"
        /\ \A w \in Workers : pc[w] # "returned"

Inv == TypeOK /\ Single /\ Accepting /\ Awaits /\ Accepts

\* Who serves c when an async_read of it is outstanding, or before it is accepted.
LEMMA Unserved ==
    ASSUME TypeOK, Single, NEW c \in Clients,
           reader[c] > 0 \/ link[c] \in {"new", "queued"}
    PROVE  /\ reader[c] = IF link[c] \in {"new", "queued"} THEN 0 ELSE 1
           /\ \A w \in Workers : serves[w] # c
<1>1. reader[c] \in Nat /\ reader[c] <= 1
  BY DEF TypeOK, Single
<1>2. reader[c] > 0 => link[c] \in {"open", "left"}
  BY DEF TypeOK
<1>3. ASSUME NEW w \in Workers, serves[w] = c
      PROVE  FALSE
  <2>1. serves[w] # None
    BY <1>3, ServerAssumption
  <2>2. pc[w] \in {"handle", "recv_ack"} /\ reader[c] = 0
    BY <1>3, <2>1 DEF Single
  <2>3. link[c] \in {"open", "left"}
    BY <1>3, <2>2 DEF TypeOK
  <2>4. QED
    BY <2>2, <2>3
<1>4. QED
  BY <1>1, <1>2, <1>3

\* Acknowledgements are still awaited where they were, and no new one is due.
LEMMA AwaitsKept ==
    ASSUME Awaits,
           \A c \in Clients : (client[c] = "has part" \/ HasAck(c))' =>
                                  client[c] = "has part" \/ HasAck(c),
           \A w \in Workers : pc[w] = "recv_ack" =>
                                  pc'[w] = "recv_ack" /\ serves'[w] = serves[w],
           AcksReachHandler'
    PROVE  Awaits'
<1>1. \A c \in Clients : Awaited(c) => Awaited(c)'
  BY DEF Awaited
<1>2. QED
  BY <1>1 DEF Awaits

-----------------------------------------------------------------------------
(***************************************************************************)
(* The clients.                                                             *)
(***************************************************************************)
LEMMA ConnectKeeps ==
    ASSUME Inv, NEW c \in Clients, Connect(c)
    PROVE  Inv'
<1> USE DEF Inv, Connect, mainVars, workerVars, clientVars
<1>1. TypeOK'
  BY DEF TypeOK
<1>2. Single' /\ Accepting' /\ Accepts'
  BY DEF Single, Accepting, Accepts
<1>3. Awaits'
  BY DEF Awaits, Awaited, HasAck, AcksReachHandler
<1>4. QED
  BY <1>1, <1>2, <1>3

\* A packet more in an inbox.
LEMMA AppendPacket ==
    ASSUME TypeOK, NEW c \in Clients, NEW p \in Packets,
           inbox' = [inbox EXCEPT ![c] = Append(@, p)]
    PROVE  /\ inbox' \in [Clients -> Seq(Packets)]
           /\ \A d \in Clients : d # c => inbox'[d] = inbox[d]
           /\ p # "ack" => \A d \in Clients : HasAck(d)' => HasAck(d)
<1>1. inbox[c] \in Seq(Packets)
  BY DEF TypeOK
<1>2. /\ Append(inbox[c], p) \in Seq(Packets)
      /\ Len(Append(inbox[c], p)) = Len(inbox[c]) + 1
      /\ Len(inbox[c]) \in Nat
      /\ Append(inbox[c], p)[Len(inbox[c]) + 1] = p
      /\ \A i \in 1 .. Len(inbox[c]) : Append(inbox[c], p)[i] = inbox[c][i]
  BY <1>1
<1>3. inbox'[c] = Append(inbox[c], p)
  BY DEF TypeOK
<1>4. \A d \in Clients : d # c => inbox'[d] = inbox[d]
  BY DEF TypeOK
<1>5. inbox' \in [Clients -> Seq(Packets)]
  BY <1>2 DEF TypeOK
<1>6. ASSUME p # "ack", NEW d \in Clients, HasAck(d)'
      PROVE  HasAck(d)
  <2>1. CASE d = c
    <3>1. PICK i \in 1 .. Len(inbox'[c]) : inbox'[c][i] = "ack"
      BY <1>6, <2>1 DEF HasAck
    <3>2. i \in 1 .. Len(inbox[c])
      BY <1>2, <1>3, <1>6, <3>1
    <3>3. QED
      BY <1>2, <1>3, <2>1, <3>1, <3>2 DEF HasAck
  <2>2. CASE d # c
    BY <1>4, <1>6, <2>2 DEF HasAck
  <2>3. QED
    BY <2>1, <2>2
<1>7. QED
  BY <1>4, <1>5, <1>6

LEMMA RequestKeeps ==
    ASSUME Inv, NEW c \in Clients, Request(c)
    PROVE  Inv'
<1> USE DEF Inv, Request, mainVars, workerVars
<1>1. /\ inbox' \in [Clients -> Seq(Packets)]
      /\ \A d \in Clients : HasAck(d)' => HasAck(d)
  BY AppendPacket DEF Packets
<1>2. asked' \in [Clients -> 0 .. MaxRequests]
  <2>1. asked \in [Clients -> 0 .. MaxRequests]
    BY DEF TypeOK
  <2>2. asked[c] + 1 \in 0 .. MaxRequests
    BY <2>1, ServerAssumption
  <2>3. QED
    BY <2>1, <2>2
<1>3. TypeOK'
  BY <1>1, <1>2 DEF TypeOK
<1>4. Single' /\ Accepting' /\ Accepts'
  BY DEF Single, Accepting, Accepts
<1>5. \A d \in Clients : client'[d] = "has part" => client[d] = "has part"
  BY DEF TypeOK
<1>6. Awaits'
  BY <1>1, <1>5 DEF Awaits, Awaited, AcksReachHandler
<1>7. QED
  BY <1>3, <1>4, <1>6

LEMMA AcknowledgeKeeps ==
    ASSUME Inv, NEW c \in Clients, Acknowledge(c)
    PROVE  Inv'
<1> USE DEF Inv, Acknowledge, mainVars, workerVars
<1>1. /\ inbox' \in [Clients -> Seq(Packets)]
      /\ \A d \in Clients : d # c => inbox'[d] = inbox[d]
  BY AppendPacket DEF Packets
<1>2. TypeOK'
  BY <1>1 DEF TypeOK
<1>3. Single' /\ Accepting' /\ Accepts'
  BY DEF Single, Accepting, Accepts
<1>4. Awaited(c)
  BY DEF Awaits
<1>5. \A d \in Clients : d # c => (HasAck(d)' => HasAck(d))
  BY <1>1 DEF HasAck
<1>6. \A d \in Clients : client'[d] = "has part" => client[d] = "has part"
  BY DEF TypeOK
<1>7. Awaits'
  BY <1>4, <1>5, <1>6 DEF Awaits, Awaited, AcksReachHandler
<1>8. QED
  BY <1>2, <1>3, <1>7

LEMMA LeaveKeeps ==
    ASSUME Inv, NEW c \in Clients, Leave(c)
    PROVE  Inv'
<1> USE DEF Inv, Leave, mainVars, workerVars
<1>1. TypeOK'
  BY DEF TypeOK
<1>2. Single' /\ Accepting' /\ Accepts'
  BY DEF Single, Accepting, Accepts
<1>3. \A d \in Clients : client'[d] = "has part" => client[d] = "has part"
  BY DEF TypeOK
<1>4. Awaits'
  BY <1>3 DEF Awaits, Awaited, HasAck, AcksReachHandler
<1>5. QED
  BY <1>1, <1>2, <1>4

-----------------------------------------------------------------------------
(***************************************************************************)
(* Accepting.                                                               *)
(***************************************************************************)
LEMMA AcceptKeeps ==
    ASSUME Inv, NEW w \in Workers, NEW c \in Clients, Accept(w, c)
    PROVE  Inv'
<1> USE DEF Accept, mainVars, clientVars
<1>1. /\ TypeOK /\ Single /\ Accepting /\ Awaits /\ Accepts
      /\ link[c] = "queued"
  BY DEF Inv
<1>2. reader[c] = 0 /\ \A v \in Workers : serves[v] # c
  BY <1>1, Unserved
<1>3. /\ reader' \in [Clients -> Nat]
      /\ reader'[c] = 1
      /\ \A d \in Clients : d # c => reader'[d] = reader[d]
  <2>1. reader \in [Clients -> Nat]
    BY <1>1 DEF TypeOK
  <2>2. reader' = [reader EXCEPT ![c] = 1]
    BY <1>2, <2>1
  <2>3. QED
    BY <2>1, <2>2
<1>4. /\ link' \in [Clients -> {"new", "queued", "open", "left", "closed"}]
      /\ link'[c] = "open"
      /\ \A d \in Clients : d # c => link'[d] = link[d]
  BY <1>1 DEF TypeOK
<1>5. /\ pc' \in [Workers -> {"run", "accepted", "handle", "recv_ack", "returned"}]
      /\ pc[w] = "run" /\ pc'[w] = "accepted"
      /\ \A v \in Workers : v # w => pc'[v] = pc[v]
  BY <1>1 DEF TypeOK
<1>6. TypeOK'
  BY <1>1, <1>3, <1>4, <1>5 DEF TypeOK
<1>7. Single'
  BY <1>1, <1>2, <1>3, <1>5 DEF Single
<1>8. Accepting' /\ Accepts'
  BY <1>1, <1>5 DEF Accepting, Accepts
<1>9. Awaits'
  <2>1. AcksReachHandler'
    BY <1>1, <1>5 DEF Awaits, AcksReachHandler
  <2>2. \A d \in Clients : (client[d] = "has part" \/ HasAck(d))' =>
                               client[d] = "has part" \/ HasAck(d)
    BY DEF HasAck
  <2>3. QED
    BY <1>1, <1>5, <2>1, <2>2, AwaitsKept
<1>10. QED
  BY <1>6, <1>7, <1>8, <1>9 DEF Inv

\* A thread that was and is in no handler changes nothing for the sessions.
LEMMA ElsewhereKeeps ==
    ASSUME Inv, NEW w \in Workers,
           pc[w] \notin {"handle", "recv_ack"},
           NEW at \in {"run", "accepted", "returned"},
           pc' = [pc EXCEPT ![w] = at],
           UNCHANGED <<serves, msg, link, inbox, reader, client>>
    PROVE  Single' /\ Awaits'
<1>1. TypeOK /\ Single /\ Awaits
  BY DEF Inv
<1>2. pc'[w] = at /\ \A v \in Workers : v # w => pc'[v] = pc[v]
  BY <1>1 DEF TypeOK
<1>3. Single'
  BY <1>1, <1>2 DEF Single
<1>4. AcksReachHandler'
  BY <1>1, <1>2 DEF Awaits, AcksReachHandler
<1>5. \A d \in Clients : (client[d] = "has part" \/ HasAck(d))' =>
                             client[d] = "has part" \/ HasAck(d)
  BY DEF HasAck
<1>6. Awaits'
  BY <1>1, <1>2, <1>4, <1>5, AwaitsKept
<1>7. QED
  BY <1>3, <1>6

LEMMA ListenKeeps ==
    ASSUME Inv, NEW w \in Workers, Listen(w)
    PROVE  Inv'
<1> USE DEF Listen, mainVars, clientVars
<1>1. TypeOK'
  BY DEF Inv, TypeOK
<1>2. Single' /\ Awaits'
  BY ElsewhereKeeps
<1>3. Accepting' /\ Accepts'
  BY DEF Inv, TypeOK, Accepting, Accepts
<1>4. QED
  BY <1>1, <1>2, <1>3 DEF Inv

\* The steps that change neither threads nor sessions.
LEMMA ThreadsAndSessionsKept ==
    ASSUME Inv, UNCHANGED <<workerVars, link, inbox, reader, clientVars>>
    PROVE  Single' /\ Awaits'
<1> USE DEF workerVars, clientVars
<1>1. Single'
  BY DEF Inv, Single
<1>2. Awaits'
  BY DEF Inv, Awaits, Awaited, HasAck, AcksReachHandler
<1>3. QED
  BY <1>1, <1>2

LEMMA AcceptFailsKeeps ==
    ASSUME Inv, AcceptFails
    PROVE  Inv'
<1> USE DEF AcceptFails, Fault, mainVars, workerVars, clientVars
<1>1. faults \in Nat /\ faults' = faults + 1 /\ faults' \in 0 .. MaxFaults
  <2>1. faults \in 0 .. MaxFaults
    BY DEF Inv, TypeOK
  <2>2. QED
    BY <2>1, ServerAssumption
<1>2. TypeOK'
  BY <1>1 DEF Inv, TypeOK
<1>3. Single' /\ Awaits'
  BY ThreadsAndSessionsKept
<1>4. Accepting'
  BY DEF Inv, Accepting
<1>5. Accepts'
  BY <1>1 DEF Accepts
<1>6. QED
  BY <1>2, <1>3, <1>4, <1>5 DEF Inv

LEMMA AcceptErrorKeeps ==
    ASSUME Inv, NEW w \in Workers, AcceptError(w)
    PROVE  Inv'
<1> USE DEF AcceptError, mainVars, workerVars, clientVars
<1>1. TypeOK'
  BY DEF Inv, TypeOK
<1>2. Single' /\ Awaits'
  BY ThreadsAndSessionsKept
<1>3. Accepting' /\ Accepts'
  BY DEF Inv, Accepting, Accepts
<1>4. QED
  BY <1>1, <1>2, <1>3 DEF Inv

-----------------------------------------------------------------------------
(***************************************************************************)
(* Reading and handling.                                                    *)
(***************************************************************************)
LEMMA DispatchKeeps ==
    ASSUME Inv, NEW w \in Workers, NEW c \in Clients, Dispatch(w, c)
    PROVE  Inv'
<1> USE DEF Dispatch, mainVars, clientVars
<1>1. /\ TypeOK /\ Single /\ Accepting /\ Awaits /\ Accepts
      /\ reader[c] > 0
  BY DEF Inv
<1>2. /\ reader[c] \in Nat /\ link[c] \in {"open", "left"}
      /\ \A v \in Workers : pc[v] = "handle" \/ pc[v] = "recv_ack" =>
                                serves[v] \in Clients
  BY <1>1 DEF TypeOK
<1>3. reader[c] = 1 /\ \A v \in Workers : serves[v] # c
  BY <1>1, <1>2, Unserved
<1>4. ~HasAck(c)
  BY <1>1, <1>3 DEF Awaits, Awaited
<1>5. /\ inbox[c] \in Seq(Packets) /\ inbox[c] # <<>>
      /\ Len(inbox[c]) \in Nat
  <2>1. inbox \in [Clients -> Seq(Packets)]
    BY <1>1 DEF TypeOK
  <2>2. QED
    BY <2>1
<1>6. /\ Len(inbox[c]) > 0
      /\ Head(inbox[c]) = inbox[c][1] /\ Head(inbox[c]) \in Packets
      /\ Tail(inbox[c]) \in Seq(Packets)
      /\ Len(Tail(inbox[c])) = Len(inbox[c]) - 1
      /\ \A i \in 1 .. Len(inbox[c]) - 1 : Tail(inbox[c])[i] = inbox[c][i + 1]
  BY <1>5
<1>7. Head(inbox[c]) # "ack"
  BY <1>4, <1>5, <1>6 DEF HasAck
<1>8. /\ inbox' \in [Clients -> Seq(Packets)]
      /\ inbox'[c] = Tail(inbox[c])
      /\ \A d \in Clients : d # c => inbox'[d] = inbox[d]
  BY <1>1, <1>6 DEF TypeOK
<1>9. \A d \in Clients : HasAck(d)' => HasAck(d)
  <2>1. HasAck(c)' => HasAck(c)
    BY <1>5, <1>6, <1>8 DEF HasAck
  <2>2. QED
    BY <1>8, <2>1 DEF HasAck
<1>10. /\ reader' \in [Clients -> Nat]
       /\ reader'[c] = 0 /\ \A d \in Clients : d # c => reader'[d] = reader[d]
  <2>1. reader \in [Clients -> Nat]
    BY <1>1 DEF TypeOK
  <2>2. reader' = [reader EXCEPT ![c] = 0]
    BY <1>3, <2>1
  <2>3. QED
    BY <2>1, <2>2
<1>11. /\ pc' \in [Workers -> {"run", "accepted", "handle", "recv_ack", "returned"}]
       /\ pc[w] = "run" /\ pc'[w] = "handle"
       /\ \A v \in Workers : v # w => pc'[v] = pc[v]
  BY <1>1 DEF TypeOK
<1>12. /\ serves' \in [Workers -> Clients \cup {None}]
       /\ serves'[w] = c /\ \A v \in Workers : v # w => serves'[v] = serves[v]
  BY <1>1 DEF TypeOK
<1>13. /\ msg' \in [Workers -> Packets \cup {None}]
       /\ msg'[w] = Head(inbox[c])
       /\ \A v \in Workers : v # w => msg'[v] = msg[v]
  BY <1>1, <1>6 DEF TypeOK
<1>14. TypeOK'
  <2>1. \A v \in Workers : pc'[v] \in {"handle", "recv_ack"} =>
          serves'[v] \in Clients /\ link'[serves'[v]] \in {"open", "left"}
    BY <1>1, <1>2, <1>11, <1>12 DEF TypeOK
  <2>2. \A d \in Clients : reader'[d] > 0 => link'[d] \in {"open", "left"}
    BY <1>1, <1>10 DEF TypeOK
  <2>3. QED
    BY <1>1, <1>8, <1>10, <1>11, <1>12, <1>13, <2>1, <2>2 DEF TypeOK
<1>15. Single'
  BY <1>1, <1>3, <1>10, <1>11, <1>12 DEF Single
<1>16. Accepting' /\ Accepts'
  BY <1>1, <1>11 DEF Accepting, Accepts
<1>17. Awaits'
  <2>1. AcksReachHandler'
    BY <1>1, <1>7, <1>11, <1>13 DEF Awaits, AcksReachHandler
  <2>2. \A v \in Workers : pc[v] = "recv_ack" =>
                               pc'[v] = "recv_ack" /\ serves'[v] = serves[v]
    BY <1>11, <1>12
  <2>3. QED
    BY <1>1, <1>9, <2>1, <2>2, AwaitsKept
<1>18. QED
  BY <1>14, <1>15, <1>16, <1>17 DEF Inv

\* A session that is closed: its inbox is empty and its client waits for nothing.
LEMMA Closed ==
    ASSUME TypeOK, NEW c \in Clients, Close(c)
    PROVE  /\ link' \in [Clients -> {"new", "queued", "open", "left", "closed"}]
           /\ \A d \in Clients : d # c => link'[d] = link[d]
           /\ inbox' \in [Clients -> Seq(Packets)]
           /\ client' \in [Clients -> {"idle", "asks", "has part", "done"}]
           /\ client'[c] # "has part" /\ ~HasAck(c)'
           /\ \A d \in Clients : d # c =>
                ((client[d] = "has part" \/ HasAck(d))' =>
                   client[d] = "has part" \/ HasAck(d))
<1> USE DEF Close
<1>1. /\ link' \in [Clients -> {"new", "queued", "open", "left", "closed"}]
      /\ \A d \in Clients : d # c => link'[d] = link[d]
  BY DEF TypeOK
<1>2. /\ client' \in [Clients -> {"idle", "asks", "has part", "done"}]
      /\ client'[c] = "done"
      /\ \A d \in Clients : d # c => client'[d] = client[d]
  BY DEF TypeOK
<1>3. /\ inbox' \in [Clients -> Seq(Packets)]
      /\ inbox'[c] = <<>>
      /\ \A d \in Clients : d # c => inbox'[d] = inbox[d]
  <2>1. <<>> \in Seq(Packets)
    OBVIOUS
  <2>2. inbox \in [Clients -> Seq(Packets)]
    BY DEF TypeOK
  <2>3. QED
    BY <2>1, <2>2
<1>4. ~HasAck(c)'
  <2>1. Len(inbox'[c]) = 0
    BY <1>3
  <2>2. QED
    BY <2>1 DEF HasAck
<1>5. \A d \in Clients : d # c => (HasAck(d)' => HasAck(d))
  BY <1>3 DEF HasAck
<1>6. QED
  BY <1>1, <1>2, <1>3, <1>4, <1>5

LEMMA ReadEndsKeeps ==
    ASSUME Inv, NEW w \in Workers, NEW c \in Clients, ReadEnds(w, c)
    PROVE  Inv'
<1> USE DEF ReadEnds, mainVars, workerVars
<1>1. /\ TypeOK /\ Single /\ Accepting /\ Awaits /\ Accepts
      /\ reader[c] > 0
  BY DEF Inv
<1>2. link[c] = "left"
  OBVIOUS
<1>3. reader[c] = 1 /\ \A v \in Workers : serves[v] # c
  BY <1>1, <1>2, Unserved
<1>4. /\ reader' \in [Clients -> Nat]
      /\ reader'[c] = 0 /\ \A d \in Clients : d # c => reader'[d] = reader[d]
  <2>1. reader \in [Clients -> Nat]
    BY <1>1 DEF TypeOK
  <2>2. reader' = [reader EXCEPT ![c] = 0]
    BY <1>3, <2>1
  <2>3. QED
    BY <2>1, <2>2
<1>5. /\ link' \in [Clients -> {"new", "queued", "open", "left", "closed"}]
      /\ \A d \in Clients : d # c => link'[d] = link[d]
      /\ inbox' \in [Clients -> Seq(Packets)]
      /\ client' \in [Clients -> {"idle", "asks", "has part", "done"}]
      /\ \A d \in Clients : (client[d] = "has part" \/ HasAck(d))' =>
                               client[d] = "has part" \/ HasAck(d)
  BY <1>1, Closed
<1>6. TypeOK'
  <2>1. \A v \in Workers : pc[v] \in {"handle", "recv_ack"} =>
          serves[v] \in Clients /\ link'[serves[v]] \in {"open", "left"}
    <3> SUFFICES ASSUME NEW v \in Workers, pc[v] \in {"handle", "recv_ack"}
                 PROVE  serves[v] \in Clients /\ link'[serves[v]] \in {"open", "left"}
      OBVIOUS
    <3>1. serves[v] \in Clients /\ link[serves[v]] \in {"open", "left"}
      BY <1>1 DEF TypeOK
    <3>2. QED
      BY <1>3, <1>5, <3>1
  <2>2. \A d \in Clients : reader'[d] > 0 => link'[d] \in {"open", "left"}
    <3> SUFFICES ASSUME NEW d \in Clients, reader'[d] > 0
                 PROVE  link'[d] \in {"open", "left"}
      OBVIOUS
    <3>1. d # c /\ reader[d] > 0
      BY <1>4
    <3>2. link[d] \in {"open", "left"}
      BY <1>1, <3>1 DEF TypeOK
    <3>3. QED
      BY <1>5, <3>1, <3>2
  <2>3. QED
    BY <1>1, <1>4, <1>5, <2>1, <2>2 DEF TypeOK
<1>7. Single'
  BY <1>1, <1>4 DEF Single
<1>8. Accepting' /\ Accepts'
  BY <1>1 DEF Accepting, Accepts
<1>9. Awaits'
  <2>1. AcksReachHandler'
    BY <1>1 DEF Awaits, AcksReachHandler
  <2>2. QED
    BY <1>1, <1>5, <2>1, AwaitsKept
<1>10. QED
  BY <1>6, <1>7, <1>8, <1>9 DEF Inv

\* What a thread knows of the session it serves.
LEMMA Serving ==
    ASSUME Inv, NEW w \in Workers, pc[w] \in {"handle", "recv_ack"}
    PROVE  /\ serves[w] \in Clients /\ serves[w] # None
           /\ reader[serves[w]] = 0
           /\ link[serves[w]] \in {"open", "left"}
           /\ \A v \in Workers : serves[v] = serves[w] => v = w
<1>1. TypeOK /\ Single
  BY DEF Inv
<1>2. serves[w] \in Clients /\ link[serves[w]] \in {"open", "left"}
  BY <1>1 DEF TypeOK
<1>3. serves[w] # None
  BY <1>2, ServerAssumption
<1>4. QED
  BY <1>1, <1>2, <1>3 DEF Single

\* A handler returns.
LEMMA HandledFacts ==
    ASSUME TypeOK, NEW w \in Workers, Handled(w)
    PROVE  /\ pc' \in [Workers -> {"run", "accepted", "handle", "recv_ack", "returned"}]
           /\ serves' \in [Workers -> Clients \cup {None}]
           /\ msg' \in [Workers -> Packets \cup {None}]
           /\ pc'[w] = "run" /\ serves'[w] = None
           /\ \A v \in Workers : v # w =>
                pc'[v] = pc[v] /\ serves'[v] = serves[v] /\ msg'[v] = msg[v]
BY DEF Handled, TypeOK

LEMMA StorePartKeeps ==
    ASSUME Inv, NEW w \in Workers, StorePart(w)
    PROVE  Inv'
<1> DEFINE c == serves[w]
<1>1. /\ TypeOK /\ Single /\ Accepting /\ Awaits /\ Accepts
      /\ pc[w] = "handle" /\ BlockingSend(c, "idle") /\ Handled(w)
      /\ reader' = [reader EXCEPT ![c] = @ + 1]
      /\ UNCHANGED <<main, ended, accept, link, inbox, asked, late, faults>>
  BY DEF Inv, StorePart, Handling, mainVars
<1>2. /\ c \in Clients /\ c # None /\ reader[c] = 0
      /\ link[c] \in {"open", "left"}
      /\ \A v \in Workers : serves[v] = c => v = w
  BY <1>1, Serving
<1> HIDE DEF c
<1>3. /\ pc' \in [Workers -> {"run", "accepted", "handle", "recv_ack", "returned"}]
      /\ serves' \in [Workers -> Clients \cup {None}]
      /\ msg' \in [Workers -> Packets \cup {None}]
      /\ pc'[w] = "run" /\ serves'[w] = None
      /\ \A v \in Workers : v # w =>
           pc'[v] = pc[v] /\ serves'[v] = serves[v] /\ msg'[v] = msg[v]
  BY <1>1, HandledFacts
<1>4. /\ reader' \in [Clients -> Nat]
      /\ reader'[c] = 1 /\ \A d \in Clients : d # c => reader'[d] = reader[d]
  <2>1. reader \in [Clients -> Nat]
    BY <1>1 DEF TypeOK
  <2>2. reader' = [reader EXCEPT ![c] = 1]
    BY <1>1, <1>2, <2>1
  <2>3. QED
    BY <1>2, <2>1, <2>2
<1>5. /\ client' \in [Clients -> {"idle", "asks", "has part", "done"}]
      /\ \A d \in Clients : client'[d] = "has part" => client[d] = "has part"
  BY <1>1, <1>2 DEF BlockingSend, TypeOK
<1>6. TypeOK'
  BY <1>1, <1>2, <1>3, <1>4, <1>5 DEF TypeOK
<1>7. Single'
  <2>1. \A d \in Clients : reader'[d] <= 1
    BY <1>1, <1>4 DEF Single
  <2>2. \A v \in Workers : serves'[v] # None => v # w /\ serves[v] # c
    BY <1>2, <1>3
  <2>3. QED
    BY <1>1, <1>3, <1>4, <2>1, <2>2 DEF Single
<1>8. Accepting' /\ Accepts'
  BY <1>1, <1>3 DEF Accepting, Accepts
<1>9. Awaits'
  <2>1. AcksReachHandler'
    BY <1>1, <1>3 DEF Awaits, AcksReachHandler
  <2>2. \A d \in Clients : HasAck(d)' => HasAck(d)
    BY <1>1 DEF HasAck
  <2>3. QED
    BY <1>1, <1>3, <1>5, <2>1, <2>2, AwaitsKept
<1>10. QED
  BY <1>6, <1>7, <1>8, <1>9 DEF Inv

\* A handler returns keep_alive::No.
LEMMA ClosingKeeps ==
    ASSUME Inv, NEW w \in Workers, pc[w] \in {"handle", "recv_ack"},
           NEW c \in Clients, c = serves[w], Close(c), Handled(w),
           UNCHANGED <<mainVars, accept, reader, asked, late, faults>>
    PROVE  Inv'
<1>1. /\ TypeOK /\ Single /\ Accepting /\ Awaits /\ Accepts
      /\ UNCHANGED <<main, ended, accept, reader, asked, late, faults>>
  BY DEF Inv, mainVars
<1>2. /\ c # None /\ reader[c] = 0
      /\ \A v \in Workers : serves[v] = c => v = w
  BY Serving
<1>3. /\ pc' \in [Workers -> {"run", "accepted", "handle", "recv_ack", "returned"}]
      /\ serves' \in [Workers -> Clients \cup {None}]
      /\ msg' \in [Workers -> Packets \cup {None}]
      /\ pc'[w] = "run" /\ serves'[w] = None
      /\ \A v \in Workers : v # w =>
           pc'[v] = pc[v] /\ serves'[v] = serves[v] /\ msg'[v] = msg[v]
  BY <1>1, HandledFacts
<1>4. /\ link' \in [Clients -> {"new", "queued", "open", "left", "closed"}]
      /\ \A d \in Clients : d # c => link'[d] = link[d]
      /\ inbox' \in [Clients -> Seq(Packets)]
      /\ client' \in [Clients -> {"idle", "asks", "has part", "done"}]
      /\ client'[c] # "has part" /\ ~HasAck(c)'
      /\ \A d \in Clients : d # c =>
           ((client[d] = "has part" \/ HasAck(d))' =>
              client[d] = "has part" \/ HasAck(d))
  BY <1>1, <1>2, Closed
<1>5. TypeOK'
  <2>1. \A v \in Workers : pc'[v] \in {"handle", "recv_ack"} =>
          serves'[v] \in Clients /\ link'[serves'[v]] \in {"open", "left"}
    <3> SUFFICES ASSUME NEW v \in Workers, pc'[v] \in {"handle", "recv_ack"}
                 PROVE  serves'[v] \in Clients /\ link'[serves'[v]] \in {"open", "left"}
      OBVIOUS
    <3>1. v # w /\ serves'[v] = serves[v] /\ pc'[v] = pc[v]
      BY <1>3
    <3>2. serves[v] \in Clients /\ link[serves[v]] \in {"open", "left"}
      BY <1>1, <3>1 DEF TypeOK
    <3>3. serves[v] # c
      BY <1>2, <3>1
    <3>4. QED
      BY <1>4, <3>1, <3>2, <3>3
  <2>2. \A d \in Clients : reader'[d] > 0 => link'[d] \in {"open", "left"}
    <3> SUFFICES ASSUME NEW d \in Clients, reader'[d] > 0
                 PROVE  link'[d] \in {"open", "left"}
      OBVIOUS
    <3>1. reader[d] > 0
      BY <1>1
    <3>2. link[d] \in {"open", "left"}
      BY <1>1, <3>1 DEF TypeOK
    <3>3. d # c
      BY <1>2, <3>1
    <3>4. QED
      BY <1>4, <3>2, <3>3
  <2>3. /\ main' \in {"pause", "signalled", "joining", "joined"}
        /\ ended' \in {"no", "threw", "joined twice", "cleanly"}
        /\ accept' \in {"armed", "error", "none"}
        /\ reader' \in [Clients -> Nat]
        /\ asked' \in [Clients -> 0 .. MaxRequests]
        /\ late' \in BOOLEAN /\ faults' \in 0 .. MaxFaults
    BY <1>1 DEF TypeOK
  <2>4. QED
    BY <1>3, <1>4, <2>1, <2>2, <2>3 DEF TypeOK
<1>6. Single'
  BY <1>1, <1>3 DEF Single
<1>7. Accepting' /\ Accepts'
  BY <1>1, <1>3 DEF Accepting, Accepts
<1>8. Awaits'
  <2>1. AcksReachHandler'
    BY <1>1, <1>3 DEF Awaits, AcksReachHandler
  <2>2. \A d \in Clients : d # c => (Awaited(d) => Awaited(d)')
    <3> SUFFICES ASSUME NEW d \in Clients, d # c, Awaited(d)
                 PROVE  Awaited(d)'
      OBVIOUS
    <3>1. PICK v \in Workers : pc[v] = "recv_ack" /\ serves[v] = d
      BY DEF Awaited
    <3>2. v # w
      BY <3>1
    <3>3. QED
      BY <1>3, <3>1, <3>2 DEF Awaited
  <2>3. \A d \in Clients : (client[d] = "has part" \/ HasAck(d))' => d # c
    BY <1>4
  <2>4. QED
    BY <1>1, <1>4, <2>1, <2>2, <2>3 DEF Awaits
<1>9. QED
  BY <1>5, <1>6, <1>7, <1>8 DEF Inv

LEMMA RefuseKeeps ==
    ASSUME Inv, NEW w \in Workers, Refuse(w)
    PROVE  Inv'
<1>1. pc[w] = "handle"
  BY DEF Refuse
<1>2. PICK c \in Clients : c = serves[w]
  BY <1>1, Serving
<1>3. QED
  BY <1>1, <1>2, ClosingKeeps DEF Refuse

LEMMA RecvAckKeeps ==
    ASSUME Inv, NEW w \in Workers, RecvAck(w)
    PROVE  Inv'
<1>1. pc[w] = "recv_ack"
  BY DEF RecvAck
<1>2. PICK c \in Clients : c = serves[w]
  BY <1>1, Serving
<1>3. QED
  BY <1>1, <1>2, ClosingKeeps DEF RecvAck

LEMMA ServePartKeeps ==
    ASSUME Inv, NEW w \in Workers, ServePart(w)
    PROVE  Inv'
<1>1. /\ TypeOK /\ Single /\ Accepting /\ Awaits /\ Accepts
      /\ pc[w] = "handle"
      /\ UNCHANGED <<main, ended, accept, serves, msg, link, inbox, reader,
                     asked, late, faults>>
  BY DEF Inv, ServePart, Handling, mainVars
<1>2. PICK c \in Clients : c = serves[w]
  BY <1>1, Serving
<1>3. /\ pc' \in [Workers -> {"run", "accepted", "handle", "recv_ack", "returned"}]
      /\ pc'[w] = "recv_ack" /\ \A v \in Workers : v # w => pc'[v] = pc[v]
  BY <1>1 DEF ServePart, TypeOK
<1>4. /\ client' \in [Clients -> {"idle", "asks", "has part", "done"}]
      /\ \A d \in Clients : d # c => client'[d] = client[d]
  BY <1>1, <1>2 DEF ServePart, BlockingSend, TypeOK
<1>5. TypeOK'
  BY <1>1, <1>3, <1>4 DEF TypeOK
<1>6. Single'
  BY <1>1, <1>3 DEF Single
<1>7. Accepting' /\ Accepts'
  BY <1>1, <1>3 DEF Accepting, Accepts
<1>8. Awaits'
  <2>1. AcksReachHandler'
    BY <1>1, <1>3 DEF Awaits, AcksReachHandler
  <2>2. Awaited(c)'
    BY <1>1, <1>2, <1>3 DEF Awaited
  <2>3. \A d \in Clients : Awaited(d) => Awaited(d)'
    BY <1>1, <1>3 DEF Awaited
  <2>4. \A d \in Clients : HasAck(d)' => HasAck(d)
    BY <1>1 DEF HasAck
  <2>5. QED
    BY <1>1, <1>4, <2>1, <2>2, <2>3, <2>4 DEF Awaits
<1>9. QED
  BY <1>5, <1>6, <1>7, <1>8 DEF Inv

LEMMA ThrowKeeps ==
    ASSUME Inv, NEW w \in Workers, Throw(w)
    PROVE  Inv'
<1> USE DEF Throw, workerVars, clientVars
<1>1. TypeOK'
  BY DEF Inv, TypeOK
<1>2. Single' /\ Awaits'
  BY ThreadsAndSessionsKept
<1>3. Accepting' /\ Accepts'
  BY DEF Inv, Accepting, Accepts
<1>4. QED
  BY <1>1, <1>2, <1>3 DEF Inv

LEMMA ReturnFromRunKeeps ==
    ASSUME Inv, NEW w \in Workers, ReturnFromRun(w)
    PROVE  Inv'
<1> USE DEF ReturnFromRun, mainVars, clientVars
<1>1. TypeOK'
  BY DEF Inv, TypeOK
<1>2. Single' /\ Awaits'
  BY ElsewhereKeeps
<1>3. /\ pc'[w] = "returned" /\ \A v \in Workers : v # w => pc'[v] = pc[v]
      /\ pc[w] = "run"
  BY DEF Inv, TypeOK
<1>4. Accepting'
  BY <1>3 DEF Inv, Accepting
<1>5. ~(main = "pause" /\ faults = 0)
  BY DEF Inv, Accepts, Idle
<1>6. Accepts'
  BY <1>5 DEF Accepts
<1>7. QED
  BY <1>1, <1>2, <1>4, <1>6 DEF Inv

-----------------------------------------------------------------------------
(***************************************************************************)
(* The main thread.                                                         *)
(***************************************************************************)
LEMMA MainKeeps ==
    ASSUME Inv, Signal \/ MainStep
    PROVE  Inv'
<1> USE DEF MainStep, Signal, Stop, Join, Destroy, workerVars, clientVars
<1>1. UNCHANGED <<workerVars, link, inbox, reader, clientVars, late, faults>>
  OBVIOUS
<1>2. TypeOK'
  BY DEF Inv, TypeOK
<1>3. Single' /\ Awaits'
  BY <1>1, ThreadsAndSessionsKept
<1>4. Accepting'
  BY DEF Inv, Accepting
<1>5. main' # "pause"
  OBVIOUS
<1>6. Accepts'
  BY <1>5 DEF Accepts
<1>7. QED
  BY <1>2, <1>3, <1>4, <1>6 DEF Inv

-----------------------------------------------------------------------------
(***************************************************************************)
(* The theorems.                                                            *)
(***************************************************************************)
LEMMA InitInv == Init => Inv
<1> SUFFICES ASSUME Init
             PROVE  Inv
  OBVIOUS
<1> USE DEF Init
<1>1. TypeOK
  <2>1. <<>> \in Seq(Packets)
    OBVIOUS
  <2>2. 0 \in 0 .. MaxRequests /\ 0 \in 0 .. MaxFaults
    BY ServerAssumption
  <2>3. inbox \in [Clients -> Seq(Packets)]
    BY <2>1
  <2>4. /\ \A w \in Workers : pc[w] = "run" /\ msg[w] = None
        /\ \A c \in Clients : reader[c] = 0
        /\ pc \in [Workers -> {"run", "accepted", "handle", "recv_ack", "returned"}]
        /\ serves \in [Workers -> Clients \cup {None}]
        /\ msg \in [Workers -> Packets \cup {None}]
    OBVIOUS
  <2>5. /\ link \in [Clients -> {"new", "queued", "open", "left", "closed"}]
        /\ reader \in [Clients -> Nat]
        /\ client \in [Clients -> {"idle", "asks", "has part", "done"}]
        /\ asked \in [Clients -> 0 .. MaxRequests]
    BY <2>2
  <2>6. \A w \in Workers : pc[w] \notin {"handle", "recv_ack"}
    BY <2>4
  <2>7. \A c \in Clients : ~(reader[c] > 0)
    BY <2>4
  <2>8. /\ main = "pause" /\ ended = "no" /\ accept = "armed" /\ late = FALSE
        /\ faults \in 0 .. MaxFaults
    BY <2>2
  <2> HIDE DEF Init
  <2>9. QED
    BY <2>3, <2>4, <2>5, <2>6, <2>7, <2>8 DEF TypeOK
<1>2. Single /\ Accepting /\ Accepts
  BY DEF Single, Accepting, Accepts
<1>3. Awaits
  <2>1. \A c \in Clients : ~HasAck(c)
    BY DEF HasAck
  <2>2. QED
    BY <2>1 DEF Awaits, AcksReachHandler
<1>4. QED
  BY <1>1, <1>2, <1>3 DEF Inv

LEMMA StepInv == Inv /\ [Next]_vars => Inv'
<1> SUFFICES ASSUME Inv, [Next]_vars
             PROVE  Inv'
  OBVIOUS
<1>1. CASE UNCHANGED vars
  <2>1. Single' /\ Awaits'
    BY <1>1, ThreadsAndSessionsKept DEF vars
  <2>2. QED
    BY <1>1, <2>1 DEF Inv, TypeOK, Accepting, Accepts, vars, mainVars,
                      workerVars, clientVars
<1>2. ASSUME NEW w \in Workers, WorkerStep(w)
      PROVE  Inv'
  <2>1. ASSUME NEW c \in Clients, Accept(w, c) \/ Dispatch(w, c) \/ ReadEnds(w, c)
        PROVE  Inv'
    BY <2>1, AcceptKeeps, DispatchKeeps, ReadEndsKeeps
  <2>2. CASE Listen(w) \/ AcceptError(w)
    BY <2>2, ListenKeeps, AcceptErrorKeeps
  <2>3. CASE StorePart(w) \/ Refuse(w) \/ ServePart(w)
    BY <2>3, StorePartKeeps, RefuseKeeps, ServePartKeeps
  <2>4. CASE RecvAck(w) \/ Throw(w) \/ ReturnFromRun(w)
    BY <2>4, RecvAckKeeps, ThrowKeeps, ReturnFromRunKeeps
  <2>5. QED
    BY <1>2, <2>1, <2>2, <2>3, <2>4 DEF WorkerStep
<1>3. ASSUME NEW c \in Clients, ClientStep(c)
      PROVE  Inv'
  BY <1>3, ConnectKeeps, RequestKeeps, AcknowledgeKeeps, LeaveKeeps DEF ClientStep
<1>4. CASE AcceptFails \/ Signal \/ MainStep
  BY <1>4, AcceptFailsKeeps, MainKeeps
<1>5. QED
  BY <1>1, <1>2, <1>3, <1>4 DEF Next

LEMMA Invariance == Spec => []Inv
BY InitInv, StepInv, PTL DEF Spec

\* The type invariant: no thread serves a session that was closed.
THEOREM TypeCorrect == Spec => []TypeOK
<1>1. Inv => TypeOK
  BY DEF Inv
<1>2. QED
  BY <1>1, Invariance, PTL

\* A set of at most one element has cardinality at most one.
LEMMA AtMostOne ==
    ASSUME NEW S, \A x, y \in S : x = y
    PROVE  Cardinality(S) \in {0, 1} /\ (S = {} => Cardinality(S) = 0)
<1>1. CASE S = {}
  BY <1>1, FS_EmptySet
<1>2. CASE S # {}
  <2>1. PICK x : x \in S
    BY <1>2
  <2>2. S = {x}
    BY <2>1
  <2>3. QED
    BY <1>2, <2>2, FS_Singleton
<1>3. QED
  BY <1>1, <1>2

\* A session is read by one thread at a time and the acceptor fills one socket
\* at a time, however the threads of io_service_ interleave.
THEOREM OneReaderAtATime == Spec => []OneReader
<1>1. Inv => OneReader
  <2> SUFFICES ASSUME Inv
               PROVE  OneReader
    OBVIOUS
  <2>1. ASSUME NEW c \in Clients
        PROVE  reader[c] + Cardinality(ServingOf(c)) <= 1
    <3>1. reader[c] \in Nat /\ reader[c] <= 1
      BY DEF Inv, TypeOK, Single
    <3>2. c # None
      BY ServerAssumption
    <3>3. \A v, w \in ServingOf(c) : v = w
      BY <3>2 DEF Inv, Single, ServingOf
    <3>4. reader[c] > 0 => ServingOf(c) = {}
      BY <3>2 DEF Inv, Single, ServingOf
    <3>5. /\ Cardinality(ServingOf(c)) \in {0, 1}
          /\ ServingOf(c) = {} => Cardinality(ServingOf(c)) = 0
      BY <3>3, AtMostOne
    <3>6. QED
      BY <3>1, <3>4, <3>5
  <2>2. Cardinality({w \in Workers : pc[w] = "accepted"}) <= 1
    <3> DEFINE S == {w \in Workers : pc[w] = "accepted"}
    <3>1. \A v, w \in S : v = w
      BY DEF Inv, Accepting
    <3> HIDE DEF S
    <3>2. Cardinality(S) \in {0, 1}
      BY <3>1, AtMostOne
    <3>3. QED
      BY <3>2 DEF S
  <2>3. accept # "none" => \A w \in Workers : pc[w] # "accepted"
    BY DEF Inv, Accepting
  <2>4. QED
    BY <2>1, <2>2, <2>3 DEF OneReader
<1>2. QED
  BY <1>1, Invariance, PTL

\* recv_dispatcher is never handed the acknowledgement of a part: while one is on
\* its way, the thread that sent the part waits for it in recv_ack.
THEOREM AcksAreAwaited == Spec => []AcksReachHandler
<1>1. Inv => AcksReachHandler
  BY DEF Inv, Awaits
<1>2. QED
  BY <1>1, Invariance, PTL

\* Before the signal, and as long as no accept fails, every thread stays in
\* io_service_.run(): an accept is outstanding or about to be.
THEOREM ThreadsStay == Spec => []StaysInRun
<1>1. Inv => StaysInRun
  <2> SUFFICES ASSUME Inv, NEW w \in Workers, pc[w] = "returned"
               PROVE  main # "pause" \/ faults > 0
    BY DEF StaysInRun
  <2>1. faults \in Nat
    <3>1. faults \in 0 .. MaxFaults
      BY DEF Inv, TypeOK
    <3>2. QED
      BY <3>1, ServerAssumption
  <2>2. ~(main = "pause" /\ faults = 0)
    BY DEF Inv, Accepts
  <2>3. QED
    BY <2>1, <2>2
<1>2. QED
  BY <1>1, Invariance, PTL
=============================================================================
