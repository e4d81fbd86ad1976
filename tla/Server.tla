------------------------------- MODULE Server -------------------------------
(***************************************************************************)
(* The process of a storage or of the master: threads that run one           *)
(* io_service_, a Server that accepts sessions, the reads of the sessions,   *)
(* the handlers that recv_dispatcher calls, and the end of the process.      *)
(* async_accept and async_read are outstanding or not; a thread takes what   *)
(* has completed.  io_service_.run() returns when nothing is outstanding.    *)
(*                                                                         *)
(* A client opens one session, sends requests and waits for each answer; it  *)
(* may leave, or stall, at any point.                                        *)
(***************************************************************************)
EXTENDS Integers, Sequences, FiniteSets

CONSTANTS
    Workers,     \* the threads: conf.concurrency of them
    Clients,     \* each opens one session
    MaxRequests, \* bound: the requests of a client
    MaxFaults,   \* bound: the accepts that fail
    None         \* no session, no message

ASSUME ServerAssumption ==
    /\ MaxRequests \in Nat
    /\ MaxFaults \in Nat
    /\ None \notin Clients

\* A packet; what a request asks for is told when it is handled.
Packets == {"request", "ack"}

VARIABLES
    main,    \* where the main thread is
    ended,   \* how the process ended
    accept,  \* async_accept: outstanding, completed with an error, or neither
    pc,      \* where each thread is
    serves,  \* the session of the handler it runs
    msg,     \* the message of that handler
    link,    \* the connection of each client
    inbox,   \* what it sent and nobody has read
    reader,  \* how many async_reads of its session are outstanding
    client,  \* what the client is waiting for
    asked,   \* how many requests it sent
    late,    \* history: an accept was begun after the server had stopped
    faults   \* how many faults happened

mainVars == <<main, ended>>
workerVars == <<pc, serves, msg>>
clientVars == <<client, asked>>
vars == <<mainVars, accept, workerVars, link, inbox, reader, clientVars,
          late, faults>>

\* The constructor of Server calls listen(), run() has started the threads.
Init ==
    /\ main = "pause"
    /\ ended = "no"
    /\ accept = "armed"
    /\ pc = [w \in Workers |-> "run"]
    /\ serves = [w \in Workers |-> None]
    /\ msg = [w \in Workers |-> None]
    /\ link = [c \in Clients |-> "new"]
    /\ inbox = [c \in Clients |-> <<>>]
    /\ reader = [c \in Clients |-> 0]
    /\ client = [c \in Clients |-> "idle"]
    /\ asked = [c \in Clients |-> 0]
    /\ late = FALSE
    /\ faults = 0

Fault ==
    /\ faults < MaxFaults
    /\ faults' = faults + 1

-----------------------------------------------------------------------------
(***************************************************************************)
(* The clients.                                                             *)
(***************************************************************************)

\* The kernel accepts the connection for the acceptor.
Connect(c) ==
    /\ link[c] = "new"
    /\ link' = [link EXCEPT ![c] = "queued"]
    /\ UNCHANGED <<mainVars, accept, workerVars, inbox, reader, clientVars,
                   late, faults>>

Request(c) ==
    /\ link[c] \in {"queued", "open"}
    /\ client[c] = "idle" /\ asked[c] < MaxRequests
    /\ asked' = [asked EXCEPT ![c] = @ + 1]
    /\ client' = [client EXCEPT ![c] = "asks"]
    /\ inbox' = [inbox EXCEPT ![c] = Append(@, "request")]
    /\ UNCHANGED <<mainVars, accept, workerVars, link, reader, late, faults>>

\* recv_part acknowledges the part that it received.
Acknowledge(c) ==
    /\ link[c] = "open" /\ client[c] = "has part"
    /\ client' = [client EXCEPT ![c] = "done"]
    /\ inbox' = [inbox EXCEPT ![c] = Append(@, "ack")]
    /\ UNCHANGED <<mainVars, accept, workerVars, link, reader, asked, late,
                   faults>>

\* The client closes its session, or it crashes.  One that leaves while it waits
\* to be accepted is accepted all the same, as one that leaves right after.
Leave(c) ==
    /\ link[c] = "open"
    /\ link' = [link EXCEPT ![c] = "left"]
    /\ client' = [client EXCEPT ![c] = "done"]
    /\ UNCHANGED <<mainVars, accept, workerVars, inbox, reader, asked, late,
                   faults>>

-----------------------------------------------------------------------------
(***************************************************************************)
(* Accepting.                                                               *)
(***************************************************************************)

\* async_accept completes: a session is created and receive(session) begins to
\* read from it.
Accept(w, c) ==
    /\ pc[w] = "run" /\ accept = "armed" /\ link[c] = "queued"
    /\ accept' = "none"
    /\ link' = [link EXCEPT ![c] = "open"]
    /\ reader' = [reader EXCEPT ![c] = @ + 1]
    /\ pc' = [pc EXCEPT ![w] = "accepted"]
    /\ UNCHANGED <<mainVars, serves, msg, inbox, clientVars, late, faults>>

\* Mutant of Listen: the next accept is forgotten.
ListenNot(w) ==
    /\ pc[w] = "accepted"
    /\ pc' = [pc EXCEPT ![w] = "run"]
    /\ UNCHANGED <<mainVars, accept, serves, msg, link, inbox, reader,
                   clientVars, late, faults>>

\* listen() at the end of its own completion, whether the server was stopped in
\* the meantime or not.
Listen(w) ==
    /\ pc[w] = "accepted"
    /\ accept' = "armed"
    /\ late' = (late \/ main \notin {"pause", "signalled"})
    /\ pc' = [pc EXCEPT ![w] = "run"]
    /\ UNCHANGED <<mainVars, serves, msg, link, inbox, reader, clientVars,
                   faults>>

\* An accept fails.
AcceptFails ==
    /\ accept = "armed"
    /\ Fault
    /\ accept' = "error"
    /\ UNCHANGED <<mainVars, workerVars, link, inbox, reader, clientVars, late>>

\* After an error there is no next accept.
AcceptError(w) ==
    /\ pc[w] = "run" /\ accept = "error"
    /\ accept' = "none"
    /\ UNCHANGED <<mainVars, workerVars, link, inbox, reader, clientVars,
                   late, faults>>

-----------------------------------------------------------------------------
(***************************************************************************)
(* Reading and handling.                                                    *)
(***************************************************************************)

\* Mutant of Dispatch: the next message is read before this one is handled.
DispatchAndReceive(w, c) ==
    /\ pc[w] = "run" /\ reader[c] > 0 /\ inbox[c] # <<>>
    /\ inbox' = [inbox EXCEPT ![c] = Tail(@)]
    /\ pc' = [pc EXCEPT ![w] = "handle"]
    /\ serves' = [serves EXCEPT ![w] = c]
    /\ msg' = [msg EXCEPT ![w] = Head(inbox[c])]
    /\ UNCHANGED <<mainVars, accept, link, reader, clientVars, late, faults>>

\* receive_header and receive_message have completed; recv_dispatcher is called.
Dispatch(w, c) ==
    /\ pc[w] = "run" /\ reader[c] > 0 /\ inbox[c] # <<>>
    /\ inbox' = [inbox EXCEPT ![c] = Tail(@)]
    /\ reader' = [reader EXCEPT ![c] = @ - 1]
    /\ pc' = [pc EXCEPT ![w] = "handle"]
    /\ serves' = [serves EXCEPT ![w] = c]
    /\ msg' = [msg EXCEPT ![w] = Head(inbox[c])]
    /\ UNCHANGED <<mainVars, accept, link, clientVars, late, faults>>

\* The session goes with its last handler.
Close(c) ==
    /\ link' = [link EXCEPT ![c] = "closed"]
    /\ inbox' = [inbox EXCEPT ![c] = <<>>]
    /\ client' = [client EXCEPT ![c] = "done"]

\* Mutant of ReadEnds: it is tried again.
ReadEndsNot(w, c) ==
    /\ pc[w] = "run" /\ reader[c] > 0 /\ inbox[c] = <<>> /\ link[c] = "left"
    /\ Close(c)
    /\ UNCHANGED <<mainVars, accept, workerVars, reader, asked, late, faults>>

\* A read ends with an error.
ReadEnds(w, c) ==
    /\ pc[w] = "run" /\ reader[c] > 0 /\ inbox[c] = <<>> /\ link[c] = "left"
    /\ reader' = [reader EXCEPT ![c] = @ - 1]
    /\ Close(c)
    /\ UNCHANGED <<mainVars, accept, workerVars, asked, late, faults>>

Handling(w) == pc[w] = "handle" /\ msg[w] = "request"

\* blocking_send: what is sent to a client that left is lost without a word.
BlockingSend(c, received) ==
    client' = [client EXCEPT ![c] = IF link[c] = "open" THEN received ELSE @]

\* The thread is back in io_service_.run().
Handled(w) ==
    /\ pc' = [pc EXCEPT ![w] = "run"]
    /\ serves' = [serves EXCEPT ![w] = None]
    /\ msg' = [msg EXCEPT ![w] = None]

\* cs_up_act acknowledges the part; keep_alive::Yes: receive_message calls
\* receive(s) again.
StorePart(w) ==
    LET c == serves[w]
    IN  /\ Handling(w)
        /\ BlockingSend(c, "idle")
        /\ reader' = [reader EXCEPT ![c] = @ + 1]
        /\ Handled(w)
        /\ UNCHANGED <<mainVars, accept, link, inbox, asked, late, faults>>

\* send_error, an acknowledgement or a packet for nobody; keep_alive::No.
Refuse(w) ==
    /\ pc[w] = "handle"
    /\ Close(serves[w])
    /\ Handled(w)
    /\ UNCHANGED <<mainVars, accept, reader, asked, late, faults>>

\* cs_down_act sends the part ...
ServePart(w) ==
    LET c == serves[w]
    IN  /\ Handling(w)
        /\ BlockingSend(c, "has part")
        /\ pc' = [pc EXCEPT ![w] = "recv_ack"]
        /\ UNCHANGED <<mainVars, accept, serves, msg, link, inbox, reader,
                       asked, late, faults>>

\* ... and blocks until the session delivers an acknowledgement or breaks.
\* recv_ack throws for one that is no success; recv_part sends no other.
RecvAck(w) ==
    LET c == serves[w]
    IN  /\ pc[w] = "recv_ack"
        /\ inbox[c] # <<>> \/ link[c] = "left"
        /\ Close(c)
        /\ Handled(w)
        /\ UNCHANGED <<mainVars, accept, reader, asked, late, faults>>

\* An exception leaves io_service_.run(): the client of a part has left when
\* remote_address_get asks for it, the master cannot be reached, or the file of a
\* part cannot be opened.
Throw(w) ==
    /\ Handling(w)
    /\ ended' = "threw"
    /\ UNCHANGED <<main, accept, workerVars, link, inbox, reader, clientVars,
                   late, faults>>

\* Nothing is outstanding: run() returns in every thread.
Idle ==
    /\ accept = "none"
    /\ \A c \in Clients : reader[c] = 0
    /\ \A w \in Workers : pc[w] \in {"run", "returned"}

ReturnFromRun(w) ==
    /\ pc[w] = "run" /\ Idle
    /\ pc' = [pc EXCEPT ![w] = "returned"]
    /\ UNCHANGED <<mainVars, accept, serves, msg, link, inbox, reader,
                   clientVars, late, faults>>

-----------------------------------------------------------------------------
(***************************************************************************)
(* The main thread: run() is over, catch_stop() waits for a signal.         *)
(***************************************************************************)
Signal ==
    /\ main = "pause"
    /\ main' = "signalled"
    /\ UNCHANGED <<ended, accept, workerVars, link, inbox, reader, clientVars,
                   late, faults>>

\* Mutant of Stop: the accept goes on.
StopNothing ==
    /\ main = "signalled"
    /\ main' = "joining"
    /\ UNCHANGED <<ended, accept, workerVars, link, inbox, reader, clientVars,
                   late, faults>>

\* Server::stop() cancels the accept that is outstanding, if any.
Stop ==
    /\ main = "signalled"
    /\ main' = "joining"
    /\ accept' = IF accept = "armed" THEN "error" ELSE accept
    /\ UNCHANGED <<ended, workerVars, link, inbox, reader, clientVars, late,
                   faults>>

\* Every thread is joined; "Bye bye!".
Join ==
    /\ main = "joining"
    /\ \A w \in Workers : pc[w] = "returned"
    /\ main' = "joined"
    /\ UNCHANGED <<ended, accept, workerVars, link, inbox, reader, clientVars,
                   late, faults>>

\* The destructor finds threads_ as it was and stops again: join throws for a
\* thread that was joined before, and the destructor is noexcept.
Destroy ==
    /\ main = "joined"
    /\ ended' = IF Workers = {} THEN "cleanly" ELSE "joined twice"
    /\ UNCHANGED <<main, accept, workerVars, link, inbox, reader, clientVars,
                   late, faults>>

-----------------------------------------------------------------------------
WorkerStep(w) ==
    \/ \E c \in Clients : Accept(w, c) \/ Dispatch(w, c) \/ ReadEnds(w, c)
    \/ Listen(w) \/ AcceptError(w)
    \/ StorePart(w) \/ Refuse(w) \/ ServePart(w) \/ RecvAck(w) \/ Throw(w)
    \/ ReturnFromRun(w)

ClientStep(c) ==
    Connect(c) \/ Request(c) \/ Acknowledge(c) \/ Leave(c)

MainStep == Stop \/ Join \/ Destroy

Next ==
    /\ ended = "no"
    /\ \/ \E w \in Workers : WorkerStep(w)
       \/ \E c \in Clients : ClientStep(c)
       \/ AcceptFails \/ Signal \/ MainStep

Spec == Init /\ [][Next]_vars

\* The threads of the process are scheduled again and again; nothing is assumed
\* of the clients, who may stall for ever.
Fairness ==
    /\ \A w \in Workers : WF_vars(ended = "no" /\ WorkerStep(w))
    /\ WF_vars(ended = "no" /\ MainStep)

FairSpec == Spec /\ Fairness

-----------------------------------------------------------------------------
(***************************************************************************)
(* Properties.                                                              *)
(***************************************************************************)

\* The variables stay in the sets the declarations of the code give them, and a
\* session that was closed is not read.
TypeOK ==
    /\ main \in {"pause", "signalled", "joining", "joined"}
    /\ ended \in {"no", "threw", "joined twice", "cleanly"}
    /\ accept \in {"armed", "error", "none"}
    /\ pc \in [Workers -> {"run", "accepted", "handle", "recv_ack", "returned"}]
    /\ serves \in [Workers -> Clients \cup {None}]
    /\ msg \in [Workers -> Packets \cup {None}]
    /\ \A w \in Workers :
         pc[w] \in {"handle", "recv_ack"} =>
             serves[w] \in Clients /\ link[serves[w]] \in {"open", "left"}
    /\ link \in [Clients -> {"new", "queued", "open", "left", "closed"}]
    /\ inbox \in [Clients -> Seq(Packets)]
    /\ reader \in [Clients -> Nat]
    /\ \A c \in Clients : reader[c] > 0 => link[c] \in {"open", "left"}
    /\ client \in [Clients -> {"idle", "asks", "has part", "done"}]
    /\ asked \in [Clients -> 0 .. MaxRequests]
    /\ late \in BOOLEAN
    /\ faults \in 0 .. MaxFaults

\* A session is read by one thread at a time, the blocking read of recv_ack
\* included, and the acceptor, whose one socket_ every accept fills, has one
\* accept at a time, although any thread may run any completion.
ServingOf(c) == {w \in Workers : serves[w] = c}
OneReader ==
    /\ \A c \in Clients : reader[c] + Cardinality(ServingOf(c)) <= 1
    /\ Cardinality({w \in Workers : pc[w] = "accepted"}) <= 1
    /\ accept # "none" => \A w \in Workers : pc[w] # "accepted"

\* The acknowledgement of a part is read by the recv_ack that waits for it, never
\* taken for a request.
AcksReachHandler == \A w \in Workers : pc[w] = "handle" => msg[w] # "ack"

\* No thread leaves io_service_.run() unless the server was stopped or an accept
\* failed: with no session open, only the outstanding accept keeps them there.
StaysInRun == \A w \in Workers : pc[w] = "returned" => main # "pause" \/ faults > 0

\* A request waits for ever only if every thread is waiting for an
\* acknowledgement, and so does a connection, unless the server was stopped or an
\* accept failed.
Waiting(c) ==
    /\ ended = "no"
    /\ \/ reader[c] > 0 /\ inbox[c] # <<>>
       \/ link[c] = "queued" /\ main = "pause" /\ faults = 0
RequestsAreServed ==
    \A c \in Clients :
        <>[]Waiting(c) => <>[](\A w \in Workers : pc[w] = "recv_ack")

\* "Causes the server to stop it's running threads": a stop that does not end is
\* held up by an accept that began after it, or by a client that stays.
Held == \E c \in Clients :
            link[c] = "open" /\ (reader[c] > 0 \/ ServingOf(c) # {})
StopEnds == <>[](main = "joining" /\ ended = "no") => <>[](late \/ Held)

\* "Causes the server to stop it's running threads if any": once they are stopped
\* there is none, and the process ends without being terminated.
StopsThreadsIfAny == ended # "joined twice"
=============================================================================
