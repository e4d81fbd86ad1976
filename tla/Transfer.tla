------------------------------ MODULE Transfer ------------------------------
(***************************************************************************)
(* One client uploads a file and downloads it again.  For the upload the     *)
(* master names storages and how many parts each gets; request_upload        *)
(* starts a task for each of them, which sends its parts one after the       *)
(* other and waits for the acknowledgement of each.  A storage writes the    *)
(* part, sends part_ack to the master and then acknowledges the client.      *)
(* request_download starts a task for every part the master lists.  The      *)
(* main thread of the client watches progress_ and then joins the tasks.     *)
(*                                                                         *)
(* Sessions break, storages end and start again, part_acks are lost, and the *)
(* file may change between its hash and its sending.  The master is taken    *)
(* for what it lists: the parts it has acknowledgements of.                  *)
(***************************************************************************)
EXTENDS Integers, Sequences, FiniteSets, PartLayout

CONSTANTS
    Size,      \* of the file, in bytes
    Storages,
    Fields,    \* the master's STPFIELDs: a sequence of storages and counts
    MaxFaults, \* bound: faults of any kind
    None       \* no message, nothing

ASSUME TransferAssumption ==
    /\ Size \in Nat
    /\ Fields \in Seq([addr : Storages, nb : Nat \ {0}])
    /\ MaxFaults \in Nat

\* total_parts, and the parts that are left when i fields have got theirs.
Left[i \in 0 .. Len(Fields)] ==
    IF i = 0 THEN 0 ELSE Left[i - 1] + Fields[i].nb
NbParts == Left[Len(Fields)]
Parts == 0 .. NbParts - 1

\* Mutant of EndId: end_id is taken to be the last part.
EndIdInclusive(t) == NbParts - Left[t - 1] + 1

\* The ranges [begin_id, end_id) of the tasks: the first field gets the last parts.
EndId(t) == NbParts - Left[t - 1]
BeginId(t) == NbParts - Left[t]

UpTasks == 1 .. Len(Fields)
DownTasks == NbParts + 1 .. 2 * NbParts
Tasks == UpTasks \cup DownTasks

VARIABLES
    main,      \* where the client's main thread is
    progress,  \* progress_
    listed,    \* the parts and storages of the master's answer
    out,       \* the bytes of the downloaded file that were written
    task,      \* where each task is
    part,      \* the part it is at
    conn,      \* its session
    wire,      \* the message on its session
    handler,   \* where the handler at the storage's end is
    up,        \* the storages that run
    disk,      \* the parts that are in a storage's files
    partAcks,  \* part_acks on their way to the master
    known,     \* the parts the master lists, in the order of their part_acks
    ended,     \* the storages that ended once
    faults     \* how many faults happened

clientVars == <<main, progress, listed, out>>
taskVars == <<task, part, conn, wire, handler>>
storageVars == <<up, disk>>
masterVars == <<partAcks, known>>
vars == <<clientVars, taskVars, storageVars, masterVars, ended, faults>>

NoHandler == [at |-> "none", nb |-> 0]

Init ==
    /\ main = "start"
    /\ progress = 0
    /\ listed = <<>>
    /\ out = [b \in {} |-> None]
    /\ task = [t \in Tasks |-> "none"]
    /\ part = [t \in Tasks |-> 0]
    /\ conn = [t \in Tasks |-> "none"]
    /\ wire = [t \in Tasks |-> None]
    /\ handler = [t \in Tasks |-> NoHandler]
    /\ up = Storages
    /\ disk = [s \in Storages |-> {}]
    /\ partAcks = {}
    /\ known = <<>>
    /\ ended = {}
    /\ faults = 0

\* The storage a task talks to.
Peer(t) == IF t \in UpTasks THEN Fields[t].addr ELSE listed[t - NbParts].addr

Ended(t) == task[t] \in {"none", "done", "failed"}

\* The main thread waits for the counter, then for the futures of the tasks.
ProgressWhile(limit) == progress >= limit
EndAllTasks(tasks) == \A t \in tasks : Ended(t)

Fault ==
    /\ faults < MaxFaults
    /\ faults' = faults + 1

-----------------------------------------------------------------------------
(***************************************************************************)
(* The client's main thread.                                                *)
(***************************************************************************)

\* Mutant of UploadBegins: progress_ is not set back.
UploadBeginsLate ==
    /\ main = "start"
    /\ main' = "uploading"
    /\ progress' = 0
    /\ task' = [t \in Tasks |-> IF t \in UpTasks THEN "connect" ELSE "none"]
    /\ part' = [t \in Tasks |-> IF t \in UpTasks THEN BeginId(t) ELSE 0]
    /\ UNCHANGED <<listed, out, conn, wire, handler, storageVars, masterVars,
                   ended, faults>>

\* progress_ is set to 1 and the tasks are started.
UploadBegins ==
    /\ main = "start"
    /\ main' = "uploading"
    /\ progress' = 1
    /\ task' = [t \in Tasks |-> IF t \in UpTasks THEN "connect" ELSE "none"]
    /\ part' = [t \in Tasks |-> IF t \in UpTasks THEN BeginId(t) ELSE 0]
    /\ UNCHANGED <<listed, out, conn, wire, handler, storageVars, masterVars,
                   ended, faults>>

\* Mutant of UploadEnds: the tasks are not joined.
UploadEndsEarly ==
    /\ main = "uploading"
    /\ ProgressWhile(NbParts)
    /\ main' = "uploaded"
    /\ UNCHANGED <<progress, listed, out, taskVars, storageVars, masterVars,
                   ended, faults>>

\* "Upload took".
UploadEnds ==
    /\ main = "uploading"
    /\ ProgressWhile(NbParts)
    /\ EndAllTasks(UpTasks)
    /\ main' = "uploaded"
    /\ UNCHANGED <<progress, listed, out, taskVars, storageVars, masterVars,
                   ended, faults>>

\* The master's answer; one without parts is an invalid packet.
DownloadBegins ==
    /\ main = "uploaded"
    /\ listed' = known
    /\ IF known = <<>>
       THEN /\ main' = "failed"
            /\ UNCHANGED <<progress, task, part>>
       ELSE /\ main' = "downloading"
            /\ progress' = 1
            /\ task' = [t \in Tasks |->
                          IF t - NbParts \in DOMAIN known THEN "connect"
                          ELSE task[t]]
            /\ part' = [t \in Tasks |->
                          IF t - NbParts \in DOMAIN known
                          THEN known[t - NbParts].nb ELSE part[t]]
    /\ UNCHANGED <<out, conn, wire, handler, storageVars, masterVars, ended,
                   faults>>

\* "Download took": the size is divided by the milliseconds that passed, and
\* when there are none the process is trapped at the division.
DownloadEnds ==
    /\ main = "downloading"
    /\ ProgressWhile(Len(listed))
    /\ EndAllTasks(DownTasks)
    /\ main' \in {"downloaded", "trapped"}
    /\ UNCHANGED <<progress, listed, out, taskVars, storageVars, masterVars,
                   ended, faults>>

-----------------------------------------------------------------------------
(***************************************************************************)
(* Sessions and storages fail.                                              *)
(***************************************************************************)

\* The storage's process ends, its sessions break, and what a handler has not
\* closed yet may be missing from its file.
StorageEnds(s) ==
    LET its == {t \in Tasks : task[t] # "none" /\ Peer(t) = s}
        unclosed == {handler[t].nb : t \in {u \in its : handler[u].at \in
                                                {"tell", "ack", "close"}}}
    IN  /\ up' = up \ {s}
        /\ ended' = ended \cup {s}
        /\ conn' = [t \in Tasks |-> IF t \in its /\ conn[t] = "open"
                                    THEN "broken" ELSE conn[t]]
        /\ wire' = [t \in Tasks |-> IF t \in its THEN None ELSE wire[t]]
        /\ handler' = [t \in Tasks |-> IF t \in its THEN NoHandler ELSE handler[t]]
        /\ \E gone \in SUBSET unclosed : disk' = [disk EXCEPT ![s] = @ \ gone]

StorageCrash(s) ==
    /\ s \in up
    /\ Fault
    /\ StorageEnds(s)
    /\ UNCHANGED <<clientVars, task, part, masterVars>>

StorageStart(s) ==
    /\ s \notin up
    /\ up' = up \cup {s}
    /\ UNCHANGED <<clientVars, taskVars, disk, masterVars, ended, faults>>

BreakSession(t) ==
    /\ conn[t] = "open"
    /\ Fault
    /\ conn' = [conn EXCEPT ![t] = "broken"]
    /\ wire' = [wire EXCEPT ![t] = None]
    /\ UNCHANGED <<clientVars, task, part, handler, storageVars, masterVars, ended>>

-----------------------------------------------------------------------------
(***************************************************************************)
(* The tasks of the client: send_parts and recv_part.                       *)
(***************************************************************************)

\* Session::create throws when nobody listens; the future keeps the exception,
\* and nobody asks it.
Connect(t) ==
    /\ task[t] = "connect"
    /\ IF Peer(t) \in up
       THEN /\ conn' = [conn EXCEPT ![t] = "open"]
            /\ task' = [task EXCEPT ![t] = "send"]
       ELSE /\ task' = [task EXCEPT ![t] = "failed"]
            /\ UNCHANGED conn
    /\ UNCHANGED <<clientVars, part, wire, handler, storageVars, masterVars,
                   ended, faults>>

\* blocking_send of a part or of a request for one; it only logs an error.  The
\* mapped file may change between the hash and the sending.
Send(t) ==
    /\ task[t] = "send"
    /\ task' = [task EXCEPT ![t] = "wait"]
    /\ IF conn[t] = "open"
       THEN \E whole \in BOOLEAN :
            /\ IF whole THEN UNCHANGED faults ELSE t \in UpTasks /\ Fault
            /\ wire' = [wire EXCEPT ![t] =
                  [kind |-> IF t \in UpTasks THEN "part" ELSE "request",
                   nb |-> part[t], whole |-> whole]]
       ELSE UNCHANGED <<wire, faults>>
    /\ UNCHANGED <<clientVars, part, conn, handler, storageVars, masterVars, ended>>

\* A task that ends closes its session.
Closed(t) == conn' = [conn EXCEPT ![t] = IF @ = "broken" THEN @ ELSE "none"]

\* ++progress_ and the next part, or the end of the task.
Count(t) ==
    /\ progress' = progress + 1
    /\ IF part[t] + 1 < EndId(t)
       THEN /\ part' = [part EXCEPT ![t] = @ + 1]
            /\ task' = [task EXCEPT ![t] = "send"]
            /\ UNCHANGED conn
       ELSE /\ task' = [task EXCEPT ![t] = "done"]
            /\ Closed(t)
            /\ UNCHANGED part

\* recv_ack: it throws for an error code; when the session breaks it returns as
\* if the ack had come.
RecvAck(t) ==
    /\ t \in UpTasks /\ task[t] = "wait"
    /\ \/ /\ wire[t] # None /\ wire[t].kind = "ack"
          /\ wire' = [wire EXCEPT ![t] = None]
          /\ Count(t)
       \/ /\ wire[t] # None /\ wire[t].kind = "error"
          /\ wire' = [wire EXCEPT ![t] = None]
          /\ task' = [task EXCEPT ![t] = "failed"]
          /\ Closed(t)
          /\ UNCHANGED <<progress, part>>
       \/ /\ conn[t] = "broken"
          /\ Count(t)
          /\ UNCHANGED wire
    /\ UNCHANGED <<main, listed, out, handler, storageVars, masterVars, ended,
                   faults>>

\* Part nb as it comes back: byte UploadOffset + i of the file at i.
Written(nb) ==
    LET to == DownloadOffset(Size, nb, Len(listed))
        from == UploadOffset(Size, nb, NbParts)
    IN  [b \in Bytes(to, PartSize(Size, nb, NbParts)) |-> from + (b - to)]

\* The file with the bytes of one more part.
Filled(new) ==
    [b \in DOMAIN out \cup DOMAIN new |-> IF b \in DOMAIN new THEN new[b] ELSE out[b]]

\* Mutants of RecvPart: a part is counted although its session broke, or a part
\* that came is not counted.
RecvPartAlwaysCounted(t) ==
    /\ t \in DownTasks /\ task[t] = "wait"
    /\ \/ /\ wire[t] # None /\ wire[t].kind = "data"
          /\ out' = Filled(Written(wire[t].nb))
       \/ /\ conn[t] = "broken"
          /\ UNCHANGED out
    /\ progress' = progress + 1
    /\ task' = [task EXCEPT ![t] = "done"]
    /\ wire' = [wire EXCEPT ![t] = None]
    /\ Closed(t)
    /\ UNCHANGED <<main, listed, part, handler, storageVars, masterVars, ended,
                   faults>>

RecvPartNotCounted(t) ==
    /\ t \in DownTasks /\ task[t] = "wait"
    /\ wire[t] # None /\ wire[t].kind = "data"
    /\ out' = Filled(Written(wire[t].nb))
    /\ task' = [task EXCEPT ![t] = "done"]
    /\ wire' = [wire EXCEPT ![t] = None]
    /\ Closed(t)
    /\ UNCHANGED <<main, progress, listed, part, handler, storageVars, masterVars,
                   ended, faults>>

\* The part is copied into the file and acknowledged; when the session breaks,
\* the task ends without counting it.
RecvPart(t) ==
    /\ t \in DownTasks /\ task[t] = "wait"
    /\ \/ /\ wire[t] # None /\ wire[t].kind = "data"
          /\ out' = Filled(Written(wire[t].nb))
          /\ progress' = progress + 1
          /\ task' = [task EXCEPT ![t] = "done"]
       \/ /\ conn[t] = "broken"
          /\ task' = [task EXCEPT ![t] = "failed"]
          /\ UNCHANGED <<progress, out>>
    /\ wire' = [wire EXCEPT ![t] = None]
    /\ Closed(t)
    /\ UNCHANGED <<main, listed, part, handler, storageVars, masterVars, ended,
                   faults>>

-----------------------------------------------------------------------------
(***************************************************************************)
(* The handlers of the storage: cs_up_act and cs_down_act.                  *)
(***************************************************************************)
At(t, kind) == wire[t] # None /\ wire[t].kind = kind

\* Mutant of StorePart: the hash is not checked.
StorePartUnchecked(t) ==
    /\ At(t, "part") /\ handler[t] = NoHandler
    /\ disk' = [disk EXCEPT ![Peer(t)] =
                  IF wire[t].whole THEN @ \cup {wire[t].nb} ELSE @]
    /\ handler' = [handler EXCEPT ![t] = [at |-> "tell", nb |-> wire[t].nb]]
    /\ wire' = [wire EXCEPT ![t] = None]
    /\ UNCHANGED <<clientVars, task, part, conn, up, masterVars, ended, faults>>

\* The hash is checked, the file is written, but not closed: StorageEnds takes
\* what the stream has not flushed.  remote_address_get throws when the client is
\* gone, and the storage ends as in StorageCrash.
StorePart(t) ==
    /\ At(t, "part") /\ handler[t] = NoHandler
    /\ IF wire[t].whole
       THEN /\ disk' = [disk EXCEPT ![Peer(t)] = @ \cup {wire[t].nb}]
            /\ handler' = [handler EXCEPT ![t] = [at |-> "tell", nb |-> wire[t].nb]]
            /\ wire' = [wire EXCEPT ![t] = None]
       ELSE /\ wire' = [wire EXCEPT ![t].kind = "error"]
            /\ UNCHANGED <<disk, handler>>
    /\ UNCHANGED <<clientVars, task, part, conn, up, masterVars, ended, faults>>

\* A session to the master and part_ack; Session::create throws when the master
\* is not there, and the storage ends.
TellMaster(t) ==
    /\ handler[t].at = "tell"
    /\ \/ /\ partAcks' = partAcks \cup {[addr |-> Peer(t), nb |-> handler[t].nb]}
          /\ handler' = [handler EXCEPT ![t].at = "ack"]
          /\ UNCHANGED <<conn, wire, storageVars, ended, faults>>
       \/ /\ Fault
          /\ StorageEnds(Peer(t))
          /\ UNCHANGED partAcks
    /\ UNCHANGED <<clientVars, task, part, known>>

\* send_ack to the client, if the session is there.
AckClient(t) ==
    /\ handler[t].at = "ack"
    /\ handler' = [handler EXCEPT ![t].at = "close"]
    /\ wire' = [wire EXCEPT ![t] =
                  IF conn[t] = "open"
                  THEN [kind |-> "ack", nb |-> handler[t].nb, whole |-> TRUE]
                  ELSE @]
    /\ UNCHANGED <<clientVars, task, part, conn, storageVars, masterVars, ended,
                   faults>>

\* The handler returns: the file is closed and the session reads on.
CloseFile(t) ==
    /\ handler[t].at = "close"
    /\ handler' = [handler EXCEPT ![t] = NoHandler]
    /\ UNCHANGED <<clientVars, task, part, conn, wire, storageVars, masterVars,
                   ended, faults>>

\* The part is sent and the worker waits for the acknowledgement; File throws
\* when there is no such file, and the storage ends.
ServePart(t) ==
    /\ At(t, "request") /\ handler[t] = NoHandler
    /\ IF wire[t].nb \in disk[Peer(t)]
       THEN /\ wire' = [wire EXCEPT ![t].kind = "data"]
            /\ handler' = [handler EXCEPT ![t] = [at |-> "recv_ack", nb |-> wire[t].nb]]
            /\ UNCHANGED <<conn, storageVars, ended>>
       ELSE StorageEnds(Peer(t))
    /\ UNCHANGED <<clientVars, task, part, masterVars, faults>>

\* recv_ack returns with the client's acknowledgement or with the session.
ServeEnds(t) ==
    /\ handler[t].at = "recv_ack" /\ conn[t] # "open"
    /\ handler' = [handler EXCEPT ![t] = NoHandler]
    /\ UNCHANGED <<clientVars, task, part, conn, wire, storageVars, masterVars,
                   ended, faults>>

-----------------------------------------------------------------------------
(***************************************************************************)
(* The master, as the client sees it.                                       *)
(***************************************************************************)
TakePartAck(a) ==
    /\ a \in partAcks
    /\ partAcks' = partAcks \ {a}
    /\ known' = Append(known, a)
    /\ UNCHANGED <<clientVars, taskVars, storageVars, ended, faults>>

LosePartAck(a) ==
    /\ a \in partAcks
    /\ Fault
    /\ partAcks' = partAcks \ {a}
    /\ UNCHANGED <<clientVars, taskVars, storageVars, known, ended>>

-----------------------------------------------------------------------------
ClientStep(t) == Connect(t) \/ Send(t) \/ RecvAck(t) \/ RecvPart(t)
HandlerStep(t) ==
    \/ StorePart(t) \/ TellMaster(t) \/ AckClient(t) \/ CloseFile(t)
    \/ ServePart(t) \/ ServeEnds(t)
MainStep == UploadBegins \/ UploadEnds \/ DownloadBegins \/ DownloadEnds

Next ==
    \/ MainStep
    \/ \E t \in Tasks : ClientStep(t) \/ HandlerStep(t) \/ BreakSession(t)
    \/ \E s \in Storages : StorageCrash(s) \/ StorageStart(s)
    \/ \E a \in partAcks : TakePartAck(a) \/ LosePartAck(a)

Spec == Init /\ [][Next]_vars

\* As long as a thread of the client or of a storage can run, one of them does:
\* none of their steps can be repeated for ever, so that no more is needed.
Fairness == WF_vars(MainStep \/ \E t \in Tasks : ClientStep(t) \/ HandlerStep(t))

FairSpec == Spec /\ Fairness

-----------------------------------------------------------------------------
(***************************************************************************)
(* Properties.                                                              *)
(***************************************************************************)
Message == [kind : {"part", "request", "ack", "error", "data"}, nb : Parts,
            whole : BOOLEAN]

\* The variables stay in the sets the declarations of the code give them.
TypeOK ==
    /\ main \in {"start", "uploading", "uploaded", "downloading", "downloaded",
                 "trapped", "failed"}
    /\ progress \in 0 .. NbParts + 1
    /\ listed \in Seq([addr : Storages, nb : Parts])
    /\ known \in Seq([addr : Storages, nb : Parts])
    /\ \A b \in DOMAIN out : b \in Nat /\ out[b] \in 0 .. Size - 1
    /\ task \in [Tasks -> {"none", "connect", "send", "wait", "done", "failed"}]
    /\ \A t \in Tasks : task[t] # "none" => part[t] \in Parts
    /\ conn \in [Tasks -> {"none", "open", "broken"}]
    /\ wire \in [Tasks -> Message \cup {None}]
    /\ handler \in [Tasks -> [at : {"none", "tell", "ack", "close", "recv_ack"},
                             nb : 0 .. NbParts]]
    /\ up \subseteq Storages /\ ended \subseteq Storages
    /\ disk \in [Storages -> SUBSET Parts]
    /\ partAcks \subseteq [addr : Storages, nb : Parts]
    /\ faults \in 0 .. MaxFaults

\* The parts of the tasks of an upload that ended by an exception and were not
\* counted.
LostParts ==
    UNION {part[t] .. EndId(t) - 1 : t \in {u \in UpTasks : task[u] = "failed"}}
FailedDownloads == {t \in DownTasks : task[t] = "failed"}

\* What the master hears of is stored where it is told: a storage writes the
\* part before it sends part_ack, and only its own end can take it away.
ToldIsStored ==
    \A a \in partAcks \cup {known[k] : k \in DOMAIN known} :
        a.nb \in disk[a.addr] \/ a.addr \in ended

\* When the client says the upload is over, at most one part was given up, and
\* every other part that went over a session that held is stored: progress_
\* starts at 1, so only the join of the tasks covers the part that
\* progress_while does not wait for.
UploadReport ==
    main \in {"uploaded", "downloading", "downloaded", "trapped"} =>
        /\ Cardinality(LostParts) <= 1
        /\ \A t \in UpTasks : \A p \in BeginId(t) .. EndId(t) - 1 :
             \/ p \in LostParts \/ conn[t] = "broken"
             \/ p \in disk[Peer(t)] \/ Peer(t) \in ended

\* In the order in which the tasks happen to write, and although neighbouring
\* parts may overlap, every byte that is written into the downloaded file is
\* that byte of the uploaded one; this needs a complete answer of the master.
BytesAreRight ==
    Len(listed) = NbParts => \A b \in DOMAIN out : out[b] = b /\ b < Size

\* A download that is over without a failed task has written every part, to the
\* end of the last one; so it has when the client does not come to say so.
DownloadReport ==
    main \in {"downloaded", "trapped"} /\ Len(listed) = NbParts =>
        /\ Cardinality(FailedDownloads) <= 1
        /\ FailedDownloads = {} =>
             DOMAIN out = 0 .. UploadOffset(Size, NbParts - 1, NbParts)
                                + PartSize(Size, NbParts - 1, NbParts) - 1

\* "It will be making constant database updates/checks in order to ensure the
\* integrity of the transfers": a download that is over has the whole file.
DownloadIsWhole ==
    main = "downloaded" /\ FailedDownloads = {} /\ Len(listed) = NbParts =>
        DOMAIN out = 0 .. Size - 1

\* An upload and a download are over at last, unless two parts were given up:
\* then progress_ never reaches the number of parts.
TransfersReturn ==
    /\ main = "uploading" ~> main # "uploading" \/ Cardinality(LostParts) > 1
    /\ main = "downloading" ~>
         main # "downloading" \/ Cardinality(FailedDownloads) > 1
=============================================================================
