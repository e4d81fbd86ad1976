--------------------------- MODULE StorageRegistry ---------------------------
(***************************************************************************)
(* How a storage obtains its id.  A storage that starts without an id file  *)
(* opens a session to the master and sends id_req; a thread of the master   *)
(* runs sm_id_req, which reads the document "storages", writes the document *)
(* "st.<count>", writes "storages" back and answers with fid_info.  Each    *)
(* cmd_get and cmd_put is atomic (Database::mutex_); the sequence is not:   *)
(* every thread of the master may be inside sm_id_req, or inside            *)
(* get_all_storages, at the same time.                                      *)
(*                                                                         *)
(* The master, the storages and the sessions between them may fail at any   *)
(* point; what is in the database and on the disk of a storage survives.    *)
(***************************************************************************)
EXTENDS Integers, FiniteSets, FiniteSetsExt

CONSTANTS
    Workers,    \* threads of the master that run io_service_.run()
    Hosts,      \* storages, each at an address of its own
    AvSpace,    \* the space Storage::space_available() returns on a host
    NoFile,     \* there is no id file at conf.id_path
    EmptyFile,  \* the id file was created, its content never written
    MaxBoots,   \* bound: how often each storage is started
    MaxFaults   \* bound: crashes and broken sessions in a behaviour

ASSUME RegistryAssumption ==
    /\ AvSpace \in [Hosts -> Nat]
    /\ MaxBoots \in Nat
    /\ MaxFaults \in Nat
    /\ NoFile \notin Nat
    /\ EmptyFile \notin Nat
    /\ NoFile # EmptyFile

VARIABLES
    mos,       \* document "storages": how many storages, their total space
    st,        \* documents "st.<i>", a function of the ids that have one
    pc,        \* where each worker is
    job,       \* the session a worker serves
    snap,      \* the MetaOnStoragesItem a worker holds
    idx,       \* the loop variable of get_all_storages
    masterUp,  \* the master process is running
    hpc,       \* where each storage process is
    boots,     \* how often a storage was started
    id,        \* Storage::id, 0 until it is set
    idFile,    \* the content of the id file
    conn,      \* the sessions storages opened to the master
    replies,   \* fid_info messages the storage has not read yet
    faults     \* how many faults happened

dbVars == <<mos, st>>
workerVars == <<pc, job, snap, idx>>
hostVars == <<hpc, boots, id, idFile>>
netVars == <<conn, replies>>
vars == <<dbVars, workerVars, masterUp, hostVars, netVars, faults>>

\* A start of a storage opens at most one session: number b of host h.
Sessions == Hosts \X (1 .. MaxBoots)
NoSession == <<>>
Host(s) == s[1]

MetaOnStorages == [count : Nat, space : Nat]
StorageItem == [addr : Hosts, avspace : Nat]
NoMeta == [count |-> 0, space |-> 0]

WorkerPc == {"idle", "put_st", "put_storages", "reply", "listing"}
HostPc == {"down", "waiting", "writing", "up"}
ConnState == {"unused", "request", "serving", "closed"}

\* cmd_put: the document takes the place of the one under the same key.
Upsert(docs, key, doc) ==
    [k \in DOMAIN docs \cup {key} |-> IF k = key THEN doc ELSE docs[k]]

\* The storage that opened the session is still reading from it.
Alive(s) ==
    /\ conn[s] \in {"request", "serving"}
    /\ hpc[Host(s)] = "waiting"
    /\ s = <<Host(s), boots[Host(s)]>>

\* The database as Connector::get_instance(host, ...) initialises it.
Init ==
    /\ mos = NoMeta
    /\ st = [i \in {} |-> 0]
    /\ pc = [w \in Workers |-> "idle"]
    /\ job = [w \in Workers |-> NoSession]
    /\ snap = [w \in Workers |-> NoMeta]
    /\ idx = [w \in Workers |-> 0]
    /\ masterUp = TRUE
    /\ hpc = [h \in Hosts |-> "down"]
    /\ boots = [h \in Hosts |-> 0]
    /\ id = [h \in Hosts |-> 0]
    /\ idFile = [h \in Hosts |-> NoFile]
    /\ conn = [s \in Sessions |-> "unused"]
    /\ replies = {}
    /\ faults = 0

-----------------------------------------------------------------------------
(***************************************************************************)
(* The storage: Storage::run and init_id.                                   *)
(***************************************************************************)

\* Mutant of SendIdReq: the id file is not looked at.
SendIdReqAlways(h) ==
    /\ hpc[h] = "down" /\ boots[h] < MaxBoots
    /\ masterUp
    /\ boots' = [boots EXCEPT ![h] = @ + 1]
    /\ hpc' = [hpc EXCEPT ![h] = "waiting"]
    /\ conn' = [conn EXCEPT ![<<h, boots[h] + 1>>] = "request"]
    /\ UNCHANGED <<dbVars, workerVars, masterUp, id, idFile, replies, faults>>

\* Session::create and send(id_req) when there is no id file.
SendIdReq(h) ==
    /\ hpc[h] = "down" /\ boots[h] < MaxBoots
    /\ idFile[h] = NoFile
    /\ masterUp
    /\ boots' = [boots EXCEPT ![h] = @ + 1]
    /\ hpc' = [hpc EXCEPT ![h] = "waiting"]
    /\ conn' = [conn EXCEPT ![<<h, boots[h] + 1>>] = "request"]
    /\ UNCHANGED <<dbVars, workerVars, masterUp, id, idFile, replies, faults>>

\* The constructor of Session throws: main catches it and the process ends.
StartRefused(h) ==
    /\ hpc[h] = "down" /\ boots[h] < MaxBoots
    /\ idFile[h] = NoFile
    /\ ~masterUp
    /\ boots' = [boots EXCEPT ![h] = @ + 1]
    /\ UNCHANGED <<dbVars, workerVars, masterUp, hpc, id, idFile, netVars,
                   faults>>

\* Mutant of LoadId: the extraction from an empty file is not noticed.
LoadIdUnchecked(h) ==
    /\ hpc[h] = "down" /\ boots[h] < MaxBoots
    /\ idFile[h] # NoFile
    /\ boots' = [boots EXCEPT ![h] = @ + 1]
    /\ id' = [id EXCEPT ![h] = idFile[h]]
    /\ hpc' = [hpc EXCEPT ![h] = "up"]
    /\ UNCHANGED <<dbVars, workerVars, masterUp, idFile, netVars, faults>>

\* id_file >> id: a file without a number leaves id at 0.
LoadId(h) ==
    /\ hpc[h] = "down" /\ boots[h] < MaxBoots
    /\ idFile[h] # NoFile
    /\ boots' = [boots EXCEPT ![h] = @ + 1]
    /\ id' = [id EXCEPT ![h] = IF idFile[h] = EmptyFile THEN 0 ELSE idFile[h]]
    /\ hpc' = [hpc EXCEPT ![h] = "up"]
    /\ UNCHANGED <<dbVars, workerVars, masterUp, idFile, netVars, faults>>

\* Mutant of ReceiveId: an answer to another session is taken.
ReceiveAnyId(h) ==
    /\ hpc[h] = "waiting"
    /\ \E r \in replies :
        /\ id' = [id EXCEPT ![h] = r.stid]
        /\ replies' = replies \ {r}
    /\ idFile' = [idFile EXCEPT ![h] = EmptyFile]
    /\ hpc' = [hpc EXCEPT ![h] = "writing"]
    /\ UNCHANGED <<dbVars, workerVars, masterUp, boots, conn, faults>>

\* The callback of blocking_receive sets id and creates the id file.
ReceiveId(h) ==
    /\ hpc[h] = "waiting"
    /\ \E r \in replies :
        /\ r.to = <<h, boots[h]>>
        /\ id' = [id EXCEPT ![h] = r.stid]
        /\ replies' = replies \ {r}
    /\ idFile' = [idFile EXCEPT ![h] = EmptyFile]
    /\ hpc' = [hpc EXCEPT ![h] = "writing"]
    /\ UNCHANGED <<dbVars, workerVars, masterUp, boots, conn, faults>>

\* The ofstream is flushed when the callback returns.
WriteId(h) ==
    /\ hpc[h] = "writing"
    /\ idFile' = [idFile EXCEPT ![h] = id[h]]
    /\ hpc' = [hpc EXCEPT ![h] = "up"]
    /\ UNCHANGED <<dbVars, workerVars, masterUp, boots, id, netVars, faults>>

\* blocking_receive logs a read error and returns: run() goes on with id 0.
ReceiveError(h) ==
    /\ hpc[h] = "waiting"
    /\ conn[<<h, boots[h]>>] = "closed"
    /\ \A r \in replies : r.to # <<h, boots[h]>>
    /\ hpc' = [hpc EXCEPT ![h] = "up"]
    /\ UNCHANGED <<dbVars, workerVars, masterUp, boots, id, idFile, netVars,
                   faults>>

\* Storage::stop after a signal: a restart finds the id file again.
StorageStop(h) ==
    /\ hpc[h] = "up"
    /\ hpc' = [hpc EXCEPT ![h] = "down"]
    /\ id' = [id EXCEPT ![h] = 0]
    /\ UNCHANGED <<dbVars, workerVars, masterUp, boots, idFile, netVars, faults>>

\* The process ends, at any point; its id file stays as it is.
StorageCrash(h) ==
    /\ hpc[h] # "down" /\ faults < MaxFaults
    /\ faults' = faults + 1
    /\ hpc' = [hpc EXCEPT ![h] = "down"]
    /\ id' = [id EXCEPT ![h] = 0]
    /\ replies' = {r \in replies : Host(r.to) # h}
    /\ UNCHANGED <<dbVars, workerVars, masterUp, boots, idFile, conn>>

\* The session between a storage and the master breaks; what it carries is lost.
BreakSession(s) ==
    /\ faults < MaxFaults
    /\ \/ Alive(s)
       \/ \E r \in replies : r.to = s
    /\ faults' = faults + 1
    /\ conn' = [conn EXCEPT ![s] = "closed"]
    /\ replies' = {r \in replies : r.to # s}
    /\ UNCHANGED <<dbVars, workerVars, masterUp, hostVars>>

-----------------------------------------------------------------------------
(***************************************************************************)
(* A worker of the master: sm_id_req.                                       *)
(***************************************************************************)

Idle(w) ==
    /\ pc' = [pc EXCEPT ![w] = "idle"]
    /\ job' = [job EXCEPT ![w] = NoSession]
    /\ snap' = [snap EXCEPT ![w] = NoMeta]
    /\ idx' = [idx EXCEPT ![w] = 0]

\* The process ends with all its threads; the database stays as it is and the
\* storages see their sessions closed.
MasterEnds ==
    /\ masterUp' = FALSE
    /\ pc' = [w \in Workers |-> "idle"]
    /\ job' = [w \in Workers |-> NoSession]
    /\ snap' = [w \in Workers |-> NoMeta]
    /\ idx' = [w \in Workers |-> 0]
    /\ conn' = [s \in Sessions |->
                  IF conn[s] = "unused" THEN "unused" ELSE "closed"]
    /\ UNCHANGED <<dbVars, hostVars, replies>>

\* The id a new storage gets, from the MetaOnStoragesItem that was read.
NewId(meta) == meta.count

\* recv_dispatcher calls sm_id_req, which reads "storages".
ReadStorages(w, s) ==
    /\ masterUp /\ pc[w] = "idle"
    /\ conn[s] = "request"
    /\ conn' = [conn EXCEPT ![s] = "serving"]
    /\ job' = [job EXCEPT ![w] = s]
    /\ snap' = [snap EXCEPT ![w] = mos]
    /\ pc' = [pc EXCEPT ![w] = "put_st"]
    /\ UNCHANGED <<dbVars, idx, masterUp, hostVars, replies, faults>>

\* The StorageItem takes the address of the peer and is put under "st.<id>".
PutStorage(w) ==
    /\ pc[w] = "put_st"
    /\ st' = Upsert(st, NewId(snap[w]),
                    [addr |-> Host(job[w]), avspace |-> AvSpace[Host(job[w])]])
    /\ pc' = [pc EXCEPT ![w] = "put_storages"]
    /\ UNCHANGED <<mos, job, snap, idx, masterUp, hostVars, netVars, faults>>

\* Mutant of PeerGone: the exception is caught around the first cmd_put.
PeerGoneIgnored(w) ==
    /\ pc[w] = "put_st"
    /\ ~Alive(job[w])
    /\ pc' = [pc EXCEPT ![w] = "put_storages"]
    /\ UNCHANGED <<dbVars, job, snap, idx, masterUp, hostVars, netVars, faults>>

\* remote_address_get throws when the peer is gone.  Nothing catches it in the
\* thread, so the process ends.
PeerGone(w) ==
    /\ pc[w] = "put_st"
    /\ ~Alive(job[w])
    /\ MasterEnds
    /\ UNCHANGED faults

\* "storages" is put back with the counters of the copy that was read.
PutStorages(w) ==
    /\ pc[w] = "put_storages"
    /\ mos' = [count |-> snap[w].count + 1,
               space |-> snap[w].space + AvSpace[Host(job[w])]]
    /\ pc' = [pc EXCEPT ![w] = "reply"]
    /\ UNCHANGED <<st, job, snap, idx, masterUp, hostVars, netVars, faults>>

\* Mutant of Reply: the answer is built from the counter that was raised.
ReplyNewCount(w) ==
    /\ pc[w] = "reply"
    /\ replies' = IF Alive(job[w])
                  THEN replies \cup {[to |-> job[w], stid |-> mos.count]}
                  ELSE replies
    /\ conn' = [conn EXCEPT ![job[w]] = "closed"]
    /\ Idle(w)
    /\ UNCHANGED <<dbVars, masterUp, hostVars, faults>>

\* Mutant of Reply: the session is dropped before the answer was sent.
ReplyDropped(w) ==
    /\ pc[w] = "reply"
    /\ conn' = [conn EXCEPT ![job[w]] = "closed"]
    /\ Idle(w)
    /\ UNCHANGED <<dbVars, replies, masterUp, hostVars, faults>>

\* blocking_send(fid_info) swallows errors; keep_alive::No drops the session.
Reply(w) ==
    /\ pc[w] = "reply"
    /\ replies' = IF Alive(job[w])
                  THEN replies \cup {[to |-> job[w], stid |-> NewId(snap[w])]}
                  ELSE replies
    /\ conn' = [conn EXCEPT ![job[w]] = "closed"]
    /\ Idle(w)
    /\ UNCHANGED <<dbVars, masterUp, hostVars, faults>>

(***************************************************************************)
(* A worker of the master: get_all_storages, called to serve an upload, a   *)
(* download or a part_ack.                                                  *)
(***************************************************************************)
ListBegin(w) ==
    /\ masterUp /\ pc[w] = "idle"
    /\ snap' = [snap EXCEPT ![w] = mos]
    /\ pc' = [pc EXCEPT ![w] = "listing"]
    /\ UNCHANGED <<dbVars, job, idx, masterUp, hostVars, netVars, faults>>

\* cmd_get throws for a key without a document; nothing catches it.
ListNext(w) ==
    /\ pc[w] = "listing"
    /\ idx[w] < snap[w].count
    /\ IF idx[w] \in DOMAIN st
       THEN /\ idx' = [idx EXCEPT ![w] = @ + 1]
            /\ UNCHANGED <<dbVars, pc, job, snap, masterUp, hostVars, netVars>>
       ELSE MasterEnds
    /\ UNCHANGED faults

ListEnd(w) ==
    /\ pc[w] = "listing"
    /\ idx[w] >= snap[w].count
    /\ Idle(w)
    /\ UNCHANGED <<dbVars, masterUp, hostVars, netVars, faults>>

MasterCrash ==
    /\ masterUp /\ faults < MaxFaults
    /\ faults' = faults + 1
    /\ MasterEnds

\* The master is started again and finds its documents.
MasterStart ==
    /\ ~masterUp
    /\ masterUp' = TRUE
    /\ UNCHANGED <<dbVars, workerVars, hostVars, netVars, faults>>

-----------------------------------------------------------------------------
WorkerStep(w) ==
    \/ \E s \in Sessions : ReadStorages(w, s)
    \/ PutStorage(w) \/ PeerGone(w) \/ PutStorages(w)
    \/ Reply(w) \/ ListBegin(w) \/ ListNext(w) \/ ListEnd(w)

HostStep(h) ==
    \/ SendIdReq(h) \/ StartRefused(h) \/ LoadId(h) \/ ReceiveId(h)
    \/ WriteId(h) \/ ReceiveError(h) \/ StorageStop(h)
    \/ StorageCrash(h)

Next ==
    \/ \E w \in Workers : WorkerStep(w)
    \/ \E h \in Hosts : HostStep(h)
    \/ \E s \in Sessions : BreakSession(s)
    \/ MasterCrash
    \/ MasterStart

Spec == Init /\ [][Next]_vars

\* One storage is registered at a time: while a thread of the master is between
\* the read of "storages" and the put that takes it back, no other one is.
\* Nothing in sm_id_req sees to that, two threads may serve two id_req at once.
OneRegisters ==
    \A v, w \in Workers :
        /\ pc[v] \in {"put_st", "put_storages"}
        /\ pc[w] \in {"put_st", "put_storages"}
        => v = w
SerialSpec == Init /\ [][Next /\ OneRegisters']_vars

(***************************************************************************)
(* io_service_ hands every request that has arrived to some thread, a thread *)
(* runs its handler to the end (nothing in sm_id_req or get_all_storages     *)
(* waits for a peer), and a storage reads what arrives on its socket.        *)
(***************************************************************************)
Fairness ==
    /\ \A s \in Sessions : SF_vars(\E w \in Workers : ReadStorages(w, s))
    /\ \A w \in Workers :
        WF_vars(\/ PutStorage(w) \/ PutStorages(w) \/ Reply(w)
                \/ ListNext(w) \/ ListEnd(w))
    /\ \A h \in Hosts : WF_vars(ReceiveId(h) \/ WriteId(h) \/ ReceiveError(h))

FairSpec == Spec /\ Fairness

-----------------------------------------------------------------------------
(***************************************************************************)
(* Properties.                                                              *)
(***************************************************************************)

\* The variables stay in the sets the declarations of the code give them.
TypeOK ==
    /\ mos \in MetaOnStorages
    /\ DOMAIN st \subseteq Nat
    /\ \A i \in DOMAIN st : st[i] \in StorageItem
    /\ pc \in [Workers -> WorkerPc]
    /\ job \in [Workers -> Sessions \cup {NoSession}]
    /\ \A w \in Workers :
        pc[w] \in {"put_st", "put_storages", "reply"} => job[w] \in Sessions
    /\ snap \in [Workers -> MetaOnStorages]
    /\ idx \in [Workers -> Nat]
    /\ masterUp \in BOOLEAN
    /\ hpc \in [Hosts -> HostPc]
    /\ boots \in [Hosts -> 0 .. MaxBoots]
    /\ id \in [Hosts -> Nat]
    /\ idFile \in [Hosts -> Nat \cup {NoFile, EmptyFile}]
    /\ conn \in [Sessions -> ConnState]
    /\ replies \subseteq [to : Sessions, stid : Nat]
    /\ faults \in 0 .. MaxFaults

\* Whatever the threads of sm_id_req do to each other's updates, every id below
\* the count of "storages" has its document, and so has every id below the
\* count of a copy a thread still holds: the count is raised only after the
\* document it makes room for was put.
RegistryDense ==
    /\ 0 .. mos.count - 1 \subseteq DOMAIN st
    /\ \A w \in Workers : 0 .. snap[w].count - 1 \subseteq DOMAIN st
    /\ \A w \in Workers :
        pc[w] \in {"put_storages", "reply"} => NewId(snap[w]) \in DOMAIN st

\* get_all_storages never asks the database for a document that is not there,
\* which would end the master: also while registrations overtake it.
ListingNeverThrows ==
    \A w \in Workers :
        pc[w] = "listing" /\ idx[w] < snap[w].count => idx[w] \in DOMAIN st

\* An id a storage was given, is being given or has on disk has a document
\* "st.<id>", also after a crash of either side and after lost updates.
IdsAreRegistered ==
    /\ \A r \in replies : r.stid \in DOMAIN st
    /\ \A h \in Hosts :
        /\ hpc[h] = "writing" => id[h] \in DOMAIN st
        /\ idFile[h] \in Nat => idFile[h] \in DOMAIN st

\* "A new storage poped, and he wants a unique id": no two storages have the
\* same number in their id files.
UniqueIds ==
    \A g, h \in Hosts :
        idFile[g] \in Nat /\ idFile[g] = idFile[h] => g = h

\* The id a storage keeps leads a reader of "st.<id>" back to that storage, and
\* get_all_storages lists it.
IdResolvesToHolder ==
    \A h \in Hosts :
        idFile[h] \in Nat => /\ idFile[h] < mos.count
                             /\ st[idFile[h]].addr = h

\* The documents and the id files implement the allocation of numbers that
\* IdAllocator states: registering is one step, whatever fails in between.
AllocOwner == [i \in 0 .. mos.count - 1 |-> st[i].addr]
AllocHeld ==
    [h \in Hosts |-> IF idFile[h] = EmptyFile THEN NoFile ELSE idFile[h]]
Alloc == INSTANCE IdAllocator WITH
    None <- NoFile, next <- mos.count, owner <- AllocOwner, held <- AllocHeld
AllocatesIds == Alloc!Spec

\* The start of a storage ends, whatever fails, and as long as nothing fails the
\* storage gets an id and keeps it.
StartSettles ==
    \A h \in Hosts :
        hpc[h] = "waiting" ~> \/ hpc[h] = "up" /\ idFile[h] = id[h]
                              \/ hpc[h] # "waiting" /\ faults > 0
=============================================================================
