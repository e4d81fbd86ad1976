---------------------------- MODULE FileRegistry ----------------------------
(***************************************************************************)
(* What the master knows about files.  cm_up_req registers a file with      *)
(* create_new_file: it looks for a free name, reads the document "files",   *)
(* writes it back with one more id and writes the document "file.<name>".   *)
(* sm_part_ack, under mutex_part_ack, adds to that document where a part is *)
(* stored; cm_down_req reads it for a client.  Every thread of the master   *)
(* may be inside any of them: each database call is a step of its own.      *)
(*                                                                         *)
(* The clients' sessions, the acknowledgements on their way and the master  *)
(* itself may be lost at any point; the database survives.                  *)
(***************************************************************************)
EXTENDS Integers, Sequences, FiniteSets

CONSTANTS
    Workers,    \* threads of the master that run io_service_.run()
    Uploads,    \* up_req requests, one session each
    Downloads,  \* down_req requests, one session each
    Base,       \* the name an upload asks for
    NbParts,    \* number_of_parts() of its size, 0 for one beyond the table
    Rdcy,       \* the redundancy it asks for
    NbStorages, \* how many storages are registered
    MaxFaults,  \* bound: crashes, lost answers and lost acknowledgements
    None        \* no worker, no request, no id

Stids == 0 .. NbStorages - 1

ASSUME FileAssumption ==
    /\ NbParts \in [Uploads -> Nat]
    /\ Rdcy \in [Uploads -> Nat]
    /\ NbStorages \in Nat
    /\ MaxFaults \in Nat
    /\ None \notin Workers /\ None \notin Nat

VARIABLES
    files,     \* document "files"
    file,      \* documents "file.<name>", a function of the names that have one
    pc,        \* where each worker is
    job,       \* the request a worker serves
    probe,     \* the suffix create_new_file tries
    mof,       \* the MetaOnFilesItem a worker holds
    fi,        \* the FileItem a worker holds
    mutex,     \* the worker that holds mutex_part_ack
    masterUp,  \* the master process is running
    upload,    \* how far each upload request got
    fid,       \* the file id its client was answered
    acks,      \* part_ack messages on their way to the master
    acked,     \* which part of which upload a storage has acknowledged
    download,  \* how far each download request got
    answer,    \* what its client was answered
    faults     \* how many faults happened

dbVars == <<files, file>>
workerVars == <<pc, job, probe, mof, fi, mutex>>
clientVars == <<upload, fid, download, answer>>
ackVars == <<acks, acked>>
vars == <<dbVars, workerVars, masterUp, clientVars, ackVars, faults>>

\* create_new_file asks for "<name>.__<i>".
NameOf(u, i) == <<Base[u], i>>
Bases == {Base[u] : u \in Uploads}

NoMeta == [count |-> 0, total |-> 0, names |-> [i \in {} |-> None]]
NewItem(u, i) == [id |-> i, size |-> NbParts[u], rdcy |-> Rdcy[u], parts |-> <<>>]

\* The pairs of a part and a storage that a FileItem records.
Locations(item) ==
    UNION {{<<item.parts[k].num, item.parts[k].locs[j]>> :
                j \in DOMAIN item.parts[k].locs} : k \in DOMAIN item.parts}

\* cmd_put: the document takes the place of the one under the same key.
Upsert(docs, key, doc) ==
    [k \in DOMAIN docs \cup {key} |-> IF k = key THEN doc ELSE docs[k]]

Init ==
    /\ files = NoMeta
    /\ file = [n \in {} |-> None]
    /\ pc = [w \in Workers |-> "idle"]
    /\ job = [w \in Workers |-> None]
    /\ probe = [w \in Workers |-> 0]
    /\ mof = [w \in Workers |-> NoMeta]
    /\ fi = [w \in Workers |-> None]
    /\ mutex = None
    /\ masterUp = TRUE
    /\ upload = [u \in Uploads |-> "new"]
    /\ fid = [u \in Uploads |-> None]
    /\ acks = {}
    /\ acked = {}
    /\ download = [d \in Downloads |-> "new"]
    /\ answer = [d \in Downloads |-> None]
    /\ faults = 0

-----------------------------------------------------------------------------
(***************************************************************************)
(* The threads of the master as such.                                       *)
(***************************************************************************)

\* The handler returns and the thread takes the next one from io_service_.
Done(w) ==
    /\ pc' = [pc EXCEPT ![w] = "idle"]
    /\ job' = [job EXCEPT ![w] = None]
    /\ probe' = [probe EXCEPT ![w] = 0]
    /\ mof' = [mof EXCEPT ![w] = NoMeta]
    /\ fi' = [fi EXCEPT ![w] = None]

\* The process ends with its threads and its mutex; sessions break, and an
\* acknowledgement that was not read is lost with its connection.
MasterEnds ==
    /\ masterUp' = FALSE
    /\ pc' = [w \in Workers |-> "idle"]
    /\ job' = [w \in Workers |-> None]
    /\ probe' = [w \in Workers |-> 0]
    /\ mof' = [w \in Workers |-> NoMeta]
    /\ fi' = [w \in Workers |-> None]
    /\ mutex' = None
    /\ upload' = [u \in Uploads |->
                    IF upload[u] = "serving" THEN "failed" ELSE upload[u]]
    /\ download' = [d \in Downloads |->
                    IF download[d] = "serving" THEN "failed" ELSE download[d]]
    /\ acks' = {}
    /\ UNCHANGED <<dbVars, fid, answer, acked>>

MasterCrash ==
    /\ masterUp /\ faults < MaxFaults
    /\ faults' = faults + 1
    /\ MasterEnds

MasterStart ==
    /\ ~masterUp
    /\ masterUp' = TRUE
    /\ UNCHANGED <<dbVars, workerVars, clientVars, ackVars, faults>>

-----------------------------------------------------------------------------
(***************************************************************************)
(* cm_up_req and create_new_file.                                           *)
(***************************************************************************)

\* get_stpfields_for_upload names min(parts, storages) storages.
Fields(u) == IF NbParts[u] < NbStorages THEN NbParts[u] ELSE NbStorages

\* missing_storage, and redundancy.
Refused(u) == NbParts[u] = 0 \/ Fields(u) < Rdcy[u]

\* The checks of cm_up_req.
TakeUpload(w, u) ==
    /\ masterUp /\ pc[w] = "idle"
    /\ upload[u] = "new"
    /\ IF Refused(u)
       THEN /\ upload' = [upload EXCEPT ![u] = "refused"]
            /\ UNCHANGED <<pc, job>>
       ELSE /\ upload' = [upload EXCEPT ![u] = "serving"]
            /\ job' = [job EXCEPT ![w] = u]
            /\ pc' = [pc EXCEPT ![w] = "probe"]
    /\ UNCHANGED <<dbVars, probe, mof, fi, mutex, masterUp, fid, download,
                   answer, ackVars, faults>>

\* cmd_get("file.<name>.__<i>"): the first one that is not there is taken.
Probe(w) ==
    /\ pc[w] = "probe"
    /\ LET taken == NameOf(job[w], probe[w]) \in DOMAIN file
       IN  /\ probe' = [probe EXCEPT ![w] = IF taken THEN @ + 1 ELSE @]
           /\ pc' = [pc EXCEPT ![w] = IF taken THEN "probe" ELSE "read_files"]
    /\ UNCHANGED <<dbVars, job, mof, fi, mutex, masterUp, clientVars, ackVars,
                   faults>>

\* cmd_get("files").
ReadFiles(w) ==
    /\ pc[w] = "read_files"
    /\ mof' = [mof EXCEPT ![w] = files]
    /\ pc' = [pc EXCEPT ![w] = "put_files"]
    /\ UNCHANGED <<dbVars, job, probe, fi, mutex, masterUp, clientVars, ackVars,
                   faults>>

\* The id of the new file, from the MetaOnFilesItem that was read.
NewFid(meta) == meta.count

\* name_by_id_get().emplace does not replace a name.
Emplace(names, i, name) ==
    IF i \in DOMAIN names THEN names ELSE Upsert(names, i, name)

\* Mutant of PutFiles: the client is answered and the file is not put.
PutFilesAndAnswer(w) ==
    /\ pc[w] = "put_files"
    /\ files' = [count |-> mof[w].count + 1,
                 total |-> mof[w].total + NbParts[job[w]],
                 names |-> Emplace(mof[w].names, NewFid(mof[w]),
                                   NameOf(job[w], probe[w]))]
    /\ fi' = [fi EXCEPT ![w] = NewItem(job[w], NewFid(mof[w]))]
    /\ pc' = [pc EXCEPT ![w] = "answer"]
    /\ UNCHANGED <<file, job, probe, mof, mutex, masterUp, clientVars, ackVars,
                   faults>>

\* cmd_put("files") with the new count, size and name.
PutFiles(w) ==
    /\ pc[w] = "put_files"
    /\ files' = [count |-> mof[w].count + 1,
                 total |-> mof[w].total + NbParts[job[w]],
                 names |-> Emplace(mof[w].names, NewFid(mof[w]),
                                   NameOf(job[w], probe[w]))]
    /\ fi' = [fi EXCEPT ![w] = NewItem(job[w], NewFid(mof[w]))]
    /\ pc' = [pc EXCEPT ![w] = "put_file"]
    /\ UNCHANGED <<file, job, probe, mof, mutex, masterUp, clientVars, ackVars,
                   faults>>

\* cmd_put("file.<name>").
PutFile(w) ==
    /\ pc[w] = "put_file"
    /\ file' = Upsert(file, NameOf(job[w], probe[w]), fi[w])
    /\ pc' = [pc EXCEPT ![w] = "answer"]
    /\ UNCHANGED <<files, job, probe, mof, fi, mutex, masterUp, clientVars,
                   ackVars, faults>>

\* blocking_send(fid, fields): it arrives, or the session breaks.
AnswerUpload(w) ==
    /\ pc[w] = "answer"
    /\ \/ /\ upload' = [upload EXCEPT ![job[w]] = "accepted"]
          /\ fid' = [fid EXCEPT ![job[w]] = fi[w].id]
          /\ UNCHANGED faults
       \/ /\ faults < MaxFaults
          /\ faults' = faults + 1
          /\ upload' = [upload EXCEPT ![job[w]] = "failed"]
          /\ UNCHANGED fid
    /\ Done(w)
    /\ UNCHANGED <<dbVars, mutex, masterUp, download, answer, ackVars>>

-----------------------------------------------------------------------------
(***************************************************************************)
(* sm_part_ack.                                                             *)
(***************************************************************************)

\* A storage has stored a part of an accepted upload and sends part_ack.  The
\* client sends a part to one storage, once, and a storage reads no part_loc: a
\* second acknowledgement of one part comes from another upload with that id.
SendAck(u, p) ==
    /\ masterUp
    /\ upload[u] = "accepted"
    /\ \A s \in Stids : <<u, p, s>> \notin acked
    /\ \E s \in Stids :
        /\ acked' = acked \cup {<<u, p, s>>}
        /\ acks' = acks \cup {[fid |-> fid[u], part |-> p, stid |-> s]}
    /\ UNCHANGED <<dbVars, workerVars, masterUp, clientVars, faults>>

\* send is asynchronous and only logs an error.
LoseAck(a) ==
    /\ a \in acks /\ faults < MaxFaults
    /\ acks' = acks \ {a}
    /\ faults' = faults + 1
    /\ UNCHANGED <<dbVars, workerVars, masterUp, clientVars, acked>>

TakeAck(w, a) ==
    /\ masterUp /\ pc[w] = "idle"
    /\ a \in acks
    /\ acks' = acks \ {a}
    /\ job' = [job EXCEPT ![w] = a]
    /\ pc' = [pc EXCEPT ![w] = "lock"]
    /\ UNCHANGED <<dbVars, probe, mof, fi, mutex, masterUp, clientVars, acked,
                   faults>>

\* Mutant of Lock: there is no mutex to wait for.
LockNothing(w) ==
    /\ pc[w] = "lock"
    /\ mutex' = w
    /\ pc' = [pc EXCEPT ![w] = "ack_files"]
    /\ UNCHANGED <<dbVars, job, probe, mof, fi, masterUp, clientVars, ackVars,
                   faults>>

\* std::lock_guard on mutex_part_ack.
Lock(w) ==
    /\ pc[w] = "lock"
    /\ mutex = None
    /\ mutex' = w
    /\ pc' = [pc EXCEPT ![w] = "ack_files"]
    /\ UNCHANGED <<dbVars, job, probe, mof, fi, masterUp, clientVars, ackVars,
                   faults>>

\* cmd_get("files"); file_name_by_id throws for an id that has no name, and
\* nothing catches it in the thread.
AckReadFiles(w) ==
    /\ pc[w] = "ack_files"
    /\ IF job[w].fid \in DOMAIN files.names
       THEN /\ mof' = [mof EXCEPT ![w] = files]
            /\ pc' = [pc EXCEPT ![w] = "ack_item"]
            /\ UNCHANGED <<dbVars, job, probe, fi, mutex, masterUp, clientVars,
                           ackVars>>
       ELSE MasterEnds
    /\ UNCHANGED faults

AckName(w) == mof[w].names[job[w].fid]

\* cmd_get("file.<name>").
AckReadFile(w) ==
    /\ pc[w] = "ack_item"
    /\ IF AckName(w) \in DOMAIN file
       THEN /\ fi' = [fi EXCEPT ![w] = file[AckName(w)]]
            /\ pc' = [pc EXCEPT ![w] = "ack_put"]
            /\ UNCHANGED <<dbVars, job, probe, mof, mutex, masterUp, clientVars,
                           ackVars>>
       ELSE MasterEnds
    /\ UNCHANGED faults

\* PartItem::add_stid, of the parts that have the number of the acknowledged one.
AddStid(part, stid) == [part EXCEPT !.locs = Append(@, stid)]
AddStids(parts, a) ==
    [k \in DOMAIN parts |-> IF parts[k].num = a.part
                            THEN AddStid(parts[k], a.stid) ELSE parts[k]]

\* Mutants of AddLocation: a part that is new is not added, the parts that were
\* there are dropped, or the part is taken to count from 1.
AddLocationNotNew(item, a) == [item EXCEPT !.parts = AddStids(@, a)]
AddLocationOnly(item, a) ==
    [item EXCEPT !.parts = <<[num |-> a.part, locs |-> <<a.stid>>]>>]
AddLocationFromOne(item, a) ==
    [item EXCEPT !.parts = Append(@, [num |-> a.part + 1, locs |-> <<a.stid>>])]

\* The loop over the parts has no break: its iterator always reaches the end, so
\* a new PartItem is added whether or not one took the storage already.
AddLocation(item, a) ==
    [item EXCEPT !.parts =
        Append(AddStids(@, a), [num |-> a.part, locs |-> <<a.stid>>])]

\* cmd_put("file.<name>").
AckPut(w) ==
    /\ pc[w] = "ack_put"
    /\ file' = Upsert(file, AckName(w), AddLocation(fi[w], job[w]))
    /\ pc' = [pc EXCEPT ![w] = "ack_end"]
    /\ UNCHANGED <<files, job, probe, mof, fi, mutex, masterUp, clientVars,
                   ackVars, faults>>

\* Mutant of AckEnd: a return without the unlock.
AckEndLocked(w) ==
    /\ pc[w] = "ack_end"
    /\ Done(w)
    /\ UNCHANGED <<dbVars, mutex, masterUp, clientVars, ackVars, faults>>

\* An ack, or part_loc with the address of another storage, goes to a session
\* on which the storage reads nothing; the guard unlocks the mutex.  An address
\* that cannot be parsed throws, and the master ends here as in MasterCrash.
AckEnd(w) ==
    /\ pc[w] = "ack_end"
    /\ mutex' = None
    /\ Done(w)
    /\ UNCHANGED <<dbVars, masterUp, clientVars, ackVars, faults>>

-----------------------------------------------------------------------------
(***************************************************************************)
(* cm_down_req.                                                             *)
(***************************************************************************)

\* cmd_get("file.<name>"), or the answer file_not_found.
TakeDownload(w, d, n) ==
    /\ masterUp /\ pc[w] = "idle"
    /\ download[d] = "new"
    /\ IF n \in DOMAIN file
       THEN /\ download' = [download EXCEPT ![d] = "serving"]
            /\ job' = [job EXCEPT ![w] = d]
            /\ fi' = [fi EXCEPT ![w] = file[n]]
            /\ pc' = [pc EXCEPT ![w] = "down_answer"]
       ELSE /\ download' = [download EXCEPT ![d] = "not_found"]
            /\ UNCHANGED <<job, fi, pc>>
    /\ UNCHANGED <<dbVars, probe, mof, mutex, masterUp, upload, fid, answer,
                   ackVars, faults>>

\* The first location of every part that is listed; a list without parts is sent
\* too.  A storage that was given parts has an address that can be parsed
\* (Placement), so that its first location is always the one that is sent.
AnswerDownload(w) ==
    /\ pc[w] = "down_answer"
    /\ LET parts == fi[w].parts
       IN  IF \E k \in DOMAIN parts : parts[k].locs = <<>>
           THEN /\ download' = [download EXCEPT ![job[w]] = "incomplete"]
                /\ UNCHANGED answer
           ELSE /\ download' = [download EXCEPT ![job[w]] = "answered"]
                /\ answer' = [answer EXCEPT ![job[w]] =
                     [id |-> fi[w].id, size |-> fi[w].size,
                      from |-> [k \in DOMAIN parts |->
                                  <<parts[k].num, parts[k].locs[1]>>]]]
    /\ Done(w)
    /\ UNCHANGED <<dbVars, mutex, masterUp, upload, fid, ackVars, faults>>

-----------------------------------------------------------------------------
WorkerStep(w) ==
    \/ \E u \in Uploads : TakeUpload(w, u)
    \/ Probe(w) \/ ReadFiles(w) \/ PutFiles(w) \/ PutFile(w) \/ AnswerUpload(w)
    \/ \E a \in acks : TakeAck(w, a)
    \/ Lock(w) \/ AckReadFiles(w) \/ AckReadFile(w) \/ AckPut(w) \/ AckEnd(w)
    \/ \E d \in Downloads, n \in DOMAIN file \cup {NameOf(u, 0) : u \in Uploads} :
        TakeDownload(w, d, n)
    \/ AnswerDownload(w)

Next ==
    \/ \E w \in Workers : WorkerStep(w)
    \/ \E u \in Uploads : \E p \in 0 .. NbParts[u] - 1 : SendAck(u, p)
    \/ \E a \in acks : LoseAck(a)
    \/ MasterCrash
    \/ MasterStart

Spec == Init /\ [][Next]_vars

\* Threads run their handlers to the end, and io_service_ hands every message
\* that has arrived to some thread.
Fairness ==
    /\ \A w \in Workers :
        WF_vars(\/ Probe(w) \/ ReadFiles(w) \/ PutFiles(w) \/ PutFile(w)
                \/ AnswerUpload(w) \/ Lock(w) \/ AckReadFiles(w)
                \/ AckReadFile(w) \/ AckPut(w) \/ AckEnd(w) \/ AnswerDownload(w))
    /\ WF_vars(\E w \in Workers : \E a \in acks : TakeAck(w, a))

FairSpec == Spec /\ Fairness

-----------------------------------------------------------------------------
(***************************************************************************)
(* Properties.                                                              *)
(***************************************************************************)
CreatePc == {"probe", "read_files", "put_files", "put_file", "answer"}
GuardedPc == {"ack_files", "ack_item", "ack_put", "ack_end"}
AckPc == {"lock"} \cup GuardedPc
WorkerPc == {"idle", "down_answer"} \cup CreatePc \cup AckPc

IsMeta(m) ==
    /\ DOMAIN m = {"count", "total", "names"}
    /\ m.count \in Nat /\ m.total \in Nat
    /\ DOMAIN m.names \subseteq Nat
    /\ \A i \in DOMAIN m.names : m.names[i] \in Bases \X Nat

IsItem(item) ==
    item \in [id : Nat, size : Nat, rdcy : Nat,
              parts : Seq([num : Nat, locs : Seq(Stids)])]

AckMessage == [fid : Nat, part : Nat, stid : Stids]

\* The variables stay in the sets the declarations of the code give them, a
\* worker holds what its place in a handler needs, and mutex_part_ack is held
\* by exactly the worker that is between its lock and its unlock.
TypeOK ==
    /\ IsMeta(files)
    /\ DOMAIN file \subseteq Bases \X Nat
    /\ \A n \in DOMAIN file : IsItem(file[n])
    /\ pc \in [Workers -> WorkerPc]
    /\ job \in [Workers -> Uploads \cup Downloads \cup AckMessage \cup {None}]
    /\ probe \in [Workers -> Nat]
    /\ DOMAIN mof = Workers /\ \A w \in Workers : IsMeta(mof[w])
    /\ DOMAIN fi = Workers
    /\ \A w \in Workers :
        /\ pc[w] \in CreatePc => job[w] \in Uploads
        /\ pc[w] \in AckPc => job[w] \in AckMessage
        /\ pc[w] = "down_answer" => job[w] \in Downloads
        /\ pc[w] \in {"put_file", "answer", "ack_put", "ack_end", "down_answer"}
              => IsItem(fi[w])
        /\ pc[w] \in {"ack_item", "ack_put", "ack_end"}
              => job[w].fid \in DOMAIN mof[w].names
        /\ pc[w] \in GuardedPc <=> mutex = w
    /\ mutex \in Workers \cup {None}
    /\ masterUp \in BOOLEAN
    /\ upload \in [Uploads -> {"new", "serving", "refused", "accepted", "failed"}]
    /\ fid \in [Uploads -> Nat \cup {None}]
    /\ \A u \in Uploads : upload[u] = "accepted" => fid[u] \in Nat
    /\ acks \subseteq AckMessage
    /\ acked \subseteq Uploads \X Nat \X Stids
    /\ download \in [Downloads -> {"new", "serving", "not_found", "incomplete",
                                   "answered", "failed"}]
    /\ DOMAIN answer = Downloads
    /\ faults \in 0 .. MaxFaults

\* name_by_id names exactly the ids below the count, in the database and in
\* every copy a thread holds, however registrations overwrite each other.
NamesDense ==
    /\ DOMAIN files.names = 0 .. files.count - 1
    /\ \A w \in Workers : DOMAIN mof[w].names = 0 .. mof[w].count - 1

\* When sm_part_ack has put the file back, the document records the storage,
\* although other acknowledgements and registrations run beside it.
AckIsRecorded ==
    \A w \in Workers : pc[w] = "ack_end" =>
        /\ AckName(w) \in DOMAIN file
        /\ <<job[w].part, job[w].stid>> \in Locations(file[AckName(w)])

\* Every client asks for a name of its own.
OwnNames == \A u, v \in Uploads : Base[u] = Base[v] => u = v

\* Creating files one at a time, beside any acknowledgements and downloads.
OneCreates ==
    \A v, w \in Workers : pc[v] \in CreatePc /\ pc[w] \in CreatePc => v = w
SerialSpec == Init /\ [][Next /\ OneCreates']_vars

\* The locations of a part are never forgotten and a document never becomes
\* that of another file: mutex_part_ack is what keeps acknowledgements apart.
KeepsLocations ==
    \A n \in DOMAIN file :
        /\ n \in DOMAIN file' /\ file'[n].id = file[n].id
        /\ Locations(file[n]) \subseteq Locations(file'[n])
LocationsKept == [][KeepsLocations]_vars

\* "Get the unique id of the file": no two clients are answered the same id.
UniqueFids ==
    \A u, v \in Uploads : fid[u] # None /\ fid[u] = fid[v] => u = v

\* The id a client was answered leads, through "files", to the document of the
\* file that client asked to upload.
FidResolves ==
    \A u \in Uploads : fid[u] # None =>
        /\ fid[u] \in DOMAIN files.names
        /\ LET n == files.names[fid[u]]
           IN  /\ n[1] = Base[u] /\ n \in DOMAIN file
               /\ file[n].id = fid[u] /\ file[n].size = NbParts[u]

\* No acknowledgement of a stored part ends the master: its id has a name and
\* the name has a document.
AcksNeverThrow ==
    \A w \in Workers :
        /\ pc[w] = "ack_files" => job[w].fid \in DOMAIN files.names
        /\ pc[w] = "ack_item" => AckName(w) \in DOMAIN file

\* A client is only ever sent to storages that acknowledged the very part of
\* the very file, from an answer that may be older than the database.
AnswersAreTrue ==
    \A d \in Downloads : answer[d] # None =>
        \A k \in DOMAIN answer[d].from :
            \E u \in Uploads :
                /\ fid[u] = answer[d].id
                /\ <<u, answer[d].from[k][1], answer[d].from[k][2]>> \in acked

\* "File is not complete on our servers (wait for full upload)": a client that is
\* answered is answered with every part of the file.
AnswersAreWhole ==
    \A d \in Downloads : answer[d] # None =>
        {answer[d].from[k][1] : k \in DOMAIN answer[d].from}
            = 0 .. answer[d].size - 1

\* The documents implement the catalogue: registering a file is one step and
\* recording a part is one step, whatever fails in between.
EntryIds == {file[n].id : n \in DOMAIN file}
EntryName(i) == CHOOSE n \in DOMAIN file : file[n].id = i
Entries ==
    [i \in EntryIds |->
        LET n == EntryName(i)
        IN  [name |-> n, size |-> file[n].size, places |-> Locations(file[n])]]
Catalogue == INSTANCE FileCatalogue WITH
    Ids     <- 0 .. Cardinality(Uploads),
    Names   <- Bases \X (0 .. Cardinality(Uploads)),
    Sizes   <- {NbParts[u] : u \in Uploads},
    Places  <- (UNION {0 .. NbParts[u] - 1 : u \in Uploads}) \X Stids,
    entries <- Entries
KeepsCatalogue == Catalogue!Spec

\* As long as nothing fails, the acknowledgement of a part is recorded in the
\* end: no thread waits for ever for mutex_part_ack.
AcksSettle ==
    \A u \in Uploads, p \in 0 .. 1, s \in Stids :
        <<u, p, s>> \in acked ~>
            \/ \E n \in DOMAIN file : /\ file[n].id = fid[u]
                                      /\ <<p, s>> \in Locations(file[n])
            \/ faults > 0
=============================================================================
