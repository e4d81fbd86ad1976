------------------------ MODULE FileRegistry_proofs ------------------------
(***************************************************************************)
(* Theorems about FileRegistry, for any number of threads, uploads,        *)
(* downloads, parts, storages and faults: what holds whatever the handlers *)
(* do at once, and then what holds when files are created one at a time.   *)
(***************************************************************************)
EXTENDS FileRegistry, SequenceTheorems, TLAPS

-----------------------------------------------------------------------------
(***************************************************************************)
(* What sm_part_ack does to a FileItem.                                     *)
(***************************************************************************)
PartItems == [num : Nat, locs : Seq(Stids)]

\* The loop leaves as many parts, each with its number and its locations.
LEMMA LoopedParts ==
    ASSUME NEW item, IsItem(item), NEW a \in AckMessage
    PROVE  /\ AddStids(item.parts, a) \in Seq(PartItems)
           /\ Len(AddStids(item.parts, a)) = Len(item.parts)
           /\ \A k \in 1 .. Len(item.parts) :
                /\ AddStids(item.parts, a)[k].num = item.parts[k].num
                /\ \A j \in DOMAIN item.parts[k].locs :
                     /\ j \in DOMAIN AddStids(item.parts, a)[k].locs
                     /\ AddStids(item.parts, a)[k].locs[j] = item.parts[k].locs[j]
<1> DEFINE ps == item.parts
           lp == AddStids(item.parts, a)
<1>1. ps \in Seq(PartItems) /\ a.stid \in Stids /\ a.part \in Nat
  BY DEF IsItem, PartItems, AckMessage
<1>2. DOMAIN ps = 1 .. Len(ps) /\ Len(ps) \in Nat
  BY <1>1
<1>3. ASSUME NEW k \in 1 .. Len(ps)
      PROVE  /\ lp[k] \in PartItems
             /\ lp[k].num = ps[k].num
             /\ \A j \in DOMAIN ps[k].locs :
                  j \in DOMAIN lp[k].locs /\ lp[k].locs[j] = ps[k].locs[j]
  <2>1. ps[k] \in PartItems
    BY <1>1
  <2>2. ps[k].locs \in Seq(Stids)
    BY <2>1 DEF PartItems
  <2>3. CASE ps[k].num = a.part
    <3>1. lp[k] = [ps[k] EXCEPT !.locs = Append(@, a.stid)]
      BY <1>2, <2>3 DEF AddStids, AddStid
    <3>2. /\ Append(ps[k].locs, a.stid) \in Seq(Stids)
          /\ \A j \in DOMAIN ps[k].locs :
                /\ j \in DOMAIN Append(ps[k].locs, a.stid)
                /\ Append(ps[k].locs, a.stid)[j] = ps[k].locs[j]
      BY <1>1, <2>2
    <3>3. lp[k].locs = Append(ps[k].locs, a.stid) /\ lp[k].num = ps[k].num
      BY <2>1, <3>1 DEF PartItems
    <3>4. lp[k] \in PartItems
      BY <2>1, <3>1, <3>2 DEF PartItems
    <3>5. QED
      BY <3>2, <3>3, <3>4
  <2>4. CASE ps[k].num # a.part
    BY <1>2, <2>1, <2>4 DEF AddStids
  <2>5. QED
    BY <2>3, <2>4
<1>4. lp \in [1 .. Len(ps) -> PartItems]
  BY <1>2, <1>3 DEF AddStids
<1>5. lp \in Seq(PartItems) /\ Len(lp) = Len(ps)
  BY <1>2, <1>4
<1>6. QED
  BY <1>3, <1>5

\* sm_part_ack keeps the item's id, its type and its locations, and adds one.
LEMMA AddLocationKeeps ==
    ASSUME NEW item, IsItem(item), NEW a \in AckMessage
    PROVE  /\ IsItem(AddLocation(item, a))
           /\ AddLocation(item, a).id = item.id
           /\ Locations(item) \subseteq Locations(AddLocation(item, a))
           /\ <<a.part, a.stid>> \in Locations(AddLocation(item, a))
<1> DEFINE ps == item.parts
           lp == AddStids(item.parts, a)
           pt == [num |-> a.part, locs |-> <<a.stid>>]
           new == AddLocation(item, a)
<1>1. item \in [id : Nat, size : Nat, rdcy : Nat, parts : Seq(PartItems)]
  BY DEF IsItem, PartItems
<1>2. a.stid \in Stids /\ a.part \in Nat
  BY DEF AckMessage
<1>3. pt \in PartItems
  BY <1>2 DEF PartItems
<1>4. new = [item EXCEPT !.parts = Append(lp, pt)]
  BY DEF AddLocation
<1>5. /\ lp \in Seq(PartItems) /\ Len(lp) = Len(ps) /\ Len(ps) \in Nat
      /\ DOMAIN ps = 1 .. Len(ps)
  BY <1>1, LoopedParts
<1>6. /\ Append(lp, pt) \in Seq(PartItems)
      /\ DOMAIN Append(lp, pt) = 1 .. Len(ps) + 1
      /\ Append(lp, pt)[Len(ps) + 1] = pt
      /\ \A k \in 1 .. Len(ps) : Append(lp, pt)[k] = lp[k]
  BY <1>3, <1>5
<1>7. new \in [id : Nat, size : Nat, rdcy : Nat, parts : Seq(PartItems)]
  BY <1>1, <1>4, <1>6
<1>8. new.id = item.id /\ new.parts = Append(lp, pt)
  BY <1>1, <1>4
<1>9. ASSUME NEW l \in Locations(item)
      PROVE  l \in Locations(new)
  <2>1. PICK k \in DOMAIN ps :
            \E j \in DOMAIN ps[k].locs : l = <<ps[k].num, ps[k].locs[j]>>
    BY <1>9 DEF Locations
  <2>2. PICK j \in DOMAIN ps[k].locs : l = <<ps[k].num, ps[k].locs[j]>>
    BY <2>1
  <2>3. /\ k \in DOMAIN new.parts /\ j \in DOMAIN new.parts[k].locs
        /\ l = <<new.parts[k].num, new.parts[k].locs[j]>>
    BY <1>5, <1>6, <1>8, <2>2, LoopedParts
  <2>4. QED
    BY <2>3 DEF Locations
<1>10. <<a.part, a.stid>> \in Locations(new)
  <2>1. /\ Len(ps) + 1 \in DOMAIN new.parts
        /\ new.parts[Len(ps) + 1] = pt
    BY <1>5, <1>6, <1>8
  <2>2. 1 \in DOMAIN pt.locs /\ pt.locs[1] = a.stid /\ pt.num = a.part
    OBVIOUS
  <2>3. QED
    BY <2>1, <2>2 DEF Locations
<1>11. QED
  BY <1>7, <1>8, <1>9, <1>10 DEF IsItem, PartItems

\* sm_part_ack adds no location but the acknowledged one.
LEMMA AddLocationOneMore ==
    ASSUME NEW item, IsItem(item), NEW a \in AckMessage,
           NEW l \in Locations(AddLocation(item, a))
    PROVE  l \in Locations(item) \/ l = <<a.part, a.stid>>
<1> DEFINE ps == item.parts
           lp == AddStids(item.parts, a)
           pt == [num |-> a.part, locs |-> <<a.stid>>]
<1>1. /\ item \in [id : Nat, size : Nat, rdcy : Nat, parts : Seq(PartItems)]
      /\ a.stid \in Stids /\ a.part \in Nat
  BY DEF IsItem, PartItems, AckMessage
<1>2. /\ lp \in Seq(PartItems) /\ Len(lp) = Len(ps) /\ Len(ps) \in Nat
      /\ DOMAIN ps = 1 .. Len(ps) /\ pt \in PartItems
  BY <1>1, LoopedParts DEF PartItems
<1>3. AddLocation(item, a).parts = Append(lp, pt)
  BY <1>1 DEF AddLocation
<1>4. PICK k \in DOMAIN Append(lp, pt) :
        \E j \in DOMAIN Append(lp, pt)[k].locs :
          l = <<Append(lp, pt)[k].num, Append(lp, pt)[k].locs[j]>>
  BY <1>3 DEF Locations
<1>5. CASE k = Len(ps) + 1
  <2>1. Append(lp, pt)[k] = pt
    BY <1>2, <1>5
  <2>2. QED
    BY <1>4, <2>1
<1>6. CASE k # Len(ps) + 1
  <2>1. k \in 1 .. Len(ps) /\ Append(lp, pt)[k] = lp[k]
    BY <1>2, <1>6
  <2>2. PICK j \in DOMAIN lp[k].locs : l = <<lp[k].num, lp[k].locs[j]>>
    BY <1>4, <2>1
  <2>3. ps[k] \in PartItems /\ ps[k].locs \in Seq(Stids)
    <3>1. ps \in Seq(PartItems)
      BY <1>1
    <3>2. ps[k] \in PartItems
      BY <1>2, <2>1, <3>1
    <3>3. QED
      BY <3>2 DEF PartItems
  <2>4. CASE ps[k].num = a.part
    <3>1. lp[k] = [ps[k] EXCEPT !.locs = Append(@, a.stid)]
      BY <1>2, <2>1, <2>4 DEF AddStids, AddStid
    <3>2. lp[k].locs = Append(ps[k].locs, a.stid) /\ lp[k].num = a.part
      BY <2>3, <2>4, <3>1 DEF PartItems
    <3>3. PICK ls \in Seq(Stids) : ls = ps[k].locs
      BY <2>3
    <3>4. j \in DOMAIN Append(ls, a.stid) /\ l = <<a.part, Append(ls, a.stid)[j]>>
      BY <2>2, <3>2, <3>3
    <3>5. CASE j = Len(ls) + 1
      BY <1>1, <3>4, <3>5
    <3>6. CASE j # Len(ls) + 1
      <4>1. j \in DOMAIN ls /\ Append(ls, a.stid)[j] = ls[j]
        BY <1>1, <3>4, <3>6
      <4>2. k \in DOMAIN ps /\ j \in DOMAIN ps[k].locs
            /\ l = <<ps[k].num, ps[k].locs[j]>>
        BY <1>2, <2>1, <2>4, <3>3, <3>4, <4>1
      <4>3. QED
        BY <4>2 DEF Locations
    <3>7. QED
      BY <3>5, <3>6
  <2>5. CASE ps[k].num # a.part
    <3>1. lp[k] = ps[k]
      BY <1>2, <2>1, <2>5 DEF AddStids
    <3>2. QED
      BY <1>2, <2>1, <2>2, <3>1 DEF Locations
  <2>6. QED
    BY <2>4, <2>5
<1>7. QED
  BY <1>5, <1>6

-----------------------------------------------------------------------------
(***************************************************************************)
(* Type correctness.                                                        *)
(***************************************************************************)

\* The end of the master's process keeps the types.
LEMMA MasterEndsType ==
    ASSUME TypeOK, MasterEnds, faults' \in 0 .. MaxFaults
    PROVE  TypeOK'
<1>1. IsMeta(NoMeta)
  BY DEF IsMeta, NoMeta
<1>2. None \notin Workers
  BY FileAssumption
<1>3. \A w \in Workers : mof'[w] = NoMeta /\ pc'[w] = "idle" /\ mutex' # w
  BY <1>2 DEF MasterEnds
<1>4. QED
  BY <1>1, <1>3 DEF TypeOK, MasterEnds, WorkerPc, CreatePc, AckPc, GuardedPc,
                    dbVars

\* A handler that ends leaves its worker idle and the other workers alone.
LEMMA DoneWorkers ==
    ASSUME TypeOK, NEW w \in Workers, Done(w)
    PROVE  /\ pc' \in [Workers -> WorkerPc]
           /\ job' \in [Workers -> Uploads \cup Downloads \cup AckMessage \cup {None}]
           /\ probe' \in [Workers -> Nat]
           /\ DOMAIN mof' = Workers /\ \A v \in Workers : IsMeta(mof'[v])
           /\ DOMAIN fi' = Workers
           /\ pc'[w] = "idle"
           /\ \A v \in Workers \ {w} :
                /\ pc'[v] = pc[v] /\ job'[v] = job[v]
                /\ mof'[v] = mof[v] /\ fi'[v] = fi[v]
<1>1. IsMeta(NoMeta)
  BY DEF IsMeta, NoMeta
<1>2. QED
  BY <1>1 DEF Done, TypeOK, WorkerPc

\* Writing a document back keeps the documents typed.
LEMMA UpsertType ==
    ASSUME DOMAIN file \subseteq Bases \X Nat,
           \A n \in DOMAIN file : IsItem(file[n]),
           NEW k \in Bases \X Nat, NEW item, IsItem(item),
           file' = Upsert(file, k, item)
    PROVE  /\ DOMAIN file' \subseteq Bases \X Nat
           /\ \A n \in DOMAIN file' : IsItem(file'[n])
BY DEF Upsert

\* The MetaOnFilesItem that create_new_file puts.
LEMMA PutMetaType ==
    ASSUME NEW m, IsMeta(m), NEW u \in Uploads, NEW i \in Nat
    PROVE  IsMeta([count |-> m.count + 1,
                   total |-> m.total + NbParts[u],
                   names |-> Emplace(m.names, NewFid(m), NameOf(u, i))])
<1>1. NbParts[u] \in Nat /\ NameOf(u, i) \in Bases \X Nat
  BY FileAssumption DEF NameOf, Bases
<1>2. QED
  BY <1>1 DEF IsMeta, Emplace, NewFid, Upsert

\* The variables keep their types in every behaviour of the handlers.
THEOREM TypeCorrect == Spec => []TypeOK
<1>. USE FileAssumption
<1>1. Init => TypeOK
  BY SMTT(40) DEF Init, TypeOK, NoMeta, IsMeta, WorkerPc, CreatePc, AckPc, GuardedPc
<1>2. TypeOK /\ [Next]_vars => TypeOK'
  <2>. SUFFICES ASSUME TypeOK, [Next]_vars
                PROVE  TypeOK'
    OBVIOUS
  <2>. USE DEF TypeOK, WorkerPc, CreatePc, AckPc, GuardedPc, dbVars,
               workerVars, clientVars, ackVars
  <2>1. ASSUME NEW w \in Workers, NEW u \in Uploads, TakeUpload(w, u)
        PROVE  TypeOK'
    <3>1. CASE Refused(u)
      BY <2>1, <3>1 DEF TakeUpload
    <3>2. CASE ~Refused(u)
      <4>1. /\ upload' = [upload EXCEPT ![u] = "serving"]
            /\ job' = [job EXCEPT ![w] = u] /\ pc[w] = "idle"
            /\ pc' = [pc EXCEPT ![w] = "probe"]
            /\ UNCHANGED <<dbVars, probe, mof, fi, mutex, masterUp, fid,
                           download, answer, ackVars, faults>>
        BY <2>1, <3>2 DEF TakeUpload
      <4>2. /\ pc' \in [Workers -> WorkerPc] /\ pc'[w] = "probe"
            /\ job'[w] = u
            /\ job' \in [Workers -> Uploads \cup Downloads \cup AckMessage
                                    \cup {None}]
            /\ \A v \in Workers \ {w} : pc'[v] = pc[v] /\ job'[v] = job[v]
        BY <4>1
      <4>3. /\ upload' \in [Uploads -> {"new", "serving", "refused", "accepted",
                                         "failed"}]
            /\ \A v \in Uploads : upload'[v] = "accepted" => fid'[v] \in Nat
        BY <4>1
      <4>4. QED
        BY <4>1, <4>2, <4>3
    <3>3. QED
      BY <3>1, <3>2
  <2>2. ASSUME NEW w \in Workers, Probe(w)
        PROVE  TypeOK'
    <3>1. /\ probe' \in [Workers -> Nat] /\ pc' \in [Workers -> WorkerPc]
          /\ pc'[w] \in {"probe", "read_files"}
          /\ \A v \in Workers \ {w} : pc'[v] = pc[v]
      BY <2>2 DEF Probe
    <3>2. QED
      BY <2>2, <3>1 DEF Probe
  <2>3. ASSUME NEW w \in Workers, ReadFiles(w)
        PROVE  TypeOK'
    BY <2>3 DEF ReadFiles
  <2>4. ASSUME NEW w \in Workers, PutFiles(w)
        PROVE  TypeOK'
    <3>1. job[w] \in Uploads /\ IsMeta(mof[w]) /\ probe[w] \in Nat
      BY <2>4 DEF PutFiles
    <3>2. IsMeta(files')
      BY <2>4, <3>1, PutMetaType DEF PutFiles
    <3>3. NewFid(mof[w]) \in Nat
      BY <3>1 DEF IsMeta, NewFid
    <3>4. IsItem(NewItem(job[w], NewFid(mof[w])))
      BY <3>1, <3>3 DEF IsItem, NewItem
    <3>5. QED
      BY <2>4, <3>1, <3>2, <3>4 DEF PutFiles
  <2>5. ASSUME NEW w \in Workers, PutFile(w)
        PROVE  TypeOK'
    <3>1. NameOf(job[w], probe[w]) \in Bases \X Nat /\ IsItem(fi[w])
      BY <2>5 DEF PutFile, NameOf, Bases
    <3>2. /\ DOMAIN file' \subseteq Bases \X Nat
          /\ \A n \in DOMAIN file' : IsItem(file'[n])
      BY <2>5, <3>1, UpsertType DEF PutFile
    <3>3. QED
      BY <2>5, <3>2 DEF PutFile
  <2>6. ASSUME NEW w \in Workers, AnswerUpload(w)
        PROVE  TypeOK'
    <3>1. /\ pc[w] = "answer" /\ job[w] \in Uploads /\ IsItem(fi[w])
          /\ mutex # w /\ Done(w)
      BY <2>6 DEF AnswerUpload
    <3>2. fi[w].id \in Nat
      BY <3>1 DEF IsItem
    <3>3. /\ upload' \in [Uploads -> {"new", "serving", "refused", "accepted",
                                       "failed"}]
          /\ fid' \in [Uploads -> Nat \cup {None}]
          /\ \A u \in Uploads : upload'[u] = "accepted" => fid'[u] \in Nat
          /\ faults' \in 0 .. MaxFaults
      BY <2>6, <3>1, <3>2 DEF AnswerUpload
    <3>4. UNCHANGED <<dbVars, mutex, masterUp, download, answer, ackVars>>
      BY <2>6 DEF AnswerUpload
    <3>5. QED
      BY <3>1, <3>3, <3>4, DoneWorkers
  <2>7. ASSUME NEW w \in Workers, NEW a \in acks, TakeAck(w, a)
        PROVE  TypeOK'
    BY <2>7 DEF TakeAck
  <2>8. ASSUME NEW w \in Workers, Lock(w)
        PROVE  TypeOK'
    BY <2>8 DEF Lock
  <2>9. ASSUME NEW w \in Workers, AckReadFiles(w)
        PROVE  TypeOK'
    <3>1. CASE job[w].fid \in DOMAIN files.names
      BY <2>9, <3>1 DEF AckReadFiles
    <3>2. CASE job[w].fid \notin DOMAIN files.names
      BY <2>9, <3>2, MasterEndsType DEF AckReadFiles
    <3>3. QED
      BY <3>1, <3>2
  <2>10. ASSUME NEW w \in Workers, AckReadFile(w)
         PROVE  TypeOK'
    <3>1. CASE AckName(w) \in DOMAIN file
      BY <2>10, <3>1 DEF AckReadFile
    <3>2. CASE AckName(w) \notin DOMAIN file
      BY <2>10, <3>2, MasterEndsType DEF AckReadFile
    <3>3. QED
      BY <3>1, <3>2
  <2>11. ASSUME NEW w \in Workers, AckPut(w)
         PROVE  TypeOK'
    <3>1. IsItem(fi[w]) /\ job[w] \in AckMessage
      BY <2>11 DEF AckPut
    <3>2. AckName(w) \in Bases \X Nat
      BY <2>11 DEF AckPut, AckName, IsMeta
    <3>3. IsItem(AddLocation(fi[w], job[w]))
      BY <3>1, AddLocationKeeps
    <3>4. /\ DOMAIN file' \subseteq Bases \X Nat
          /\ \A n \in DOMAIN file' : IsItem(file'[n])
      BY <2>11, <3>2, <3>3, UpsertType DEF AckPut
    <3>5. QED
      BY <2>11, <3>4 DEF AckPut
  <2>12. ASSUME NEW w \in Workers, AckEnd(w)
         PROVE  TypeOK'
    <3>1. pc[w] = "ack_end" /\ mutex = w /\ mutex' = None /\ Done(w)
      BY <2>12 DEF AckEnd
    <3>2. \A v \in Workers \ {w} : pc[v] \notin GuardedPc
      BY <3>1
    <3>3. UNCHANGED <<dbVars, masterUp, clientVars, ackVars, faults>>
      BY <2>12 DEF AckEnd
    <3>4. QED
      BY <3>1, <3>2, <3>3, DoneWorkers
  <2>13. ASSUME NEW w \in Workers, NEW d \in Downloads, NEW n,
                TakeDownload(w, d, n)
         PROVE  TypeOK'
    <3>1. CASE n \in DOMAIN file
      BY <2>13, <3>1 DEF TakeDownload
    <3>2. CASE n \notin DOMAIN file
      BY <2>13, <3>2 DEF TakeDownload
    <3>3. QED
      BY <3>1, <3>2
  <2>14. ASSUME NEW w \in Workers, AnswerDownload(w)
         PROVE  TypeOK'
    <3>1. /\ pc[w] = "down_answer" /\ job[w] \in Downloads
          /\ mutex # w /\ Done(w)
      BY <2>14 DEF AnswerDownload
    <3>2. /\ download' \in [Downloads -> {"new", "serving", "not_found",
                                 "incomplete", "answered", "failed"}]
          /\ DOMAIN answer' = Downloads
      BY <2>14, <3>1 DEF AnswerDownload
    <3>3. UNCHANGED <<dbVars, mutex, masterUp, upload, fid, ackVars, faults>>
      BY <2>14 DEF AnswerDownload
    <3>4. QED
      BY <3>1, <3>2, <3>3, DoneWorkers
  <2>15. ASSUME NEW u \in Uploads, NEW p \in 0 .. NbParts[u] - 1, SendAck(u, p)
         PROVE  TypeOK'
    <3>1. p \in Nat /\ fid[u] \in Nat
      BY <2>15 DEF SendAck
    <3>2. /\ acks' \subseteq AckMessage
          /\ acked' \subseteq Uploads \X Nat \X Stids
      BY <2>15, <3>1 DEF SendAck, AckMessage
    <3>3. QED
      BY <2>15, <3>2 DEF SendAck
  <2>16. ASSUME NEW a \in acks, LoseAck(a)
         PROVE  TypeOK'
    BY <2>16 DEF LoseAck
  <2>17. CASE MasterCrash
    BY <2>17, MasterEndsType DEF MasterCrash
  <2>18. CASE MasterStart
    BY <2>18 DEF MasterStart
  <2>19. CASE UNCHANGED vars
    BY <2>19 DEF vars
  <2>20. QED
    BY <2>1, <2>2, <2>3, <2>4, <2>5, <2>6, <2>7, <2>8, <2>9, <2>10, <2>11,
       <2>12, <2>13, <2>14, <2>15, <2>16, <2>17, <2>18, <2>19
       DEF Next, WorkerStep
<1>3. QED
  BY <1>1, <1>2, PTL DEF Spec

-----------------------------------------------------------------------------
(***************************************************************************)
(* The names of files.                                                      *)
(***************************************************************************)

\* A step either leaves "files" and a worker's copy, copies "files", or counts
\* one more name: names are dense for every number of threads, although
\* registrations that overlap lose each other's names.
THEOREM DenseNames == Spec => []NamesDense
<1>1. Init => NamesDense
  BY DEF Init, NamesDense, NoMeta
<1>2. TypeOK /\ NamesDense /\ [Next]_vars => NamesDense'
  <2>. SUFFICES ASSUME TypeOK, NamesDense, [Next]_vars
                PROVE  NamesDense'
    OBVIOUS
  <2>. USE DEF NamesDense
  <2>1. DOMAIN mof = Workers /\ \A w \in Workers : IsMeta(mof[w])
    BY DEF TypeOK
  <2>2. DOMAIN NoMeta.names = 0 .. NoMeta.count - 1
    BY DEF NoMeta
  <2>3. ASSUME UNCHANGED <<files, mof>>
        PROVE  NamesDense'
    BY <2>3
  <2>4. ASSUME NEW w \in Workers, mof' = [mof EXCEPT ![w] = files],
               UNCHANGED files
        PROVE  NamesDense'
    BY <2>1, <2>4
  <2>5. ASSUME NEW w \in Workers, Done(w), UNCHANGED files
        PROVE  NamesDense'
    BY <2>1, <2>2, <2>5 DEF Done
  <2>6. ASSUME MasterEnds
        PROVE  NamesDense'
    BY <2>1, <2>2, <2>6 DEF MasterEnds, dbVars
  <2>7. ASSUME NEW w \in Workers, PutFiles(w)
        PROVE  NamesDense'
    <3> DEFINE m == mof[w]
               n == NameOf(job[w], probe[w])
    <3>1. m.count \in Nat /\ DOMAIN m.names = 0 .. m.count - 1
      BY <2>1 DEF IsMeta
    <3>2. /\ files'.count = m.count + 1
          /\ files'.names = Emplace(m.names, NewFid(m), n)
          /\ mof' = mof
      BY <2>7 DEF PutFiles
    <3>3. DOMAIN files'.names = 0 .. m.count
      <4>1. m.count \notin DOMAIN m.names
        BY <3>1
      <4>2. DOMAIN files'.names = DOMAIN m.names \cup {m.count}
        BY <3>2, <4>1 DEF Emplace, NewFid, Upsert
      <4>3. (0 .. m.count - 1) \cup {m.count} = 0 .. m.count
        BY <3>1
      <4>4. QED
        BY <3>1, <4>2, <4>3
    <3>4. QED
      BY <3>1, <3>2, <3>3
  <2>8. ASSUME NEW w \in Workers, WorkerStep(w)
        PROVE  NamesDense'
    <3>1. CASE \/ \E u \in Uploads : TakeUpload(w, u)
               \/ Probe(w) \/ PutFile(w) \/ Lock(w) \/ AckPut(w)
               \/ \E a \in acks : TakeAck(w, a)
      BY <2>3, <3>1
         DEF TakeUpload, Probe, PutFile, Lock, AckPut, TakeAck, dbVars
    <3>2. CASE \E d \in Downloads, n \in DOMAIN file \cup
                                        {NameOf(u, 0) : u \in Uploads} :
                  TakeDownload(w, d, n)
      BY <2>3, <3>2 DEF TakeDownload, dbVars
    <3>3. CASE ReadFiles(w)
      BY <2>4, <3>3 DEF ReadFiles, dbVars
    <3>4. CASE AckReadFiles(w)
      BY <2>4, <2>6, <3>4 DEF AckReadFiles, dbVars
    <3>5. CASE AckReadFile(w)
      BY <2>3, <2>6, <3>5 DEF AckReadFile, dbVars
    <3>6. CASE AnswerUpload(w) \/ AckEnd(w) \/ AnswerDownload(w)
      BY <2>5, <3>6 DEF AnswerUpload, AckEnd, AnswerDownload, dbVars
    <3>7. QED
      BY <2>7, <2>8, <3>1, <3>2, <3>3, <3>4, <3>5, <3>6 DEF WorkerStep
  <2>9. CASE UNCHANGED vars
    BY <2>3, <2>9 DEF vars, dbVars, workerVars
  <2>10. QED
    BY <2>3, <2>6, <2>8, <2>9
       DEF Next, SendAck, LoseAck, MasterCrash, MasterStart, dbVars, workerVars
<1>3. QED
  BY <1>1, <1>2, TypeCorrect, PTL DEF Spec

-----------------------------------------------------------------------------
(***************************************************************************)
(* What a step may change.                                                  *)
(***************************************************************************)

\* "files" changes in create_new_file only, and a copy is of "files" or empty.
LEMMA CopiesOfFiles ==
    ASSUME TypeOK, [Next]_vars
    PROVE  /\ files' = files \/ \E w \in Workers : PutFiles(w)
           /\ \A v \in Workers : mof'[v] \in {mof[v], files, NoMeta}
<1>. USE DEF dbVars, workerVars
<1>0. DOMAIN mof = Workers
  BY DEF TypeOK
<1>1. ASSUME MasterEnds
      PROVE  files' = files /\ \A v \in Workers : mof'[v] = NoMeta
  BY <1>1 DEF MasterEnds
<1>2. ASSUME NEW w \in Workers, WorkerStep(w)
      PROVE  /\ files' = files \/ PutFiles(w)
             /\ \A v \in Workers : mof'[v] \in {mof[v], files, NoMeta}
  <2>1. CASE \E u \in Uploads : TakeUpload(w, u)
    BY <2>1 DEF TakeUpload
  <2>2. CASE Probe(w) \/ PutFiles(w) \/ PutFile(w)
    BY <2>2 DEF Probe, PutFiles, PutFile
  <2>3. CASE ReadFiles(w)
    BY <1>0, <2>3 DEF ReadFiles
  <2>4. CASE AnswerUpload(w) \/ AckEnd(w) \/ AnswerDownload(w)
    BY <1>0, <2>4 DEF AnswerUpload, AckEnd, AnswerDownload, Done
  <2>5. CASE (\E a \in acks : TakeAck(w, a)) \/ Lock(w) \/ AckPut(w)
    BY <2>5 DEF TakeAck, Lock, AckPut
  <2>6. CASE AckReadFiles(w)
    BY <1>0, <1>1, <2>6 DEF AckReadFiles
  <2>7. CASE AckReadFile(w)
    BY <1>0, <1>1, <2>7 DEF AckReadFile
  <2>8. CASE \E d \in Downloads, n \in DOMAIN file \cup
                                      {NameOf(u, 0) : u \in Uploads} :
                TakeDownload(w, d, n)
    BY <2>8 DEF TakeDownload
  <2>9. QED
    BY <1>2, <2>1, <2>2, <2>3, <2>4, <2>5, <2>6, <2>7, <2>8 DEF WorkerStep
<1>3. QED
  BY <1>1, <1>2 DEF Next, SendAck, LoseAck, MasterCrash, MasterStart, vars

\* A client's id is given once, when its request is served.
LEMMA FidsStay ==
    ASSUME TypeOK, [Next]_vars,
           \A w \in Workers : pc[w] \in CreatePc => upload[job[w]] = "serving",
           \A u \in Uploads : upload[u] \in {"new", "serving"} => fid[u] = None
    PROVE  /\ \A u \in Uploads : fid[u] # None => fid'[u] = fid[u]
           /\ \A u \in Uploads : upload'[u] \in {"new", "serving"} =>
                fid'[u] = None
           /\ acked \subseteq acked'
<1>. USE DEF dbVars, workerVars, clientVars, ackVars
<1>0. /\ DOMAIN upload = Uploads /\ DOMAIN fid = Uploads
      /\ \A w \in Workers : pc[w] \in CreatePc => job[w] \in Uploads
      /\ \A u \in Uploads : upload[u] \in {"new", "serving"} => fid[u] = None
  BY DEF TypeOK
<1>1. ASSUME UNCHANGED <<upload, fid>>, acked \subseteq acked'
      PROVE  /\ \A u \in Uploads : fid[u] # None => fid'[u] = fid[u]
             /\ \A u \in Uploads : upload'[u] \in {"new", "serving"} =>
                  fid'[u] = None
             /\ acked \subseteq acked'
  BY <1>0, <1>1
<1>2. ASSUME MasterEnds
      PROVE  /\ UNCHANGED <<fid, acked>>
             /\ \A u \in Uploads : upload'[u] \in {"new", "serving"} =>
                  upload[u] \in {"new", "serving"}
  BY <1>2 DEF MasterEnds
<1>3. ASSUME NEW w \in Workers, NEW u \in Uploads, TakeUpload(w, u)
      PROVE  /\ UNCHANGED <<fid, acked>>
             /\ \A v \in Uploads : upload'[v] \in {"new", "serving"} =>
                  upload[v] \in {"new", "serving"}
  BY <1>0, <1>3 DEF TakeUpload
<1>4. ASSUME NEW w \in Workers, AnswerUpload(w)
      PROVE  /\ UNCHANGED acked
             /\ \A u \in Uploads : fid[u] # None => fid'[u] = fid[u]
             /\ \A u \in Uploads : upload'[u] \in {"new", "serving"} =>
                  fid'[u] = None
  <2>1. upload[job[w]] = "serving" /\ job[w] \in Uploads
    BY <1>0, <1>4 DEF AnswerUpload, CreatePc
  <2>2. QED
    BY <1>0, <1>4, <2>1 DEF AnswerUpload
<1>5. ASSUME NEW w \in Workers,
             \/ Probe(w) \/ ReadFiles(w) \/ PutFiles(w) \/ PutFile(w)
             \/ \E a \in acks : TakeAck(w, a)
             \/ Lock(w) \/ AckPut(w) \/ AckEnd(w) \/ AnswerDownload(w)
             \/ \E d \in Downloads, n \in DOMAIN file \cup
                                       {NameOf(u, 0) : u \in Uploads} :
                  TakeDownload(w, d, n)
      PROVE  UNCHANGED <<upload, fid, acked>>
  BY <1>5 DEF Probe, ReadFiles, PutFiles, PutFile, TakeAck, Lock, AckPut,
              AckEnd, AnswerDownload, TakeDownload
<1>6. ASSUME NEW w \in Workers, AckReadFiles(w) \/ AckReadFile(w)
      PROVE  UNCHANGED <<upload, fid, acked>> \/ MasterEnds
  BY <1>6 DEF AckReadFiles, AckReadFile
<1>7. CASE \/ \E u \in Uploads : \E p \in 0 .. NbParts[u] - 1 : SendAck(u, p)
           \/ \E a \in acks : LoseAck(a)
           \/ MasterStart \/ UNCHANGED vars
  BY <1>1, <1>7 DEF SendAck, LoseAck, MasterStart, vars
<1>8. CASE MasterCrash
  BY <1>0, <1>2, <1>8 DEF MasterCrash
<1>9. QED
  BY <1>0, <1>1, <1>2, <1>3, <1>4, <1>5, <1>6, <1>7, <1>8 DEF Next, WorkerStep

\* A handler of an acknowledgement has taken the message, and stays with it.
LEMMA JobsAreAcks ==
    ASSUME TypeOK, [Next]_vars, NEW v \in Workers, pc'[v] \in AckPc
    PROVE  \/ pc[v] \in AckPc /\ job'[v] = job[v]
           \/ job'[v] \in acks
<1>. USE DEF dbVars, workerVars, AckPc, GuardedPc
<1>0. pc \in [Workers -> WorkerPc] /\ DOMAIN job = Workers
  BY DEF TypeOK
<1>1. ~MasterEnds
  BY DEF MasterEnds
<1>2. ASSUME NEW w \in Workers, WorkerStep(w)
      PROVE  \/ pc[v] \in AckPc /\ job'[v] = job[v]
             \/ job'[v] \in acks
  <2>1. CASE \E u \in Uploads : TakeUpload(w, u)
    BY <1>0, <2>1 DEF TakeUpload
  <2>2. CASE Probe(w) \/ ReadFiles(w)
    BY <1>0, <2>2 DEF Probe, ReadFiles
  <2>3. CASE PutFiles(w) \/ PutFile(w)
    BY <1>0, <2>3 DEF PutFiles, PutFile
  <2>4. CASE AnswerUpload(w) \/ AckEnd(w) \/ AnswerDownload(w)
    BY <1>0, <2>4 DEF AnswerUpload, AckEnd, AnswerDownload, Done
  <2>5. CASE (\E a \in acks : TakeAck(w, a)) \/ Lock(w)
    BY <1>0, <2>5 DEF TakeAck, Lock
  <2>6. CASE AckReadFiles(w)
    BY <1>0, <1>1, <2>6 DEF AckReadFiles
  <2>7. CASE AckReadFile(w) \/ AckPut(w)
    BY <1>0, <1>1, <2>7 DEF AckReadFile, AckPut
  <2>8. CASE \E d \in Downloads, n \in DOMAIN file \cup
                                      {NameOf(u, 0) : u \in Uploads} :
                TakeDownload(w, d, n)
    BY <1>0, <2>8 DEF TakeDownload
  <2>9. QED
    BY <1>2, <2>1, <2>2, <2>3, <2>4, <2>5, <2>6, <2>7, <2>8 DEF WorkerStep
<1>3. QED
  BY <1>1, <1>2 DEF Next, SendAck, LoseAck, MasterCrash, MasterStart, vars

\* An acknowledgement that is on its way was, or a storage sends it, of an upload
\* whose client has its id.
LEMMA AcksSent ==
    ASSUME TypeOK, [Next]_vars, NEW a \in acks', a \notin acks
    PROVE  \E u \in Uploads :
             fid'[u] = a.fid /\ <<u, a.part, a.stid>> \in acked'
<1>1. ASSUME NEW u \in Uploads, NEW p, SendAck(u, p)
      PROVE  fid'[u] = a.fid /\ <<u, a.part, a.stid>> \in acked'
  <2>1. PICK s \in Stids :
          /\ acked' = acked \cup {<<u, p, s>>}
          /\ acks' = acks \cup {[fid |-> fid[u], part |-> p, stid |-> s]}
          /\ UNCHANGED fid
    BY <1>1 DEF SendAck, clientVars
  <2>2. a = [fid |-> fid[u], part |-> p, stid |-> s]
    BY <2>1
  <2>3. QED
    BY <2>1, <2>2
<1>2. ASSUME MasterEnds PROVE acks' \subseteq acks
  BY <1>2 DEF MasterEnds
<1>3. ASSUME NEW w \in Workers, WorkerStep(w)
      PROVE  acks' \subseteq acks
  <2>1. CASE \/ \E u \in Uploads : TakeUpload(w, u)
             \/ \E b \in acks : TakeAck(w, b)
             \/ \E e \in Downloads, n \in DOMAIN file \cup
                                        {NameOf(u, 0) : u \in Uploads} :
                  TakeDownload(w, e, n)
    BY <2>1 DEF TakeUpload, TakeAck, TakeDownload, ackVars
  <2>2. CASE Probe(w) \/ ReadFiles(w) \/ PutFiles(w) \/ PutFile(w)
             \/ AnswerUpload(w) \/ AnswerDownload(w)
    BY <2>2 DEF Probe, ReadFiles, PutFiles, PutFile, AnswerUpload,
                AnswerDownload, ackVars
  <2>3. CASE Lock(w) \/ AckPut(w) \/ AckEnd(w)
    BY <2>3 DEF Lock, AckPut, AckEnd, ackVars
  <2>4. CASE AckReadFiles(w) \/ AckReadFile(w)
    BY <1>2, <2>4 DEF AckReadFiles, AckReadFile, ackVars
  <2>5. QED
    BY <1>3, <2>1, <2>2, <2>3, <2>4 DEF WorkerStep
<1>4. QED
  BY <1>1, <1>2, <1>3
     DEF Next, LoseAck, MasterCrash, MasterStart, vars, ackVars

-----------------------------------------------------------------------------
(***************************************************************************)
(* Locations are kept, when every client asks for a name of its own.        *)
(***************************************************************************)

\* Why, when names differ: between the read and the write of sm_part_ack nobody
\* else writes that document, and the name that create_new_file found free stays
\* free, because nobody else creates files of that name.
NothingOverwrites ==
    /\ \A w \in Workers : pc[w] = "ack_put" =>
        AckName(w) \in DOMAIN file /\ fi[w] = file[AckName(w)]
    /\ \A v, w \in Workers :
        v # w /\ pc[v] \in CreatePc /\ pc[w] \in CreatePc => job[v] # job[w]
    /\ \A w \in Workers : pc[w] \in CreatePc => upload[job[w]] = "serving"
    /\ \A w \in Workers : pc[w] \in CreatePc \ {"answer"} =>
        \A n \in DOMAIN file : n[1] # Base[job[w]]
    /\ \A u \in Uploads : upload[u] = "new" =>
        \A n \in DOMAIN file : n[1] # Base[u]

\* The names of two uploads that differ are not the same.
LEMMA NamesDiffer ==
    ASSUME OwnNames, NEW u \in Uploads, NEW v \in Uploads, u # v
    PROVE  Base[u] # Base[v]
BY DEF OwnNames

\* The document that create_new_file puts is a new one.
LEMMA PutFileNew ==
    ASSUME NothingOverwrites, NEW w \in Workers, PutFile(w)
    PROVE  /\ NameOf(job[w], probe[w]) \notin DOMAIN file
           /\ DOMAIN file' = DOMAIN file \cup {NameOf(job[w], probe[w])}
           /\ \A n \in DOMAIN file : file'[n] = file[n]
<1>1. \A n \in DOMAIN file : n[1] # Base[job[w]]
  BY DEF PutFile, NothingOverwrites, CreatePc
<1>2. NameOf(job[w], probe[w])[1] = Base[job[w]]
  BY DEF NameOf
<1>3. QED
  BY <1>1, <1>2 DEF PutFile, Upsert

\* The document that sm_part_ack puts is the one there is, with one location
\* more.
LEMMA AckPutAdds ==
    ASSUME TypeOK, NothingOverwrites, NEW w \in Workers, AckPut(w)
    PROVE  /\ AckName(w) \in DOMAIN file
           /\ DOMAIN file' = DOMAIN file
           /\ file' = [file EXCEPT ![AckName(w)] = AddLocation(@, job[w])]
           /\ job[w] \in AckMessage /\ IsItem(file[AckName(w)])
<1>1. AckName(w) \in DOMAIN file /\ fi[w] = file[AckName(w)]
  BY DEF AckPut, NothingOverwrites
<1>2. DOMAIN file' = DOMAIN file
  BY <1>1 DEF AckPut, Upsert
<1>3. file' = [n \in DOMAIN file |->
                 IF n = AckName(w) THEN AddLocation(fi[w], job[w]) ELSE file[n]]
  BY <1>1, <1>2 DEF AckPut, Upsert
<1>4. job[w] \in AckMessage
  BY DEF AckPut, TypeOK, AckPc, GuardedPc
<1>5. IsItem(file[AckName(w)])
  BY <1>1 DEF TypeOK
<1>6. QED
  BY <1>1, <1>2, <1>3, <1>4, <1>5

\* A step that is not one of these two leaves the documents of files alone.
LEMMA OthersLeaveFiles ==
    ASSUME [Next]_vars, \A w \in Workers : ~PutFile(w) /\ ~AckPut(w)
    PROVE  UNCHANGED file
<1>1. ASSUME MasterEnds PROVE UNCHANGED file
  BY <1>1 DEF MasterEnds, dbVars
<1>2. ASSUME NEW w \in Workers, WorkerStep(w) PROVE UNCHANGED file
  <2>1. CASE \/ \E u \in Uploads : TakeUpload(w, u)
             \/ \E a \in acks : TakeAck(w, a)
             \/ \E d \in Downloads, n \in DOMAIN file \cup
                                        {NameOf(u, 0) : u \in Uploads} :
                  TakeDownload(w, d, n)
    BY <2>1 DEF TakeUpload, TakeAck, TakeDownload, dbVars
  <2>2. CASE Probe(w) \/ ReadFiles(w) \/ PutFiles(w) \/ AnswerUpload(w)
    BY <2>2 DEF Probe, ReadFiles, PutFiles, AnswerUpload, dbVars
  <2>3. CASE Lock(w) \/ AckEnd(w) \/ AnswerDownload(w)
    BY <2>3 DEF Lock, AckEnd, AnswerDownload, dbVars
  <2>4. CASE AckReadFiles(w) \/ AckReadFile(w)
    BY <1>1, <2>4 DEF AckReadFiles, AckReadFile, dbVars
  <2>5. QED
    BY <1>2, <2>1, <2>2, <2>3, <2>4 DEF WorkerStep
<1>3. QED
  BY <1>1, <1>2 DEF Next, SendAck, LoseAck, MasterCrash, MasterStart, vars, dbVars

\* A step forgets no location.
LEMMA StepKeeps ==
    TypeOK /\ NothingOverwrites /\ [Next]_vars => KeepsLocations
<1>. SUFFICES ASSUME TypeOK, NothingOverwrites, [Next]_vars
              PROVE  KeepsLocations
  OBVIOUS
<1>1. ASSUME NEW w \in Workers, PutFile(w)
      PROVE  KeepsLocations
  BY <1>1, PutFileNew DEF KeepsLocations
<1>2. ASSUME NEW w \in Workers, AckPut(w)
      PROVE  KeepsLocations
  <2>1. SUFFICES ASSUME NEW n \in DOMAIN file
                 PROVE  /\ n \in DOMAIN file' /\ file'[n].id = file[n].id
                        /\ Locations(file[n]) \subseteq Locations(file'[n])
    BY DEF KeepsLocations
  <2>2. CASE n = AckName(w)
    <3>1. file'[n] = AddLocation(file[n], job[w]) /\ n \in DOMAIN file'
      BY <1>2, <2>2, AckPutAdds
    <3>2. IsItem(file[n]) /\ job[w] \in AckMessage
      BY <1>2, <2>2, AckPutAdds
    <3>3. /\ AddLocation(file[n], job[w]).id = file[n].id
          /\ Locations(file[n]) \subseteq
                Locations(AddLocation(file[n], job[w]))
      BY <3>2, AddLocationKeeps
    <3>4. QED
      BY <3>1, <3>3
  <2>3. CASE n # AckName(w)
    BY <1>2, <2>3, AckPutAdds
  <2>4. QED
    BY <2>2, <2>3
<1>3. CASE UNCHANGED file
  BY <1>3 DEF KeepsLocations
<1>4. QED
  BY <1>1, <1>2, <1>3, OthersLeaveFiles

\* The end of the master's process leaves nobody between a read and a write.
LEMMA MasterEndsOverwrites ==
    ASSUME TypeOK, NothingOverwrites, MasterEnds
    PROVE  NothingOverwrites'
BY DEF TypeOK, NothingOverwrites, MasterEnds, CreatePc, dbVars

\* A step of a thread that leaves the documents and the uploads alone keeps
\* NothingOverwrites, unless it starts to serve an upload or to write a file.
LEMMA QuietStep ==
    ASSUME TypeOK, NothingOverwrites, NEW w \in Workers,
           UNCHANGED <<file, upload>>,
           pc'[w] \in CreatePc => pc[w] \in CreatePc /\ job'[w] = job[w],
           pc'[w] \in CreatePc \ {"answer"} => pc[w] # "answer",
           pc'[w] # "ack_put",
           \A v \in Workers \ {w} :
               pc'[v] = pc[v] /\ job'[v] = job[v] /\ mof'[v] = mof[v]
               /\ fi'[v] = fi[v]
    PROVE  NothingOverwrites'
<1>1. \A v \in Workers : pc'[v] = "ack_put" =>
        AckName(v)' \in DOMAIN file' /\ fi'[v] = file'[AckName(v)']
  BY DEF NothingOverwrites, AckName
<1>2. \A u, v \in Workers :
        u # v /\ pc'[u] \in CreatePc /\ pc'[v] \in CreatePc => job'[u] # job'[v]
  BY DEF NothingOverwrites
<1>3. \A v \in Workers : pc'[v] \in CreatePc => upload'[job'[v]] = "serving"
  BY DEF NothingOverwrites
<1>4. \A v \in Workers : pc'[v] \in CreatePc \ {"answer"} =>
        \A n \in DOMAIN file' : n[1] # Base[job'[v]]
  BY DEF NothingOverwrites
<1>5. \A u \in Uploads : upload'[u] = "new" =>
        \A n \in DOMAIN file' : n[1] # Base[u]
  BY DEF NothingOverwrites
<1>6. QED
  BY <1>1, <1>2, <1>3, <1>4, <1>5 DEF NothingOverwrites

\* Every step keeps NothingOverwrites.
LEMMA StepOverwritesNothing ==
    ASSUME OwnNames
    PROVE  TypeOK /\ NothingOverwrites /\ [Next]_vars => NothingOverwrites'
<1>. SUFFICES ASSUME TypeOK, NothingOverwrites, [Next]_vars
              PROVE  NothingOverwrites'
  OBVIOUS
<1>. USE DEF dbVars, workerVars, clientVars, ackVars
<1>0. /\ pc \in [Workers -> WorkerPc] /\ DOMAIN job = Workers
      /\ DOMAIN mof = Workers /\ DOMAIN fi = Workers
      /\ DOMAIN upload = Uploads
      /\ \A w \in Workers : pc[w] \in CreatePc => job[w] \in Uploads
  BY DEF TypeOK
<1>1. ASSUME NEW w \in Workers, NEW u \in Uploads, TakeUpload(w, u)
      PROVE  NothingOverwrites'
  <2>1. CASE Refused(u)
    <3>1. /\ UNCHANGED <<file, pc, job, mof, fi>>
          /\ upload[u] = "new" /\ upload' = [upload EXCEPT ![u] = "refused"]
      BY <1>1, <2>1 DEF TakeUpload
    <3>2. \A v \in Workers : pc[v] \in CreatePc => job[v] # u
      BY <3>1 DEF NothingOverwrites
    <3>3. QED
      BY <1>0, <3>1, <3>2 DEF NothingOverwrites, AckName
  <2>2. CASE ~Refused(u)
    <3>1. /\ UNCHANGED <<file, mof, fi>>
          /\ upload[u] = "new" /\ upload' = [upload EXCEPT ![u] = "serving"]
          /\ job' = [job EXCEPT ![w] = u] /\ pc[w] = "idle"
          /\ pc' = [pc EXCEPT ![w] = "probe"]
      BY <1>1, <2>2 DEF TakeUpload
    <3>2. /\ \A v \in Workers : pc[v] \in CreatePc => job[v] # u
          /\ \A n \in DOMAIN file : n[1] # Base[u]
      BY <3>1 DEF NothingOverwrites
    <3>3. /\ pc'[w] = "probe" /\ job'[w] = u
          /\ \A v \in Workers \ {w} : pc'[v] = pc[v] /\ job'[v] = job[v]
          /\ upload'[u] = "serving"
          /\ \A v \in Uploads \ {u} : upload'[v] = upload[v]
      BY <1>0, <3>1
    <3>4. \A v \in Workers : pc'[v] = "ack_put" =>
            AckName(v)' \in DOMAIN file' /\ fi'[v] = file'[AckName(v)']
      BY <3>1, <3>3 DEF NothingOverwrites, AckName
    <3>5. QED
      BY <1>0, <3>1, <3>2, <3>3, <3>4 DEF NothingOverwrites
  <2>3. QED
    BY <2>1, <2>2
<1>2. ASSUME NEW w \in Workers,
             Probe(w) \/ ReadFiles(w) \/ PutFiles(w)
      PROVE  NothingOverwrites'
  BY <1>0, <1>2, QuietStep DEF Probe, ReadFiles, PutFiles, CreatePc
<1>3. ASSUME NEW w \in Workers, PutFile(w)
      PROVE  NothingOverwrites'
  <2> DEFINE name == NameOf(job[w], probe[w])
  <2>1. /\ pc[w] = "put_file" /\ pc' = [pc EXCEPT ![w] = "answer"]
        /\ UNCHANGED <<job, mof, fi, upload>>
        /\ job[w] \in Uploads /\ upload[job[w]] = "serving"
    BY <1>0, <1>3 DEF PutFile, CreatePc, NothingOverwrites
  <2>2. /\ name \notin DOMAIN file /\ name[1] = Base[job[w]]
        /\ DOMAIN file' = DOMAIN file \cup {name}
        /\ \A n \in DOMAIN file : file'[n] = file[n]
    BY <1>3, PutFileNew DEF NameOf
  <2>3. \A v \in Workers : pc'[v] = "ack_put" =>
          AckName(v)' \in DOMAIN file' /\ fi'[v] = file'[AckName(v)']
    BY <1>0, <2>1, <2>2 DEF NothingOverwrites, AckName
  <2>4. ASSUME NEW u \in Uploads, u # job[w]
        PROVE  name[1] # Base[u]
    BY <2>1, <2>2, <2>4, NamesDiffer
  <2>5. ASSUME NEW v \in Workers, pc'[v] \in CreatePc \ {"answer"},
               NEW n \in DOMAIN file'
        PROVE  n[1] # Base[job'[v]]
    <3>1. v # w /\ pc[v] = pc'[v] /\ job'[v] = job[v]
      BY <1>0, <2>1, <2>5
    <3>2. job[v] # job[w] /\ job[v] \in Uploads
      BY <1>0, <2>1, <2>5, <3>1 DEF NothingOverwrites, CreatePc
    <3>3. QED
      BY <2>2, <2>4, <2>5, <3>1, <3>2 DEF NothingOverwrites
  <2>6. ASSUME NEW u \in Uploads, upload'[u] = "new", NEW n \in DOMAIN file'
        PROVE  n[1] # Base[u]
    BY <2>1, <2>2, <2>4, <2>6 DEF NothingOverwrites
  <2>7. /\ \A u, v \in Workers :
             u # v /\ pc'[u] \in CreatePc /\ pc'[v] \in CreatePc
             => job'[u] # job'[v]
        /\ \A v \in Workers : pc'[v] \in CreatePc =>
             upload'[job'[v]] = "serving"
    BY <1>0, <2>1 DEF NothingOverwrites, CreatePc
  <2>8. QED
    BY <2>3, <2>5, <2>6, <2>7 DEF NothingOverwrites
<1>4. ASSUME NEW w \in Workers, AnswerUpload(w)
      PROVE  NothingOverwrites'
  <2>1. /\ pc[w] = "answer" /\ Done(w) /\ UNCHANGED file
        /\ job[w] \in Uploads /\ upload[job[w]] = "serving"
        /\ \A u \in Uploads \ {job[w]} : upload'[u] = upload[u]
        /\ upload'[job[w]] # "new"
    BY <1>0, <1>4 DEF AnswerUpload, CreatePc, NothingOverwrites
  <2>2. /\ pc'[w] = "idle"
        /\ \A v \in Workers \ {w} :
             /\ pc'[v] = pc[v] /\ job'[v] = job[v]
             /\ mof'[v] = mof[v] /\ fi'[v] = fi[v]
    BY <1>0, <2>1 DEF Done
  <2>3. \A v \in Workers \ {w} : pc[v] \in CreatePc => job[v] # job[w]
    BY <2>1 DEF NothingOverwrites, CreatePc
  <2>4. \A v \in Workers : pc'[v] = "ack_put" =>
          AckName(v)' \in DOMAIN file' /\ fi'[v] = file'[AckName(v)']
    BY <2>1, <2>2 DEF NothingOverwrites, AckName
  <2>5. /\ \A v \in Workers : pc'[v] \in CreatePc =>
              upload'[job'[v]] = "serving"
        /\ \A u, v \in Workers :
             u # v /\ pc'[u] \in CreatePc /\ pc'[v] \in CreatePc
             => job'[u] # job'[v]
    BY <1>0, <2>1, <2>2, <2>3 DEF NothingOverwrites, CreatePc
  <2>6. /\ \A v \in Workers : pc'[v] \in CreatePc \ {"answer"} =>
              \A n \in DOMAIN file' : n[1] # Base[job'[v]]
        /\ \A u \in Uploads : upload'[u] = "new" =>
              \A n \in DOMAIN file' : n[1] # Base[u]
    BY <2>1, <2>2 DEF NothingOverwrites, CreatePc
  <2>7. QED
    BY <2>4, <2>5, <2>6 DEF NothingOverwrites
<1>5. ASSUME NEW w \in Workers,
             (\E a \in acks : TakeAck(w, a)) \/ Lock(w) \/ AckEnd(w)
             \/ AnswerDownload(w)
      PROVE  NothingOverwrites'
  BY <1>0, <1>5, QuietStep
     DEF TakeAck, Lock, AckEnd, AnswerDownload, Done, CreatePc
<1>6. ASSUME NEW w \in Workers, AckReadFiles(w)
      PROVE  NothingOverwrites'
  <2>1. CASE job[w].fid \in DOMAIN files.names
    BY <1>0, <1>6, <2>1, QuietStep DEF AckReadFiles, CreatePc
  <2>2. CASE job[w].fid \notin DOMAIN files.names
    BY <1>6, <2>2, MasterEndsOverwrites DEF AckReadFiles
  <2>3. QED
    BY <2>1, <2>2
<1>7. ASSUME NEW w \in Workers, AckReadFile(w)
      PROVE  NothingOverwrites'
  <2>1. CASE AckName(w) \in DOMAIN file
    <3>1. /\ fi' = [fi EXCEPT ![w] = file[AckName(w)]]
          /\ pc' = [pc EXCEPT ![w] = "ack_put"]
          /\ UNCHANGED <<file, job, mof, upload>>
      BY <1>7, <2>1 DEF AckReadFile
    <3>2. \A v \in Workers : pc'[v] = "ack_put" =>
            AckName(v)' \in DOMAIN file' /\ fi'[v] = file'[AckName(v)']
      BY <1>0, <2>1, <3>1 DEF NothingOverwrites, AckName
    <3>3. \A v \in Workers : pc'[v] \in CreatePc => pc'[v] = pc[v]
      BY <1>0, <3>1 DEF CreatePc
    <3>4. QED
      BY <3>1, <3>2, <3>3 DEF NothingOverwrites
  <2>2. CASE AckName(w) \notin DOMAIN file
    BY <1>7, <2>2, MasterEndsOverwrites DEF AckReadFile
  <2>3. QED
    BY <2>1, <2>2
<1>8. ASSUME NEW w \in Workers, AckPut(w)
      PROVE  NothingOverwrites'
  <2>1. /\ DOMAIN file' = DOMAIN file /\ pc' = [pc EXCEPT ![w] = "ack_end"]
        /\ UNCHANGED <<job, mof, fi, upload>>
    BY <1>8, AckPutAdds DEF AckPut
  <2>2. \A v \in Workers : pc'[v] # "ack_put"
    BY <1>0, <1>8, <2>1 DEF AckPut, TypeOK, GuardedPc
  <2>3. \A v \in Workers : pc'[v] \in CreatePc => pc'[v] = pc[v]
    BY <1>0, <2>1 DEF CreatePc
  <2>4. QED
    BY <2>1, <2>2, <2>3 DEF NothingOverwrites
<1>9. ASSUME NEW w \in Workers, NEW d \in Downloads, NEW n,
             TakeDownload(w, d, n)
      PROVE  NothingOverwrites'
  <2>1. CASE n \in DOMAIN file
    BY <1>0, <1>9, <2>1, QuietStep DEF TakeDownload, CreatePc
  <2>2. CASE n \notin DOMAIN file
    BY <1>9, <2>2 DEF TakeDownload, NothingOverwrites, AckName
  <2>3. QED
    BY <2>1, <2>2
<1>10. ASSUME UNCHANGED <<file, pc, job, mof, fi, upload>>
       PROVE  NothingOverwrites'
  BY <1>10 DEF NothingOverwrites, AckName
<1>11. CASE \/ \E u \in Uploads : \E p \in 0 .. NbParts[u] - 1 : SendAck(u, p)
            \/ \E a \in acks : LoseAck(a)
            \/ MasterStart \/ UNCHANGED vars
  BY <1>10, <1>11 DEF SendAck, LoseAck, MasterStart, vars
<1>12. CASE MasterCrash
  BY <1>12, MasterEndsOverwrites DEF MasterCrash
<1>13. QED
  BY <1>1, <1>2, <1>3, <1>4, <1>5, <1>6, <1>7, <1>8, <1>9, <1>11, <1>12
     DEF Next, WorkerStep

LEMMA OverwritesNothing == ASSUME OwnNames PROVE Spec => []NothingOverwrites
<1>1. Init => NothingOverwrites
  BY DEF Init, NothingOverwrites, CreatePc
<1>2. TypeOK /\ NothingOverwrites /\ [Next]_vars => NothingOverwrites'
  BY OwnNames, StepOverwritesNothing
<1>3. QED
  BY <1>1, <1>2, TypeCorrect, PTL DEF Spec

\* When names differ, no interleaving of acknowledgements, registrations and
\* crashes forgets where a part is or gives a document to another file.
THEOREM LocationsAreKept == ASSUME OwnNames PROVE Spec => LocationsKept
<1>1. TypeOK /\ NothingOverwrites /\ [Next]_vars => [KeepsLocations]_vars
  BY StepKeeps
<1>2. QED
  BY <1>1, TypeCorrect, OverwritesNothing, PTL DEF Spec, LocationsKept

\* A worker comes behind cmd_put of sm_part_ack by that call only, and stays
\* there with its message and its copy of "files".
LEMMA BehindPut ==
    ASSUME TypeOK, [Next]_vars, NEW v \in Workers, pc'[v] = "ack_end",
           ~AckPut(v)
    PROVE  pc[v] = "ack_end" /\ job'[v] = job[v] /\ mof'[v] = mof[v]
<1>. USE DEF dbVars, workerVars, clientVars, ackVars
<1>0. /\ pc \in [Workers -> WorkerPc] /\ DOMAIN job = Workers
      /\ DOMAIN mof = Workers
  BY DEF TypeOK
<1>1. ~MasterEnds
  BY <1>0 DEF MasterEnds
<1>2. ASSUME NEW w \in Workers, WorkerStep(w)
      PROVE  pc[v] = "ack_end" /\ job'[v] = job[v] /\ mof'[v] = mof[v]
  <2>1. CASE \E u \in Uploads : TakeUpload(w, u)
    BY <1>0, <2>1 DEF TakeUpload
  <2>2. CASE Probe(w) \/ ReadFiles(w)
    BY <1>0, <2>2 DEF Probe, ReadFiles
  <2>3. CASE PutFiles(w) \/ PutFile(w)
    BY <1>0, <2>3 DEF PutFiles, PutFile
  <2>4. CASE AnswerUpload(w) \/ AckEnd(w) \/ AnswerDownload(w)
    BY <1>0, <2>4 DEF AnswerUpload, AckEnd, AnswerDownload, Done
  <2>5. CASE (\E a \in acks : TakeAck(w, a)) \/ Lock(w)
    BY <1>0, <2>5 DEF TakeAck, Lock
  <2>6. CASE AckReadFiles(w)
    BY <1>0, <1>1, <2>6 DEF AckReadFiles
  <2>7. CASE AckReadFile(w)
    BY <1>0, <1>1, <2>7 DEF AckReadFile
  <2>8. CASE AckPut(w)
    BY <1>0, <2>8 DEF AckPut
  <2>9. CASE \E d \in Downloads, n \in DOMAIN file \cup
                                      {NameOf(u, 0) : u \in Uploads} :
                TakeDownload(w, d, n)
    BY <1>0, <2>9 DEF TakeDownload
  <2>10. QED
    BY <1>2, <2>1, <2>2, <2>3, <2>4, <2>5, <2>6, <2>7, <2>8, <2>9
       DEF WorkerStep
<1>3. QED
  BY <1>1, <1>2 DEF Next, SendAck, LoseAck, MasterCrash, MasterStart, vars

\* When names differ, what sm_part_ack has put stays put until it returns.
THEOREM AcksAreRecorded == ASSUME OwnNames PROVE Spec => []AckIsRecorded
<1>1. Init => AckIsRecorded
  BY DEF Init, AckIsRecorded
<1>2. TypeOK /\ NothingOverwrites /\ AckIsRecorded /\ [Next]_vars
        => AckIsRecorded'
  <2>. SUFFICES ASSUME TypeOK, NothingOverwrites, AckIsRecorded, [Next]_vars,
                       NEW v \in Workers, pc'[v] = "ack_end"
                PROVE  /\ AckName(v)' \in DOMAIN file'
                       /\ <<job'[v].part, job'[v].stid>>
                             \in Locations(file'[AckName(v)'])
    BY DEF AckIsRecorded
  <2>1. CASE AckPut(v)
    <3>1. AckName(v)' = AckName(v) /\ job'[v] = job[v]
      BY <2>1 DEF AckPut, AckName
    <3>2. /\ AckName(v) \in DOMAIN file /\ DOMAIN file' = DOMAIN file
          /\ file'[AckName(v)] = AddLocation(file[AckName(v)], job[v])
          /\ job[v] \in AckMessage /\ IsItem(file[AckName(v)])
      BY <2>1, AckPutAdds
    <3>3. <<job[v].part, job[v].stid>>
            \in Locations(AddLocation(file[AckName(v)], job[v]))
      BY <3>2, AddLocationKeeps
    <3>4. QED
      BY <3>1, <3>2, <3>3
  <2>2. CASE ~AckPut(v)
    <3>1. pc[v] = "ack_end" /\ job'[v] = job[v] /\ AckName(v)' = AckName(v)
      BY <2>2, BehindPut DEF AckName
    <3>2. KeepsLocations
      BY StepKeeps
    <3>3. QED
      BY <3>1, <3>2 DEF AckIsRecorded, KeepsLocations
  <2>3. QED
    BY <2>1, <2>2
<1>3. QED
  BY <1>1, <1>2, TypeCorrect, OverwritesNothing, PTL DEF Spec

-----------------------------------------------------------------------------
(***************************************************************************)
(* What a client of a download is answered is true, when every client asks  *)
(* for a name of its own: the inductive invariant.                          *)
(***************************************************************************)

\* Some client was answered this id, and the storage acknowledged the part.
Told(i, p, s) == \E u \in Uploads : fid[u] = i /\ <<u, p, s>> \in acked
AllTold(item) == \A l \in Locations(item) : Told(item.id, l[1], l[2])

\* create_new_file before it puts "files".
EarlyPc == {"probe", "read_files", "put_files"}

\* A MetaOnFilesItem gives a name to the id of the document that has the name,
\* or will have it, although not every id that was answered has its name.
IdsFit(m) ==
    /\ \A i \in DOMAIN m.names :
         m.names[i] \in DOMAIN file => file[m.names[i]].id = i
    /\ \A w \in Workers : pc[w] \in EarlyPc =>
         \A i \in DOMAIN m.names : m.names[i][1] # Base[job[w]]
    /\ \A w \in Workers : pc[w] = "put_file" =>
         \A i \in DOMAIN m.names :
           m.names[i][1] = Base[job[w]] => i = fi[w].id
    /\ \A u \in Uploads : upload[u] = "new" =>
         \A i \in DOMAIN m.names : m.names[i][1] # Base[u]

\* "files" is such an item, and so is the copy of it that any thread holds.
NamesFit == IdsFit(files) /\ \A w \in Workers : IdsFit(mof[w])

\* Messages, handlers, documents and answers only say what a storage has told
\* of a part, of the very file.
OnlyTold ==
    /\ \A u \in Uploads : upload[u] \in {"new", "serving"} => fid[u] = None
    /\ \A a \in acks : Told(a.fid, a.part, a.stid)
    /\ \A w \in Workers : pc[w] \in AckPc =>
         Told(job[w].fid, job[w].part, job[w].stid)
    /\ \A n \in DOMAIN file : AllTold(file[n])
    /\ \A w \in Workers : pc[w] = "down_answer" => AllTold(fi[w])
    /\ \A w \in Workers : pc[w] = "put_file" => Locations(fi[w]) = {}
    /\ \A d \in Downloads : answer[d] # None => answer[d].id \in Nat
    /\ AnswersAreTrue

-----------------------------------------------------------------------------
(***************************************************************************)
(* The ids of names.                                                        *)
(***************************************************************************)

\* A step that leaves the names and ids of the documents alone keeps IdsFit, if
\* nobody by it begins to create a file or comes to putting one.
LEMMA QuietFits ==
    ASSUME NEW m, IdsFit(m),
           DOMAIN file' = DOMAIN file,
           \A n \in DOMAIN file : file'[n].id = file[n].id,
           \A v \in Workers : pc'[v] \in EarlyPc =>
               pc[v] \in EarlyPc /\ job'[v] = job[v],
           \A v \in Workers : pc'[v] = "put_file" =>
               pc[v] = "put_file" /\ job'[v] = job[v] /\ fi'[v] = fi[v],
           \A u \in Uploads : upload'[u] = "new" => upload[u] = "new"
    PROVE  IdsFit(m)'
<1>1. \A i \in DOMAIN m.names :
        m.names[i] \in DOMAIN file' => file'[m.names[i]].id = i
  BY DEF IdsFit
<1>2. \A w \in Workers : pc'[w] \in EarlyPc =>
        \A i \in DOMAIN m.names : m.names[i][1] # Base[job'[w]]
  BY DEF IdsFit
<1>3. \A w \in Workers : pc'[w] = "put_file" =>
        \A i \in DOMAIN m.names : m.names[i][1] = Base[job'[w]] => i = fi'[w].id
  BY DEF IdsFit
<1>4. \A u \in Uploads : upload'[u] = "new" =>
        \A i \in DOMAIN m.names : m.names[i][1] # Base[u]
  BY DEF IdsFit
<1>5. QED
  BY <1>1, <1>2, <1>3, <1>4 DEF IdsFit

\* So is one in which the process ends.
LEMMA MasterEndsFits ==
    ASSUME NEW m, IdsFit(m), TypeOK, MasterEnds
    PROVE  IdsFit(m)'
<1>1. /\ UNCHANGED file
      /\ \A v \in Workers : pc'[v] = "idle"
      /\ \A u \in Uploads : upload'[u] = "new" => upload[u] = "new"
  BY DEF MasterEnds, dbVars
<1>2. QED
  BY <1>1, QuietFits DEF EarlyPc

\* An item that fits goes on to fit, whatever a step does to the documents.
LEMMA StepFits ==
    ASSUME OwnNames, TypeOK, NothingOverwrites, [Next]_vars, NEW m, IdsFit(m)
    PROVE  IdsFit(m)'
<1>. USE DEF dbVars, workerVars, clientVars, ackVars
<1>0. /\ pc \in [Workers -> WorkerPc] /\ DOMAIN job = Workers
      /\ DOMAIN mof = Workers /\ DOMAIN fi = Workers
      /\ DOMAIN upload = Uploads
      /\ \A w \in Workers : pc[w] \in CreatePc => job[w] \in Uploads
  BY DEF TypeOK
<1>1. ASSUME NEW w \in Workers, NEW u \in Uploads, TakeUpload(w, u)
      PROVE  IdsFit(m)'
  <2>1. CASE Refused(u)
    BY <1>0, <1>1, <2>1, QuietFits DEF TakeUpload
  <2>2. CASE ~Refused(u)
    <3>1. /\ UNCHANGED <<file, fi>>
          /\ upload[u] = "new" /\ upload' = [upload EXCEPT ![u] = "serving"]
          /\ job' = [job EXCEPT ![w] = u] /\ pc[w] = "idle"
          /\ pc' = [pc EXCEPT ![w] = "probe"]
      BY <1>1, <2>2 DEF TakeUpload
    <3>2. /\ job'[w] = u /\ pc'[w] = "probe"
          /\ \A v \in Workers \ {w} : pc'[v] = pc[v] /\ job'[v] = job[v]
          /\ \A v \in Uploads : upload'[v] = "new" => upload[v] = "new"
      BY <1>0, <3>1
    <3>3. \A i \in DOMAIN m.names : m.names[i][1] # Base[u]
      BY <3>1 DEF IdsFit
    <3>4. QED
      BY <3>1, <3>2, <3>3 DEF IdsFit, EarlyPc
  <2>3. QED
    BY <2>1, <2>2
<1>2. ASSUME NEW w \in Workers, Probe(w) \/ ReadFiles(w)
      PROVE  IdsFit(m)'
  BY <1>0, <1>2, QuietFits DEF Probe, ReadFiles, EarlyPc
<1>3. ASSUME NEW w \in Workers, PutFiles(w)
      PROVE  IdsFit(m)'
  <2>1. /\ UNCHANGED <<file, job, upload>> /\ pc[w] = "put_files"
        /\ pc' = [pc EXCEPT ![w] = "put_file"]
    BY <1>3 DEF PutFiles
  <2>2. \A v \in Workers \ {w} : pc'[v] = pc[v] /\ fi'[v] = fi[v]
    BY <1>0, <1>3 DEF PutFiles
  <2>3. pc'[w] = "put_file"
    BY <1>0, <2>1
  <2>4. \A i \in DOMAIN m.names : m.names[i][1] # Base[job[w]]
    BY <2>1 DEF IdsFit, EarlyPc
  <2>5. QED
    BY <2>1, <2>2, <2>3, <2>4 DEF IdsFit, EarlyPc
<1>4. ASSUME NEW w \in Workers, PutFile(w)
      PROVE  IdsFit(m)'
  <2> DEFINE name == NameOf(job[w], probe[w])
  <2>1. /\ pc[w] = "put_file" /\ pc' = [pc EXCEPT ![w] = "answer"]
        /\ UNCHANGED <<job, fi, upload>>
    BY <1>4 DEF PutFile
  <2>2. /\ DOMAIN file' = DOMAIN file \cup {name}
        /\ \A n \in DOMAIN file : file'[n] = file[n]
    BY <1>4, PutFileNew
  <2>3. name[1] = Base[job[w]] /\ file'[name] = fi[w]
    BY <1>4 DEF PutFile, Upsert, NameOf
  <2>4. \A i \in DOMAIN m.names : m.names[i] = name => i = fi[w].id
    BY <2>1, <2>3 DEF IdsFit
  <2>5. \A v \in Workers : pc'[v] \in EarlyPc \cup {"put_file"} => pc'[v] = pc[v]
    BY <1>0, <2>1 DEF EarlyPc
  <2>6. \A i \in DOMAIN m.names :
          m.names[i] \in DOMAIN file' => file'[m.names[i]].id = i
    BY <2>2, <2>3, <2>4 DEF IdsFit
  <2>7. QED
    BY <2>1, <2>5, <2>6 DEF IdsFit
<1>5. ASSUME NEW w \in Workers, AnswerUpload(w)
      PROVE  IdsFit(m)'
  <2>1. /\ UNCHANGED file /\ Done(w)
        /\ \A u \in Uploads : upload'[u] = "new" => upload[u] = "new"
    BY <1>0, <1>5 DEF AnswerUpload
  <2>2. QED
    BY <1>0, <2>1, QuietFits DEF Done, EarlyPc
<1>6. ASSUME NEW w \in Workers,
             (\E a \in acks : TakeAck(w, a)) \/ Lock(w) \/ AckEnd(w)
             \/ AnswerDownload(w)
      PROVE  IdsFit(m)'
  BY <1>0, <1>6, QuietFits
     DEF TakeAck, Lock, AckEnd, AnswerDownload, Done, EarlyPc
<1>7. ASSUME NEW w \in Workers, AckReadFiles(w)
      PROVE  IdsFit(m)'
  <2>1. CASE job[w].fid \in DOMAIN files.names
    BY <1>0, <1>7, <2>1, QuietFits DEF AckReadFiles, EarlyPc
  <2>2. CASE job[w].fid \notin DOMAIN files.names
    BY <1>7, <2>2, MasterEndsFits DEF AckReadFiles
  <2>3. QED
    BY <2>1, <2>2
<1>8. ASSUME NEW w \in Workers, AckReadFile(w)
      PROVE  IdsFit(m)'
  <2>1. CASE AckName(w) \in DOMAIN file
    BY <1>0, <1>8, <2>1, QuietFits DEF AckReadFile, EarlyPc
  <2>2. CASE AckName(w) \notin DOMAIN file
    BY <1>8, <2>2, MasterEndsFits DEF AckReadFile
  <2>3. QED
    BY <2>1, <2>2
<1>9. ASSUME NEW w \in Workers, AckPut(w)
      PROVE  IdsFit(m)'
  <2>1. /\ DOMAIN file' = DOMAIN file /\ pc' = [pc EXCEPT ![w] = "ack_end"]
        /\ UNCHANGED <<job, fi, upload>>
    BY <1>9, AckPutAdds DEF AckPut
  <2>2. KeepsLocations
    BY <1>9, StepKeeps
  <2>3. QED
    BY <1>0, <2>1, <2>2, QuietFits DEF KeepsLocations, EarlyPc
<1>10. ASSUME NEW w \in Workers, NEW d \in Downloads, NEW n,
              TakeDownload(w, d, n)
       PROVE  IdsFit(m)'
  <2>1. CASE n \in DOMAIN file
    BY <1>0, <1>10, <2>1, QuietFits DEF TakeDownload, EarlyPc
  <2>2. CASE n \notin DOMAIN file
    BY <1>10, <2>2, QuietFits DEF TakeDownload
  <2>3. QED
    BY <2>1, <2>2
<1>11. CASE \/ \E u \in Uploads : \E p \in 0 .. NbParts[u] - 1 : SendAck(u, p)
            \/ \E a \in acks : LoseAck(a)
            \/ MasterStart \/ UNCHANGED vars
  BY <1>11, QuietFits DEF SendAck, LoseAck, MasterStart, vars
<1>12. CASE MasterCrash
  BY <1>12, MasterEndsFits DEF MasterCrash
<1>13. QED
  BY <1>1, <1>2, <1>3, <1>4, <1>5, <1>6, <1>7, <1>8, <1>9, <1>10, <1>11, <1>12
     DEF Next, WorkerStep

\* What create_new_file puts fits as well: the name is its own.
LEMMA PutFilesFits ==
    ASSUME OwnNames, TypeOK, NothingOverwrites, NamesFit,
           NEW w \in Workers, PutFiles(w)
    PROVE  IdsFit(files)'
<1> DEFINE name == NameOf(job[w], probe[w])
<1>0. /\ pc \in [Workers -> WorkerPc] /\ DOMAIN fi = Workers
      /\ \A v \in Workers : pc[v] \in CreatePc => job[v] \in Uploads
  BY DEF TypeOK
<1>1. /\ UNCHANGED <<file, job, upload>> /\ pc[w] = "put_files"
      /\ pc' = [pc EXCEPT ![w] = "put_file"]
      /\ fi' = [fi EXCEPT ![w] = NewItem(job[w], NewFid(mof[w]))]
      /\ files'.names = Emplace(mof[w].names, NewFid(mof[w]), name)
  BY DEF PutFiles, clientVars
<1>2. /\ pc'[w] = "put_file" /\ fi'[w].id = NewFid(mof[w])
      /\ \A v \in Workers \ {w} : pc'[v] = pc[v] /\ fi'[v] = fi[v]
      /\ job[w] \in Uploads /\ upload[job[w]] = "serving"
      /\ name[1] = Base[job[w]]
  BY <1>0, <1>1 DEF NewItem, NameOf, NothingOverwrites, CreatePc
<1>3. IdsFit(mof[w])
  BY DEF NamesFit
<1>4. \A i \in DOMAIN files'.names :
        \/ i \in DOMAIN mof[w].names /\ files'.names[i] = mof[w].names[i]
        \/ i = NewFid(mof[w]) /\ files'.names[i] = name
  BY <1>1 DEF Emplace, Upsert
<1>5. \A i \in DOMAIN mof[w].names : mof[w].names[i][1] # Base[job[w]]
  BY <1>1, <1>3 DEF IdsFit, EarlyPc
<1>6. name \notin DOMAIN file
  BY <1>1, <1>2 DEF NothingOverwrites, CreatePc
<1>7. /\ \A v \in Workers \ {w} : pc[v] \in CreatePc => name[1] # Base[job[v]]
      /\ \A u \in Uploads : upload[u] = "new" => name[1] # Base[u]
  <2>1. \A v \in Workers \ {w} : pc[v] \in CreatePc => job[v] # job[w]
    BY <1>1 DEF NothingOverwrites, CreatePc
  <2>2. QED
    BY <1>0, <1>2, <2>1, NamesDiffer
<1>8. \A i \in DOMAIN files'.names :
        files'.names[i] \in DOMAIN file' => file'[files'.names[i]].id = i
  BY <1>1, <1>3, <1>4, <1>6 DEF IdsFit
<1>9. \A v \in Workers : pc'[v] \in EarlyPc =>
        \A i \in DOMAIN files'.names : files'.names[i][1] # Base[job'[v]]
  BY <1>1, <1>2, <1>3, <1>4, <1>7 DEF IdsFit, EarlyPc, CreatePc
<1>10. ASSUME NEW v \in Workers, pc'[v] = "put_file",
              NEW i \in DOMAIN files'.names,
              files'.names[i][1] = Base[job'[v]]
       PROVE  i = fi'[v].id
  <2>1. CASE v = w
    BY <1>1, <1>2, <1>4, <1>5, <1>10, <2>1
  <2>2. CASE v # w
    BY <1>1, <1>2, <1>3, <1>4, <1>7, <1>10, <2>2 DEF IdsFit, CreatePc
  <2>3. QED
    BY <2>1, <2>2
<1>11. \A u \in Uploads : upload'[u] = "new" =>
         \A i \in DOMAIN files'.names : files'.names[i][1] # Base[u]
  BY <1>1, <1>3, <1>4, <1>7 DEF IdsFit
<1>12. QED
  BY <1>8, <1>9, <1>10, <1>11 DEF IdsFit

\* Every step keeps NamesFit.
LEMMA StepNamesFit ==
    ASSUME OwnNames
    PROVE  TypeOK /\ NothingOverwrites /\ NamesFit /\ [Next]_vars => NamesFit'
<1>. SUFFICES ASSUME TypeOK, NothingOverwrites, NamesFit, [Next]_vars
              PROVE  NamesFit'
  OBVIOUS
<1>1. IdsFit(NoMeta)
  BY DEF IdsFit, NoMeta
<1>2. \A m : IdsFit(m) => IdsFit(m)'
  BY OwnNames, StepFits
<1>3. PICK old : old = files
  OBVIOUS
<1>4. IdsFit(old)' /\ IdsFit(NoMeta)'
  <2>1. PICK none : none = NoMeta
    OBVIOUS
  <2>2. IdsFit(old) /\ IdsFit(none)
    BY <1>1, <1>3, <2>1 DEF NamesFit
  <2>3. IdsFit(none)'
    BY <1>2, <2>2
  <2>4. QED
    BY <1>2, <2>1, <2>2, <2>3 DEF IdsFit, NoMeta
<1>5. IdsFit(files)'
  <2>1. CASE files' = files
    BY <1>3, <1>4, <2>1 DEF IdsFit
  <2>2. CASE \E w \in Workers : PutFiles(w)
    BY OwnNames, <2>2, PutFilesFits
  <2>3. QED
    BY <2>1, <2>2, CopiesOfFiles
<1>6. ASSUME NEW v \in Workers
      PROVE  IdsFit(mof[v])'
  <2>1. PICK copy : copy = mof[v]
    OBVIOUS
  <2>2. IdsFit(copy)'
    BY <1>2, <2>1 DEF NamesFit
  <2>3. mof'[v] \in {copy, old, NoMeta}
    BY <1>3, <2>1, CopiesOfFiles
  <2>4. QED
    BY <1>4, <2>2, <2>3 DEF IdsFit
<1>7. QED
  BY <1>5, <1>6 DEF NamesFit

-----------------------------------------------------------------------------
(***************************************************************************)
(* What is told.                                                            *)
(***************************************************************************)

\* What was told stays told.
LEMMA ToldStays ==
    ASSUME TypeOK, NothingOverwrites, OnlyTold, [Next]_vars
    PROVE  \A i \in Nat : \A p, s : Told(i, p, s) => Told(i, p, s)'
<1>1. \A i \in Nat : i # None
  BY FileAssumption
<1>2. QED
  BY <1>1, FidsStay DEF Told, NothingOverwrites, OnlyTold

\* The item that a handler is about to put, or to answer with, is new, from the
\* database or the one it had.
LEMMA ItemsHeld ==
    ASSUME TypeOK, [Next]_vars, NEW v \in Workers
    PROVE  /\ pc'[v] = "put_file" =>
                \/ pc[v] = "put_file" /\ fi'[v] = fi[v]
                \/ \E u, i : fi'[v] = NewItem(u, i)
           /\ pc'[v] = "down_answer" =>
                \/ pc[v] = "down_answer" /\ fi'[v] = fi[v]
                \/ \E n \in DOMAIN file : fi'[v] = file[n]
<1>. USE DEF dbVars, workerVars
<1> DEFINE Held ==
      /\ pc'[v] = "put_file" =>
           \/ pc[v] = "put_file" /\ fi'[v] = fi[v]
           \/ \E u, i : fi'[v] = NewItem(u, i)
      /\ pc'[v] = "down_answer" =>
           \/ pc[v] = "down_answer" /\ fi'[v] = fi[v]
           \/ \E n \in DOMAIN file : fi'[v] = file[n]
<1>0. pc \in [Workers -> WorkerPc] /\ DOMAIN fi = Workers
  BY DEF TypeOK
<1>1. MasterEnds => Held
  BY DEF MasterEnds
<1>2. ASSUME NEW w \in Workers, WorkerStep(w)
      PROVE  Held
  <2>1. CASE \E u \in Uploads : TakeUpload(w, u)
    BY <1>0, <2>1 DEF TakeUpload
  <2>2. CASE Probe(w) \/ ReadFiles(w)
    BY <1>0, <2>2 DEF Probe, ReadFiles
  <2>3. CASE PutFiles(w)
    BY <1>0, <2>3 DEF PutFiles
  <2>4. CASE PutFile(w) \/ AckPut(w)
    BY <1>0, <2>4 DEF PutFile, AckPut
  <2>5. CASE AnswerUpload(w) \/ AckEnd(w) \/ AnswerDownload(w)
    BY <1>0, <2>5 DEF AnswerUpload, AckEnd, AnswerDownload, Done
  <2>6. CASE (\E a \in acks : TakeAck(w, a)) \/ Lock(w)
    BY <1>0, <2>6 DEF TakeAck, Lock
  <2>7. CASE AckReadFiles(w)
    BY <1>0, <1>1, <2>7 DEF AckReadFiles
  <2>8. CASE AckReadFile(w)
    BY <1>0, <1>1, <2>8 DEF AckReadFile
  <2>9. CASE \E d \in Downloads, n \in DOMAIN file \cup
                                      {NameOf(u, 0) : u \in Uploads} :
                TakeDownload(w, d, n)
    BY <1>0, <2>9 DEF TakeDownload
  <2>10. QED
    BY <1>2, <2>1, <2>2, <2>3, <2>4, <2>5, <2>6, <2>7, <2>8, <2>9
       DEF WorkerStep
<1>3. QED
  BY <1>1, <1>2 DEF Next, SendAck, LoseAck, MasterCrash, MasterStart, vars

\* The documents go on to say only what was told: sm_part_ack puts the location
\* it was told into the document of the file it was told about.
LEMMA FilesTold ==
    ASSUME TypeOK, NothingOverwrites, NamesFit, OnlyTold, [Next]_vars
    PROVE  \A n \in DOMAIN file' : AllTold(file[n])'
<1>0. \A n \in DOMAIN file : IsItem(file[n])
  BY DEF TypeOK
<1>1. ASSUME NEW n \in DOMAIN file, n \in DOMAIN file', file'[n] = file[n]
      PROVE  AllTold(file[n])'
  <2>1. AllTold(file[n]) /\ file[n].id \in Nat
    BY <1>0 DEF OnlyTold, IsItem
  <2>2. QED
    BY <1>1, <2>1, ToldStays DEF AllTold
<1>2. ASSUME NEW w \in Workers, PutFile(w)
      PROVE  \A n \in DOMAIN file' : AllTold(file[n])'
  <2>. PICK name : name = NameOf(job[w], probe[w])
    OBVIOUS
  <2>1. /\ DOMAIN file' = DOMAIN file \cup {name}
        /\ \A n \in DOMAIN file : file'[n] = file[n]
        /\ file'[name] = fi[w] /\ pc[w] = "put_file"
    BY <1>2, PutFileNew DEF PutFile, Upsert
  <2>2. Locations(file'[name]) = {}
    BY <2>1 DEF OnlyTold
  <2>3. QED
    BY <1>1, <2>1, <2>2 DEF AllTold
<1>3. ASSUME NEW w \in Workers, AckPut(w)
      PROVE  \A n \in DOMAIN file' : AllTold(file[n])'
  <2>. PICK name, a : name = AckName(w) /\ a = job[w]
    OBVIOUS
  <2>1. /\ name \in DOMAIN file /\ DOMAIN file' = DOMAIN file
        /\ file' = [file EXCEPT ![name] = AddLocation(@, a)]
        /\ a \in AckMessage /\ IsItem(file[name])
    BY <1>3, AckPutAdds
  <2>2. pc[w] = "ack_put" /\ a.fid \in DOMAIN mof[w].names
    BY <1>3 DEF AckPut, TypeOK
  <2>3. file[name].id = a.fid
    BY <2>1, <2>2 DEF NamesFit, IdsFit, AckName
  <2>4. PICK item : item = file[name]
    OBVIOUS
  <2>5. file'[name] = AddLocation(item, a) /\ AddLocation(item, a).id = a.fid
    BY <2>1, <2>3, <2>4, AddLocationKeeps
  <2>6. ASSUME NEW l \in Locations(AddLocation(item, a))
        PROVE  Told(a.fid, l[1], l[2])
    <3>1. l \in Locations(item) \/ l = <<a.part, a.stid>>
      BY <2>1, <2>4, AddLocationOneMore
    <3>2. \A k \in Locations(item) : Told(a.fid, k[1], k[2])
      BY <2>1, <2>3, <2>4 DEF OnlyTold, AllTold
    <3>3. Told(a.fid, a.part, a.stid)
      BY <2>2 DEF OnlyTold, AckPc, GuardedPc
    <3>4. QED
      BY <3>1, <3>2, <3>3
  <2>7. a.fid \in Nat
    BY <2>1 DEF AckMessage
  <2>8. AllTold(file[name])'
    BY <2>5, <2>6, <2>7, ToldStays DEF AllTold
  <2>9. QED
    BY <1>1, <2>1, <2>8
<1>4. CASE UNCHANGED file
  BY <1>1, <1>4
<1>5. QED
  BY <1>2, <1>3, <1>4, OthersLeaveFiles

\* An answer is made of what its handler had read.
LEMMA AnswersTold ==
    ASSUME TypeOK, NothingOverwrites, OnlyTold, [Next]_vars,
           NEW d \in Downloads, answer'[d] # None
    PROVE  /\ answer'[d].id \in Nat
           /\ \A k \in DOMAIN answer'[d].from :
                Told(answer[d].id, answer[d].from[k][1], answer[d].from[k][2])'
<1>. USE DEF clientVars
<1>0. DOMAIN answer = Downloads
  BY DEF TypeOK
<1>1. CASE answer'[d] = answer[d]
  <2>1. answer[d].id \in Nat
    BY <1>1 DEF OnlyTold
  <2>2. \A k \in DOMAIN answer[d].from :
          Told(answer[d].id, answer[d].from[k][1], answer[d].from[k][2])
    BY <1>1 DEF OnlyTold, AnswersAreTrue, Told
  <2>3. PICK old : old = answer[d]
    OBVIOUS
  <2>4. \A k \in DOMAIN old.from :
          Told(old.id, old.from[k][1], old.from[k][2])'
    BY <2>1, <2>2, <2>3, ToldStays
  <2>5. QED
    BY <1>1, <2>1, <2>3, <2>4 DEF Told
<1>2. ASSUME NEW w \in Workers, AnswerDownload(w), answer'[d] # answer[d]
      PROVE  /\ answer'[d].id \in Nat
             /\ \A k \in DOMAIN answer'[d].from :
                  Told(answer[d].id, answer[d].from[k][1],
                       answer[d].from[k][2])'
  <2>. PICK item : item = fi[w]
    OBVIOUS
  <2>1. /\ pc[w] = "down_answer"
        /\ \A k \in DOMAIN item.parts : item.parts[k].locs # <<>>
        /\ answer'[d] =
             [id |-> item.id, size |-> item.size,
              from |-> [k \in DOMAIN item.parts |->
                          <<item.parts[k].num, item.parts[k].locs[1]>>]]
    BY <1>0, <1>2 DEF AnswerDownload
  <2>2. item \in [id : Nat, size : Nat, rdcy : Nat, parts : Seq(PartItems)]
        /\ AllTold(item)
    BY <2>1 DEF TypeOK, IsItem, PartItems, OnlyTold
  <2>3. PICK parts \in Seq(PartItems) : parts = item.parts
    BY <2>2
  <2>4. ASSUME NEW k \in DOMAIN parts
        PROVE  Told(item.id, parts[k].num, parts[k].locs[1])'
    <3>1. parts[k] \in PartItems
      BY <2>4
    <3>2. parts[k].locs \in Seq(Stids) /\ parts[k].locs # <<>>
      BY <2>1, <2>3, <3>1 DEF PartItems
    <3>3. 1 \in DOMAIN parts[k].locs
      BY <3>2
    <3>4. <<parts[k].num, parts[k].locs[1]>> \in Locations(item)
      BY <2>3, <3>3 DEF Locations
    <3>5. Told(item.id, parts[k].num, parts[k].locs[1])
      BY <2>2, <3>4 DEF AllTold
    <3>6. item.id \in Nat
      BY <2>2
    <3>7. QED
      BY <3>5, <3>6, ToldStays
  <2>5. /\ answer'[d].id = item.id /\ item.id \in Nat
        /\ answer'[d].from =
             [k \in DOMAIN parts |-> <<parts[k].num, parts[k].locs[1]>>]
    <3>1. answer'[d].id = item.id
      BY <2>1
    <3>2. item.id \in Nat
      BY <2>2
    <3>3. answer'[d].from =
            [k \in DOMAIN item.parts |->
               <<item.parts[k].num, item.parts[k].locs[1]>>]
      BY <2>1
    <3>4. QED
      BY <2>3, <3>1, <3>2, <3>3, Zenon
  <2>6. ASSUME NEW k \in DOMAIN answer'[d].from
        PROVE  Told(answer[d].id, answer[d].from[k][1],
                    answer[d].from[k][2])'
    <3>1. /\ k \in DOMAIN parts
          /\ answer'[d].from[k][1] = parts[k].num
          /\ answer'[d].from[k][2] = parts[k].locs[1]
      BY <2>5, <2>6
    <3>2. Told(item.id, parts[k].num, parts[k].locs[1])'
      BY <2>4, <3>1
    <3>3. QED
      BY <2>5, <3>1, <3>2 DEF Told
  <2>7. QED
    BY <2>5, <2>6
<1>3. ASSUME NEW w \in Workers, WorkerStep(w), ~AnswerDownload(w)
      PROVE  UNCHANGED answer
  <2>1. ASSUME MasterEnds PROVE UNCHANGED answer
    BY <2>1 DEF MasterEnds
  <2>2. CASE \/ \E u \in Uploads : TakeUpload(w, u)
             \/ \E a \in acks : TakeAck(w, a)
             \/ \E e \in Downloads, n \in DOMAIN file \cup
                                        {NameOf(u, 0) : u \in Uploads} :
                  TakeDownload(w, e, n)
    BY <2>2 DEF TakeUpload, TakeAck, TakeDownload
  <2>3. CASE Probe(w) \/ ReadFiles(w) \/ PutFiles(w) \/ PutFile(w)
             \/ AnswerUpload(w)
    BY <2>3 DEF Probe, ReadFiles, PutFiles, PutFile, AnswerUpload
  <2>4. CASE Lock(w) \/ AckPut(w) \/ AckEnd(w)
    BY <2>4 DEF Lock, AckPut, AckEnd
  <2>5. CASE AckReadFiles(w) \/ AckReadFile(w)
    BY <2>1, <2>5 DEF AckReadFiles, AckReadFile
  <2>6. QED
    BY <1>3, <2>2, <2>3, <2>4, <2>5 DEF WorkerStep
<1>4. answer' # answer => \E w \in Workers : AnswerDownload(w)
  BY <1>3 DEF Next, SendAck, LoseAck, MasterCrash, MasterEnds, MasterStart, vars
<1>5. QED
  BY <1>1, <1>2, <1>4

\* Every step keeps OnlyTold.
LEMMA StepOnlyTold ==
    TypeOK /\ NothingOverwrites /\ NamesFit /\ OnlyTold /\ [Next]_vars
        => OnlyTold'
<1>. SUFFICES ASSUME TypeOK, NothingOverwrites, NamesFit, OnlyTold, [Next]_vars
              PROVE  OnlyTold'
  OBVIOUS
<1>1. \A u \in Uploads : upload'[u] \in {"new", "serving"} => fid'[u] = None
  BY FidsStay DEF NothingOverwrites, OnlyTold
<1>2. ASSUME NEW a \in acks'
      PROVE  Told(a.fid, a.part, a.stid)'
  <2>1. CASE a \in acks
    <3>1. Told(a.fid, a.part, a.stid) /\ a.fid \in Nat
      BY <2>1 DEF OnlyTold, TypeOK, AckMessage
    <3>2. QED
      BY <3>1, ToldStays
  <2>2. CASE a \notin acks
    BY <1>2, <2>2, AcksSent DEF Told
  <2>3. QED
    BY <2>1, <2>2
<1>3. ASSUME NEW w \in Workers, pc'[w] \in AckPc
      PROVE  Told(job[w].fid, job[w].part, job[w].stid)'
  <2>. PICK a : a = job'[w]
    OBVIOUS
  <2>1. Told(a.fid, a.part, a.stid) /\ a.fid \in Nat
    BY <1>3, JobsAreAcks DEF OnlyTold, TypeOK, AckMessage
  <2>2. Told(a.fid, a.part, a.stid)'
    BY <2>1, ToldStays
  <2>3. QED
    BY <2>2 DEF Told
<1>4. \A n \in DOMAIN file' : AllTold(file[n])'
  BY FilesTold
<1>5. ASSUME NEW w \in Workers, pc'[w] = "down_answer"
      PROVE  AllTold(fi[w])'
  <2>. PICK item : item = fi'[w]
    OBVIOUS
  <2>1. AllTold(item) /\ IsItem(item)
    BY <1>5, ItemsHeld DEF OnlyTold, TypeOK
  <2>2. item.id \in Nat
    BY <2>1 DEF IsItem
  <2>3. \A l \in Locations(item) : Told(item.id, l[1], l[2])'
    BY <2>1, <2>2, ToldStays DEF AllTold
  <2>4. QED
    BY <2>3 DEF AllTold, Told
<1>6. ASSUME NEW w \in Workers, pc'[w] = "put_file"
      PROVE  Locations(fi'[w]) = {}
  <2>1. \A u, i : Locations(NewItem(u, i)) = {}
    BY DEF Locations, NewItem
  <2>2. QED
    BY <1>6, <2>1, ItemsHeld DEF OnlyTold
<1>7. /\ \A d \in Downloads : answer'[d] # None => answer'[d].id \in Nat
      /\ AnswersAreTrue'
  BY AnswersTold DEF AnswersAreTrue, Told
<1>8. QED
  BY <1>1, <1>2, <1>3, <1>4, <1>5, <1>6, <1>7 DEF OnlyTold

\* When names differ, no interleaving and no fault sends a client to a storage
\* that has not acknowledged the part, whatever the threads of the master do
\* between the read and the answer of cm_down_req.
THEOREM AnswersTrue == ASSUME OwnNames PROVE Spec => []AnswersAreTrue
<1>1. Init => NamesFit /\ OnlyTold
  BY FileAssumption DEF Init, NamesFit, IdsFit, NoMeta, OnlyTold, AckPc,
     GuardedPc, EarlyPc, AnswersAreTrue
<1>2. TypeOK /\ NothingOverwrites /\ NamesFit /\ [Next]_vars => NamesFit'
  BY OwnNames, StepNamesFit
<1>3. TypeOK /\ NothingOverwrites /\ NamesFit /\ OnlyTold /\ [Next]_vars
        => OnlyTold'
  BY StepOnlyTold
<1>4. OnlyTold => AnswersAreTrue
  BY DEF OnlyTold
<1>5. QED
  BY <1>1, <1>2, <1>3, <1>4, TypeCorrect, OverwritesNothing, PTL DEF Spec

-----------------------------------------------------------------------------
(***************************************************************************)
(* When files are created one at a time, by whichever thread, the ids that  *)
(* clients are answered are unique and lead to their files, and no          *)
(* acknowledgement ends the master: for any number of threads, uploads,     *)
(* downloads, parts, storages and faults, and whatever names are asked for. *)
(***************************************************************************)

-----------------------------------------------------------------------------
(***************************************************************************)
(* The inductive invariant.                                                 *)
(***************************************************************************)

\* The id i leads to the document of the file of u.
Resolved(i, u) ==
    /\ i \in DOMAIN files.names
    /\ files.names[i][1] = Base[u]
    /\ files.names[i] \in DOMAIN file
    /\ file[files.names[i]].id = i
    /\ file[files.names[i]].size = NbParts[u]

\* Some client was answered the id i.
Given(i) == \E u \in Uploads : fid[u] = i

\* The thread that creates a file: the name it found free stays free until it
\* puts it, its copy of "files" is the database's when it writes it back, and the
\* id it is about to answer is nobody's and leads to what it put.
Creates(w) ==
    /\ pc[w] \in CreatePc => upload[job[w]] = "serving"
    /\ pc[w] \in {"read_files", "put_files", "put_file"} =>
         NameOf(job[w], probe[w]) \notin DOMAIN file
    /\ pc[w] = "put_files" => mof[w] = files
    /\ pc[w] = "put_file" =>
         /\ fi[w].id \in DOMAIN files.names
         /\ files.names[fi[w].id] = NameOf(job[w], probe[w])
         /\ fi[w].size = NbParts[job[w]]
    /\ pc[w] = "answer" => Resolved(fi[w].id, job[w])
    /\ pc[w] \in {"put_file", "answer"} => ~Given(fi[w].id)

\* A thread that records an acknowledgement: the id was answered, and the name it
\* read for it and the document are still the database's.
Records(w) ==
    /\ pc[w] \in AckPc => Given(job[w].fid)
    /\ pc[w] \in {"ack_item", "ack_put", "ack_end"} =>
         /\ job[w].fid \in DOMAIN files.names
         /\ AckName(w) = files.names[job[w].fid]
    /\ pc[w] = "ack_put" =>
         AckName(w) \in DOMAIN file /\ fi[w] = file[AckName(w)]

Serial ==
    /\ OneCreates
    /\ \A u \in Uploads : fid[u] # None => Resolved(fid[u], u)
    /\ UniqueFids
    /\ \A u \in Uploads : upload[u] \in {"new", "serving"} => fid[u] = None
    /\ \A a \in acks : Given(a.fid)
    /\ \A w \in Workers : Creates(w) /\ Records(w)

-----------------------------------------------------------------------------
(***************************************************************************)
(* Ids and documents that are there stay.                                   *)
(***************************************************************************)

\* sm_part_ack keeps the id and the size of the item.
LEMMA AddLocationSame ==
    ASSUME NEW item, IsItem(item), NEW a
    PROVE  /\ AddLocation(item, a).id = item.id
           /\ AddLocation(item, a).size = item.size
BY DEF IsItem, AddLocation

\* create_new_file puts a new document.
LEMMA SerialPut ==
    ASSUME Serial, NEW w \in Workers, PutFile(w)
    PROVE  /\ NameOf(job[w], probe[w]) \notin DOMAIN file
           /\ DOMAIN file' = DOMAIN file \cup {NameOf(job[w], probe[w])}
           /\ \A n \in DOMAIN file : file'[n] = file[n]
           /\ file'[NameOf(job[w], probe[w])] = fi[w]
BY DEF Serial, Creates, PutFile, Upsert

\* It adds an id to "files", which nobody was answered, and takes none away.
LEMMA SerialPutFiles ==
    ASSUME TypeOK, NamesDense, Serial, NEW w \in Workers, PutFiles(w)
    PROVE  /\ NewFid(mof[w]) \notin DOMAIN files.names
           /\ DOMAIN files'.names = DOMAIN files.names \cup {NewFid(mof[w])}
           /\ \A i \in DOMAIN files.names : files'.names[i] = files.names[i]
           /\ files'.names[NewFid(mof[w])] = NameOf(job[w], probe[w])
           /\ fi'[w].id = NewFid(mof[w]) /\ fi'[w].size = NbParts[job[w]]
<1>1. mof[w] = files /\ DOMAIN fi = Workers
  BY DEF Serial, Creates, PutFiles, TypeOK
<1>2. NewFid(mof[w]) \notin DOMAIN files.names
  BY <1>1 DEF NewFid, NamesDense, TypeOK, IsMeta
<1>3. files'.names = Upsert(files.names, NewFid(mof[w]), NameOf(job[w], probe[w]))
  BY <1>1, <1>2 DEF PutFiles, Emplace
<1>4. fi'[w] = NewItem(job[w], NewFid(mof[w]))
  BY <1>1 DEF PutFiles
<1>5. QED
  BY <1>2, <1>3, <1>4 DEF Upsert, NewItem

\* sm_part_ack puts a document that was there.
LEMMA SerialAckPut ==
    ASSUME TypeOK, Serial, NEW w \in Workers, AckPut(w)
    PROVE  /\ DOMAIN file' = DOMAIN file
           /\ \A n \in DOMAIN file \ {AckName(w)} : file'[n] = file[n]
           /\ \A n \in DOMAIN file :
                file'[n].id = file[n].id /\ file'[n].size = file[n].size
<1>1. AckName(w) \in DOMAIN file /\ fi[w] = file[AckName(w)] /\ IsItem(fi[w])
  BY DEF AckPut, Serial, Records, TypeOK
<1>2. file' = Upsert(file, AckName(w), AddLocation(fi[w], job[w]))
  BY DEF AckPut
<1>3. QED
  BY <1>1, <1>2, AddLocationSame DEF Upsert

\* No step takes a name from an id or a document from a name, or changes the id or
\* the size in it.
LEMMA Grows ==
    ASSUME TypeOK, NamesDense, Serial, [Next]_vars
    PROVE  /\ \A i \in DOMAIN files.names :
                i \in DOMAIN files'.names /\ files'.names[i] = files.names[i]
           /\ \A n \in DOMAIN file :
                /\ n \in DOMAIN file'
                /\ file'[n].id = file[n].id /\ file'[n].size = file[n].size
<1>1. \A i \in DOMAIN files.names :
        i \in DOMAIN files'.names /\ files'.names[i] = files.names[i]
  <2>1. CASE files' = files
    BY <2>1
  <2>2. CASE \E w \in Workers : PutFiles(w)
    BY <2>2, SerialPutFiles
  <2>3. QED
    BY <2>1, <2>2, CopiesOfFiles
<1>2. \A n \in DOMAIN file :
        /\ n \in DOMAIN file'
        /\ file'[n].id = file[n].id /\ file'[n].size = file[n].size
  <2>1. ASSUME NEW w \in Workers, PutFile(w)
        PROVE  \A n \in DOMAIN file : n \in DOMAIN file' /\ file'[n] = file[n]
    BY <2>1, SerialPut
  <2>2. ASSUME NEW w \in Workers, AckPut(w)
        PROVE  \A n \in DOMAIN file :
                 /\ n \in DOMAIN file'
                 /\ file'[n].id = file[n].id /\ file'[n].size = file[n].size
    BY <2>2, SerialAckPut
  <2>3. QED
    BY <2>1, <2>2, OthersLeaveFiles
<1>3. QED
  BY <1>1, <1>2

\* So that an id leads where it led ...
LEMMA ResolvedStays ==
    ASSUME TypeOK, NamesDense, Serial, [Next]_vars
    PROVE  \A i, u : Resolved(i, u) => Resolved(i, u)'
BY Grows DEF Resolved

\* ... and is its client's.
LEMMA GivenStays ==
    ASSUME TypeOK, Serial, [Next]_vars
    PROVE  \A i \in Nat : Given(i) => Given(i)'
<1>1. \A i \in Nat : i # None
  BY FileAssumption
<1>2. \A u \in Uploads : fid[u] # None => fid'[u] = fid[u]
  BY FidsStay DEF Serial, Creates
<1>3. QED
  BY <1>1, <1>2 DEF Given

\* Under the invariant no acknowledgement ends the master.
LEMMA SerialThrowsNever ==
    ASSUME TypeOK, Serial
    PROVE  AcksNeverThrow
<1>1. ASSUME NEW w \in Workers, pc[w] \in AckPc
      PROVE  /\ job[w].fid \in DOMAIN files.names
             /\ files.names[job[w].fid] \in DOMAIN file
  <2>1. Given(job[w].fid) /\ job[w].fid \in Nat
    BY <1>1 DEF Serial, Records, TypeOK, AckMessage
  <2>2. PICK u \in Uploads : fid[u] = job[w].fid
    BY <2>1 DEF Given
  <2>3. Resolved(job[w].fid, u)
    BY <2>1, <2>2, FileAssumption DEF Serial
  <2>4. QED
    BY <2>3 DEF Resolved
<1>2. \A w \in Workers : pc[w] = "ack_item" =>
        AckName(w) = files.names[job[w].fid]
  BY DEF Serial, Records
<1>3. QED
  BY <1>1, <1>2 DEF AcksNeverThrow, AckPc, GuardedPc

-----------------------------------------------------------------------------
(***************************************************************************)
(* The threads that do not take the step.                                   *)
(***************************************************************************)
Same(v) ==
    /\ pc'[v] = pc[v] /\ job'[v] = job[v] /\ probe'[v] = probe[v]
    /\ mof'[v] = mof[v] /\ fi'[v] = fi[v]

\* A thread changes its own locals only.
LEMMA OthersStay ==
    ASSUME TypeOK, AcksNeverThrow, NEW w \in Workers, WorkerStep(w),
           NEW v \in Workers \ {w}
    PROVE  Same(v)
<1>. USE DEF Same
<1>0. /\ DOMAIN pc = Workers /\ DOMAIN job = Workers /\ DOMAIN probe = Workers
      /\ DOMAIN mof = Workers /\ DOMAIN fi = Workers
  BY DEF TypeOK
<1>1. CASE \E u \in Uploads : TakeUpload(w, u)
  BY <1>0, <1>1 DEF TakeUpload
<1>2. CASE Probe(w) \/ ReadFiles(w) \/ PutFiles(w) \/ PutFile(w)
  BY <1>0, <1>2 DEF Probe, ReadFiles, PutFiles, PutFile
<1>3. CASE AnswerUpload(w) \/ AckEnd(w) \/ AnswerDownload(w)
  BY <1>0, <1>3 DEF AnswerUpload, AckEnd, AnswerDownload, Done
<1>4. CASE (\E a \in acks : TakeAck(w, a)) \/ Lock(w) \/ AckPut(w)
  BY <1>0, <1>4 DEF TakeAck, Lock, AckPut
<1>5. CASE AckReadFiles(w) \/ AckReadFile(w)
  BY <1>0, <1>5 DEF AckReadFiles, AckReadFile, AcksNeverThrow
<1>6. CASE \E d \in Downloads, n \in DOMAIN file \cup
                                    {NameOf(u, 0) : u \in Uploads} :
              TakeDownload(w, d, n)
  BY <1>0, <1>6 DEF TakeDownload
<1>7. QED
  BY <1>1, <1>2, <1>3, <1>4, <1>5, <1>6 DEF WorkerStep

\* While one thread creates a file the others leave "files", the names of
\* documents, the ids and the upload that it serves alone.
LEMMA NobodyElseCreates ==
    ASSUME TypeOK, Serial, OneCreates', NEW w \in Workers, WorkerStep(w),
           NEW v \in Workers \ {w}, pc[v] \in CreatePc
    PROVE  /\ files' = files /\ DOMAIN file' = DOMAIN file /\ fid' = fid
           /\ upload'[job[v]] = upload[job[v]]
<1>. USE DEF dbVars, clientVars
<1>0. /\ pc \in [Workers -> WorkerPc] /\ DOMAIN upload = Uploads
      /\ upload[job[v]] = "serving" /\ AcksNeverThrow
  BY SerialThrowsNever DEF TypeOK, Serial, Creates
<1>1. pc[w] \notin CreatePc
  BY DEF Serial, OneCreates
<1>2. pc'[w] \notin CreatePc
  <2>1. pc'[v] = pc[v]
    BY <1>0, OthersStay DEF Same
  <2>2. QED
    BY <2>1 DEF OneCreates
<1>3. CASE \E u \in Uploads : TakeUpload(w, u)
  <2>1. PICK u \in Uploads : TakeUpload(w, u)
    BY <1>3
  <2>2. Refused(u)
    BY <1>0, <1>2, <2>1 DEF TakeUpload, CreatePc
  <2>3. upload[u] = "new" /\ upload' = [upload EXCEPT ![u] = "refused"]
    BY <2>1, <2>2 DEF TakeUpload
  <2>4. u # job[v]
    BY <1>0, <2>3
  <2>5. QED
    BY <1>0, <2>1, <2>3, <2>4 DEF TakeUpload
<1>4. ~(Probe(w) \/ ReadFiles(w) \/ PutFiles(w) \/ PutFile(w) \/ AnswerUpload(w))
  BY <1>1 DEF Probe, ReadFiles, PutFiles, PutFile, AnswerUpload, CreatePc
<1>5. CASE AckEnd(w) \/ AnswerDownload(w) \/ Lock(w)
           \/ \E a \in acks : TakeAck(w, a)
  BY <1>5 DEF AckEnd, AnswerDownload, Lock, TakeAck
<1>6. CASE AckPut(w)
  BY <1>6, SerialAckPut DEF AckPut
<1>7. CASE AckReadFiles(w) \/ AckReadFile(w)
  BY <1>0, <1>7 DEF AckReadFiles, AckReadFile, AcksNeverThrow
<1>8. CASE \E d \in Downloads, n \in DOMAIN file \cup
                                    {NameOf(u, 0) : u \in Uploads} :
              TakeDownload(w, d, n)
  BY <1>8 DEF TakeDownload
<1>9. QED
  BY <1>3, <1>4, <1>5, <1>6, <1>7, <1>8 DEF WorkerStep

\* What the invariant says of a thread outlives the steps of the others.
LEMMA BystanderCreates ==
    ASSUME TypeOK, NamesDense, Serial, [Next]_vars, OneCreates',
           NEW w \in Workers, WorkerStep(w), NEW v \in Workers \ {w}
    PROVE  Creates(v)'
<1>1. Same(v)
  BY SerialThrowsNever, OthersStay
<1>2. CASE pc[v] \notin CreatePc
  BY <1>1, <1>2 DEF Creates, Same, CreatePc
<1>3. CASE pc[v] \in CreatePc
  <2>1. /\ files' = files /\ DOMAIN file' = DOMAIN file /\ fid' = fid
        /\ upload'[job[v]] = upload[job[v]] /\ Creates(v)
    BY <1>3, NobodyElseCreates DEF Serial
  <2>2. pc[v] = "answer" => Resolved(fi[v].id, job[v])'
    <3>1. PICK i, u : i = fi[v].id /\ u = job[v]
      OBVIOUS
    <3>2. pc[v] = "answer" => Resolved(i, u)'
      BY <2>1, <3>1, ResolvedStays DEF Creates
    <3>3. fi'[v].id = i /\ job'[v] = u
      BY <1>1, <3>1 DEF Same
    <3>4. QED
      BY <3>2, <3>3 DEF Resolved
  <2>3. QED
    BY <1>1, <2>1, <2>2 DEF Creates, Same, Given
<1>4. QED
  BY <1>2, <1>3

LEMMA BystanderRecords ==
    ASSUME TypeOK, NamesDense, Serial, [Next]_vars,
           NEW w \in Workers, WorkerStep(w), NEW v \in Workers \ {w}
    PROVE  Records(v)'
<1>1. Same(v) /\ Records(v)
  BY SerialThrowsNever, OthersStay DEF Serial
<1>2. AckName(v)' = AckName(v)
  BY <1>1 DEF AckName, Same
<1>3. pc[v] \in AckPc => Given(job[v].fid)'
  <2>1. PICK i : i = job[v].fid
    OBVIOUS
  <2>2. pc[v] \in AckPc => Given(i)'
    <3>1. pc[v] \in AckPc => job[v].fid \in Nat
      BY DEF TypeOK, AckMessage
    <3>2. QED
      BY <1>1, <2>1, <3>1, GivenStays DEF Records
  <2>3. job'[v].fid = i
    BY <1>1, <2>1 DEF Same
  <2>4. QED
    BY <2>2, <2>3 DEF Given
<1>4. pc[v] \in {"ack_item", "ack_put", "ack_end"} =>
        /\ job[v].fid \in DOMAIN files'.names
        /\ AckName(v) = files'.names[job[v].fid]
  BY <1>1, Grows DEF Records
<1>5. pc[v] = "ack_put" =>
        AckName(v) \in DOMAIN file' /\ fi[v] = file'[AckName(v)]
  <2>1. SUFFICES ASSUME pc[v] = "ack_put"
                 PROVE  AckName(v) \in DOMAIN file' /\ fi[v] = file'[AckName(v)]
    OBVIOUS
  <2>2. AckName(v) \in DOMAIN file /\ fi[v] = file[AckName(v)]
    BY <1>1, <2>1 DEF Records
  <2>3. ASSUME NEW x \in Workers, PutFile(x)
        PROVE  AckName(v) \in DOMAIN file' /\ fi[v] = file'[AckName(v)]
    BY <2>2, <2>3, SerialPut
  <2>4. ASSUME NEW x \in Workers, AckPut(x)
        PROVE  AckName(v) \in DOMAIN file' /\ fi[v] = file'[AckName(v)]
    <3>1. mutex = v /\ mutex = x
      BY <2>1, <2>4 DEF TypeOK, AckPut, GuardedPc
    <3>2. pc'[v] = "ack_end"
      BY <2>4, <3>1 DEF AckPut, TypeOK
    <3>3. QED
      BY <1>1, <2>1, <3>2 DEF Same
  <2>5. QED
    BY <2>2, <2>3, <2>4, OthersLeaveFiles
<1>6. QED
  BY <1>1, <1>2, <1>3, <1>4, <1>5 DEF Records, Same

-----------------------------------------------------------------------------
(***************************************************************************)
(* The thread that takes the step.                                          *)
(***************************************************************************)

\* create_new_file, call by call.
LEMMA MoverCreates ==
    ASSUME TypeOK, NamesDense, Serial, [Next]_vars,
           NEW w \in Workers, WorkerStep(w)
    PROVE  Creates(w)'
<1>. USE DEF dbVars, clientVars, workerVars
<1>0. /\ pc \in [Workers -> WorkerPc] /\ DOMAIN job = Workers
      /\ DOMAIN probe = Workers /\ DOMAIN mof = Workers /\ DOMAIN fi = Workers
      /\ DOMAIN upload = Uploads /\ Creates(w) /\ AcksNeverThrow
      /\ (pc[w] \in CreatePc => job[w] \in Uploads)
  BY SerialThrowsNever DEF TypeOK, Serial
<1>1. ASSUME NEW u \in Uploads, TakeUpload(w, u)
      PROVE  Creates(w)'
  <2>1. CASE Refused(u)
    <3>1. pc[w] = "idle" /\ pc' = pc
      BY <1>1, <2>1 DEF TakeUpload
    <3>2. QED
      BY <3>1 DEF Creates, CreatePc
  <2>2. CASE ~Refused(u)
    <3>1. pc'[w] = "probe" /\ job'[w] = u /\ upload'[u] = "serving"
      BY <1>0, <1>1, <2>2 DEF TakeUpload
    <3>2. QED
      BY <3>1 DEF Creates
  <2>3. QED
    BY <2>1, <2>2
<1>2. CASE Probe(w)
  <2>1. /\ pc[w] = "probe" /\ UNCHANGED <<file, job, upload>>
        /\ \/ pc'[w] = "probe"
           \/ /\ pc'[w] = "read_files" /\ probe'[w] = probe[w]
              /\ NameOf(job[w], probe[w]) \notin DOMAIN file
    BY <1>0, <1>2 DEF Probe
  <2>2. QED
    BY <1>0, <2>1 DEF Creates, CreatePc
<1>3. CASE ReadFiles(w)
  <2>1. /\ pc[w] = "read_files" /\ pc'[w] = "put_files" /\ mof'[w] = files
        /\ UNCHANGED <<files, file, job, probe, upload>>
    BY <1>0, <1>3 DEF ReadFiles
  <2>2. QED
    BY <1>0, <2>1 DEF Creates, CreatePc
<1>4. CASE PutFiles(w)
  <2>1. /\ pc[w] = "put_files" /\ pc'[w] = "put_file"
        /\ UNCHANGED <<file, job, probe, upload, fid>>
    BY <1>0, <1>4 DEF PutFiles
  <2>2. ~Given(fi[w].id)'
    <3>1. \A u \in Uploads : fid[u] # fi'[w].id
      <4>1. \A u \in Uploads : fid[u] # None => fid[u] \in DOMAIN files.names
        BY DEF Serial, Resolved
      <4>2. fi'[w].id \notin DOMAIN files.names /\ fi'[w].id \in Nat
        BY <1>4, SerialPutFiles DEF NewFid, TypeOK, IsMeta
      <4>3. fi'[w].id # None
        BY <4>2, FileAssumption
      <4>4. QED
        BY <4>1, <4>2, <4>3
    <3>2. QED
      BY <2>1, <3>1 DEF Given
  <2>3. QED
    BY <1>0, <1>4, <2>1, <2>2, SerialPutFiles DEF Creates, CreatePc
<1>5. CASE PutFile(w)
  <2>1. /\ pc[w] = "put_file" /\ pc'[w] = "answer"
        /\ UNCHANGED <<files, job, probe, fi, upload, fid>>
    BY <1>0, <1>5 DEF PutFile
  <2>. PICK name : name = NameOf(job[w], probe[w])
    OBVIOUS
  <2>2. name \in DOMAIN file' /\ file'[name] = fi[w] /\ name[1] = Base[job[w]]
    BY <1>5, SerialPut DEF NameOf
  <2>3. /\ fi[w].id \in DOMAIN files.names /\ files.names[fi[w].id] = name
        /\ fi[w].size = NbParts[job[w]] /\ ~Given(fi[w].id)
    BY <1>0, <2>1 DEF Creates
  <2>4. Resolved(fi[w].id, job[w])' /\ ~Given(fi[w].id)'
    BY <2>1, <2>2, <2>3 DEF Resolved, Given
  <2>5. QED
    BY <1>0, <2>1, <2>4 DEF Creates, CreatePc
<1>6. CASE AnswerUpload(w) \/ AckEnd(w) \/ AnswerDownload(w)
  <2>1. pc'[w] = "idle"
    BY <1>0, <1>6 DEF AnswerUpload, AckEnd, AnswerDownload, Done
  <2>2. QED
    BY <2>1 DEF Creates, CreatePc
<1>7. CASE (\E a \in acks : TakeAck(w, a)) \/ Lock(w) \/ AckPut(w)
  <2>1. pc'[w] \in {"lock", "ack_files", "ack_end"}
    BY <1>0, <1>7 DEF TakeAck, Lock, AckPut
  <2>2. QED
    BY <2>1 DEF Creates, CreatePc
<1>8. CASE AckReadFiles(w) \/ AckReadFile(w)
  <2>1. pc'[w] \in {"ack_item", "ack_put"}
    BY <1>0, <1>8 DEF AckReadFiles, AckReadFile, AcksNeverThrow
  <2>2. QED
    BY <2>1 DEF Creates, CreatePc
<1>9. CASE \E d \in Downloads, n \in DOMAIN file \cup
                                    {NameOf(u, 0) : u \in Uploads} :
              TakeDownload(w, d, n)
  <2>1. pc'[w] \in {"idle", "down_answer"}
    BY <1>0, <1>9 DEF TakeDownload
  <2>2. QED
    BY <2>1 DEF Creates, CreatePc
<1>10. QED
  BY <1>1, <1>2, <1>3, <1>4, <1>5, <1>6, <1>7, <1>8, <1>9 DEF WorkerStep

\* sm_part_ack, call by call.
LEMMA MoverRecords ==
    ASSUME TypeOK, NamesDense, Serial, [Next]_vars,
           NEW w \in Workers, WorkerStep(w)
    PROVE  Records(w)'
<1>. USE DEF dbVars, clientVars, ackVars
<1>0. /\ pc \in [Workers -> WorkerPc] /\ DOMAIN job = Workers
      /\ DOMAIN mof = Workers /\ DOMAIN fi = Workers
      /\ Records(w) /\ AcksNeverThrow
  BY SerialThrowsNever DEF TypeOK, Serial
<1>1. CASE \/ \E u \in Uploads : TakeUpload(w, u)
           \/ \E d \in Downloads, n \in DOMAIN file \cup
                                      {NameOf(u, 0) : u \in Uploads} :
                TakeDownload(w, d, n)
  <2>1. pc'[w] \in {"idle", "probe", "down_answer"}
    BY <1>0, <1>1 DEF TakeUpload, TakeDownload
  <2>2. QED
    BY <2>1 DEF Records, AckPc, GuardedPc
<1>2. CASE Probe(w) \/ ReadFiles(w) \/ PutFiles(w) \/ PutFile(w)
  <2>1. pc'[w] \in CreatePc
    BY <1>0, <1>2 DEF Probe, ReadFiles, PutFiles, PutFile, CreatePc
  <2>2. QED
    BY <2>1 DEF Records, AckPc, GuardedPc, CreatePc
<1>3. CASE AnswerUpload(w) \/ AckEnd(w) \/ AnswerDownload(w)
  <2>1. pc'[w] = "idle"
    BY <1>0, <1>3 DEF AnswerUpload, AckEnd, AnswerDownload, Done
  <2>2. QED
    BY <2>1 DEF Records, AckPc, GuardedPc
<1>4. ASSUME NEW a \in acks, TakeAck(w, a)
      PROVE  Records(w)'
  <2>1. pc'[w] = "lock" /\ job'[w] = a /\ UNCHANGED fid
    BY <1>0, <1>4 DEF TakeAck
  <2>2. Given(a.fid)
    BY DEF Serial
  <2>3. QED
    BY <2>1, <2>2 DEF Records, Given
<1>5. CASE Lock(w)
  <2>1. /\ pc[w] = "lock" /\ pc'[w] = "ack_files"
        /\ job'[w] = job[w] /\ UNCHANGED fid
    BY <1>0, <1>5 DEF Lock
  <2>2. QED
    BY <1>0, <2>1 DEF Records, Given, AckPc
<1>6. CASE AckReadFiles(w)
  <2>1. /\ pc[w] = "ack_files" /\ pc'[w] = "ack_item"
        /\ job'[w] = job[w] /\ mof'[w] = files /\ UNCHANGED <<fid, files>>
        /\ job[w].fid \in DOMAIN files.names
    BY <1>0, <1>6 DEF AckReadFiles, AcksNeverThrow
  <2>2. QED
    BY <1>0, <2>1 DEF Records, Given, AckName, AckPc, GuardedPc
<1>7. CASE AckReadFile(w)
  <2>1. /\ pc[w] = "ack_item" /\ pc'[w] = "ack_put"
        /\ fi'[w] = file[AckName(w)] /\ AckName(w) \in DOMAIN file
        /\ UNCHANGED <<fid, files, file, job, mof>>
    BY <1>0, <1>7 DEF AckReadFile, AcksNeverThrow
  <2>2. QED
    BY <1>0, <2>1 DEF Records, Given, AckName, AckPc, GuardedPc
<1>8. CASE AckPut(w)
  <2>1. /\ pc[w] = "ack_put" /\ pc'[w] = "ack_end"
        /\ UNCHANGED <<fid, files, job, mof>>
    BY <1>0, <1>8 DEF AckPut
  <2>2. QED
    BY <1>0, <2>1 DEF Records, Given, AckName, AckPc, GuardedPc
<1>9. QED
  BY <1>1, <1>2, <1>3, <1>4, <1>5, <1>6, <1>7, <1>8 DEF WorkerStep

-----------------------------------------------------------------------------
(***************************************************************************)
(* The theorems.                                                            *)
(***************************************************************************)

\* A client is answered its id by a thread that has put the documents.
LEMMA FidsNew ==
    ASSUME TypeOK, [Next]_vars
    PROVE  \/ fid' = fid
           \/ \E w \in Workers :
                pc[w] = "answer" /\ fid' = [fid EXCEPT ![job[w]] = fi[w].id]
<1>. USE DEF clientVars
<1>1. MasterEnds => fid' = fid
  BY DEF MasterEnds
<1>2. ASSUME NEW w \in Workers, WorkerStep(w)
      PROVE  \/ fid' = fid
             \/ pc[w] = "answer" /\ fid' = [fid EXCEPT ![job[w]] = fi[w].id]
  <2>1. CASE \/ \E u \in Uploads : TakeUpload(w, u)
             \/ \E a \in acks : TakeAck(w, a)
             \/ \E d \in Downloads, n \in DOMAIN file \cup
                                        {NameOf(u, 0) : u \in Uploads} :
                  TakeDownload(w, d, n)
    BY <2>1 DEF TakeUpload, TakeAck, TakeDownload
  <2>2. CASE Probe(w) \/ ReadFiles(w) \/ PutFiles(w) \/ PutFile(w)
    BY <2>2 DEF Probe, ReadFiles, PutFiles, PutFile
  <2>3. CASE Lock(w) \/ AckPut(w) \/ AckEnd(w) \/ AnswerDownload(w)
    BY <2>3 DEF Lock, AckPut, AckEnd, AnswerDownload
  <2>4. CASE AckReadFiles(w) \/ AckReadFile(w)
    BY <1>1, <2>4 DEF AckReadFiles, AckReadFile
  <2>5. CASE AnswerUpload(w)
    BY <2>5 DEF AnswerUpload
  <2>6. QED
    BY <1>2, <2>1, <2>2, <2>3, <2>4, <2>5 DEF WorkerStep
<1>3. QED
  BY <1>1, <1>2 DEF Next, SendAck, LoseAck, MasterCrash, MasterStart, vars

\* What the invariant says of the threads, after any step.
LEMMA WorkersSerial ==
    ASSUME TypeOK, NamesDense, Serial, [Next]_vars, OneCreates',
           NEW v \in Workers
    PROVE  Creates(v)' /\ Records(v)'
<1>1. ASSUME NEW w \in Workers, WorkerStep(w)
      PROVE  Creates(v)' /\ Records(v)'
  <2>1. CASE v = w
    BY <1>1, <2>1, MoverCreates, MoverRecords
  <2>2. CASE v # w
    BY <1>1, <2>2, BystanderCreates, BystanderRecords
  <2>3. QED
    BY <2>1, <2>2
<1>2. CASE MasterCrash
  <2>1. pc'[v] = "idle"
    BY <1>2 DEF MasterCrash, MasterEnds
  <2>2. QED
    BY <2>1 DEF Creates, Records, CreatePc, AckPc, GuardedPc
<1>3. CASE UNCHANGED <<dbVars, workerVars, clientVars>>
  BY <1>3 DEF dbVars, workerVars, clientVars, Serial, Creates, Records,
              Resolved, Given, AckName
<1>4. QED
  BY <1>1, <1>2, <1>3 DEF Next, SendAck, LoseAck, MasterStart, vars

\* Every step keeps Serial while no second thread begins to create a file.
LEMMA StepSerial ==
    TypeOK /\ NamesDense /\ Serial /\ [Next /\ OneCreates']_vars => Serial'
<1>. SUFFICES ASSUME TypeOK, NamesDense, Serial, [Next /\ OneCreates']_vars
              PROVE  Serial'
  OBVIOUS
<1>1. [Next]_vars /\ OneCreates'
  BY DEF Serial, OneCreates, vars, workerVars
<1>2. /\ \A u \in Uploads : fid[u] # None => fid'[u] = fid[u]
      /\ \A u \in Uploads : upload'[u] \in {"new", "serving"} => fid'[u] = None
  BY <1>1, FidsStay DEF Serial, Creates
<1>3. ASSUME NEW u \in Uploads, fid'[u] # None
      PROVE  Resolved(fid[u], u)'
  <2>. PICK i : i = fid'[u]
    OBVIOUS
  <2>1. Resolved(i, u)
    <3>1. CASE fid[u] # None
      BY <1>2, <3>1 DEF Serial
    <3>2. CASE fid[u] = None
      <4>1. PICK w \in Workers :
              pc[w] = "answer" /\ fid' = [fid EXCEPT ![job[w]] = fi[w].id]
        BY <1>1, <1>3, <3>2, FidsNew
      <4>2. job[w] = u /\ fi[w].id = i
        BY <1>3, <3>2, <4>1 DEF TypeOK
      <4>3. QED
        BY <4>1, <4>2 DEF Serial, Creates
    <3>3. QED
      BY <3>1, <3>2
  <2>2. Resolved(i, u)'
    BY <1>1, <2>1, ResolvedStays
  <2>3. QED
    BY <2>2 DEF Resolved
<1>4. UniqueFids'
  <2>1. CASE fid' = fid
    BY <2>1 DEF Serial, UniqueFids
  <2>2. ASSUME NEW w \in Workers, pc[w] = "answer",
               fid' = [fid EXCEPT ![job[w]] = fi[w].id]
        PROVE  UniqueFids'
    <3>1. \A u \in Uploads : fid[u] # fi[w].id
      BY <2>2 DEF Serial, Creates, Given
    <3>2. DOMAIN fid = Uploads
      BY DEF TypeOK
    <3>3. QED
      BY <2>2, <3>1, <3>2 DEF Serial, UniqueFids
  <2>3. QED
    BY <1>1, <2>1, <2>2, FidsNew
<1>5. ASSUME NEW a \in acks'
      PROVE  Given(a.fid)'
  <2>1. CASE a \in acks
    <3>1. Given(a.fid) /\ a.fid \in Nat
      BY <2>1 DEF Serial, TypeOK, AckMessage
    <3>2. QED
      BY <1>1, <3>1, GivenStays
  <2>2. CASE a \notin acks
    BY <1>1, <1>5, <2>2, AcksSent DEF Given
  <2>3. QED
    BY <2>1, <2>2
<1>6. QED
  BY <1>1, <1>2, <1>3, <1>4, <1>5, WorkersSerial DEF Serial

\* The behaviours in which files are created one at a time.
LEMMA SerialCorrect == SerialSpec => [](TypeOK /\ NamesDense /\ Serial)
<1>1. Init => Serial
  BY DEF Init, Serial, OneCreates, UniqueFids, Creates, Records, CreatePc,
         AckPc, GuardedPc
<1>2. [Next /\ OneCreates']_vars => [Next]_vars
  OBVIOUS
<1>3. SerialSpec => Spec
  BY <1>2, PTL DEF SerialSpec, Spec
<1>4. QED
  BY <1>1, <1>3, StepSerial, TypeCorrect, DenseNames, PTL DEF SerialSpec

\* No two clients are answered one id, when files are created one at a time,
\* although the thread and the process may end between any two calls.
THEOREM SerialUniqueFids == SerialSpec => []UniqueFids
<1>1. Serial => UniqueFids
  BY DEF Serial
<1>2. QED
  BY <1>1, SerialCorrect, PTL

\* The id leads to the document of the client's file.
THEOREM SerialFidResolves == SerialSpec => []FidResolves
<1>1. Serial => FidResolves
  BY DEF Serial, FidResolves, Resolved
<1>2. QED
  BY <1>1, SerialCorrect, PTL

\* No acknowledgement of a part ends the master.
THEOREM SerialAcksNeverThrow == SerialSpec => []AcksNeverThrow
<1>1. TypeOK /\ Serial => AcksNeverThrow
  BY SerialThrowsNever
<1>2. QED
  BY <1>1, SerialCorrect, PTL

\* No step of the others and no fault takes a location from a document, whatever
\* names the clients ask for.
THEOREM SerialLocationsKept == SerialSpec => LocationsKept
<1>1. TypeOK /\ NamesDense /\ Serial /\ [Next /\ OneCreates']_vars
        => [KeepsLocations]_vars
  <2>. SUFFICES ASSUME TypeOK, NamesDense, Serial, Next
                PROVE  KeepsLocations
    BY DEF KeepsLocations
  <2>1. [Next]_vars
    OBVIOUS
  <2>2. ASSUME NEW w \in Workers, AckPut(w)
        PROVE  KeepsLocations
    <3>1. /\ AckName(w) \in DOMAIN file /\ fi[w] = file[AckName(w)]
          /\ IsItem(fi[w]) /\ job[w] \in AckMessage
      BY <2>2 DEF AckPut, Serial, Records, TypeOK, AckPc, GuardedPc
    <3>2. file'[AckName(w)] = AddLocation(fi[w], job[w])
      BY <2>2, <3>1 DEF AckPut, Upsert
    <3>3. Locations(file[AckName(w)]) \subseteq Locations(file'[AckName(w)])
      BY <3>1, <3>2, AddLocationKeeps
    <3>4. QED
      BY <2>2, <3>3, SerialAckPut DEF KeepsLocations
  <2>3. ASSUME NEW w \in Workers, PutFile(w)
        PROVE  KeepsLocations
    BY <2>3, SerialPut DEF KeepsLocations
  <2>4. CASE UNCHANGED file
    BY <2>4 DEF KeepsLocations
  <2>5. QED
    BY <2>1, <2>2, <2>3, <2>4, OthersLeaveFiles
<1>2. QED
  BY <1>1, SerialCorrect, PTL DEF SerialSpec, LocationsKept

-----------------------------------------------------------------------------
(***************************************************************************)
(* The catalogue.                                                           *)
(***************************************************************************)

\* FileCatalogue for all ids, names, sizes and places.
Whole == INSTANCE FileCatalogue WITH
    Ids     <- Nat,
    Names   <- Bases \X Nat,
    Sizes   <- Nat,
    Places  <- Nat \X Stids,
    entries <- Entries

\* No two documents have one id, and no id is answered without a name for it; the
\* document that is about to be put is a new one too, without parts.
Distinct ==
    /\ \A n \in DOMAIN file : file[n].id \in DOMAIN files.names
    /\ \A m, n \in DOMAIN file : file[m].id = file[n].id => m = n
    /\ \A w \in Workers : pc[w] = "put_file" =>
         fi[w].parts = <<>> /\ \A n \in DOMAIN file : file[n].id # fi[w].id

LEMMA StepDistinct ==
    TypeOK /\ NamesDense /\ Serial /\ Distinct /\ [Next /\ OneCreates']_vars
        => Distinct'
<1>. SUFFICES ASSUME TypeOK, NamesDense, Serial, Distinct,
                     [Next /\ OneCreates']_vars
              PROVE  Distinct'
  OBVIOUS
<1>1. [Next]_vars /\ OneCreates'
  BY DEF Serial, OneCreates, vars, workerVars
<1>2. /\ \A n \in DOMAIN file' : file'[n].id \in DOMAIN files'.names
      /\ \A m, n \in DOMAIN file' : file'[m].id = file'[n].id => m = n
  <2>1. ASSUME NEW w \in Workers, PutFile(w)
        PROVE  /\ \A n \in DOMAIN file' : file'[n].id \in DOMAIN files'.names
               /\ \A m, n \in DOMAIN file' : file'[m].id = file'[n].id => m = n
    <3>. PICK name : name = NameOf(job[w], probe[w])
      OBVIOUS
    <3>1. /\ DOMAIN file' = DOMAIN file \cup {name}
          /\ \A n \in DOMAIN file : file'[n] = file[n]
          /\ file'[name] = fi[w]
      BY <2>1, SerialPut
    <3>2. /\ fi[w].id \in DOMAIN files.names /\ files' = files
          /\ \A n \in DOMAIN file : file[n].id # fi[w].id
      BY <2>1 DEF PutFile, Serial, Creates, Distinct
    <3>3. QED
      BY <3>1, <3>2 DEF Distinct
  <2>2. ASSUME DOMAIN file' = DOMAIN file
        PROVE  /\ \A n \in DOMAIN file' : file'[n].id \in DOMAIN files'.names
               /\ \A m, n \in DOMAIN file' : file'[m].id = file'[n].id => m = n
    BY <1>1, <2>2, Grows DEF Distinct
  <2>3. QED
    BY <1>1, <2>1, <2>2, SerialAckPut, OthersLeaveFiles
<1>3. ASSUME NEW v \in Workers, pc'[v] = "put_file"
      PROVE  fi'[v].parts = <<>> /\ \A n \in DOMAIN file' : file'[n].id # fi'[v].id
  <2>1. ASSUME NEW w \in Workers, WorkerStep(w)
        PROVE  fi'[v].parts = <<>>
               /\ \A n \in DOMAIN file' : file'[n].id # fi'[v].id
    <3>1. CASE v # w
      <4>1. Same(v)
        BY <2>1, <3>1, SerialThrowsNever, OthersStay
      <4>2. pc[v] = "put_file" /\ pc[v] \in CreatePc
        BY <1>3, <4>1 DEF Same, CreatePc
      <4>3. DOMAIN file' = DOMAIN file
        BY <1>1, <2>1, <3>1, <4>2, NobodyElseCreates
      <4>4. QED
        BY <1>1, <4>1, <4>2, <4>3, Grows DEF Same, Distinct
    <3>2. CASE v = w /\ PutFiles(w)
      <4>1. fi'[v] = NewItem(job[v], NewFid(mof[v])) /\ file' = file
        BY <3>2 DEF PutFiles, TypeOK
      <4>2. fi'[v].id \notin DOMAIN files.names
        BY <3>2, SerialPutFiles
      <4>3. QED
        BY <4>1, <4>2 DEF Distinct, NewItem
    <3>3. CASE v = w /\ ~PutFiles(w)
      <4>1. v \in Workers /\ pc \in [Workers -> WorkerPc] /\ AcksNeverThrow
        BY SerialThrowsNever DEF TypeOK
      <4>2. ~ \E u \in Uploads : TakeUpload(v, u)
        BY <1>3, <4>1 DEF TakeUpload
      <4>3. ~ \E d \in Downloads, n \in DOMAIN file \cup
                                        {NameOf(u, 0) : u \in Uploads} :
                TakeDownload(v, d, n)
        BY <1>3, <4>1 DEF TakeDownload
      <4>4. ~(Probe(v) \/ ReadFiles(v) \/ PutFile(v) \/ Lock(v) \/ AckPut(v)
              \/ \E a \in acks : TakeAck(v, a))
        BY <1>3, <4>1 DEF Probe, ReadFiles, PutFile, Lock, AckPut, TakeAck
      <4>5. ~(AnswerUpload(v) \/ AckEnd(v) \/ AnswerDownload(v))
        BY <1>3, <4>1 DEF AnswerUpload, AckEnd, AnswerDownload, Done
      <4>6. ~(AckReadFiles(v) \/ AckReadFile(v))
        BY <1>3, <4>1 DEF AckReadFiles, AckReadFile, AcksNeverThrow
      <4>7. QED
        BY <2>1, <3>3, <4>2, <4>3, <4>4, <4>5, <4>6 DEF WorkerStep
    <3>4. QED
      BY <3>1, <3>2, <3>3
  <2>2. ~MasterCrash
    BY <1>3 DEF MasterCrash, MasterEnds
  <2>3. CASE UNCHANGED <<dbVars, workerVars>>
    BY <1>3, <2>3 DEF dbVars, workerVars, Distinct
  <2>4. QED
    BY <1>1, <2>1, <2>2, <2>3 DEF Next, SendAck, LoseAck, MasterStart, vars
<1>4. QED
  BY <1>2, <1>3 DEF Distinct

\* The entries that documents with different ids make.
EntriesOf(f) ==
    [i \in {f[n].id : n \in DOMAIN f} |->
        LET n == CHOOSE m \in DOMAIN f : f[m].id = i
        IN  [name |-> n, size |-> f[n].size, places |-> Locations(f[n])]]

LEMMA EntryOfName ==
    ASSUME NEW f, \A m, n \in DOMAIN f : f[m].id = f[n].id => m = n
    PROVE  /\ DOMAIN EntriesOf(f) = {f[n].id : n \in DOMAIN f}
           /\ \A n \in DOMAIN f :
                EntriesOf(f)[f[n].id] =
                  [name |-> n, size |-> f[n].size, places |-> Locations(f[n])]
BY DEF EntriesOf

\* To put a new document is to create an entry ...
LEMMA PutCreates ==
    ASSUME TypeOK, Serial, Distinct, Distinct', NEW w \in Workers, PutFile(w)
    PROVE  Whole!Next
<1> DEFINE name == NameOf(job[w], probe[w])
           e == [name |-> name, size |-> fi[w].size, places |-> {}]
<1>1. /\ name \notin DOMAIN file /\ DOMAIN file' = DOMAIN file \cup {name}
      /\ \A n \in DOMAIN file : file'[n] = file[n]
      /\ file'[name] = fi[w]
  BY SerialPut
<1>2. /\ \A n \in DOMAIN file : file[n].id # fi[w].id
      /\ Locations(fi[w]) = {}
      /\ fi[w].id \in Nat /\ fi[w].size \in Nat /\ name \in Bases \X Nat
  BY DEF PutFile, Distinct, Locations, TypeOK, IsItem, CreatePc, NameOf, Bases
<1>. HIDE DEF name
<1>3. /\ \A m, n \in DOMAIN file : file[m].id = file[n].id => m = n
      /\ \A m, n \in DOMAIN file' : file'[m].id = file'[n].id => m = n
  BY DEF Distinct
<1>4. Entries = EntriesOf(file) /\ Entries' = EntriesOf(file')
  BY DEF Entries, EntriesOf, EntryIds, EntryName
<1>5. /\ DOMAIN Entries = {file[n].id : n \in DOMAIN file}
      /\ \A n \in DOMAIN file : Entries[file[n].id] =
           [name |-> n, size |-> file[n].size, places |-> Locations(file[n])]
  BY <1>3, <1>4, EntryOfName
<1>6. /\ DOMAIN Entries' = {file'[n].id : n \in DOMAIN file'}
      /\ \A n \in DOMAIN file' : Entries'[file'[n].id] =
           [name |-> n, size |-> file'[n].size, places |-> Locations(file'[n])]
  BY <1>3, <1>4, EntryOfName
<1>7. DOMAIN Entries' = DOMAIN Entries \cup {fi[w].id}
  BY <1>1, <1>5, <1>6
<1>8. ASSUME NEW j \in DOMAIN Entries
      PROVE  Entries'[j] = Entries[j] /\ Entries[j].name # name
  <2>1. PICK n \in DOMAIN file : j = file[n].id
    BY <1>5
  <2>2. n \in DOMAIN file' /\ file'[n] = file[n] /\ n # name
    BY <1>1
  <2>3. Entries[j] =
          [name |-> n, size |-> file[n].size, places |-> Locations(file[n])]
    BY <1>5, <2>1
  <2>4. Entries'[j] =
          [name |-> n, size |-> file[n].size, places |-> Locations(file[n])]
    BY <1>6, <2>1, <2>2
  <2>5. QED
    BY <2>2, <2>3, <2>4
<1>9. Entries'[fi[w].id] = e /\ fi[w].id \notin DOMAIN Entries
  BY <1>1, <1>2, <1>5, <1>6
<1>10. Entries' = [j \in DOMAIN Entries \cup {fi[w].id} |->
                     IF j = fi[w].id THEN e ELSE Entries[j]]
  <2>1. Entries' = [j \in DOMAIN Entries' |-> Entries'[j]]
    BY DEF Entries
  <2>2. QED
    BY <1>7, <1>8, <1>9, <2>1
<1>11. Whole!Create(fi[w].id, name, fi[w].size)
  BY <1>8, <1>9, <1>10 DEF Whole!Create
<1>12. QED
  BY <1>2, <1>11 DEF Whole!Next

\* ... and to put one with one location more is to record it.
LEMMA AckPutRecords ==
    ASSUME TypeOK, Serial, Distinct, Distinct', NEW w \in Workers, AckPut(w)
    PROVE  Whole!Next
<1>. PICK name, a, item : name = AckName(w) /\ a = job[w] /\ item = fi[w]
  OBVIOUS
<1> DEFINE i == item.id
           p == <<a.part, a.stid>>
<1>1. /\ name \in DOMAIN file /\ item = file[name] /\ IsItem(item)
      /\ a \in AckMessage
  BY DEF AckPut, Serial, Records, TypeOK, AckPc, GuardedPc
<1>2. /\ DOMAIN file' = DOMAIN file
      /\ \A n \in DOMAIN file \ {name} : file'[n] = file[n]
      /\ \A n \in DOMAIN file :
           file'[n].id = file[n].id /\ file'[n].size = file[n].size
  BY SerialAckPut
<1>3. file'[name] = AddLocation(item, a)
  BY DEF AckPut, Upsert
<1>4. Locations(file'[name]) = Locations(item) \cup {p}
  <2>1. /\ Locations(item) \subseteq Locations(AddLocation(item, a))
        /\ p \in Locations(AddLocation(item, a))
    BY <1>1, AddLocationKeeps
  <2>2. \A l \in Locations(AddLocation(item, a)) : l \in Locations(item) \/ l = p
    BY <1>1, AddLocationOneMore
  <2>3. QED
    BY <1>3, <2>1, <2>2
<1>5. i \in Nat /\ p \in Nat \X Stids
  BY <1>1 DEF IsItem, AckMessage
<1>. HIDE DEF p
<1>6. /\ \A m, n \in DOMAIN file : file[m].id = file[n].id => m = n
      /\ \A m, n \in DOMAIN file' : file'[m].id = file'[n].id => m = n
  BY DEF Distinct
<1>7. Entries = EntriesOf(file) /\ Entries' = EntriesOf(file')
  BY DEF Entries, EntriesOf, EntryIds, EntryName
<1>8. /\ DOMAIN Entries = {file[n].id : n \in DOMAIN file}
      /\ \A n \in DOMAIN file : Entries[file[n].id] =
           [name |-> n, size |-> file[n].size, places |-> Locations(file[n])]
  BY <1>6, <1>7, EntryOfName
<1>9. /\ DOMAIN Entries' = {file'[n].id : n \in DOMAIN file'}
      /\ \A n \in DOMAIN file' : Entries'[file'[n].id] =
           [name |-> n, size |-> file'[n].size, places |-> Locations(file'[n])]
  BY <1>6, <1>7, EntryOfName
<1>10. DOMAIN Entries' = DOMAIN Entries
  BY <1>2, <1>8, <1>9
<1>11. ASSUME NEW j \in DOMAIN Entries, j # i
       PROVE  Entries'[j] = Entries[j]
  <2>1. PICK n \in DOMAIN file : j = file[n].id
    BY <1>8
  <2>2. n \in DOMAIN file' /\ file'[n] = file[n]
    BY <1>1, <1>2, <1>11, <2>1
  <2>3. Entries[j] =
          [name |-> n, size |-> file[n].size, places |-> Locations(file[n])]
    BY <1>8, <2>1
  <2>4. Entries'[j] =
          [name |-> n, size |-> file[n].size, places |-> Locations(file[n])]
    BY <1>9, <2>1, <2>2
  <2>5. QED
    BY <2>3, <2>4
<1>12. /\ i \in DOMAIN Entries
       /\ Entries'[i] = [Entries[i] EXCEPT !.places = @ \cup {p}]
  <2>1. Entries[i] = [name |-> name, size |-> item.size,
                      places |-> Locations(item)]
    BY <1>1, <1>8
  <2>2. Entries'[i] = [name |-> name, size |-> item.size,
                       places |-> Locations(item) \cup {p}]
    BY <1>1, <1>2, <1>4, <1>9
  <2>3. i \in DOMAIN Entries
    BY <1>1, <1>8
  <2>4. [Entries[i] EXCEPT !.places = @ \cup {p}] =
          [name |-> name, size |-> item.size,
           places |-> Locations(item) \cup {p}]
    BY <2>1
  <2>5. QED
    BY <2>2, <2>3, <2>4
<1>13. Entries' = [Entries EXCEPT ![i].places = @ \cup {p}]
  <2>1. Entries' = [j \in DOMAIN Entries' |-> Entries'[j]]
    BY DEF Entries
  <2>2. QED
    BY <1>10, <1>11, <1>12, <2>1
<1>14. Whole!Record(i, p)
  BY <1>12, <1>13 DEF Whole!Record
<1>15. QED
  BY <1>5, <1>14 DEF Whole!Next

\* The documents, the threads, their copies and all that fails between two calls
\* implement the catalogue, in which a file appears at once.
THEOREM SerialImplementsCatalogue == SerialSpec => Whole!Spec
<1>1. Init => Distinct /\ Whole!Init
  BY DEF Init, Distinct, Whole!Init, Entries, EntryIds
<1>2. /\ TypeOK /\ NamesDense /\ Serial /\ Distinct /\ [Next /\ OneCreates']_vars
        => Distinct'
  BY StepDistinct
<1>3. TypeOK /\ NamesDense /\ Serial /\ Distinct /\ Distinct'
      /\ [Next /\ OneCreates']_vars => [Whole!Next]_Entries
  <2>. SUFFICES ASSUME TypeOK, Serial, Distinct, Distinct', [Next]_vars
                PROVE  [Whole!Next]_Entries
    OBVIOUS
  <2>1. UNCHANGED file => UNCHANGED Entries
    BY DEF Entries, EntryIds, EntryName
  <2>2. QED
    BY <2>1, PutCreates, AckPutRecords, OthersLeaveFiles
<1>4. QED
  BY <1>1, <1>2, <1>3, SerialCorrect, PTL DEF SerialSpec, Whole!Spec
=============================================================================
