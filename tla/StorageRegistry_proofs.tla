----------------------- MODULE StorageRegistry_proofs -----------------------
(***************************************************************************)
(* Theorems about StorageRegistry, for any number of threads, storages,     *)
(* starts and faults.                                                       *)
(***************************************************************************)
EXTENDS StorageRegistry, TLAPS

-----------------------------------------------------------------------------
(***************************************************************************)
(* Type correctness.                                                        *)
(***************************************************************************)

\* The end of the master's process keeps the types.
LEMMA MasterEndsType ==
    ASSUME TypeOK, MasterEnds, faults' \in 0 .. MaxFaults
    PROVE  TypeOK'
BY DEF TypeOK, MasterEnds, MetaOnStorages, StorageItem, WorkerPc, HostPc,
       ConnState, NoMeta, NoSession, dbVars, hostVars

\* The variables keep their types in every behaviour of sm_id_req, init_id and
\* get_all_storages.
THEOREM TypeCorrect == Spec => []TypeOK
<1>. USE RegistryAssumption
<1>1. Init => TypeOK
  BY DEF Init, TypeOK, MetaOnStorages, StorageItem, WorkerPc, HostPc,
         ConnState, NoMeta, NoSession
<1>2. TypeOK /\ [Next]_vars => TypeOK'
  <2>. SUFFICES ASSUME TypeOK, [Next]_vars
                PROVE  TypeOK'
    OBVIOUS
  <2>. USE DEF TypeOK, MetaOnStorages, StorageItem, WorkerPc, HostPc,
               ConnState, NoMeta, NoSession, dbVars, workerVars, hostVars,
               netVars
  <2>1. ASSUME NEW w \in Workers, NEW s \in Sessions, ReadStorages(w, s)
        PROVE  TypeOK'
    BY <2>1 DEF ReadStorages
  <2>2. ASSUME NEW w \in Workers, PutStorage(w)
        PROVE  TypeOK'
    <3>1. Host(job[w]) \in Hosts /\ NewId(snap[w]) \in Nat
      BY <2>2 DEF PutStorage, Sessions, Host, NewId
    <3>2. [addr |-> Host(job[w]), avspace |-> AvSpace[Host(job[w])]]
            \in StorageItem
      BY <3>1
    <3>3. DOMAIN st' \subseteq Nat /\ \A i \in DOMAIN st' : st'[i] \in StorageItem
      BY <2>2, <3>1, <3>2 DEF PutStorage, Upsert
    <3>4. QED
      BY <2>2, <3>3 DEF PutStorage
  <2>3. ASSUME NEW w \in Workers, PeerGone(w)
        PROVE  TypeOK'
    BY <2>3, MasterEndsType DEF PeerGone
  <2>4. ASSUME NEW w \in Workers, PutStorages(w)
        PROVE  TypeOK'
    <3>1. Host(job[w]) \in Hosts
      BY <2>4 DEF PutStorages, Sessions, Host
    <3>2. mos' \in MetaOnStorages
      BY <2>4, <3>1 DEF PutStorages
    <3>3. QED
      BY <2>4, <3>2 DEF PutStorages
  <2>5. ASSUME NEW w \in Workers, Reply(w)
        PROVE  TypeOK'
    <3>1. job[w] \in Sessions /\ NewId(snap[w]) \in Nat
      BY <2>5 DEF Reply, NewId
    <3>2. replies' \subseteq [to : Sessions, stid : Nat]
      BY <2>5, <3>1 DEF Reply
    <3>3. QED
      BY <2>5, <3>1, <3>2 DEF Reply, Idle
  <2>6. ASSUME NEW w \in Workers, ListBegin(w)
        PROVE  TypeOK'
    BY <2>6 DEF ListBegin
  <2>7. ASSUME NEW w \in Workers, ListNext(w)
        PROVE  TypeOK'
    <3>1. CASE idx[w] \in DOMAIN st
      <4>1. /\ idx' = [idx EXCEPT ![w] = @ + 1]
            /\ UNCHANGED <<dbVars, pc, job, snap, masterUp, hostVars, netVars,
                           faults>>
        BY <2>7, <3>1 DEF ListNext
      <4>2. QED
        BY <4>1, SMTT(30)
    <3>2. CASE idx[w] \notin DOMAIN st
      BY <2>7, <3>2, MasterEndsType DEF ListNext
    <3>3. QED
      BY <3>1, <3>2
  <2>8. ASSUME NEW w \in Workers, ListEnd(w)
        PROVE  TypeOK'
    BY <2>8 DEF ListEnd, Idle
  <2>9. ASSUME NEW h \in Hosts, SendIdReq(h)
        PROVE  TypeOK'
    <3>1. boots[h] + 1 \in 0 .. MaxBoots
      BY <2>9 DEF SendIdReq
    <3>2. boots' \in [Hosts -> 0 .. MaxBoots]
      BY <2>9, <3>1 DEF SendIdReq
    <3>3. conn' \in [Sessions -> ConnState] /\ hpc' \in [Hosts -> HostPc]
      BY <2>9 DEF SendIdReq
    <3>4. QED
      BY <2>9, <3>2, <3>3 DEF SendIdReq
  <2>10. ASSUME NEW h \in Hosts, StartRefused(h)
         PROVE  TypeOK'
    BY <2>10, SMTT(30) DEF StartRefused
  <2>11. ASSUME NEW h \in Hosts, LoadId(h)
         PROVE  TypeOK'
    BY <2>11, SMTT(30) DEF LoadId
  <2>12. ASSUME NEW h \in Hosts, ReceiveId(h)
         PROVE  TypeOK'
    BY <2>12, SMTT(30) DEF ReceiveId
  <2>13. ASSUME NEW h \in Hosts, WriteId(h)
         PROVE  TypeOK'
    BY <2>13, SMTT(30) DEF WriteId
  <2>14. ASSUME NEW h \in Hosts, ReceiveError(h)
         PROVE  TypeOK'
    BY <2>14, SMTT(30) DEF ReceiveError
  <2>15. ASSUME NEW h \in Hosts, StorageStop(h)
         PROVE  TypeOK'
    BY <2>15, SMTT(30) DEF StorageStop
  <2>16. ASSUME NEW h \in Hosts, StorageCrash(h)
         PROVE  TypeOK'
    BY <2>16, SMTT(30) DEF StorageCrash
  <2>17. ASSUME NEW s \in Sessions, BreakSession(s)
         PROVE  TypeOK'
    BY <2>17, SMTT(30) DEF BreakSession
  <2>18. CASE MasterCrash
    BY <2>18, MasterEndsType, SMTT(30) DEF MasterCrash
  <2>19. CASE MasterStart
    BY <2>19, SMTT(30) DEF MasterStart
  <2>20. CASE UNCHANGED vars
    BY <2>20 DEF vars
  <2>21. QED
    BY <2>1, <2>2, <2>3, <2>4, <2>5, <2>6, <2>7, <2>8, <2>9, <2>10, <2>11,
       <2>12, <2>13, <2>14, <2>15, <2>16, <2>17, <2>18, <2>19, <2>20
       DEF Next, WorkerStep, HostStep
<1>3. QED
  BY <1>1, <1>2, PTL DEF Spec

-----------------------------------------------------------------------------
(***************************************************************************)
(* Density: no interleaving of registrations leaves a gap.                  *)
(***************************************************************************)

\* The inductive invariant: what is counted, or held by a thread, an answer or
\* a storage, has its document.
Registered == RegistryDense /\ IdsAreRegistered

\* The end of the master's process loses nothing that is registered.
LEMMA MasterEndsRegistered ==
    ASSUME TypeOK, Registered, MasterEnds
    PROVE  Registered'
BY DEF TypeOK, Registered, RegistryDense, IdsAreRegistered, MasterEnds, NoMeta,
       dbVars, hostVars, NewId

\* Registered is preserved by every step.
LEMMA RegisteredStep == TypeOK /\ Registered /\ [Next]_vars => Registered'
<1>. SUFFICES ASSUME TypeOK, Registered, [Next]_vars
              PROVE  Registered'
  OBVIOUS
<1>. USE RegistryAssumption
         DEF Registered, RegistryDense, IdsAreRegistered, NewId,
             dbVars, workerVars, hostVars, netVars
<1>1. ASSUME NEW w \in Workers, NEW s \in Sessions, ReadStorages(w, s)
      PROVE  Registered'
  BY <1>1 DEF ReadStorages, TypeOK
<1>2. ASSUME NEW w \in Workers, PutStorage(w)
      PROVE  Registered'
  <2>1. DOMAIN st' = DOMAIN st \cup {NewId(snap[w])}
    BY <1>2 DEF PutStorage, Upsert
  <2>2. /\ 0 .. mos'.count - 1 \subseteq DOMAIN st'
        /\ \A v \in Workers : 0 .. snap'[v].count - 1 \subseteq DOMAIN st'
    BY <1>2, <2>1 DEF PutStorage
  <2>3. ASSUME NEW v \in Workers, pc'[v] \in {"put_storages", "reply"}
        PROVE  NewId(snap'[v]) \in DOMAIN st'
    <3>1. CASE v = w
      BY <1>2, <2>1, <3>1 DEF PutStorage
    <3>2. CASE v # w
      BY <1>2, <2>1, <2>3, <3>2 DEF PutStorage, TypeOK
    <3>3. QED
      BY <3>1, <3>2
  <2>4. IdsAreRegistered'
    BY <1>2, <2>1 DEF PutStorage
  <2>5. QED
    BY <2>2, <2>3, <2>4
<1>3. ASSUME NEW w \in Workers, PeerGone(w)
      PROVE  Registered'
  BY <1>3, MasterEndsRegistered DEF PeerGone
<1>4. ASSUME NEW w \in Workers, PutStorages(w)
      PROVE  Registered'
  <2>1. snap[w].count \in Nat /\ snap[w].count \in DOMAIN st
    BY <1>4 DEF PutStorages, TypeOK, MetaOnStorages
  <2>2. 0 .. mos'.count - 1 \subseteq DOMAIN st'
    BY <1>4, <2>1 DEF PutStorages
  <2>3. QED
    BY <1>4, <2>2 DEF PutStorages, TypeOK
<1>5. ASSUME NEW w \in Workers, Reply(w)
      PROVE  Registered'
  <2>1. \A r \in replies' : r.stid \in DOMAIN st'
    BY <1>5 DEF Reply
  <2>2. QED
    BY <1>5, <2>1 DEF Reply, Idle, NoMeta, TypeOK
<1>6. ASSUME NEW w \in Workers, ListBegin(w)
      PROVE  Registered'
  BY <1>6 DEF ListBegin, TypeOK
<1>7. ASSUME NEW w \in Workers, ListNext(w)
      PROVE  Registered'
  <2>1. CASE idx[w] \in DOMAIN st
    BY <1>7, <2>1 DEF ListNext
  <2>2. CASE idx[w] \notin DOMAIN st
    BY <1>7, <2>2, MasterEndsRegistered DEF ListNext
  <2>3. QED
    BY <2>1, <2>2
<1>8. ASSUME NEW w \in Workers, ListEnd(w)
      PROVE  Registered'
  BY <1>8 DEF ListEnd, Idle, NoMeta, TypeOK
<1>9. ASSUME NEW h \in Hosts, SendIdReq(h)
      PROVE  Registered'
  BY <1>9 DEF SendIdReq, TypeOK
<1>10. ASSUME NEW h \in Hosts, StartRefused(h)
       PROVE  Registered'
  BY <1>10 DEF StartRefused
<1>11. ASSUME NEW h \in Hosts, LoadId(h)
       PROVE  Registered'
  BY <1>11 DEF LoadId, TypeOK
<1>12. ASSUME NEW h \in Hosts, ReceiveId(h)
       PROVE  Registered'
  <2>1. PICK r \in replies : /\ id' = [id EXCEPT ![h] = r.stid]
                             /\ replies' = replies \ {r}
    BY <1>12 DEF ReceiveId
  <2>2. ASSUME NEW g \in Hosts, hpc'[g] = "writing"
        PROVE  id'[g] \in DOMAIN st'
    BY <1>12, <2>1, <2>2 DEF ReceiveId, TypeOK
  <2>3. ASSUME NEW g \in Hosts, idFile'[g] \in Nat
        PROVE  idFile'[g] \in DOMAIN st'
    BY <1>12, <2>3 DEF ReceiveId, TypeOK
  <2>4. QED
    BY <1>12, <2>1, <2>2, <2>3 DEF ReceiveId
<1>13. ASSUME NEW h \in Hosts, WriteId(h)
       PROVE  Registered'
  BY <1>13 DEF WriteId, TypeOK
<1>14. ASSUME NEW h \in Hosts, ReceiveError(h)
       PROVE  Registered'
  BY <1>14 DEF ReceiveError, TypeOK
<1>15. ASSUME NEW h \in Hosts, StorageStop(h)
       PROVE  Registered'
  BY <1>15 DEF StorageStop, TypeOK
<1>16. ASSUME NEW h \in Hosts, StorageCrash(h)
       PROVE  Registered'
  BY <1>16 DEF StorageCrash, TypeOK
<1>17. ASSUME NEW s \in Sessions, BreakSession(s)
       PROVE  Registered'
  BY <1>17 DEF BreakSession
<1>18. CASE MasterCrash
  BY <1>18, MasterEndsRegistered DEF MasterCrash
<1>19. CASE MasterStart
  BY <1>19 DEF MasterStart
<1>20. CASE UNCHANGED vars
  BY <1>20 DEF vars
<1>21. QED
  BY <1>1, <1>2, <1>3, <1>4, <1>5, <1>6, <1>7, <1>8, <1>9, <1>10, <1>11,
     <1>12, <1>13, <1>14, <1>15, <1>16, <1>17, <1>18, <1>19, <1>20
     DEF Next, WorkerStep, HostStep

\* Registered holds in every reachable state.
LEMMA RegisteredInvariant == Spec => []Registered
<1>1. Init => Registered
  BY RegistryAssumption
     DEF Init, Registered, RegistryDense, IdsAreRegistered, NoMeta, NewId
<1>2. QED
  BY <1>1, RegisteredStep, TypeCorrect, PTL DEF Spec

\* The documents "st.0" up to the counted number exist, for the stored count and
\* for the copies threads hold, whatever the interleaving of sm_id_req.
THEOREM Density == Spec => []RegistryDense
<1>1. Registered => RegistryDense
  BY DEF Registered
<1>2. QED
  BY <1>1, RegisteredInvariant, PTL

\* Every id that was handed out has its document.
THEOREM HandedOutRegistered == Spec => []IdsAreRegistered
<1>1. Registered => IdsAreRegistered
  BY DEF Registered
<1>2. QED
  BY <1>1, RegisteredInvariant, PTL

\* get_all_storages never throws for a missing storage.
THEOREM ListingSafe == Spec => []ListingNeverThrows
<1>1. TypeOK /\ RegistryDense => ListingNeverThrows
  BY DEF TypeOK, RegistryDense, ListingNeverThrows, MetaOnStorages
<1>2. QED
  BY <1>1, TypeCorrect, Density, PTL

-----------------------------------------------------------------------------
(***************************************************************************)
(* One registration at a time, by any of the threads, beside any number of  *)
(* listings: ids are unique and resolve to their storage, and the module    *)
(* implements IdAllocator.  Two threads inside sm_id_req at once may both   *)
(* read the same count and give it to two storages: OneRegisters is what    *)
(* the code lacks.                                                          *)
(***************************************************************************)

\* Number i is counted and its document names storage h.
OwnedBy(i, h) == i \in 0 .. mos.count - 1 /\ st[i].addr = h

\* The inductive invariant: the copy a registering thread holds is current until
\* it is put back, and a number is with nobody but its owner on its whole way
\* from the handler to the id file.
Owned ==
    /\ OneRegisters
    /\ \A w \in Workers :
        /\ pc[w] \in {"put_st", "put_storages"} => snap[w] = mos
        /\ pc[w] = "put_storages" => st[mos.count].addr = Host(job[w])
        /\ pc[w] = "reply" => OwnedBy(NewId(snap[w]), Host(job[w]))
    /\ \A r \in replies : OwnedBy(r.stid, Host(r.to))
    /\ \A h \in Hosts :
        /\ hpc[h] = "waiting" => idFile[h] = NoFile
        /\ hpc[h] = "writing" => OwnedBy(id[h], h) /\ idFile[h] = EmptyFile
        /\ idFile[h] \in Nat => OwnedBy(idFile[h], h)

\* The end of the master's process keeps Owned: no thread holds a copy then.
LEMMA MasterEndsOwned ==
    ASSUME TypeOK, Owned, MasterEnds
    PROVE  Owned'
BY DEF Owned, OneRegisters, OwnedBy, MasterEnds, dbVars, hostVars, TypeOK

\* Owned is preserved by every step after which one storage is being registered.
LEMMA OwnedStep ==
    TypeOK /\ TypeOK' /\ Registered /\ Owned /\ [Next /\ OneRegisters']_vars
        => Owned'
<1>. SUFFICES ASSUME TypeOK, TypeOK', Registered, Owned,
                     [Next /\ OneRegisters']_vars
              PROVE  Owned'
  OBVIOUS
<1>. USE RegistryAssumption DEF dbVars, workerVars, hostVars, netVars
<1>0. [Next]_vars /\ OneRegisters'
  BY DEF Owned, OneRegisters, vars, workerVars
<1>1. ASSUME NEW w \in Workers, NEW s \in Sessions, ReadStorages(w, s)
      PROVE  Owned'
  <2>1. \A i, h : OwnedBy(i, h) => OwnedBy(i, h)'
    BY <1>1 DEF ReadStorages, OwnedBy
  <2>2. ASSUME NEW v \in Workers
        PROVE  /\ pc'[v] \in {"put_st", "put_storages"} => snap'[v] = mos'
               /\ pc'[v] = "put_storages" => st'[mos'.count].addr = Host(job'[v])
               /\ pc'[v] = "reply" => OwnedBy(NewId(snap[v]), Host(job[v]))'
    <3>1. CASE v = w
      BY <1>1, <3>1 DEF ReadStorages, TypeOK
    <3>2. CASE v # w
      <4>1. pc'[v] = pc[v] /\ snap'[v] = snap[v] /\ job'[v] = job[v]
        BY <1>1, <3>2 DEF ReadStorages, TypeOK
      <4>2. pc[v] = "reply" => OwnedBy(NewId(snap[v]), Host(job[v]))'
        BY <1>1, <4>1 DEF Owned, OwnedBy, ReadStorages, NewId
      <4>3. QED
        BY <1>1, <4>1, <4>2 DEF Owned, ReadStorages
    <3>3. QED
      BY <3>1, <3>2
  <2>3. QED
    BY <1>0, <1>1, <2>1, <2>2 DEF ReadStorages, Owned
<1>2. ASSUME NEW w \in Workers, PutStorage(w)
      PROVE  Owned'
  <2>1. snap[w] = mos /\ NewId(snap[w]) = mos.count /\ mos.count \in Nat
    BY <1>2 DEF PutStorage, Owned, NewId, TypeOK, MetaOnStorages
  <2>2. /\ st'[mos.count] = [addr |-> Host(job[w]),
                             avspace |-> AvSpace[Host(job[w])]]
        /\ \A i \in DOMAIN st : i # mos.count => st'[i] = st[i]
    BY <1>2, <2>1 DEF PutStorage, Upsert
  <2>3. \A i, h : OwnedBy(i, h) => OwnedBy(i, h)'
    <3>1. 0 .. mos.count - 1 \subseteq DOMAIN st
      BY DEF Registered, RegistryDense
    <3>2. \A i \in 0 .. mos.count - 1 : st'[i] = st[i]
      BY <2>1, <2>2, <3>1
    <3>3. QED
      BY <1>2, <3>2 DEF PutStorage, OwnedBy
  <2>4. st'[mos.count].addr = Host(job[w])
    BY <2>2
  <2>5. ASSUME NEW v \in Workers
        PROVE  /\ pc'[v] \in {"put_st", "put_storages"} => snap'[v] = mos'
               /\ pc'[v] = "put_storages" => st'[mos'.count].addr = Host(job'[v])
               /\ pc'[v] = "reply" => OwnedBy(NewId(snap[v]), Host(job[v]))'
    <3>1. CASE v = w
      BY <1>2, <2>1, <2>4, <3>1 DEF PutStorage, TypeOK
    <3>2. CASE v # w
      <4>1. pc'[v] = pc[v] /\ snap' = snap /\ job' = job /\ mos' = mos
        BY <1>2, <3>2 DEF PutStorage, TypeOK
      <4>2. pc[v] \notin {"put_st", "put_storages"}
        BY <1>2, <3>2 DEF PutStorage, Owned, OneRegisters
      <4>3. pc[v] = "reply" => OwnedBy(NewId(snap[v]), Host(job[v]))'
        BY <2>3, <4>1 DEF Owned, NewId
      <4>4. QED
        BY <4>1, <4>2, <4>3
    <3>3. QED
      BY <3>1, <3>2
  <2>6. QED
    BY <1>0, <1>2, <2>3, <2>5 DEF PutStorage, Owned
<1>3. ASSUME NEW w \in Workers, PeerGone(w)
      PROVE  Owned'
  BY <1>3, MasterEndsOwned DEF PeerGone
<1>4. ASSUME NEW w \in Workers, PutStorages(w)
      PROVE  Owned'
  <2>1. /\ snap[w] = mos /\ mos.count \in Nat
        /\ st[mos.count].addr = Host(job[w])
    BY <1>4 DEF PutStorages, Owned, TypeOK, MetaOnStorages
  <2>2. mos'.count = mos.count + 1 /\ st' = st
    BY <1>4, <2>1 DEF PutStorages
  <2>3. \A i, h : OwnedBy(i, h) => OwnedBy(i, h)'
    BY <2>1, <2>2 DEF OwnedBy
  <2>4. OwnedBy(NewId(snap[w]), Host(job[w]))'
    BY <1>4, <2>1, <2>2 DEF OwnedBy, NewId, PutStorages
  <2>5. ASSUME NEW v \in Workers
        PROVE  /\ pc'[v] \notin {"put_st", "put_storages"}
               /\ pc'[v] = "reply" => OwnedBy(NewId(snap[v]), Host(job[v]))'
    <3>1. CASE v = w
      BY <1>4, <2>4, <3>1 DEF PutStorages, TypeOK
    <3>2. CASE v # w
      <4>1. pc'[v] = pc[v] /\ snap' = snap /\ job' = job
        BY <1>4, <3>2 DEF PutStorages, TypeOK
      <4>2. pc[v] \notin {"put_st", "put_storages"}
        BY <1>4, <3>2 DEF PutStorages, Owned, OneRegisters
      <4>3. pc[v] = "reply" => OwnedBy(NewId(snap[v]), Host(job[v]))'
        BY <2>3, <4>1 DEF Owned, NewId
      <4>4. QED
        BY <4>1, <4>2, <4>3
    <3>3. QED
      BY <3>1, <3>2
  <2>6. QED
    BY <1>0, <1>4, <2>3, <2>5 DEF PutStorages, Owned
<1>5. ASSUME NEW w \in Workers, Reply(w)
      PROVE  Owned'
  <2>1. \A i, h : OwnedBy(i, h) => OwnedBy(i, h)'
    BY <1>5 DEF Reply, OwnedBy
  <2>2. \A v \in Workers :
          \/ pc'[v] = "idle"
          \/ pc'[v] = pc[v] /\ snap'[v] = snap[v] /\ job'[v] = job[v]
    BY <1>5 DEF Reply, Idle, TypeOK
  <2>3. ASSUME NEW r \in replies'
        PROVE  OwnedBy(r.stid, Host(r.to))'
    <3>1. CASE r \in replies
      BY <2>1, <3>1 DEF Owned
    <3>2. CASE r \notin replies
      <4>1. r = [to |-> job[w], stid |-> NewId(snap[w])]
        BY <1>5, <3>2 DEF Reply
      <4>2. r.to = job[w] /\ r.stid = NewId(snap[w])
        BY <4>1
      <4>3. OwnedBy(NewId(snap[w]), Host(job[w]))
        BY <1>5 DEF Reply, Owned
      <4>4. OwnedBy(r.stid, Host(r.to))
        BY <4>2, <4>3
      <4>5. QED
        BY <2>1, <4>4
    <3>3. QED
      BY <3>1, <3>2
  <2>4. \A v \in Workers :
          pc'[v] = "reply" => OwnedBy(NewId(snap[v]), Host(job[v]))'
    BY <2>1, <2>2 DEF Owned, NewId
  <2>5. QED
    BY <1>0, <1>5, <2>1, <2>2, <2>3, <2>4 DEF Reply, Owned
<1>6. ASSUME NEW w \in Workers, ListBegin(w)
      PROVE  Owned'
  <2>1. \A i, h : OwnedBy(i, h) => OwnedBy(i, h)'
    BY <1>6 DEF ListBegin, OwnedBy
  <2>2. \A v \in Workers :
          \/ pc'[v] = "listing"
          \/ pc'[v] = pc[v] /\ snap'[v] = snap[v] /\ job'[v] = job[v]
    BY <1>6 DEF ListBegin, TypeOK
  <2>3. \A v \in Workers :
          pc'[v] = "reply" => OwnedBy(NewId(snap[v]), Host(job[v]))'
    BY <2>1, <2>2 DEF Owned, NewId
  <2>4. QED
    BY <1>0, <1>6, <2>1, <2>2, <2>3 DEF ListBegin, Owned
<1>7. ASSUME NEW w \in Workers, ListNext(w)
      PROVE  Owned'
  <2>1. CASE idx[w] \in DOMAIN st
    BY <1>0, <1>7, <2>1 DEF ListNext, Owned, OwnedBy
  <2>2. CASE idx[w] \notin DOMAIN st
    BY <1>7, <2>2, MasterEndsOwned DEF ListNext
  <2>3. QED
    BY <2>1, <2>2
<1>8. ASSUME NEW w \in Workers, ListEnd(w)
      PROVE  Owned'
  <2>1. \A i, h : OwnedBy(i, h) => OwnedBy(i, h)'
    BY <1>8 DEF ListEnd, OwnedBy
  <2>2. \A v \in Workers :
          \/ pc'[v] = "idle"
          \/ pc'[v] = pc[v] /\ snap'[v] = snap[v] /\ job'[v] = job[v]
    BY <1>8 DEF ListEnd, Idle, TypeOK
  <2>3. \A v \in Workers :
          pc'[v] = "reply" => OwnedBy(NewId(snap[v]), Host(job[v]))'
    BY <2>1, <2>2 DEF Owned, NewId
  <2>4. QED
    BY <1>0, <1>8, <2>1, <2>2, <2>3 DEF ListEnd, Owned
<1>9. ASSUME NEW h \in Hosts, SendIdReq(h)
      PROVE  Owned'
  BY <1>0, <1>9 DEF SendIdReq, Owned, OwnedBy, TypeOK
<1>10. ASSUME NEW h \in Hosts, StartRefused(h)
       PROVE  Owned'
  BY <1>0, <1>10 DEF StartRefused, Owned, OwnedBy
<1>11. ASSUME NEW h \in Hosts, LoadId(h)
       PROVE  Owned'
  BY <1>0, <1>11 DEF LoadId, Owned, OwnedBy, TypeOK
<1>12. ASSUME NEW h \in Hosts, ReceiveId(h)
       PROVE  Owned'
  <2>1. PICK r \in replies : /\ r.to = <<h, boots[h]>>
                             /\ id' = [id EXCEPT ![h] = r.stid]
                             /\ replies' = replies \ {r}
    BY <1>12 DEF ReceiveId
  <2>2. OwnedBy(r.stid, h)
    BY <2>1 DEF Owned, Host
  <2>3. \A i, g : OwnedBy(i, g) => OwnedBy(i, g)'
    BY <1>12 DEF ReceiveId, OwnedBy
  <2>4. ASSUME NEW g \in Hosts
        PROVE  /\ hpc'[g] = "waiting" => idFile'[g] = NoFile
               /\ hpc'[g] = "writing" => OwnedBy(id[g], g)' /\ idFile'[g] = EmptyFile
               /\ idFile'[g] \in Nat => OwnedBy(idFile[g], g)'
    <3>1. CASE g = h
      BY <1>12, <2>1, <2>2, <2>3, <3>1 DEF ReceiveId, TypeOK
    <3>2. CASE g # h
      BY <1>12, <2>1, <2>3, <3>2 DEF ReceiveId, TypeOK, Owned
    <3>3. QED
      BY <3>1, <3>2
  <2>5. QED
    BY <1>0, <1>12, <2>1, <2>3, <2>4 DEF ReceiveId, Owned
<1>13. ASSUME NEW h \in Hosts, WriteId(h)
       PROVE  Owned'
  BY <1>0, <1>13 DEF WriteId, Owned, OwnedBy, TypeOK
<1>14. ASSUME NEW h \in Hosts, ReceiveError(h)
       PROVE  Owned'
  BY <1>0, <1>14 DEF ReceiveError, Owned, OwnedBy, TypeOK
<1>15. ASSUME NEW h \in Hosts, StorageStop(h)
       PROVE  Owned'
  BY <1>0, <1>15 DEF StorageStop, Owned, OwnedBy, TypeOK
<1>16. ASSUME NEW h \in Hosts, StorageCrash(h)
       PROVE  Owned'
  BY <1>0, <1>16 DEF StorageCrash, Owned, OwnedBy, TypeOK
<1>17. ASSUME NEW s \in Sessions, BreakSession(s)
       PROVE  Owned'
  BY <1>0, <1>17 DEF BreakSession, Owned, OwnedBy
<1>18. CASE MasterCrash
  BY <1>18, MasterEndsOwned DEF MasterCrash
<1>19. CASE MasterStart
  BY <1>0, <1>19 DEF MasterStart, Owned, OwnedBy
<1>20. CASE UNCHANGED vars
  BY <1>0, <1>20 DEF vars, Owned, OwnedBy
<1>21. QED
  BY <1>0, <1>1, <1>2, <1>3, <1>4, <1>5, <1>6, <1>7, <1>8, <1>9, <1>10, <1>11,
     <1>12, <1>13, <1>14, <1>15, <1>16, <1>17, <1>18, <1>19, <1>20
     DEF Next, WorkerStep, HostStep

\* Owned holds in every reachable state when storages are registered one at a
\* time, and all that is known of Spec holds there too.
LEMMA SerialCorrect == SerialSpec => [](TypeOK /\ Registered /\ Owned)
<1>1. Init => Owned
  BY RegistryAssumption DEF Init, Owned, OneRegisters
<1>2. [Next /\ OneRegisters']_vars => [Next]_vars
  OBVIOUS
<1>3. SerialSpec => Spec
  BY <1>2, PTL DEF SerialSpec, Spec
<1>4. QED
  BY <1>1, <1>3, OwnedStep, TypeCorrect, RegisteredInvariant, PTL
     DEF SerialSpec

\* When storages are registered one at a time, by any of the threads and beside
\* listings, the id a storage keeps leads back to that storage.
THEOREM SerialResolves == SerialSpec => []IdResolvesToHolder
<1>1. TypeOK /\ Owned => IdResolvesToHolder
  BY DEF TypeOK, Owned, OwnedBy, IdResolvesToHolder, MetaOnStorages
<1>2. QED
  BY <1>1, SerialCorrect, PTL

\* "he wants a unique id" is granted to storages that are registered one at a
\* time: whatever crashes, no two of them keep the same number.
THEOREM SerialUnique == SerialSpec => []UniqueIds
<1>1. IdResolvesToHolder => UniqueIds
  BY DEF IdResolvesToHolder, UniqueIds
<1>2. QED
  BY <1>1, SerialResolves, PTL

-----------------------------------------------------------------------------
(***************************************************************************)
(* One at a time, the registrations implement IdAllocator.                  *)
(***************************************************************************)

\* A step that leaves the counter, the counted documents and what the id files
\* hold as they are is a stutter of IdAllocator.
LEMMA AllocStutter ==
    ASSUME mos'.count = mos.count,
           \A i \in 0 .. mos.count - 1 : st'[i] = st[i],
           AllocHeld' = AllocHeld
    PROVE  UNCHANGED Alloc!vars
BY DEF Alloc!vars, AllocOwner

\* The end of the master's process is one.
LEMMA MasterEndsStutter == MasterEnds => UNCHANGED Alloc!vars
BY AllocStutter DEF MasterEnds, dbVars, hostVars, AllocHeld

\* Where the copies of the registering threads are current, every step of the
\* master, of the storages and of the network is an allocation, the delivery of
\* a number or a stutter.
LEMMA AllocStep ==
    TypeOK /\ Registered /\ Owned /\ [Next]_vars
        => [Alloc!Next]_(Alloc!vars)
<1>. SUFFICES ASSUME TypeOK, Registered, Owned, [Next]_vars
              PROVE  [Alloc!Next]_(Alloc!vars)
  OBVIOUS
<1>. USE RegistryAssumption DEF dbVars, workerVars, hostVars, netVars
<1>1. ASSUME NEW w \in Workers, NEW s \in Sessions, ReadStorages(w, s)
      PROVE  UNCHANGED Alloc!vars
  BY <1>1, AllocStutter DEF ReadStorages, AllocHeld
<1>2. ASSUME NEW w \in Workers, PutStorage(w)
      PROVE  UNCHANGED Alloc!vars
  <2>1. NewId(snap[w]) = mos.count /\ mos.count \in Nat
    BY <1>2 DEF PutStorage, Owned, NewId, TypeOK, MetaOnStorages
  <2>2. 0 .. mos.count - 1 \subseteq DOMAIN st
    BY DEF Registered, RegistryDense
  <2>3. \A i \in 0 .. mos.count - 1 : st'[i] = st[i]
    BY <1>2, <2>1, <2>2 DEF PutStorage, Upsert
  <2>4. QED
    BY <1>2, <2>3, AllocStutter DEF PutStorage, AllocHeld
<1>3. ASSUME NEW w \in Workers, PeerGone(w)
      PROVE  UNCHANGED Alloc!vars
  BY <1>3, MasterEndsStutter DEF PeerGone
<1>4. ASSUME NEW w \in Workers, PutStorages(w)
      PROVE  Alloc!Next
  <2>1. /\ snap[w] = mos /\ mos.count \in Nat
        /\ st[mos.count].addr = Host(job[w]) /\ Host(job[w]) \in Hosts
    BY <1>4 DEF PutStorages, Owned, TypeOK, MetaOnStorages, Host, Sessions
  <2>2. mos'.count = mos.count + 1 /\ st' = st
    BY <1>4, <2>1 DEF PutStorages
  <2>3. AllocOwner' = [i \in 0 .. mos.count |->
                         IF i = mos.count THEN Host(job[w]) ELSE AllocOwner[i]]
    BY <2>1, <2>2 DEF AllocOwner
  <2>4. Alloc!Allocate(Host(job[w]))
    BY <1>4, <2>2, <2>3 DEF Alloc!Allocate, PutStorages, AllocHeld
  <2>5. QED
    BY <2>1, <2>4 DEF Alloc!Next
<1>5. ASSUME NEW w \in Workers, Reply(w)
      PROVE  UNCHANGED Alloc!vars
  BY <1>5, AllocStutter DEF Reply, AllocHeld
<1>6. ASSUME NEW w \in Workers, ListBegin(w)
      PROVE  UNCHANGED Alloc!vars
  BY <1>6, AllocStutter DEF ListBegin, AllocHeld
<1>7. ASSUME NEW w \in Workers, ListNext(w)
      PROVE  UNCHANGED Alloc!vars
  <2>1. CASE idx[w] \in DOMAIN st
    BY <1>7, <2>1, AllocStutter DEF ListNext, AllocHeld
  <2>2. CASE idx[w] \notin DOMAIN st
    BY <1>7, <2>2, MasterEndsStutter DEF ListNext
  <2>3. QED
    BY <2>1, <2>2
<1>8. ASSUME NEW w \in Workers, ListEnd(w)
      PROVE  UNCHANGED Alloc!vars
  BY <1>8, AllocStutter DEF ListEnd, AllocHeld
<1>9. ASSUME NEW h \in Hosts, SendIdReq(h)
      PROVE  UNCHANGED Alloc!vars
  BY <1>9, AllocStutter DEF SendIdReq, AllocHeld
<1>10. ASSUME NEW h \in Hosts, StartRefused(h)
       PROVE  UNCHANGED Alloc!vars
  BY <1>10, AllocStutter DEF StartRefused, AllocHeld
<1>11. ASSUME NEW h \in Hosts, LoadId(h)
       PROVE  UNCHANGED Alloc!vars
  BY <1>11, AllocStutter DEF LoadId, AllocHeld
<1>12. ASSUME NEW h \in Hosts, ReceiveId(h)
       PROVE  UNCHANGED Alloc!vars
  <2>1. idFile[h] = NoFile /\ idFile' = [idFile EXCEPT ![h] = EmptyFile]
    BY <1>12 DEF ReceiveId, Owned
  <2>2. AllocHeld' = AllocHeld
    BY <2>1 DEF AllocHeld, TypeOK
  <2>3. QED
    BY <1>12, <2>2, AllocStutter DEF ReceiveId
<1>13. ASSUME NEW h \in Hosts, WriteId(h)
       PROVE  Alloc!Next
  <2>1. /\ idFile[h] = EmptyFile /\ idFile' = [idFile EXCEPT ![h] = id[h]]
        /\ id[h] \in 0 .. mos.count - 1 /\ st[id[h]].addr = h
        /\ id[h] \in Nat
    BY <1>13 DEF WriteId, Owned, OwnedBy, TypeOK
  <2>2. AllocHeld[h] = NoFile /\ AllocHeld' = [AllocHeld EXCEPT ![h] = id[h]]
    BY <2>1 DEF AllocHeld, TypeOK
  <2>3. AllocOwner[id[h]] = h /\ AllocOwner' = AllocOwner
    BY <1>13, <2>1 DEF AllocOwner, WriteId
  <2>4. Alloc!Take(h)
    BY <1>13, <2>1, <2>2, <2>3 DEF Alloc!Take, WriteId
  <2>5. QED
    BY <2>4 DEF Alloc!Next
<1>14. ASSUME NEW h \in Hosts, ReceiveError(h)
       PROVE  UNCHANGED Alloc!vars
  BY <1>14, AllocStutter DEF ReceiveError, AllocHeld
<1>15. ASSUME NEW h \in Hosts, StorageStop(h)
       PROVE  UNCHANGED Alloc!vars
  BY <1>15, AllocStutter DEF StorageStop, AllocHeld
<1>16. ASSUME NEW h \in Hosts, StorageCrash(h)
       PROVE  UNCHANGED Alloc!vars
  BY <1>16, AllocStutter DEF StorageCrash, AllocHeld
<1>17. ASSUME NEW s \in Sessions, BreakSession(s)
       PROVE  UNCHANGED Alloc!vars
  BY <1>17, AllocStutter DEF BreakSession, AllocHeld
<1>18. CASE MasterCrash
  BY <1>18, MasterEndsStutter DEF MasterCrash
<1>19. CASE MasterStart
  BY <1>19, AllocStutter DEF MasterStart, AllocHeld
<1>20. CASE UNCHANGED vars
  BY <1>20, AllocStutter DEF vars, AllocHeld
<1>21. QED
  BY <1>1, <1>2, <1>3, <1>4, <1>5, <1>6, <1>7, <1>8, <1>9, <1>10, <1>11,
     <1>12, <1>13, <1>14, <1>15, <1>16, <1>17, <1>18, <1>19, <1>20
     DEF Next, WorkerStep, HostStep

\* When storages are registered one at a time, by any of the threads and beside
\* listings, sm_id_req, init_id and every failure between them behave as the
\* atomic allocation of IdAllocator.
THEOREM SerialImplements == SerialSpec => AllocatesIds
<1>1. Init => Alloc!Init
  BY RegistryAssumption DEF Init, Alloc!Init, AllocOwner, AllocHeld, NoMeta
<1>2. [Next /\ OneRegisters']_vars => [Next]_vars
  OBVIOUS
<1>3. TypeOK /\ Registered /\ Owned /\ [Next /\ OneRegisters']_vars
        => [Alloc!Next]_(Alloc!vars)
  BY <1>2, AllocStep
<1>4. QED
  BY <1>1, <1>3, SerialCorrect, PTL DEF SerialSpec, AllocatesIds, Alloc!Spec
=============================================================================
