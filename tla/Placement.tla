------------------------------ MODULE Placement ------------------------------
(***************************************************************************)
(* Which storages get the parts of a file: get_stpfields_for_upload and      *)
(* number_of_parts.  The storages are taken in turn by an iterator into a    *)
(* vector that is a copy of the database's; both are static, and no lock     *)
(* protects them from the other threads of the master.  Two uploads in it at *)
(* once are a data race: anything may happen then, and the model stops.      *)
(* The copy is made anew by the first upload after get_all_storages was      *)
(* called, by whatever handler.                                              *)
(*                                                                         *)
(* What a storage registers never changes, so that the copy is the first     *)
(* `cached' storages.  Registration is atomic here: see StorageRegistry.     *)
(***************************************************************************)
EXTENDS PartLayout, Sequences, FiniteSets, FiniteSetsExt

CONSTANTS
    Workers,     \* threads of the master
    Catalogue,   \* the storages in the order in which they register
    Joinable,    \* the addresses for which addr_get does not throw
    Table,       \* the document "storage_sizes"
    Requests,    \* what clients ask for: the size of a file and its redundancy
    MaxRequests  \* bound: uploads and listings in a behaviour

ASSUME PlacementAssumption ==
    /\ Catalogue \in Seq([addr : {c.addr : c \in {Catalogue[i] : i \in DOMAIN Catalogue}},
                          space : Nat])
    /\ Table \in Seq([size : Nat, nb : Nat \ {0}])
    /\ \A r \in Requests : r.fsize \in Nat /\ r.rdcy \in Nat \ {0}
    /\ MaxRequests \in Nat

VARIABLES
    count,      \* how many storages are registered
    cached,     \* the length of the static vector storages
    cursor,     \* current_round_robin; cached + 1 is storages.end()
    valid,      \* it points into the vector
    current,    \* iterator_initialized
    pc,         \* where each worker is
    req,        \* the upload it serves
    listed,     \* how many storages get_all_storages returns to it
    where,      \* the storage of each part so far
    requests,   \* how many requests there were
    load,       \* history: the parts each storage got since the copy was made
    seen,       \* history: the longest listing that no upload could miss
    raced,      \* history: two uploads used the statics at once
    undefined   \* the behaviour of the master is undefined

statics == <<cached, cursor, valid, current>>
workerVars == <<pc, req, listed, where>>
history == <<load, seen, raced, undefined>>
vars == <<count, statics, workerVars, requests, history>>

NoRequest == [fsize |-> 0, rdcy |-> 0]

\* number_of_parts: the first entry of the table that is large enough.
NumberOfParts(fsize) ==
    LET fit == {i \in DOMAIN Table : fsize <= Table[i].size}
    IN  IF fit = {} THEN 0 ELSE Table[Min(fit)].nb

\* The part worker w looks for a storage for, counted from 0 as get_part_size
\* does, and its size.
NbParts(w) == NumberOfParts(req[w].fsize)
PartAt(w) == Len(where[w])
SizeAt(w) == PartSize(req[w].fsize, PartAt(w), NbParts(w))

Init ==
    /\ count = 0
    /\ cached = 0
    /\ cursor = 1
    /\ valid = FALSE
    /\ current = FALSE
    /\ pc = [w \in Workers |-> "idle"]
    /\ req = [w \in Workers |-> NoRequest]
    /\ listed = [w \in Workers |-> 0]
    /\ where = [w \in Workers |-> <<>>]
    /\ requests = 0
    /\ load = [i \in 1 .. Len(Catalogue) |-> 0]
    /\ seen = 0
    /\ raced = FALSE
    /\ undefined = FALSE

Turning == {"wrap", "look", "advance"}
Copying == {"list", "listed", "assign", "point"}
Placing(w) == req[w] # NoRequest /\ pc[w] \in Turning \cup Copying \cup {"check"}
UsesStatics(w) == Placing(w) /\ pc[w] # "check"
Alone(w) == \A v \in Workers \ {w} : ~UsesStatics(v)

\* A storage registers: sm_id_req.
Register ==
    /\ count < Len(Catalogue)
    /\ count' = count + 1
    /\ UNCHANGED <<statics, workerVars, requests, history>>

-----------------------------------------------------------------------------
(***************************************************************************)
(* A worker that serves an upload, or that lists the storages for a          *)
(* download, a removal or a request for one more replica.                    *)
(***************************************************************************)

\* cm_up_req; a file for which there is no number of parts is refused.
TakeUpload(w) ==
    /\ pc[w] = "idle" /\ requests < MaxRequests
    /\ requests' = requests + 1
    /\ \E r \in Requests :
         IF NumberOfParts(r.fsize) = 0
         THEN UNCHANGED workerVars
         ELSE /\ req' = [req EXCEPT ![w] = r]
              /\ where' = [where EXCEPT ![w] = <<>>]
              /\ pc' = [pc EXCEPT ![w] = "check"]
              /\ UNCHANGED listed
    /\ UNCHANGED <<count, statics, history>>

TakeListing(w) ==
    /\ pc[w] = "idle" /\ requests < MaxRequests
    /\ requests' = requests + 1
    /\ pc' = [pc EXCEPT ![w] = "list"]
    /\ UNCHANGED <<count, statics, req, listed, where, history>>

\* Is the iterator initialized?
Check(w) ==
    /\ pc[w] = "check"
    /\ pc' = [pc EXCEPT ![w] = IF current THEN "wrap" ELSE "list"]
    /\ raced' = (raced \/ ~Alone(w))
    /\ UNCHANGED <<count, statics, req, listed, where, requests, load, seen,
                   undefined>>

\* get_all_storages reads the number of storages ...
ReadCount(w) ==
    /\ pc[w] = "list"
    /\ listed' = [listed EXCEPT ![w] = count]
    /\ pc' = [pc EXCEPT ![w] = "listed"]
    /\ UNCHANGED <<count, statics, req, where, requests, history>>

\* A listing that ends after an upload has read the number of storages and before
\* it has made its copy is missed: the upload says after it that the copy is new.
Seen(w) ==
    seen' = IF \E v \in Workers \ {w} :
                  req[v] # NoRequest /\ pc[v] \in Copying \ {"list"}
            THEN seen ELSE Max({seen, listed[w]})

\* Mutant of ListEnds: the iterator stays initialized.
ListEndsSilently(w) ==
    /\ pc[w] = "listed"
    /\ Seen(w)
    /\ pc' = [pc EXCEPT ![w] = IF req[w] = NoRequest THEN "idle"
                               ELSE IF listed[w] = 0 THEN "answer" ELSE "assign"]
    /\ UNCHANGED <<count, statics, req, listed, where, requests, load, raced,
                   undefined>>

\* ... and each of them, and says that the copy is old.  The caller goes on with
\* the list; an upload gets no fields from an empty one.
ListEnds(w) ==
    /\ pc[w] = "listed"
    /\ current' = FALSE
    /\ Seen(w)
    /\ pc' = [pc EXCEPT ![w] = IF req[w] = NoRequest THEN "idle"
                               ELSE IF listed[w] = 0 THEN "answer" ELSE "assign"]
    /\ UNCHANGED <<count, cached, cursor, valid, req, listed, where, requests,
                   load, raced, undefined>>

\* storages.assign invalidates every iterator.
Assign(w) ==
    /\ pc[w] = "assign"
    /\ cached' = listed[w]
    /\ valid' = FALSE
    /\ pc' = [pc EXCEPT ![w] = "point"]
    /\ UNCHANGED <<count, cursor, current, req, listed, where, requests, history>>

\* Mutant of Point: it may start one further.
PointFar(w) ==
    /\ pc[w] = "point"
    /\ cursor' \in 1 .. cached + 2
    /\ valid' = TRUE
    /\ current' = TRUE
    /\ load' = [i \in DOMAIN load |-> 0]
    /\ pc' = [pc EXCEPT ![w] = "wrap"]
    /\ UNCHANGED <<count, cached, req, listed, where, requests, seen, raced,
                   undefined>>

\* The iterator starts anywhere, at the end too.
Point(w) ==
    /\ pc[w] = "point"
    /\ cursor' \in 1 .. cached + 1
    /\ valid' = TRUE
    /\ current' = TRUE
    /\ load' = [i \in DOMAIN load |-> 0]
    /\ pc' = [pc EXCEPT ![w] = "wrap"]
    /\ UNCHANGED <<count, cached, req, listed, where, requests, seen, raced,
                   undefined>>

\* Mutant of Wrap: the end is not noticed.
WrapNever(w) ==
    /\ pc[w] = "wrap"
    /\ pc' = [pc EXCEPT ![w] = IF PartAt(w) = NbParts(w) THEN "answer" ELSE "look"]
    /\ UNCHANGED <<count, statics, req, listed, where, requests, history>>

\* The head of the loop.
Wrap(w) ==
    /\ pc[w] = "wrap"
    /\ IF PartAt(w) = NbParts(w)
       THEN /\ pc' = [pc EXCEPT ![w] = "answer"]
            /\ UNCHANGED cursor
       ELSE /\ valid /\ cursor <= cached + 1
            /\ cursor' = IF cursor = cached + 1 THEN 1 ELSE cursor
            /\ pc' = [pc EXCEPT ![w] = "look"]
    /\ UNCHANGED <<count, cached, valid, current, req, listed, where, requests,
                   history>>

\* Mutant of Fits: the room is not looked at.
FitsAlways(w, i) == Catalogue[i].addr \in Joinable

\* A storage that is already in the answer is not asked for its address again.
Fits(w, i) ==
    /\ Catalogue[i].space >= SizeAt(w)
    /\ \/ \E k \in DOMAIN where[w] : Catalogue[where[w][k]].addr = Catalogue[i].addr
       \/ Catalogue[i].addr \in Joinable

\* The storage gets the part if it has room for it and an address.
Look(w) ==
    /\ pc[w] = "look"
    /\ valid /\ cursor <= cached
    /\ IF Fits(w, cursor)
       THEN /\ where' = [where EXCEPT ![w] = Append(@, cursor)]
            /\ load' = [load EXCEPT ![cursor] = @ + 1]
       ELSE UNCHANGED <<where, load>>
    /\ pc' = [pc EXCEPT ![w] = "advance"]
    /\ UNCHANGED <<count, statics, req, listed, requests, seen, raced, undefined>>

\* Mutant of Advance: a storage that got a part is asked again.
AdvanceNot(w) ==
    /\ pc[w] = "advance"
    /\ valid /\ cursor <= cached
    /\ pc' = [pc EXCEPT ![w] = "wrap"]
    /\ UNCHANGED <<count, statics, req, listed, where, requests, history>>

Advance(w) ==
    /\ pc[w] = "advance"
    /\ valid /\ cursor <= cached
    /\ cursor' = cursor + 1
    /\ pc' = [pc EXCEPT ![w] = "wrap"]
    /\ UNCHANGED <<count, cached, valid, current, req, listed, where, requests,
                   history>>

\* Two uploads race, or an iterator that points nowhere is used: nothing more is
\* said of this master.
Stray(w) ==
    /\ \/ raced
       \/ pc[w] = "wrap" /\ PartAt(w) < NbParts(w) /\ ~(valid /\ cursor <= cached + 1)
       \/ pc[w] \in {"look", "advance"} /\ ~(valid /\ cursor <= cached)
    /\ undefined' = TRUE
    /\ UNCHANGED <<count, statics, workerVars, requests, load, seen, raced>>

\* The addresses of an answer in the order in which they came up, and how many
\* parts each has: the STPFIELDs.
Addresses(w) == {Catalogue[where[w][k]].addr : k \in DOMAIN where[w]}
Share(w, a) == Cardinality({k \in DOMAIN where[w] : Catalogue[where[w][k]].addr = a})
FirstPart(w, a) == Min({k \in DOMAIN where[w] : Catalogue[where[w][k]].addr = a})

\* cm_up_req refuses an upload with fewer fields than copies it asks for.
Refused(w) == Cardinality(Addresses(w)) < req[w].rdcy

\* The client gets the fields, or an error: see FileRegistry for what follows.
Answer(w) ==
    /\ pc[w] = "answer"
    /\ req' = [req EXCEPT ![w] = NoRequest]
    /\ where' = [where EXCEPT ![w] = <<>>]
    /\ pc' = [pc EXCEPT ![w] = "idle"]
    /\ UNCHANGED <<count, statics, listed, requests, history>>

-----------------------------------------------------------------------------
Step(w) ==
    /\ ~undefined
    /\ \/ /\ ~raced
          /\ \/ Check(w) \/ ReadCount(w) \/ ListEnds(w) \/ Assign(w) \/ Point(w)
             \/ Wrap(w) \/ Look(w) \/ Advance(w) \/ Answer(w)
       \/ Stray(w)

Next ==
    \/ Register
    \/ \E w \in Workers : TakeUpload(w) \/ TakeListing(w) \/ Step(w)

Spec == Init /\ [][Next]_vars

\* Every thread of the master is scheduled again and again.
Fairness == \A w \in Workers : WF_vars(Step(w))

FairSpec == Spec /\ Fairness

-----------------------------------------------------------------------------
(***************************************************************************)
(* Properties.                                                              *)
(***************************************************************************)

\* The variables stay in the sets the declarations of the code give them.
TypeOK ==
    /\ count \in 0 .. Len(Catalogue)
    /\ cached \in 0 .. count
    /\ cursor \in 1 .. Len(Catalogue) + 1
    /\ {valid, current, raced, undefined} \subseteq BOOLEAN
    /\ pc \in [Workers -> {"idle", "answer", "check"} \cup Turning \cup Copying]
    /\ req \in [Workers -> Requests \cup {NoRequest}]
    /\ listed \in [Workers -> 0 .. count]
    /\ \A w \in Workers :
         /\ where[w] \in Seq(1 .. Len(Catalogue))
         /\ req[w] # NoRequest => Len(where[w]) <= NbParts(w)
    /\ requests \in 0 .. MaxRequests
    /\ load \in [1 .. Len(Catalogue) -> Nat]
    /\ seen \in 0 .. count

\* As long as one upload at a time is in get_stpfields_for_upload, the iterator
\* points into the vector whenever it is used, whatever was listed, registered and
\* placed before: the iterator may be left at the end by one upload and be used
\* by the next.
DefinedAlone == undefined => raced

\* An upload that is not refused gets every part of its file placed, on
\* registered and joinable storages and each part where there is room for it.
PlacedWhole ==
    \A w \in Workers :
        pc[w] = "answer" /\ ~Refused(w) =>
            /\ Len(where[w]) = NbParts(w)
            /\ Addresses(w) \subseteq Joinable
            /\ \A k \in DOMAIN where[w] :
                 /\ where[w][k] <= count
                 /\ Catalogue[where[w][k]].space >=
                        PartSize(req[w].fsize, k - 1, NbParts(w))

\* "Round-robin distribution over all Storages": from one copy of the storages
\* to the next, over all uploads, two storages that are never passed over differ
\* by at most one part.
Roomy ==
    {i \in 1 .. cached :
        /\ Catalogue[i].addr \in Joinable
        /\ \A r \in Requests : Catalogue[i].space >= r.fsize}
Balanced == valid => \A i, j \in Roomy : load[i] <= load[j] + 1

\* The copy is never older than a listing that is over: a storage that a download
\* was told of can get a part of the next upload.  Only a listing that ends while
\* an upload makes its copy is missed.
KnowsListed == current => cached >= seen

\* "If this storage does not have enough place, check the next one": every part
\* that the client will send to an address, which are the last ones for the
\* address that came up first, fits a storage that registered there.
SentTo(w, a) ==
    LET before == {k \in DOMAIN where[w] :
                     FirstPart(w, Catalogue[where[w][k]].addr) < FirstPart(w, a)}
        end == NbParts(w) - Cardinality(before)
    IN  end - Share(w, a) .. end - 1
RoomWhereSent ==
    \A w \in Workers :
        pc[w] = "answer" /\ ~Refused(w) =>
            \A a \in Addresses(w) : \A p \in SentTo(w, a) :
                \E i \in 1 .. cached :
                    /\ Catalogue[i].addr = a
                    /\ Catalogue[i].space >= PartSize(req[w].fsize, p, NbParts(w))

\* The loop ends when one storage of the copy has room for every part and can be
\* joined; when none takes the part it is at, it turns for ever.
UploadPlaced ==
    \A w \in Workers :
        Placing(w) ~>
            \/ ~Placing(w) \/ raced
            \/ pc[w] \in Turning /\ \A i \in 1 .. cached : ~Fits(w, i)
=============================================================================
