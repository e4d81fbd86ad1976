--------------------------- MODULE Placement_proofs ---------------------------
(***************************************************************************)
(* The distribution of parts for any number of threads, storages, requests   *)
(* and any table of sizes: as long as uploads do not overlap, the iterator   *)
(* is only used where it points into the vector, every part is placed where  *)
(* there is room for it, the copy of the storages is never older than a      *)
(* listing that is over, and the storages that are never passed over get as  *)
(* many parts as each other, but for one.                                   *)
(***************************************************************************)
EXTENDS Placement, FiniteSetTheorems, NaturalsInduction, WellFoundedInduction,
        TLAPS

\* The places in the handlers.
Pc == {"idle", "answer", "check"} \cup Turning \cup Copying

\* Where a worker is says whether it serves an upload, and what it has placed.
Served ==
    /\ DOMAIN where = Workers
    /\ \A w \in Workers :
         /\ pc[w] = "idle" => req[w] = NoRequest
         /\ pc[w] \in Turning \cup {"check", "assign", "point", "answer"} =>
                req[w] # NoRequest
         /\ pc[w] = "look" => Len(where[w]) < NbParts(w)
         /\ pc[w] \notin Turning \cup {"answer"} => where[w] = <<>>
         /\ pc[w] = "answer" => where[w] = <<>> \/ Len(where[w]) = NbParts(w)

\* The iterator is in the vector, or one behind its last storage.
InVector == valid /\ cached >= 1 /\ cursor >= 1 /\ cursor <= cached + 1

\* What holds while uploads do not overlap.
Orderly ==
    /\ \A v, w \in Workers : UsesStatics(v) /\ UsesStatics(w) => v = w
    /\ current => InVector
    /\ \A w \in Workers :
         /\ pc[w] \in {"assign", "point"} => ~current
         /\ pc[w] = "assign" => listed[w] >= 1 /\ listed[w] >= seen
         /\ pc[w] = "listed" /\ req[w] # NoRequest => listed[w] >= seen
         /\ pc[w] = "point" => cached >= 1 /\ cached >= seen
         /\ pc[w] \in Turning => InVector
         /\ pc[w] \in {"look", "advance"} => cursor <= cached

\* Every part that is placed has room where it is.
Roomed ==
    \A w \in Workers : \A k \in DOMAIN where[w] :
        /\ where[w][k] <= count
        /\ Catalogue[where[w][k]].addr \in Joinable
        /\ Catalogue[where[w][k]].space >=
               PartSize(req[w].fsize, k - 1, NbParts(w))

\* The inductive invariant.
Inv ==
    /\ TypeOK
    /\ Served
    /\ undefined => raced
    /\ ~raced => Orderly
    /\ KnowsListed
    /\ Roomed

-----------------------------------------------------------------------------
\* A set of natural numbers has a least element.
LEMMA LeastOf ==
    ASSUME NEW S, S \subseteq Nat, S # {}
    PROVE  \E x \in S : \A y \in S : x <= y
<1>1. PICK x \in S : \A y \in S : ~(<<y, x>> \in OpToRel(<, Nat))
  BY NatLessThanWellFounded, WFMin
<1>2. \A y \in S : x <= y
  <2> TAKE y \in S
  <2>1. x \in Nat /\ y \in Nat
    OBVIOUS
  <2>2. ~(y < x)
    BY <1>1, <2>1 DEF OpToRel
  <2>3. QED
    BY <2>1, <2>2
<1>3. QED
  BY <1>2

\* The least element of a set of natural numbers that is not empty.
LEMMA MinIs ==
    ASSUME NEW S, S \subseteq Nat, S # {}
    PROVE  Min(S) \in S
<1>1. \E x \in S : \A y \in S : x <= y
  BY LeastOf
<1>2. QED
  BY <1>1 DEF Min

\* The greater of two numbers.
LEMMA GreaterOf ==
    ASSUME NEW a \in Nat, NEW b \in Nat
    PROVE  /\ Max({a, b}) \in {a, b}
           /\ Max({a, b}) >= a /\ Max({a, b}) >= b
<1>1. \E x \in {a, b} : \A y \in {a, b} : x >= y
  OBVIOUS
<1>2. QED
  BY <1>1 DEF Max

\* number_of_parts answers a number, 0 if the table has no entry.
LEMMA NumberOfPartsType ==
    ASSUME NEW fsize
    PROVE  NumberOfParts(fsize) \in Nat
<1> DEFINE fit == {i \in DOMAIN Table : fsize <= Table[i].size}
<1>1. CASE fit = {}
  BY <1>1 DEF NumberOfParts
<1>2. CASE fit # {}
  <2> DEFINE R == [size : Nat, nb : Nat \ {0}]
  <2>1. Table \in Seq(R)
    BY PlacementAssumption
  <2>2. fit \subseteq Nat /\ fit \subseteq DOMAIN Table
    <3> HIDE DEF R
    <3>1. DOMAIN Table \subseteq Nat
      BY <2>1
    <3>2. QED
      BY <3>1
  <2>3. Min(fit) \in DOMAIN Table
    BY <1>2, <2>2, MinIs
  <2>4. Table[Min(fit)] \in R
    <3> HIDE DEF R
    <3>1. QED
      BY <2>1, <2>3
  <2>5. Table[Min(fit)].nb \in Nat
    BY <2>4
  <2>6. QED
    BY <1>2, <2>5 DEF NumberOfParts
<1>3. QED
  BY <1>1, <1>2

\* No client asks for an upload that the model takes for none.
LEMMA NoRequestApart == NoRequest \notin Requests
<1>1. \A r \in Requests : r.rdcy # 0
  BY PlacementAssumption
<1>2. NoRequest.rdcy = 0
  BY DEF NoRequest
<1>3. QED
  BY <1>1, <1>2

\* How many storages there are.
LEMMA CatalogueLength == Len(Catalogue) \in Nat
BY PlacementAssumption

-----------------------------------------------------------------------------
LEMMA InvInit == Init => Inv
<1> SUFFICES ASSUME Init PROVE Inv
  OBVIOUS
<1>1. TypeOK
  <2>1. pc \in [Workers -> Pc]
    BY DEF Init, Pc
  <2>2. \A w \in Workers : where[w] = <<>> /\ req[w] = NoRequest
    BY DEF Init
  <2>3. /\ req \in [Workers -> Requests \cup {NoRequest}]
        /\ listed \in [Workers -> 0 .. count]
        /\ load \in [1 .. Len(Catalogue) -> Nat]
    BY DEF Init
  <2>4. count \in 0 .. Len(Catalogue) /\ cursor \in 1 .. Len(Catalogue) + 1
        /\ cached \in 0 .. count /\ seen \in 0 .. count /\ requests \in 0 .. MaxRequests
    BY CatalogueLength, PlacementAssumption DEF Init
  <2>5. {valid, current, raced, undefined} \subseteq BOOLEAN
    BY DEF Init
  <2>6. \A w \in Workers :
          /\ where[w] \in Seq(1 .. Len(Catalogue))
          /\ req[w] # NoRequest => Len(where[w]) <= NbParts(w)
    <3>1. <<>> \in Seq(1 .. Len(Catalogue))
      OBVIOUS
    <3>2. QED
      BY <2>2, <3>1
  <2>7. QED
    BY <2>1, <2>3, <2>4, <2>5, <2>6 DEF TypeOK, Pc
<1>2. Served
  BY DEF Init, Served, Turning
<1>3. ~raced /\ ~undefined /\ Orderly
  BY DEF Init, Orderly, UsesStatics, Placing, Turning
<1>4. KnowsListed /\ Roomed
  BY DEF Init, KnowsListed, Roomed
<1>5. QED
  BY <1>1, <1>2, <1>3, <1>4 DEF Inv

\* A storage registers.
LEMMA RegisterKeeps ==
    ASSUME Inv, Register
    PROVE  Inv'
<1>1. UNCHANGED <<statics, workerVars, requests, history>> /\ count' = count + 1
      /\ count < Len(Catalogue)
  BY DEF Register
<1> USE <1>1 DEF statics, workerVars, history
<1>2. TypeOK'
  BY CatalogueLength DEF Inv, TypeOK, NbParts
<1>3. Served'
  BY DEF Inv, Served, NbParts
<1>4. Orderly => Orderly'
  BY DEF Orderly, InVector, UsesStatics, Placing
<1>5. Roomed'
  <2>1. SUFFICES ASSUME NEW w \in Workers, NEW k \in DOMAIN where[w]
                 PROVE  where[w][k] <= count + 1
    BY DEF Inv, Roomed, NbParts
  <2>2. where[w][k] \in Nat /\ count \in Nat /\ where[w][k] <= count
    BY DEF Inv, TypeOK, Roomed
  <2>3. QED
    BY <2>2
<1>6. QED
  BY <1>2, <1>3, <1>4, <1>5 DEF Inv, KnowsListed

\* A request arrives.
LEMMA TakeUploadKeeps ==
    ASSUME Inv, NEW w \in Workers, TakeUpload(w)
    PROVE  Inv'
<1>1. CASE UNCHANGED workerVars
  <2>1. UNCHANGED <<count, statics, workerVars, history>>
        /\ requests' \in 0 .. MaxRequests
    BY <1>1, PlacementAssumption DEF TakeUpload, Inv, TypeOK
  <2>2. QED
    BY <2>1 DEF Inv, TypeOK, Served, Orderly, InVector, UsesStatics, Placing,
                KnowsListed, Roomed, NbParts, statics, workerVars, history
<1>2. ASSUME NEW r \in Requests, req' = [req EXCEPT ![w] = r],
             where' = [where EXCEPT ![w] = <<>>],
             pc' = [pc EXCEPT ![w] = "check"], UNCHANGED listed
      PROVE  Inv'
  <2>1. /\ UNCHANGED <<count, statics, history, listed>>
        /\ requests' \in 0 .. MaxRequests /\ pc[w] = "idle"
    BY <1>2, PlacementAssumption DEF TakeUpload, Inv, TypeOK
  <2>2. DOMAIN pc = Workers /\ DOMAIN req = Workers /\ DOMAIN where = Workers
    BY DEF Inv, TypeOK, Served
  <2>3. /\ req'[w] = r /\ where'[w] = <<>> /\ pc'[w] = "check"
        /\ \A v \in Workers \ {w} :
             req'[v] = req[v] /\ where'[v] = where[v] /\ pc'[v] = pc[v]
    BY <1>2, <2>2
  <2>4. r # NoRequest
    BY NoRequestApart
  <2>5. TypeOK'
    <3>1. /\ pc' \in [Workers -> Pc]
          /\ req' \in [Workers -> Requests \cup {NoRequest}]
      BY <1>2 DEF Inv, TypeOK, Pc
    <3>2. ASSUME NEW v \in Workers
          PROVE  /\ where'[v] \in Seq(1 .. Len(Catalogue))
                 /\ req'[v] # NoRequest => Len(where'[v]) <= NbParts(v)'
      <4>1. CASE v = w
        BY <4>1, <2>3, NumberOfPartsType DEF NbParts
      <4>2. CASE v # w
        BY <4>2, <2>3 DEF Inv, TypeOK, NbParts
      <4>3. QED
        BY <4>1, <4>2
    <3>3. QED
      BY <2>1, <3>1, <3>2 DEF Inv, TypeOK, Pc, statics, history
  <2>6. Served'
    <3>1. DOMAIN where' = Workers
      BY <1>2, <2>2
    <3>2. QED
      BY <3>1, <2>3, <2>4 DEF Inv, Served, Turning, NbParts
  <2>7. Orderly => Orderly'
    BY <2>1, <2>3 DEF Orderly, InVector, UsesStatics, Placing, Turning, Copying,
                      statics, history
  <2>8. Roomed'
    BY <2>1, <2>3 DEF Inv, Roomed, NbParts
  <2>9. QED
    BY <2>1, <2>5, <2>6, <2>7, <2>8 DEF Inv, KnowsListed, statics, history
<1>3. QED
  BY <1>1, <1>2 DEF TakeUpload

LEMMA TakeListingKeeps ==
    ASSUME Inv, NEW w \in Workers, TakeListing(w)
    PROVE  Inv'
<1>1. /\ UNCHANGED <<count, statics, req, listed, where, history>>
      /\ requests' \in 0 .. MaxRequests /\ pc[w] = "idle"
  BY PlacementAssumption DEF TakeListing, Inv, TypeOK
<1>2. /\ pc' \in [Workers -> Pc]
      /\ pc'[w] = "list" /\ \A v \in Workers \ {w} : pc'[v] = pc[v]
  BY DEF TakeListing, Inv, TypeOK, Pc, Copying
<1>3. TypeOK'
  BY <1>1, <1>2 DEF Inv, TypeOK, Pc, NbParts, statics, history
<1>4. Served' /\ req[w] = NoRequest
  BY <1>1, <1>2 DEF Inv, Served, Turning, NbParts
<1>5. Orderly => Orderly'
  BY <1>1, <1>2, <1>4 DEF Orderly, InVector, UsesStatics, Placing, Turning,
                          statics, history
<1>6. QED
  BY <1>1, <1>3, <1>4, <1>5 DEF Inv, KnowsListed, Roomed, NbParts, statics, history

\* A step of worker w that moves it to another place and leaves its request alone.
LEMMA Moves ==
    ASSUME Inv, NEW w \in Workers, NEW place \in Pc,
           pc' = [pc EXCEPT ![w] = place]
    PROVE  /\ pc' \in [Workers -> Pc]
           /\ pc'[w] = place
           /\ \A v \in Workers \ {w} : pc'[v] = pc[v]
BY DEF Inv, TypeOK, Pc

\* The copy is new, or it has to be made.
LEMMA CheckKeeps ==
    ASSUME Inv, ~raced, NEW w \in Workers, Check(w)
    PROVE  Inv'
<1>1. /\ UNCHANGED <<count, cached, cursor, valid, current, req, listed, where,
                     requests, load, seen, undefined>>
      /\ pc[w] = "check" /\ raced' \in BOOLEAN /\ ~undefined
  BY DEF Check, Inv, TypeOK, statics
<1>2. /\ pc' \in [Workers -> Pc]
      /\ pc'[w] = IF current THEN "wrap" ELSE "list"
      /\ \A v \in Workers \ {w} : pc'[v] = pc[v]
  BY Moves DEF Check, Pc, Turning, Copying
<1>3. TypeOK'
  BY <1>1, <1>2 DEF Inv, TypeOK, Pc, NbParts
<1>4. Served'
  BY <1>1, <1>2 DEF Inv, Served, Turning, NbParts
<1>5. ASSUME ~raced' PROVE Orderly'
  <2>1. \A v \in Workers \ {w} : ~UsesStatics(v)
    BY <1>5 DEF Check, Alone
  <2>2. (\A v \in Workers \ {w} : ~UsesStatics(v))'
    BY <1>1, <1>2, <2>1 DEF UsesStatics, Placing
  <2>3. (\A u, v \in Workers : UsesStatics(u) /\ UsesStatics(v) => u = v)'
    BY <2>2
  <2>4. Orderly
    BY DEF Inv
  <2>5. QED
    BY <1>1, <1>2, <2>3, <2>4 DEF Orderly, InVector, Turning
<1>6. QED
  BY <1>1, <1>3, <1>4, <1>5 DEF Inv, KnowsListed, Roomed, NbParts

\* The number of storages is read: no listing that is over was longer.
LEMMA ReadCountKeeps ==
    ASSUME Inv, ~raced, NEW w \in Workers, ReadCount(w)
    PROVE  Inv'
<1>1. /\ UNCHANGED <<count, cached, cursor, valid, current, req, where, requests,
                     load, seen, raced, undefined>>
      /\ pc[w] = "list" /\ listed' = [listed EXCEPT ![w] = count]
  BY DEF ReadCount, statics, history
<1>2. /\ pc' \in [Workers -> Pc]
      /\ pc'[w] = "listed" /\ \A v \in Workers \ {w} : pc'[v] = pc[v]
  BY Moves DEF ReadCount, Pc, Copying
<1>3. /\ listed' \in [Workers -> 0 .. count]
      /\ listed'[w] = count /\ \A v \in Workers \ {w} : listed'[v] = listed[v]
  BY <1>1 DEF Inv, TypeOK
<1>4. TypeOK'
  BY <1>1, <1>2, <1>3 DEF Inv, TypeOK, Pc, NbParts
<1>5. Served'
  BY <1>1, <1>2 DEF Inv, Served, Turning, NbParts
<1>6. Orderly'
  <2>1. (\A u, v \in Workers : UsesStatics(u) /\ UsesStatics(v) => u = v)'
    BY <1>1, <1>2 DEF Inv, Orderly, UsesStatics, Placing, Turning, Copying
  <2>2. count >= seen
    BY DEF Inv, TypeOK
  <2>3. QED
    BY <1>1, <1>2, <1>3, <2>1, <2>2 DEF Inv, Orderly, InVector, Turning
<1>7. QED
  BY <1>1, <1>4, <1>5, <1>6 DEF Inv, KnowsListed, Roomed, NbParts

\* The listing is over.  No upload misses it, or it is not counted as seen.
LEMMA ListEndsKeeps ==
    ASSUME Inv, ~raced, NEW w \in Workers, ListEnds(w)
    PROVE  Inv'
<1>1. /\ UNCHANGED <<count, cached, cursor, valid, req, listed, where, requests,
                     load, raced, undefined>>
      /\ pc[w] = "listed" /\ current' = FALSE /\ Seen(w)
  BY DEF ListEnds
<1>2. /\ pc' \in [Workers -> Pc]
      /\ pc'[w] = IF req[w] = NoRequest THEN "idle"
                  ELSE IF listed[w] = 0 THEN "answer" ELSE "assign"
      /\ \A v \in Workers \ {w} : pc'[v] = pc[v]
  BY Moves DEF ListEnds, Pc, Copying
<1>3. /\ listed[w] \in 0 .. count /\ seen \in 0 .. count /\ count \in Nat
  BY DEF Inv, TypeOK
<1>4. /\ Max({seen, listed[w]}) \in {seen, listed[w]}
      /\ Max({seen, listed[w]}) >= seen /\ Max({seen, listed[w]}) >= listed[w]
  BY <1>3, GreaterOf
<1>5. seen' \in 0 .. count
  BY <1>1, <1>3, <1>4 DEF Seen
<1>6. TypeOK'
  BY <1>1, <1>2, <1>5 DEF Inv, TypeOK, Pc, NbParts
<1>7. Served'
  BY <1>1, <1>2 DEF Inv, Served, Turning, NbParts
<1>8. Orderly'
  <2>1. (\A u, v \in Workers : UsesStatics(u) /\ UsesStatics(v) => u = v)'
    BY <1>1, <1>2 DEF Inv, Orderly, UsesStatics, Placing, Turning, Copying
  <2>2. ASSUME NEW v \in Workers \ {w}
        PROVE  /\ pc[v] = "assign" => listed[v] >= seen'
               /\ pc[v] = "listed" /\ req[v] # NoRequest => listed[v] >= seen'
               /\ pc[v] = "point" => cached >= seen'
    <3>1. CASE req[v] # NoRequest /\ pc[v] \in Copying \ {"list"}
      <4>1. seen' = seen
        BY <1>1, <3>1 DEF Seen
      <4>2. QED
        BY <4>1 DEF Inv, Orderly
    <3>2. CASE ~(req[v] # NoRequest /\ pc[v] \in Copying \ {"list"})
      BY <3>2 DEF Inv, Served, Copying
    <3>3. QED
      BY <3>1, <3>2
  <2>3. pc'[w] = "assign" => listed[w] >= 1 /\ listed[w] >= seen'
    <3> SUFFICES ASSUME pc'[w] = "assign"
                 PROVE  listed[w] >= 1 /\ listed[w] >= seen'
      OBVIOUS
    <3>1. req[w] # NoRequest /\ listed[w] # 0
      BY <1>2
    <3>2. listed[w] >= seen
      BY <1>1, <3>1 DEF Inv, Orderly
    <3>3. seen' \in {seen, listed[w]}
      BY <1>1, <1>4 DEF Seen
    <3>4. QED
      BY <1>3, <3>1, <3>2, <3>3
  <2>4. QED
    BY <1>1, <1>2, <2>1, <2>2, <2>3 DEF Inv, Orderly, InVector, Turning
<1>9. QED
  BY <1>1, <1>6, <1>7, <1>8 DEF Inv, KnowsListed, Roomed, NbParts

\* The copy is made: no other upload uses it.
LEMMA AssignKeeps ==
    ASSUME Inv, ~raced, NEW w \in Workers, Assign(w)
    PROVE  Inv'
<1>1. /\ UNCHANGED <<count, cursor, current, req, listed, where, requests, load,
                     seen, raced, undefined>>
      /\ pc[w] = "assign" /\ cached' = listed[w] /\ valid' = FALSE
  BY DEF Assign, history
<1>2. /\ pc' \in [Workers -> Pc]
      /\ pc'[w] = "point" /\ \A v \in Workers \ {w} : pc'[v] = pc[v]
  BY Moves DEF Assign, Pc, Copying
<1>3. TypeOK'
  BY <1>1, <1>2 DEF Inv, TypeOK, Pc, NbParts
<1>4. Served' /\ UsesStatics(w)
  BY <1>1, <1>2 DEF Inv, Served, Turning, Copying, NbParts, UsesStatics, Placing
<1>5. ~current /\ listed[w] >= 1 /\ listed[w] >= seen
  BY <1>1 DEF Inv, Orderly
<1>6. Orderly'
  <2>1. (\A u, v \in Workers : UsesStatics(u) /\ UsesStatics(v) => u = v)'
    BY <1>1, <1>2 DEF Inv, Orderly, UsesStatics, Placing, Turning, Copying
  <2>2. \A v \in Workers \ {w} : pc[v] \notin Turning \cup {"assign", "point"}
    BY <1>4 DEF Inv, Orderly, Served, UsesStatics, Placing, Turning, Copying
  <2>3. QED
    BY <1>1, <1>2, <1>5, <2>1, <2>2 DEF Inv, Orderly, InVector, Turning
<1>7. QED
  BY <1>1, <1>3, <1>4, <1>5, <1>6 DEF Inv, KnowsListed, Roomed, NbParts

\* The iterator starts somewhere in the new copy.
LEMMA PointKeeps ==
    ASSUME Inv, ~raced, NEW w \in Workers, Point(w)
    PROVE  Inv'
<1>1. /\ UNCHANGED <<count, cached, req, listed, where, requests, seen, raced,
                     undefined>>
      /\ pc[w] = "point" /\ cursor' \in 1 .. cached + 1 /\ valid' /\ current'
      /\ valid' \in BOOLEAN /\ current' \in BOOLEAN
      /\ load' = [i \in DOMAIN load |-> 0]
  BY DEF Point
<1>2. /\ pc' \in [Workers -> Pc]
      /\ pc'[w] = "wrap" /\ \A v \in Workers \ {w} : pc'[v] = pc[v]
  BY Moves DEF Point, Pc, Turning
<1>3. /\ cached \in 0 .. count /\ count \in 0 .. Len(Catalogue)
      /\ cached >= 1 /\ cached >= seen
  BY <1>1 DEF Inv, TypeOK, Orderly
<1>4. TypeOK'
  <2>1. cursor' \in 1 .. Len(Catalogue) + 1
    BY <1>1, <1>3, CatalogueLength
  <2>2. load' \in [1 .. Len(Catalogue) -> Nat]
    BY <1>1 DEF Inv, TypeOK
  <2>3. QED
    BY <1>1, <1>2, <2>1, <2>2 DEF Inv, TypeOK, Pc, NbParts
<1>5. Served' /\ UsesStatics(w)
  BY <1>1, <1>2 DEF Inv, Served, Turning, Copying, NbParts, UsesStatics, Placing
<1>6. Orderly'
  <2>1. (\A u, v \in Workers : UsesStatics(u) /\ UsesStatics(v) => u = v)'
    BY <1>1, <1>2 DEF Inv, Orderly, UsesStatics, Placing, Turning, Copying
  <2>2. \A v \in Workers \ {w} : pc[v] \notin Turning \cup {"assign", "point"}
    BY <1>5 DEF Inv, Orderly, Served, UsesStatics, Placing, Turning, Copying
  <2>3. InVector'
    BY <1>1, <1>3 DEF InVector
  <2>4. QED
    BY <1>1, <1>2, <2>1, <2>2, <2>3 DEF Inv, Orderly, Turning
<1>7. QED
  BY <1>1, <1>3, <1>4, <1>5, <1>6 DEF Inv, KnowsListed, Roomed, NbParts

\* The head of the loop.
LEMMA WrapKeeps ==
    ASSUME Inv, ~raced, NEW w \in Workers, Wrap(w)
    PROVE  Inv'
<1>1. /\ UNCHANGED <<count, cached, valid, current, req, listed, where, requests,
                     load, seen, raced, undefined>>
      /\ pc[w] = "wrap"
  BY DEF Wrap, history
<1>2. /\ pc' \in [Workers -> Pc]
      /\ pc'[w] = IF PartAt(w) = NbParts(w) THEN "answer" ELSE "look"
      /\ \A v \in Workers \ {w} : pc'[v] = pc[v]
  <2>1. pc' = [pc EXCEPT ![w] = IF PartAt(w) = NbParts(w) THEN "answer" ELSE "look"]
    BY DEF Wrap
  <2>2. QED
    BY <2>1, Moves DEF Pc, Turning
<1>3. /\ cached \in 0 .. count /\ count \in 0 .. Len(Catalogue)
      /\ cached >= 1 /\ valid /\ cursor >= 1 /\ cursor <= cached + 1
      /\ cursor \in Nat
  BY <1>1, CatalogueLength DEF Inv, TypeOK, Orderly, InVector, Turning
<1>4. /\ cursor' \in 1 .. cached + 1
      /\ PartAt(w) # NbParts(w) => cursor' <= cached
  BY <1>3 DEF Wrap
<1>5. TypeOK'
  <2>1. cursor' \in 1 .. Len(Catalogue) + 1
    BY <1>3, <1>4, CatalogueLength
  <2>2. QED
    BY <1>1, <1>2, <2>1 DEF Inv, TypeOK, Pc, NbParts
<1>6. Served' /\ UsesStatics(w)
  <2>1. /\ req[w] # NoRequest /\ Len(where[w]) \in Nat
        /\ NbParts(w) \in Nat /\ Len(where[w]) <= NbParts(w)
    BY <1>1, NumberOfPartsType DEF Inv, Served, TypeOK, Turning, NbParts
  <2>2. /\ pc'[w] = "look" => Len(where[w]) < NbParts(w)
        /\ pc'[w] = "answer" => Len(where[w]) = NbParts(w)
    BY <1>2, <2>1 DEF PartAt
  <2>3. QED
    BY <1>1, <1>2, <2>1, <2>2
       DEF Inv, Served, Turning, Copying, NbParts, UsesStatics, Placing
<1>7. Orderly'
  <2>1. (\A u, v \in Workers : UsesStatics(u) /\ UsesStatics(v) => u = v)'
    BY <1>1, <1>2 DEF Inv, Orderly, UsesStatics, Placing, Turning, Copying
  <2>2. \A v \in Workers \ {w} : pc[v] \notin Turning
    BY <1>6 DEF Inv, Orderly, Served, UsesStatics, Placing, Turning, Copying
  <2>3. InVector'
    BY <1>1, <1>3, <1>4 DEF InVector
  <2>4. QED
    BY <1>1, <1>2, <1>4, <2>1, <2>2, <2>3 DEF Inv, Orderly, Turning
<1>8. QED
  BY <1>1, <1>5, <1>6, <1>7 DEF Inv, KnowsListed, Roomed, NbParts

LEMMA AdvanceKeeps ==
    ASSUME Inv, ~raced, NEW w \in Workers, Advance(w)
    PROVE  Inv'
<1>1. /\ UNCHANGED <<count, cached, valid, current, req, listed, where, requests,
                     load, seen, raced, undefined>>
      /\ pc[w] = "advance" /\ cursor' = cursor + 1 /\ cursor <= cached
  BY DEF Advance, history
<1>2. /\ pc' \in [Workers -> Pc]
      /\ pc'[w] = "wrap" /\ \A v \in Workers \ {w} : pc'[v] = pc[v]
  BY Moves DEF Advance, Pc, Turning
<1>3. /\ cached \in 0 .. count /\ count \in 0 .. Len(Catalogue)
      /\ cached >= 1 /\ valid /\ cursor \in 1 .. cached
  BY <1>1, CatalogueLength DEF Inv, TypeOK, Orderly, InVector, Turning
<1>4. cursor' \in 1 .. cached + 1
  BY <1>1, <1>3
<1>5. TypeOK'
  <2>1. cursor' \in 1 .. Len(Catalogue) + 1
    BY <1>3, <1>4, CatalogueLength
  <2>2. QED
    BY <1>1, <1>2, <2>1 DEF Inv, TypeOK, Pc, NbParts
<1>6. Served' /\ UsesStatics(w)
  BY <1>1, <1>2 DEF Inv, Served, Turning, Copying, NbParts, UsesStatics, Placing
<1>7. Orderly'
  <2>1. (\A u, v \in Workers : UsesStatics(u) /\ UsesStatics(v) => u = v)'
    BY <1>1, <1>2 DEF Inv, Orderly, UsesStatics, Placing, Turning, Copying
  <2>2. \A v \in Workers \ {w} : pc[v] \notin Turning
    BY <1>6 DEF Inv, Orderly, Served, UsesStatics, Placing, Turning, Copying
  <2>3. InVector'
    BY <1>1, <1>3, <1>4 DEF InVector
  <2>4. QED
    BY <1>1, <1>2, <1>4, <2>1, <2>2, <2>3 DEF Inv, Orderly, Turning
<1>8. QED
  BY <1>1, <1>5, <1>6, <1>7 DEF Inv, KnowsListed, Roomed, NbParts

\* One more part is placed, where there is room for it.
LEMMA LookPlaces ==
    ASSUME Inv, ~raced, NEW w \in Workers, Look(w), Fits(w, cursor)
    PROVE  /\ where'[w] = Append(where[w], cursor)
           /\ \A v \in Workers \ {w} : where'[v] = where[v]
           /\ DOMAIN where' = Workers
           /\ where'[w] \in Seq(1 .. Len(Catalogue))
           /\ Len(where'[w]) = Len(where[w]) + 1
           /\ Len(where'[w]) <= NbParts(w)
           /\ Roomed'
<1>1. /\ pc[w] = "look" /\ cursor <= cached /\ UNCHANGED <<count, req>>
      /\ where' = [where EXCEPT ![w] = Append(@, cursor)]
  BY DEF Look
<1>2. /\ DOMAIN where = Workers /\ where[w] \in Seq(1 .. Len(Catalogue))
      /\ Len(where[w]) < NbParts(w)
  BY <1>1 DEF Inv, Served, TypeOK
<1>3. /\ cursor \in 1 .. Len(Catalogue) /\ cursor <= count
  BY <1>1, CatalogueLength DEF Inv, TypeOK
<1>4. /\ where'[w] = Append(where[w], cursor)
      /\ \A v \in Workers \ {w} : where'[v] = where[v]
      /\ DOMAIN where' = Workers
  BY <1>1, <1>2
<1>5. /\ where'[w] \in Seq(1 .. Len(Catalogue))
      /\ Len(where'[w]) = Len(where[w]) + 1
      /\ Len(where[w]) \in Nat /\ NbParts(w) \in Nat
      /\ DOMAIN where[w] = 1 .. Len(where[w])
      /\ DOMAIN where'[w] = 1 .. Len(where[w]) + 1
      /\ where'[w][Len(where[w]) + 1] = cursor
      /\ \A k \in 1 .. Len(where[w]) : where'[w][k] = where[w][k]
  BY <1>2, <1>3, <1>4, NumberOfPartsType DEF NbParts
<1>6. Catalogue[cursor].addr \in Joinable
  BY DEF Fits, Inv, Roomed
<1>7. Roomed'
  <2> SUFFICES ASSUME NEW v \in Workers, NEW k \in DOMAIN where'[v]
               PROVE  /\ where'[v][k] <= count
                      /\ Catalogue[where'[v][k]].addr \in Joinable
                      /\ Catalogue[where'[v][k]].space >=
                             PartSize(req[v].fsize, k - 1, NbParts(v))
    BY <1>1 DEF Roomed, NbParts
  <2>1. CASE v # w
    BY <2>1, <1>4 DEF Inv, Roomed
  <2>2. CASE v = w /\ k # Len(where[w]) + 1
    <3>1. k \in DOMAIN where'[w]
      BY <2>2
    <3>2. k \in 1 .. Len(where[w])
      BY <3>1, <2>2, <1>5
    <3>3. where'[v][k] = where[w][k]
      BY <3>2, <2>2, <1>5
    <3>4. k \in DOMAIN where[w]
      BY <3>2, <1>5
    <3>5. QED
      BY <3>3, <3>4, <2>2 DEF Inv, Roomed
  <2>3. CASE v = w /\ k = Len(where[w]) + 1
    <3>1. where'[v][k] = cursor /\ k - 1 = PartAt(w)
      BY <2>3, <1>5 DEF PartAt
    <3>2. Catalogue[cursor].space >= PartSize(req[w].fsize, PartAt(w), NbParts(w))
      BY DEF Fits, SizeAt
    <3>3. QED
      BY <3>1, <3>2, <2>3, <1>3, <1>6
  <2>4. QED
    BY <2>1, <2>2, <2>3
<1>8. QED
  BY <1>2, <1>4, <1>5, <1>7

LEMMA LookKeeps ==
    ASSUME Inv, ~raced, NEW w \in Workers, Look(w)
    PROVE  Inv'
<1>1. /\ UNCHANGED <<count, cached, cursor, valid, current, req, listed, requests,
                     seen, raced, undefined>>
      /\ pc[w] = "look" /\ cursor <= cached
  BY DEF Look, statics
<1>2. /\ pc' \in [Workers -> Pc]
      /\ pc'[w] = "advance" /\ \A v \in Workers \ {w} : pc'[v] = pc[v]
  BY Moves DEF Look, Pc, Turning
<1>3. /\ DOMAIN where' = Workers
      /\ \A v \in Workers \ {w} : where'[v] = where[v]
      /\ where'[w] \in Seq(1 .. Len(Catalogue))
      /\ Len(where'[w]) <= NbParts(w)
      /\ load' \in [1 .. Len(Catalogue) -> Nat]
      /\ Roomed'
  <2>1. CASE Fits(w, cursor)
    <3>1. load' \in [1 .. Len(Catalogue) -> Nat]
      <4>1. load' = [load EXCEPT ![cursor] = load[cursor] + 1]
        BY <2>1 DEF Look
      <4>2. /\ load \in [1 .. Len(Catalogue) -> Nat]
            /\ cursor \in 1 .. Len(Catalogue)
        BY <1>1, CatalogueLength DEF Inv, TypeOK
      <4>3. QED
        BY <4>1, <4>2
    <3>2. QED
      BY <2>1, <3>1, LookPlaces
  <2>2. CASE ~Fits(w, cursor)
    <3>1. UNCHANGED <<where, load>>
      BY <2>2 DEF Look
    <3>2. req[w] # NoRequest
      BY <1>1 DEF Inv, Served, Turning
    <3>3. QED
      BY <1>1, <3>1, <3>2 DEF Inv, TypeOK, Served, Roomed, NbParts
  <2>3. QED
    BY <2>1, <2>2
<1>4. TypeOK'
  <2>1. ASSUME NEW v \in Workers
        PROVE  /\ where'[v] \in Seq(1 .. Len(Catalogue))
               /\ req'[v] # NoRequest => Len(where'[v]) <= NbParts(v)'
    BY <1>1, <1>3 DEF Inv, TypeOK, NbParts
  <2>2. QED
    BY <1>1, <1>2, <1>3, <2>1 DEF Inv, TypeOK, Pc
<1>5. Served'
  BY <1>1, <1>2, <1>3 DEF Inv, Served, Turning, NbParts
<1>6. Orderly'
  <2>1. (\A u, v \in Workers : UsesStatics(u) /\ UsesStatics(v) => u = v)'
    BY <1>1, <1>2 DEF Inv, Orderly, UsesStatics, Placing, Turning, Copying
  <2>2. QED
    BY <1>1, <1>2, <2>1 DEF Inv, Orderly, InVector, Turning
<1>7. QED
  BY <1>1, <1>3, <1>4, <1>5, <1>6 DEF Inv, KnowsListed

\* Only a race makes the behaviour of the master undefined.
LEMMA StrayKeeps ==
    ASSUME Inv, NEW w \in Workers, Stray(w)
    PROVE  Inv'
<1>1. /\ UNCHANGED <<count, statics, workerVars, requests, load, seen, raced>>
      /\ undefined' = TRUE
  BY DEF Stray
<1>2. raced
  <2> SUFFICES ASSUME ~raced PROVE FALSE
    OBVIOUS
  <2>1. Orderly
    BY DEF Inv
  <2>2. QED
    BY <2>1 DEF Stray, Orderly, InVector, Turning
<1>3. TypeOK'
  BY <1>1 DEF Inv, TypeOK, NbParts, statics, workerVars
<1>4. QED
  BY <1>1, <1>2, <1>3 DEF Inv, Served, KnowsListed, Roomed, NbParts, statics,
                          workerVars

LEMMA AnswerKeeps ==
    ASSUME Inv, ~raced, NEW w \in Workers, Answer(w)
    PROVE  Inv'
<1>1. /\ UNCHANGED <<count, cached, cursor, valid, current, listed, requests, load,
                     seen, raced, undefined>>
      /\ pc[w] = "answer"
      /\ req' = [req EXCEPT ![w] = NoRequest]
      /\ where' = [where EXCEPT ![w] = <<>>]
  BY DEF Answer, statics, history
<1>2. /\ pc' \in [Workers -> Pc]
      /\ pc'[w] = "idle" /\ \A v \in Workers \ {w} : pc'[v] = pc[v]
  BY Moves DEF Answer, Pc
<1>3. /\ req' \in [Workers -> Requests \cup {NoRequest}] /\ DOMAIN where' = Workers
      /\ req'[w] = NoRequest /\ where'[w] = <<>>
      /\ \A v \in Workers \ {w} : req'[v] = req[v] /\ where'[v] = where[v]
  BY <1>1 DEF Inv, TypeOK, Served
<1>4. TypeOK'
  <2>1. <<>> \in Seq(1 .. Len(Catalogue))
    OBVIOUS
  <2>2. ASSUME NEW v \in Workers
        PROVE  /\ where'[v] \in Seq(1 .. Len(Catalogue))
               /\ req'[v] # NoRequest => Len(where'[v]) <= NbParts(v)'
    BY <1>3, <2>1 DEF Inv, TypeOK, NbParts
  <2>3. QED
    BY <1>1, <1>2, <1>3, <2>2 DEF Inv, TypeOK, Pc
<1>5. Served'
  BY <1>1, <1>2, <1>3 DEF Inv, Served, Turning, NbParts
<1>6. Orderly'
  BY <1>1, <1>2, <1>3 DEF Inv, Orderly, InVector, UsesStatics, Placing, Turning,
                          Copying
<1>7. Roomed'
  BY <1>1, <1>3 DEF Inv, Roomed, NbParts
<1>8. QED
  BY <1>1, <1>4, <1>5, <1>6, <1>7 DEF Inv, KnowsListed

LEMMA InvNext == Inv /\ [Next]_vars => Inv'
<1> SUFFICES ASSUME Inv, [Next]_vars PROVE Inv'
  OBVIOUS
<1>1. CASE Register
  BY <1>1, RegisterKeeps
<1>2. ASSUME NEW w \in Workers, TakeUpload(w) \/ TakeListing(w)
      PROVE  Inv'
  BY <1>2, TakeUploadKeeps, TakeListingKeeps
<1>3. ASSUME NEW w \in Workers, Step(w)
      PROVE  Inv'
  BY <1>3, CheckKeeps, ReadCountKeeps, ListEndsKeeps, AssignKeeps, PointKeeps,
     WrapKeeps, LookKeeps, AdvanceKeeps, AnswerKeeps, StrayKeeps DEF Step
<1>4. CASE UNCHANGED vars
  BY <1>4 DEF vars, statics, workerVars, history, Inv, TypeOK, Served, Orderly,
              InVector, UsesStatics, Placing, KnowsListed, Roomed, NbParts
<1>5. QED
  BY <1>1, <1>2, <1>3, <1>4 DEF Next

LEMMA InvAlways == Spec => []Inv
BY InvInit, InvNext, PTL DEF Spec

\* Type correctness, for any number of threads, storages and requests.
THEOREM TypeCorrect == Spec => []TypeOK
<1>1. Inv => TypeOK
  BY DEF Inv
<1>2. QED
  BY <1>1, InvAlways, PTL

\* get_stpfields_for_upload never uses an iterator that points nowhere unless two
\* uploads are in it at once: whatever was listed, registered or placed before, and
\* wherever the uploads before left the iterator.
THEOREM IteratorIsValid == Spec => []DefinedAlone
<1>1. Inv => DefinedAlone
  BY DEF Inv, DefinedAlone
<1>2. QED
  BY <1>1, InvAlways, PTL

\* The static copy of the storages is never older than a listing that is over,
\* although a listing and an upload may overlap in any way.
THEOREM CopyIsNew == Spec => []KnowsListed
<1>1. Inv => KnowsListed
  BY DEF Inv
<1>2. QED
  BY <1>1, InvAlways, PTL

\* An upload that is not refused gets all its parts placed, each with room for it.
THEOREM AllPlaced == Spec => []PlacedWhole
<1>1. Inv => PlacedWhole
  <2> SUFFICES ASSUME Inv, NEW w \in Workers, pc[w] = "answer", ~Refused(w)
               PROVE  /\ Len(where[w]) = NbParts(w)
                      /\ Addresses(w) \subseteq Joinable
                      /\ \A k \in DOMAIN where[w] :
                           /\ where[w][k] <= count
                           /\ Catalogue[where[w][k]].space >=
                                  PartSize(req[w].fsize, k - 1, NbParts(w))
    BY DEF PlacedWhole
  <2>1. where[w] # <<>>
    <3> SUFFICES ASSUME where[w] = <<>> PROVE FALSE
      OBVIOUS
    <3>1. Addresses(w) = {}
      BY DEF Addresses
    <3>2. Cardinality(Addresses(w)) = 0
      BY <3>1, FS_EmptySet
    <3>3. req[w] \in Requests
      BY DEF Inv, TypeOK, Served
    <3>4. req[w].rdcy \in Nat \ {0}
      BY <3>3, PlacementAssumption
    <3>5. QED
      BY <3>2, <3>4 DEF Refused
  <2>2. Len(where[w]) = NbParts(w)
    BY <2>1 DEF Inv, Served
  <2>3. QED
    BY <2>2 DEF Inv, Roomed, Addresses
<1>2. QED
  BY <1>1, InvAlways, PTL

-----------------------------------------------------------------------------
(***************************************************************************)
(* The turns.                                                               *)
(***************************************************************************)

\* Every file that is not refused has a layout in which the parts fit: see
\* SmallFits for the entries of the table for which it does.
TableFits ==
    \A r \in Requests : NumberOfParts(r.fsize) # 0 =>
        FitParts(r.fsize, NumberOfParts(r.fsize))

\* The storage whose turn it is, and which of two storages has its turn first.
Turn == IF \E w \in Workers : pc[w] = "advance" THEN cursor + 1 ELSE cursor
Before(n, i, j) == (i < j /\ (j < n \/ n <= i)) \/ (n <= i /\ j < n)

\* A storage that has its turn before another got as many parts or one less.
InTurn ==
    valid => \A i, j \in Roomy :
        Before(Turn, i, j) => load[i] <= load[j] /\ load[j] <= load[i] + 1

\* What Roomy is a set of.
LEMMA RoomyType ==
    ASSUME Inv
    PROVE  /\ cached \in Nat /\ cursor \in Nat
           /\ \A i \in Roomy : i \in 1 .. cached /\ i \in Nat /\ load[i] \in Nat
<1>1. /\ cached \in 0 .. count /\ count \in 0 .. Len(Catalogue)
      /\ cursor \in 1 .. Len(Catalogue) + 1
      /\ load \in [1 .. Len(Catalogue) -> Nat]
  BY DEF Inv, TypeOK
<1>2. cached \in Nat /\ cursor \in Nat /\ cached <= Len(Catalogue)
  BY <1>1, CatalogueLength
<1>3. ASSUME NEW i \in Roomy
      PROVE  i \in 1 .. cached /\ i \in Nat /\ load[i] \in Nat
  <2>1. i \in 1 .. cached
    BY DEF Roomy
  <2>2. i \in 1 .. Len(Catalogue)
    BY <1>2, <2>1, CatalogueLength
  <2>3. QED
    BY <1>1, <2>1, <2>2
<1>4. QED
  BY <1>2, <1>3

\* Of two storages one has its turn first.
LEMMA InTurnBalances ==
    ASSUME Inv, InTurn
    PROVE  Balanced
<1> SUFFICES ASSUME valid, NEW i \in Roomy, NEW j \in Roomy
             PROVE  load[i] <= load[j] + 1
  BY DEF Balanced
<1>1. load[i] \in Nat /\ load[j] \in Nat /\ i \in Nat /\ j \in Nat
  BY RoomyType
<1>2. Turn \in Nat
  BY RoomyType DEF Turn
<1>3. i = j \/ Before(Turn, i, j) \/ Before(Turn, j, i)
  BY <1>1, <1>2 DEF Before
<1>4. CASE i = j
  BY <1>1, <1>4
<1>5. CASE Before(Turn, i, j)
  <2>1. load[i] <= load[j]
    BY <1>5 DEF InTurn
  <2>2. QED
    BY <1>1, <2>1
<1>6. CASE Before(Turn, j, i)
  BY <1>6 DEF InTurn
<1>7. QED
  BY <1>3, <1>4, <1>5, <1>6

\* While one upload at a time turns, only the worker at the iterator advances.
LEMMA OneTurns ==
    ASSUME Inv, ~raced, NEW w \in Workers, pc[w] \in Turning
    PROVE  \A v \in Workers \ {w} : pc[v] # "advance"
<1> SUFFICES ASSUME NEW v \in Workers \ {w}, pc[v] = "advance" PROVE FALSE
  OBVIOUS
<1>1. UsesStatics(v) /\ UsesStatics(w)
  BY DEF Inv, Served, UsesStatics, Placing, Turning
<1>2. QED
  BY <1>1 DEF Inv, Orderly

\* 2^n is the number of subsets of a set with n elements.
LEMMA Powers ==
    ASSUME NEW n \in Nat
    PROVE  /\ IsFiniteSet(SUBSET (1 .. n)) /\ Cardinality(SUBSET (1 .. n)) = 2^n
           /\ 2^n \in Nat /\ 2^n > 0
<1>1. IsFiniteSet(1 .. n) /\ Cardinality(1 .. n) = n
  BY FS_Interval
<1>2. IsFiniteSet(SUBSET (1 .. n)) /\ Cardinality(SUBSET (1 .. n)) = 2^n
  BY <1>1, FS_SUBSET
<1>3. 2^n \in Nat
  BY <1>2, FS_CardinalityType
<1>4. {} \in SUBSET (1 .. n)
  OBVIOUS
<1>5. 2^n # 0
  BY <1>2, <1>4, FS_EmptySet
<1>6. QED
  BY <1>2, <1>3, <1>5

\* Powers of 2 are positive.
LEMMA PowerIsNat == \A n \in Nat : 2^n \in Nat /\ 2^n \in Nat \ {0}
<1> TAKE n \in Nat
<1>1. 2^n \in Nat /\ 2^n > 0
  BY Powers
<1>2. QED
  BY <1>1

\* A part of a file with this layout is not larger than the file.
LEMMA PartFits ==
    ASSUME NEW size \in Nat, NEW parts \in Nat \ {0}, FitParts(size, parts),
           NEW p \in 0 .. parts - 1
    PROVE  PartSize(size, p, parts) \in Nat /\ PartSize(size, p, parts) <= size
<1> DEFINE q == size \div parts
           L == CeilFloat(size, parts)
           last == parts - 1
<1>1. parts \in Nat /\ parts >= 1 /\ p \in Nat /\ last \in Nat
  OBVIOUS
<1>2. q \in Nat
  BY <1>1
<1>3. PICK W \in Nat : W = 2^WordBits
  BY PowerIsNat, LayoutAssumption
<1>4. L \in Nat /\ q <= L /\ parts * L <= size + q /\ size < W
  BY <1>3 DEF FitParts
<1>5. PartSize(size, p, parts) =
        IF p = last /\ last * L + L > size
        THEN (L - (last * L + L - size)) % W ELSE L
  BY <1>3 DEF PartSize, LastCut
<1> HIDE DEF L, q
<1>6. PICK m \in Nat : m = last * L /\ parts * L = m + L
  <2>1. last * L \in Nat
    BY <1>1, <1>4
  <2>2. parts * L = (last + 1) * L
    BY <1>1
  <2>3. (last + 1) * L = last * L + L
    BY <1>1, <1>4
  <2>4. QED
    BY <2>1, <2>2, <2>3
<1>7. CASE p = last /\ m + L > size
  <2>1. L - (m + L - size) = size - m /\ size - m \in Nat /\ size - m < W
    BY <1>2, <1>4, <1>6
  <2>2. \A v \in Nat : v < W => v % W = v
    BY <1>3
  <2>3. QED
    BY <1>5, <1>6, <1>7, <2>1, <2>2
<1>8. CASE ~(p = last /\ m + L > size)
  <2>1. p # last => L <= m
    <3>1. ASSUME p # last PROVE last - 1 \in Nat
      BY <1>1, <3>1
    <3>2. \A n \in Nat : n * L \in Nat /\ (n + 1) * L = n * L + L
      BY <1>4
    <3>3. p # last => (last - 1) * L \in Nat /\ last * L = (last - 1) * L + L
      BY <1>1, <3>1, <3>2
    <3>4. QED
      BY <1>4, <1>6, <3>3
  <2>2. L <= size
    BY <1>1, <1>2, <1>4, <1>6, <1>8, <2>1
  <2>3. QED
    BY <1>4, <1>5, <1>6, <1>8, <2>2
<1>9. QED
  BY <1>7, <1>8

\* A storage with room for every file gets the part for which it is looked at.
LEMMA RoomyFits ==
    ASSUME Inv, TableFits, NEW w \in Workers, pc[w] = "look", NEW i \in Roomy
    PROVE  Fits(w, i)
<1> DEFINE size == req[w].fsize
           nb == NumberOfParts(size)
<1>1. req[w] \in Requests
  BY DEF Inv, TypeOK, Served, Turning
<1>2. size \in Nat /\ nb \in Nat
  BY <1>1, PlacementAssumption, NumberOfPartsType
<1>3. PartAt(w) \in Nat /\ PartAt(w) < nb
  <2>1. where[w] \in Seq(1 .. Len(Catalogue)) /\ Len(where[w]) < NbParts(w)
    BY DEF Inv, TypeOK, Served
  <2>2. QED
    BY <2>1 DEF PartAt, NbParts
<1>4. nb \in Nat \ {0} /\ PartAt(w) \in 0 .. nb - 1 /\ FitParts(size, nb)
  BY <1>1, <1>2, <1>3 DEF TableFits
<1> HIDE DEF nb
<1>5. PartSize(size, PartAt(w), nb) \in Nat /\ PartSize(size, PartAt(w), nb) <= size
  BY <1>2, <1>4, PartFits
<1>6. SizeAt(w) \in Nat /\ SizeAt(w) <= size
  BY <1>5 DEF SizeAt, NbParts, nb
<1>7. Catalogue[i].space >= size /\ Catalogue[i].addr \in Joinable
  BY <1>1 DEF Roomy
<1>8. Catalogue[i].space \in Nat
  <2>1. i \in 1 .. Len(Catalogue)
    BY CatalogueLength DEF Roomy, Inv, TypeOK
  <2> DEFINE R == [addr : {c.addr : c \in {Catalogue[k] : k \in DOMAIN Catalogue}},
                   space : Nat]
  <2>2. Catalogue \in Seq(R)
    BY PlacementAssumption
  <2>3. Catalogue[i] \in R
    <3> HIDE DEF R
    <3>1. QED
      BY <2>1, <2>2
  <2>4. QED
    BY <2>3
<1>9. QED
  BY <1>2, <1>6, <1>7, <1>8 DEF Fits

\* A step that changes neither the copy nor whose turn it is.
LEMMA TurnStays ==
    ASSUME InTurn, valid' => valid, UNCHANGED <<cached, load>>, Turn' = Turn
    PROVE  InTurn'
<1>1. Roomy' = Roomy
  BY DEF Roomy
<1>2. QED
  BY <1>1 DEF InTurn, Before

\* The iterator turns around, or stays.
LEMMA WrapTurns ==
    ASSUME Inv, ~raced, InTurn, NEW w \in Workers, Wrap(w)
    PROVE  InTurn'
<1>1. /\ UNCHANGED <<cached, valid, load>> /\ pc[w] = "wrap"
      /\ cursor' = cursor \/ (cursor = cached + 1 /\ cursor' = 1)
      /\ pc' = [pc EXCEPT ![w] = IF PartAt(w) = NbParts(w) THEN "answer" ELSE "look"]
  BY DEF Wrap, history
<1>2. \A v \in Workers : pc[v] # "advance"
  BY <1>1, OneTurns DEF Turning
<1>3. \A v \in Workers : pc'[v] # "advance"
  BY <1>1, <1>2 DEF Inv, TypeOK
<1>4. Turn = cursor /\ Turn' = cursor'
  BY <1>2, <1>3 DEF Turn
<1>5. CASE cursor' = cursor
  BY <1>1, <1>4, <1>5, TurnStays
<1>6. CASE cursor = cached + 1 /\ cursor' = 1
  <2> SUFFICES ASSUME valid, NEW i \in Roomy, NEW j \in Roomy, Before(1, i, j)
               PROVE  load[i] <= load[j] /\ load[j] <= load[i] + 1
    BY <1>1, <1>4, <1>6 DEF InTurn, Roomy, Before
  <2>1. /\ i \in Nat /\ j \in Nat /\ i >= 1 /\ j >= 1
        /\ i <= cached /\ j <= cached /\ cached \in Nat
    BY RoomyType
  <2>2. Before(cached + 1, i, j)
    BY <2>1 DEF Before
  <2>3. QED
    BY <1>4, <1>6, <2>2 DEF InTurn
<1>7. QED
  BY <1>1, <1>5, <1>6

\* The next storage has its turn.
LEMMA AdvanceTurns ==
    ASSUME Inv, ~raced, InTurn, NEW w \in Workers, Advance(w)
    PROVE  InTurn'
<1>1. /\ UNCHANGED <<cached, valid, load>> /\ pc[w] = "advance"
      /\ cursor' = cursor + 1 /\ pc' = [pc EXCEPT ![w] = "wrap"]
  BY DEF Advance, history
<1>2. \A v \in Workers \ {w} : pc[v] # "advance"
  BY <1>1, OneTurns DEF Turning
<1>3. \A v \in Workers : pc'[v] # "advance"
  BY <1>1, <1>2 DEF Inv, TypeOK
<1>4. Turn = cursor + 1 /\ Turn' = cursor'
  BY <1>1, <1>3 DEF Turn
<1>5. QED
  BY <1>1, <1>4, TurnStays

\* The storage whose turn it is gets the part and has its turn last, or there may
\* be files for which it has no room.
LEMMA LookTurns ==
    ASSUME Inv, TableFits, ~raced, InTurn, NEW w \in Workers, Look(w)
    PROVE  InTurn'
<1>1. /\ UNCHANGED <<cached, cursor, valid>> /\ pc[w] = "look"
      /\ pc' = [pc EXCEPT ![w] = "advance"]
  BY DEF Look, statics
<1>2. \A v \in Workers : pc[v] # "advance"
  BY <1>1, OneTurns DEF Turning
<1>3. pc'[w] = "advance"
  BY <1>1 DEF Inv, TypeOK
<1>4. Turn = cursor /\ Turn' = cursor + 1
  BY <1>1, <1>2, <1>3 DEF Turn
<1> SUFFICES ASSUME valid, NEW i \in Roomy, NEW j \in Roomy, Before(cursor + 1, i, j)
             PROVE  load'[i] <= load'[j] /\ load'[j] <= load'[i] + 1
  BY <1>1, <1>4 DEF InTurn, Roomy, Before
<1>5. /\ load[i] \in Nat /\ load[j] \in Nat /\ i \in Nat /\ j \in Nat
      /\ cursor \in Nat
  BY RoomyType
<1>6. \A k \in Roomy : load'[k] = IF k = cursor THEN load[k] + 1 ELSE load[k]
  <2> TAKE k \in Roomy
  <2>1. load \in [1 .. Len(Catalogue) -> Nat] /\ k \in 1 .. Len(Catalogue)
    BY CatalogueLength DEF Inv, TypeOK, Roomy
  <2>2. CASE Fits(w, cursor)
    <3>1. load' = [load EXCEPT ![cursor] = load[cursor] + 1]
      BY <2>2 DEF Look
    <3>2. QED
      BY <2>1, <3>1
  <2>3. CASE ~Fits(w, cursor)
    <3>1. load' = load
      BY <2>3 DEF Look
    <3>2. k # cursor
      BY <1>1, <2>3, RoomyFits
    <3>3. QED
      BY <3>1, <3>2
  <2>4. QED
    BY <2>2, <2>3
<1>7. i # j
  BY <1>5 DEF Before
<1>8. CASE j = cursor
  <2>1. load'[i] = load[i] /\ load'[j] = load[j] + 1
    BY <1>6, <1>7, <1>8
  <2>2. Before(cursor, j, i)
    BY <1>5, <1>7, <1>8 DEF Before
  <2>3. load[j] <= load[i] /\ load[i] <= load[j] + 1
    BY <1>4, <2>2 DEF InTurn
  <2>4. QED
    BY <1>5, <2>1, <2>3
<1>9. CASE j # cursor
  <2>1. i # cursor
    BY <1>5, <1>9 DEF Before, Roomy
  <2>2. load'[i] = load[i] /\ load'[j] = load[j]
    BY <1>6, <1>9, <2>1
  <2>3. Before(cursor, i, j)
    BY <1>5, <1>9, <2>1, <1>7 DEF Before
  <2>4. QED
    BY <1>4, <2>2, <2>3 DEF InTurn
<1>10. QED
  BY <1>8, <1>9

\* Every other step leaves the turns as they are, or there is no copy in use, or
\* nothing has been placed since it was made.
LEMMA InTurnStep ==
    ASSUME TableFits, Inv, InTurn, [Next]_vars
    PROVE  InTurn'
<1>1. CASE UNCHANGED vars
  BY <1>1 DEF vars, statics, workerVars, history, InTurn, Turn, Before, Roomy
<1>2. CASE Register
  BY <1>2 DEF Register, statics, workerVars, history, InTurn, Turn, Before, Roomy
<1>3. ASSUME NEW w \in Workers, NEW place \in Pc, pc[w] # "advance", place # "advance",
             pc' = pc \/ pc' = [pc EXCEPT ![w] = place],
             UNCHANGED <<cached, cursor, valid, load>>
      PROVE  InTurn'
  <2>1. \A v \in Workers : pc'[v] = "advance" <=> pc[v] = "advance"
    BY <1>3 DEF Inv, TypeOK
  <2>2. Turn' = Turn
    BY <1>3, <2>1 DEF Turn
  <2>3. QED
    BY <1>3, <2>2, TurnStays
<1>4. ASSUME NEW w \in Workers, TakeUpload(w) \/ TakeListing(w)
      PROVE  InTurn'
  <2>1. /\ UNCHANGED <<cached, cursor, valid, load>> /\ pc[w] = "idle"
        /\ \/ pc' = pc
           \/ pc' = [pc EXCEPT ![w] = "check"]
           \/ pc' = [pc EXCEPT ![w] = "list"]
    BY <1>4 DEF TakeUpload, TakeListing, statics, workerVars, history
  <2>2. {"check", "list"} \subseteq Pc
    BY DEF Pc, Copying
  <2>3. QED
    BY <1>3, <2>1, <2>2
<1>5. ASSUME NEW w \in Workers, Stray(w)
      PROVE  InTurn'
  BY <1>5 DEF Stray, statics, workerVars, InTurn, Turn, Before, Roomy
<1>6. ASSUME ~raced, NEW w \in Workers,
             Check(w) \/ ReadCount(w) \/ ListEnds(w) \/ Answer(w)
      PROVE  InTurn'
  <2>1. UNCHANGED <<cached, cursor, valid, load>> /\ pc[w] # "advance"
    BY <1>6 DEF Check, ReadCount, ListEnds, Answer, statics, history
  <2>2. PICK place \in {"wrap", "list", "listed", "idle", "answer", "assign"} :
          pc' = [pc EXCEPT ![w] = place]
    BY <1>6 DEF Check, ReadCount, ListEnds, Answer
  <2>3. place \in Pc /\ place # "advance"
    BY DEF Pc, Copying, Turning
  <2>4. QED
    BY <1>3, <2>1, <2>2, <2>3
<1>7. ASSUME ~raced, NEW w \in Workers, Assign(w)
      PROVE  InTurn'
  BY <1>7 DEF Assign, InTurn
<1>8. ASSUME ~raced, NEW w \in Workers, Point(w)
      PROVE  InTurn'
  <2>1. load' = [i \in DOMAIN load |-> 0] /\ UNCHANGED cached
    BY <1>8 DEF Point
  <2>2. \A i \in Roomy' : i \in DOMAIN load
    BY <2>1, CatalogueLength DEF Roomy, Inv, TypeOK
  <2>3. \A i \in Roomy' : load'[i] = 0
    BY <2>1, <2>2
  <2>4. QED
    BY <2>3 DEF InTurn
<1>9. ASSUME NEW w \in Workers, Step(w)
      PROVE  InTurn'
  BY <1>5, <1>6, <1>7, <1>8, <1>9, WrapTurns, LookTurns, AdvanceTurns DEF Step
<1>10. QED
  BY <1>1, <1>2, <1>4, <1>9 DEF Next

\* "Round-robin distribution over all Storages": between one copy of the list and the
\* next, over the parts of all uploads, storages that can be joined and have room for
\* every file differ by one part at most, wherever the uploads left the iterator.
THEOREM TurnsAreFair ==
    ASSUME TableFits
    PROVE  Spec => []Balanced
<1>1. Init => InTurn
  BY DEF Init, InTurn
<1>2. Inv /\ InTurn /\ [Next]_vars => InTurn'
  BY InTurnStep
<1>3. Inv /\ InTurn => Balanced
  BY InTurnBalances
<1>4. QED
  BY <1>1, <1>2, <1>3, InvAlways, PTL DEF Spec
=============================================================================
