---------------------------- MODULE FileCatalogue ----------------------------
(***************************************************************************)
(* What a catalogue of files promises: an entry has an id and a name of its *)
(* own, appears at once, keeps its name and size, and never forgets where a *)
(* part of the file is.                                                     *)
(***************************************************************************)
CONSTANTS Ids, Names, Sizes, Places  \* a place is a part and a storage

VARIABLE entries  \* a function of the ids in use

Init == entries = [i \in {} |-> 0]

Create(i, n, s) ==
    /\ i \notin DOMAIN entries
    /\ \A j \in DOMAIN entries : entries[j].name # n
    /\ entries' = [j \in DOMAIN entries \cup {i} |->
                     IF j = i THEN [name |-> n, size |-> s, places |-> {}]
                     ELSE entries[j]]

Record(i, p) ==
    /\ i \in DOMAIN entries
    /\ entries' = [entries EXCEPT ![i].places = @ \cup {p}]

Next ==
    \/ \E i \in Ids, n \in Names, s \in Sizes : Create(i, n, s)
    \/ \E i \in Ids, p \in Places : Record(i, p)

Spec == Init /\ [][Next]_entries
=============================================================================
