---------------------------- MODULE FileCatalog ------------------------------
(***************************************************************************)
(* What the files service promises: a catalog of files, each with an owner *)
(* and, once uploaded, a content, that changes by one whole operation at a *)
(* time, made by the owner.  There are no rows, locks, keys or blobs here, *)
(* and no request that fails half way.                                     *)
(***************************************************************************)
EXTENDS Sequences, SequencesExt

CONSTANTS Owners, FileIds, Content, Sources, None

VARIABLE catalog

Entry == [owner: Owners, content: Content \cup {None}]

Owns(o, i) == catalog[i] # None /\ catalog[i].owner = o

Create(o, i) ==
    /\ catalog[i] = None
    /\ catalog' = [catalog EXCEPT ![i] = [owner |-> o, content |-> None]]

Upload(o, i, c) ==
    /\ Owns(o, i)
    /\ catalog' = [catalog EXCEPT ![i].content = c]

Delete(o, i) ==
    /\ Owns(o, i)
    /\ catalog' = [catalog EXCEPT ![i] = None]

(* The new file holds the sources as they are at that moment, in the order  *)
(* they were named.                                                         *)
Merge(o, ids, i) ==
    /\ catalog[i] = None
    /\ \A j \in Range(ids) : Owns(o, j) /\ catalog[j].content \notin {None, <<>>}
    /\ catalog' = [catalog EXCEPT ![i] =
           [owner |-> o,
            content |-> FlattenSeq([n \in DOMAIN ids |-> catalog[ids[n]].content])]]

Init == catalog = [i \in FileIds |-> None]

Operation ==
    \E o \in Owners, i \in FileIds :
        \/ Create(o, i) \/ Delete(o, i)
        \/ \E c \in Content : Upload(o, i, c)
        \/ \E ids \in Sources : Merge(o, ids, i)

(* Writing what is there already is no step: saying so first spares TLC the *)
(* search for one behind every step of the service that changes nothing.    *)
Next == catalog' # catalog /\ Operation

Spec == Init /\ [][Next]_catalog
=============================================================================
