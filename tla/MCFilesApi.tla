----------------------------- MODULE MCFilesApi ------------------------------
(***************************************************************************)
(* The messages of the instance: every size and Content-Length with every  *)
(* kind of call, and every small merge body in a message that is otherwise *)
(* in order.                                                               *)
(***************************************************************************)
EXTENDS FilesApi

Plain ==
    [size: 0..MaxBody, declared: 0..MaxBody \cup {None},
     refusal: {400, 404, 405, None}, header: BOOLEAN, input: BOOLEAN, merge: {None}]

SmallId == 0..2 \cup {True}

(* Every list in which an id too many, or one twice, can occur. *)
SmallList == UNION {[1..n -> SmallId] : n \in 0..MaxSources + 1}

SmallMerge ==
    [list: SmallList, first: {None, 1}, second: {None, 2}]
        \cup [list: {None}, first: SmallId \cup {None}, second: SmallId \cup {None}]

Merging ==
    [size: {1}, declared: {None}, refusal: {None}, header: {TRUE}, input: {TRUE},
     merge: SmallMerge]

SomeMessages == Plain \cup Merging
=============================================================================
