------------------------------ MODULE Traverse ------------------------------
(***************************************************************************)
(* The binary-document traversal engine the contexts call                  *)
(* (_mongocrypt_traverse_binary_in_bson, _mongocrypt_transform_binary_in_  *)
(* bson).  Its code is not among the repository's sources; the operators   *)
(* follow the written specification ("Binary-document traversal engine").  *)
(*                                                                         *)
(* A document is the sequence of its values, in field order; a position    *)
(* stands for a field name.  A value is a leaf, a record with a tag t, or   *)
(* holds an embedded document or an array in kids.                         *)
(***************************************************************************)
EXTENDS Sequences, SequencesExt

Document(kids) == [t |-> "document", kids |-> kids]
Array(kids)    == [t |-> "array", kids |-> kids]

Holds(v) == v.t \in {"document", "array"}

\* Visit mode: the values of the document tree in the order the walk meets
\* them, embedded documents and arrays entered where they stand.  The
\* callback is folded over them and stops the walk by failing.
RECURSIVE Leaves(_)
Leaves(doc) ==
    FlattenSeq([i \in DOMAIN doc |->
                  IF Holds(doc[i]) THEN Leaves(doc[i].kids) ELSE <<doc[i]>>])

\* Transform mode: a new document with every field where it was, each leaf
\* replaced by what the callback, given as a function of the leaf, wrote.
RECURSIVE Transform(_, _)
Transform(doc, replace) ==
    [i \in DOMAIN doc |->
        IF Holds(doc[i]) THEN [doc[i] EXCEPT !.kids = Transform(@, replace)]
                         ELSE replace[doc[i]]]

\* The values of a document tree, as a set: the reference the walks are
\* checked against.
RECURSIVE ValuesIn(_)
ValuesIn(doc) ==
    UNION {IF Holds(doc[i]) THEN ValuesIn(doc[i].kids) ELSE {doc[i]} : i \in DOMAIN doc}

=============================================================================
