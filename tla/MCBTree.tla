------------------------------ MODULE MCBTree ------------------------------
(***************************************************************************)
(* An instance of BTree.tla for TLC.                                       *)
(***************************************************************************)
EXTENDS BTree

\* With 64 bytes a page: three entries of a key with the value 1 fill a leaf,
\* two separators an internal node; the value 2 does not quite fit, 3 is empty.
MCKeyLen == [key \in Key |-> 8]

MCValLen == [val \in Value |-> IF val = 3 THEN 0 ELSE val + 3]

\* In this order a leaf splits in the middle of the tree too.  It ends with
\* three leaves below a root that has no room for a third separator.
MCWarmUp ==
    LET keys == <<4, 8, 2, 6, 3, 7, 5>>
    IN  [i \in 1 .. 7 |-> [key |-> keys[i], val |-> 1]]
===========================================================================
