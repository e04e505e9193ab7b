----------------------------- MODULE MCPageLife -----------------------------
(***************************************************************************)
(* Instances of PageLife.tla for TLC: lengths from 0 to the limit of each  *)
(* page size (5, 12 and 21828) and beyond, for the smallest page, a small  *)
(* one and the largest.                                                    *)
(***************************************************************************)
EXTENDS PageLife

MCKeyLen == <<0, 5, 1, 12, 3, 21828, 4, 21828, 24>>

MCValLen == [v \in {"empty", "one", "some", "long"} |->
                CASE v = "empty" -> 0 [] v = "one" -> 1 [] v = "some" -> 7
                  [] v = "long" -> 21824]
=============================================================================
