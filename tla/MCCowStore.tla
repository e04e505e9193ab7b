---------------------------- MODULE MCCowStore ----------------------------
(***************************************************************************)
(* Instances of CowStore.tla for TLC.                                      *)
(***************************************************************************)
EXTENDS CowStore, TLC

ReaderSymmetry == Permutations(Reader)

\* Little is claimed of a store whose chain was torn: its last put is left out.
FewTornPuts == torn => txns < MaxTxn
===========================================================================
