------------------------------ MODULE WordBag ------------------------------
(***************************************************************************)
(* What warmup/wc.h promises of the structure wc_init builds: "unique      *)
(* words that have been inserted" and "the number of times each word has   *)
(* been seen".  Each step sees one more word, once.                        *)
(***************************************************************************)
EXTENDS BagsExt

VARIABLE seen

Init == DOMAIN seen = {}
SeeWord == \E w \in DOMAIN seen' : seen' = BagAdd(seen, w)

Spec == Init /\ [][SeeWord]_seen
=============================================================================
