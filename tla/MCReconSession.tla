--------------------------- MODULE MCReconSession ---------------------------
(* ReconSession instances for TLC: one sale and the entry of its payment. *)
EXTENDS ReconSession

CONSTANTS sale, payment, h1, h2, w1, w2

OnePair == {<<sale, payment>>}
=============================================================================
