-------------------------- MODULE MCAnnotationBank --------------------------
(***************************************************************************)
(* Two clients and three calls of save over two intents: two saves that    *)
(* race, a retry of the first after the second, or one call after another  *)
(* was lost, failed or died at any point.                                  *)
(***************************************************************************)
EXTENDS AnnotationBank, TLC

CONSTANTS c1, c2, t1, t2
MCClient == {c1, c2}
MCText == {t1, t2}
MCSymmetry == Permutations(MCClient) \union Permutations(MCText)
=============================================================================
