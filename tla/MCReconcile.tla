---------------------------- MODULE MCReconcile ----------------------------
(* The rows of Reconcile: two events of a bag, of two modules.             *)
EXTENDS Reconcile

MCKeys == {<<1, 1, "fff">>, <<1, 2, "fdr">>}
=============================================================================
