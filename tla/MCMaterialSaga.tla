--------------------------- MODULE MCMaterialSaga ---------------------------
(* A bounded instance of Reconciliation over MaterialSaga. *)
EXTENDS Reconciliation
=============================================================================
