-------------------------- MODULE MCTenantMigration --------------------------
(* TenantMigration for TLC.                                                 *)
EXTENDS TenantMigration, TLC
=============================================================================
