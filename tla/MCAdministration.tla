-------------------------- MODULE MCAdministration --------------------------
(* Two tenants that both define a sys_admin role, an operator in each, and *)
(* a member the first operator may create.                                 *)
EXTENDS Administration, TLC

MCUserTenant == [ann |-> "t1", bob |-> "t1", zoe |-> "t2"]
MCRoleTenant == [sys1 |-> "t1", plat1 |-> "t1", sys2 |-> "t2"]
MCRoleCode == [sys1 |-> "sys_admin", plat1 |-> "platform", sys2 |-> "sys_admin"]
MCRoleActions == [sys1 |-> {"admin"}, plat1 |-> {"admin", "cross_tenant_admin"},
                  sys2 |-> {"admin", "export"}]
MCFounders == << <<"ann", "sys1">>, <<"zoe", "sys2">> >>
MCWindows == { <<0, 1>> }
Symmetry == Permutations(Requests \ (Viewers \cup Screens))
=============================================================================
