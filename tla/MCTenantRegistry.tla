-------------------------- MODULE MCTenantRegistry --------------------------
(* TenantRegistry on small instances: a member follows the entries of its *)
(* scope, some of which it may not see.                                   *)
EXTENDS TenantRegistry, TLC

CONSTANT member

(* requires: [] leaves an entry to the member, ["editor.admin"] does not *)
MCAudience == {{member}, {}}

Symmetry == Permutations(Writer)
=============================================================================
