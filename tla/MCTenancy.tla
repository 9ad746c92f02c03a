------------------------------ MODULE MCTenancy ------------------------------
(* Model-checking instance of Tenancy: two tenants, and two clients that register one slug. *)
EXTENDS Tenancy, TLC

MCOwner == "acme" :> 1 @@ "beta" :> 2
MCIds   == 1..6
MCSlugs == {"acme", "beta", "new"}
MCSlug  == [r \in Clients |-> "new"]
MCGrants == {{"configuracoes:write", "financeiro:read", "financeiro:write"}, {"tenant:admin"}}

Symmetry == Permutations(Conns) \cup Permutations(Clients)
=============================================================================
