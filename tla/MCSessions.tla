------------------------------ MODULE MCSessions ------------------------------
(* Model-checking instance of Sessions: every token in one family, every login of one user. *)
EXTENDS Sessions, TLC

MCFamily == [t \in Tokens |-> CHOOSE f \in Families : TRUE]
MCEmail  == [l \in Logins |-> CHOOSE u \in Users : TRUE]

Symmetry == Permutations(Workers) \cup Permutations(Passwords)
=============================================================================
