-------------------------- MODULE MCAdministration --------------------------
(***************************************************************************)
(* Small instances of Administration: users and callers are interchangeable. *)
(***************************************************************************)
EXTENDS Administration, TLC

PostChannel == [p \in Posts |-> CHOOSE c \in Channels : TRUE]

Symmetric == Permutations(Users) \cup Permutations(Callers)
=============================================================================
