----------------------------- MODULE MCIdentity -----------------------------
(* A small instance of Identity: two servers, the bootstrap administrator  *)
(* and one subject who asks for his name, two requests at a time.          *)
EXTENDS Identity, TLC

CONSTANTS admin, kim, adm, gen

MCClaim == [s \in {kim} |-> admin]

MCMapped == {{}, {adm}}

MCAssigned == {{adm}, {gen}}

Symmetry == Permutations(Server) \cup Permutations(Request)
=============================================================================
