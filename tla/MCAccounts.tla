----------------------------- MODULE MCAccounts -----------------------------
(* Instances of Accounts: two administrators and a user to register, two     *)
(* requests at a time.                                                       *)
EXTENDS Accounts, TLC

CONSTANTS a1, a2, u1

MCUsers == {a1, a2, u1}
MCAdmins == {a1, a2}

Symmetry == Permutations(Requests) \union Permutations(Tokens) \union Permutations(MCAdmins)
=============================================================================
