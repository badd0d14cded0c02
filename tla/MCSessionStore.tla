----------------------------- MODULE MCSessionStore -----------------------------
(* TLC instances of SessionStore: the .cfg files give the constants values. *)
EXTENDS SessionStore, TLC

\* Token hashes are random and requests carry no identity of their own.  Only
\* for runs without liveness.
Symmetry == Permutations(Hashes) \cup Permutations(Procs)

=============================================================================
