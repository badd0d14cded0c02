--------------------------- MODULE MCRateLimiter ---------------------------
(* Instances of RateLimiter: a visitor and a user behind one address, a soft *)
(* window of one tick in a hard one of two.                                  *)
EXTENDS RateLimiter, TLC

CONSTANTS visitor, member, u1

Symmetry == Permutations(Requests)

UserOfCallers == [c \in Callers |-> IF c = member THEN u1 ELSE None]

Limits == [session |-> [soft |-> 1, hard |-> 2], ip |-> [soft |-> 1, hard |-> 2],
           user |-> [soft |-> 0, hard |-> 1]]

AuthLimits == [login |-> [max |-> 2, window |-> 1], register |-> [max |-> 2, window |-> 2]]
=============================================================================
