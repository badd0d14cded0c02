---------------------------- MODULE SessionLifecycle ----------------------------
(***************************************************************************)
(* What the session store promises of a token, whatever fails: it has one  *)
(* life.  It is issued once; while it is active it may name its user; once *)
(* nothing is left of it, nothing brings it back.                          *)
(***************************************************************************)
CONSTANT Hashes

VARIABLE status

TypeOK == status \in [Hashes -> {"unissued", "active", "ended"}]

Init == status = [h \in Hashes |-> "unissued"]

Issue(h) ==
    /\ status[h] = "unissued"
    /\ status' = [status EXCEPT ![h] = "active"]

\* A crash or the deletion of a user may end several tokens at once.
End(ending) ==
    /\ ending # {}
    /\ \A h \in ending : status[h] = "active"
    /\ status' = [h \in Hashes |-> IF h \in ending THEN "ended" ELSE status[h]]

Next ==
    \/ \E h \in Hashes : Issue(h)
    \/ \E ending \in SUBSET Hashes : End(ending)

Spec == Init /\ [][Next]_status

=============================================================================
