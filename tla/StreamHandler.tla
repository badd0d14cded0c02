----------------------------- MODULE StreamHandler -----------------------------
(***************************************************************************)
(* What ConnectionManager relies on in a stream handler: a process that    *)
(* ends, and then one last word, the complete message, or none when the    *)
(* page cannot be reached any more.                                        *)
(***************************************************************************)
VARIABLES
    process,    \* "running", "exited"
    lastWord    \* "none", "complete", "failed"

vars == <<process, lastWord>>

Init == process = "running" /\ lastWord = "none"

Exit ==
    /\ process = "running"
    /\ process' = "exited"
    /\ UNCHANGED lastWord

Conclude(word) ==
    /\ process = "exited" /\ lastWord = "none"
    /\ lastWord' = word
    /\ UNCHANGED process

Next == Exit \/ Conclude("complete") \/ Conclude("failed")

Spec == Init /\ [][Next]_vars /\ WF_vars(Next)
=============================================================================
