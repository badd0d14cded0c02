------------------------------ MODULE MCToolStream ------------------------------
(* Instances of ToolStream: two tabs of one browser share its session cookie. *)
EXTENDS ToolStream

CONSTANTS t1, t2, cookie1, s1, s2

OneTab == {t1}
TwoTabs == {t1, t2}
OneSession == {cookie1}
SharedSession == [t \in Tabs |-> cookie1]
TwoSockets == {s1, s2}
=============================================================================
