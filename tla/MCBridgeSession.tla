-------------------------- MODULE MCBridgeSession --------------------------
(* Two sessions that want the same nickname: of one tab that reconnects    *)
(* (s1 and s2), or of two tabs (s1 and s3).                                *)
EXTENDS BridgeSession

CONSTANTS s1, s2, s3, t1, t2, k1

OneTab == {s1, s2}
TwoTabs == {s1, s3}

OneKey == [s \in Sessions |-> k1]

ClientOfOneTab == [s \in OneTab |-> t1]
ClientOfTwoTabs == [s \in TwoTabs |-> IF s = s3 THEN t2 ELSE t1]

OneConnect == [s \in Sessions |-> 1]
TwoConnects == [s \in Sessions |-> IF s = s1 THEN 2 ELSE 1]

(* Of TwoConnects, two in all: one of each session, or both of s1.  The    *)
(* sessions of one tab are interchangeable, and s1 names the one that is   *)
(* granted a connect first.                                                *)
InOrder ==
    /\ connects'[s1] + connects'[s2] =< 2
    /\ connects'[s2] =< connects'[s1]
=============================================================================
