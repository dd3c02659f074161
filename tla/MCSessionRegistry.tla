-------------------------- MODULE MCSessionRegistry --------------------------
(* Four sessions: a tab that reconnects (t1 is the clientId of s1 and s2), *)
(* another tab (s3), and a page that sends no clientId (s4).               *)
EXTENDS SessionRegistry

CONSTANTS s1, s2, s3, s4, t1, t2

MCSessions == {s1, s2, s3, s4}

MCKeyOf == [s \in MCSessions |-> CHOOSE k \in Keys : TRUE]

(* One of the tab's sessions is sent a second connect. *)
MCMaxConnects == [s \in MCSessions |-> IF s \in {s1, s3} THEN 2 ELSE 1]

MCClientOf ==
    [s \in MCSessions |->
        CASE s \in {s1, s2} -> t1 [] s = s3 -> t2 [] OTHER -> NoClient]
=============================================================================
