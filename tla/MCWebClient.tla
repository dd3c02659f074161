---------------------------- MODULE MCWebClient ----------------------------
(* WebClient on small instances: the tab may open three WebSockets, so that a
   superseded socket, the current one and a redial exist at once. *)
EXTENDS WebClient

MCSockets == 1..3
=============================================================================
