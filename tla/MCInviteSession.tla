-------------------------- MODULE MCInviteSession --------------------------
(* Two sockets, a few tokens, two names.  Sessions and tokens of one kind  *)
(* are interchangeable; names are not, for AnyName picks one of them.      *)
EXTENDS InviteSession, TLC

CONSTANTS s1, s2, i1, i2, r1, r2, alice, bob

Symmetry == Permutations(Sessions) \cup Permutations(Tokens) \cup Permutations(ResumeTokens)
=============================================================================
