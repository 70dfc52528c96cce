---------------------------- MODULE MCInviteFlow ----------------------------
(* Instances of InviteFlow for TLC; no rule tells members of a set apart. *)
EXTENDS InviteFlow, TLC

CONSTANTS o1, s1

FirstMembership == {<<o1, s1>>}

\* The second sender loses the account, the first one a membership.
Alike == Permutations(Requests) \cup Permutations(Orgs \ {o1}) \cup Permutations(People)
=============================================================================
