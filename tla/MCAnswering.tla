---------------------------- MODULE MCAnswering ----------------------------
(* An instance of Answering for TLC: four chunks; the second is nearly the   *)
(* same as the first and as the third, the first alone exceeds the budget.  *)
EXTENDS Answering

CONSTANTS c1, c2, c3, c4, w1, w2

Alike == {{c1, c2}, {c2, c3}}

Sizes == c1 :> 4 @@ c2 :> 1 @@ c3 :> 2 @@ c4 :> 1

Texts == c1 :> {w1, w2} @@ c2 :> {w1} @@ c3 :> {} @@ c4 :> {w1}

\* One word to check, and two.
SomeAnswers == {{w1}, {w1, w2}}
=============================================================================
