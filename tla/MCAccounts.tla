----------------------------- MODULE MCAccounts -----------------------------
(***************************************************************************)
(* A request and a command, two requests, or two commands, over two people *)
(* of whom each may be an operator.                                        *)
(***************************************************************************)
EXTENDS Accounts, TLC

CONSTANTS r1, r2, c1, c2, ada, ben, k1, k2, acme

Someone(sub, admin, disabled) ==
    [sub |-> sub, email |-> sub, admin |-> admin, disabled |-> disabled, by |-> None]

SomeBeginnings ==
    {{}, {Someone(ada, TRUE, FALSE)}, {Someone(ada, FALSE, FALSE)},
     {Someone(ada, TRUE, FALSE), Someone(ben, TRUE, TRUE)}}

SomeTokens ==
    [form: {"good"}, kid: {k1, k2}, sub: {ada}] \cup
    [form: {"missing", "junk"}, kid: {k1}, sub: {ada}] \cup
    [form: {"forged", "foreign"}, kid: {k2}, sub: {ada}]

NewUser(sub, email, admin, as, apply) ==
    [kind |-> "create-user", sub |-> sub, email |-> email, admin |-> admin, name |-> acme, as |-> as, apply |-> apply]

NewOrg(as) ==
    [kind |-> "create-org", sub |-> ada, email |-> ada, admin |-> FALSE, name |-> acme, as |-> as, apply |-> TRUE]

SomeCalls ==
    {NewUser(ada, ada, TRUE, None, TRUE), NewUser(ben, ben, TRUE, None, TRUE),
     NewUser(ben, ben, TRUE, ada, TRUE), NewUser(ben, ada, FALSE, None, TRUE),
     NewUser(ben, ben, TRUE, None, FALSE), NewOrg(ada), NewOrg(ben)}

SomeCasts == {{r1, c1}, {r1, r2}, {c1, c2}}

\* The key set is shared by requests only, and accounts are changed by commands
\* and by hand: two requests meet over the keys, the others over the accounts.
Focus == IF cast \subseteq Requests THEN users \in SomeBeginnings ELSE configured /\ published = {k1} /\ ~cooling
=============================================================================
