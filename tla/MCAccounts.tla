----------------------------- MODULE MCAccounts -----------------------------
(* Values for model-checking Accounts. *)
EXTENDS Accounts, TLC

CONSTANTS s1, s2, s3, n1, q1, e1, e2, p1, p2, p3

(* A name with two spellings and one with a quote in it; and such a password. *)
TwoNames == {<<n1, e1>>, <<n1, e2>>, <<q1, e1>>}
QuotedBoth == {<<q1, e1>>, p3}
=============================================================================
