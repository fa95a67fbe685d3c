------------------------------ MODULE MCAccounts ------------------------------
(* A small instance of Accounts for TLC: one user, two who may be created, *)
(* two connections, which the same user may use both, and a login with an  *)
(* underscore, with which LIKE finds the login of another user.            *)
EXTENDS Accounts, TLC

CONSTANTS t1, t2, first, axb, a_b

MCInitial == <<first>>
MCLike    == {<<l, l>> : l \in {first, axb, a_b}} \cup {<<a_b, axb>>}

(* The threads are interchangeable.                                        *)
Symmetry == Permutations({t1, t2})
===============================================================================
