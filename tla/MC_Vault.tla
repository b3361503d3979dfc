------------------------------- MODULE MC_Vault -------------------------------
(* Two clients for Vault and two registered users, each with the script 1  *)
(* stored and the script 0 not; the empty name is the unregistered one.    *)
EXTENDS Vault, TLC

CONSTANTS c1, c2

MCStored == {<<"ann", 1>>, <<"bob", 1>>}

Symmetric == Permutations(Client)
=============================================================================
