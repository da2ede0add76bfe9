-------------------------- MODULE MCServiceAccounts --------------------------
(* A small instance of ServiceAccounts for TLC: accounts share nothing but the *)
(* quotas, which one transaction under the gateway's lock counts and uses.     *)
EXTENDS ServiceAccounts
=============================================================================
