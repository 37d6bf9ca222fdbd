-------------------------- MODULE MCProviderClients --------------------------
(* Two calls of each client in turn, with three attempts each, so that two *)
(* delays of a call follow each other.                                     *)
EXTENDS ProviderClients

MCBackoff == {1, 3}
MCLifetime == {1, 3}
=============================================================================
