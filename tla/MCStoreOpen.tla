----------------------------- MODULE MCStoreOpen -----------------------------
(* A small instance of StoreOpen for TLC.                                  *)
EXTENDS StoreOpen

CONSTANTS p1, p2
=============================================================================
