----------------------------- MODULE MCSPSCRing -----------------------------
(* The ring for TLC. *)
EXTENDS SPSCRing
=============================================================================
