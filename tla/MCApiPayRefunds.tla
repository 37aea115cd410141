---------------------------- MODULE MCApiPayRefunds ----------------------------
(* Small instances of ApiPayRefunds for TLC. *)
EXTENDS ApiPayRefunds
=============================================================================
