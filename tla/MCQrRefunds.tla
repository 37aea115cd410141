------------------------------ MODULE MCQrRefunds ------------------------------
(* Small instances of QrRefunds for TLC. *)
EXTENDS QrRefunds

\* One revocation in flight at a time, of whichever session.
OneRevocation == Cardinality({c \in calls : c.pc \in RevokeSteps}) <= 1
=============================================================================
