---------------------------- MODULE MCLoginSessions ----------------------------
(* Small instances of LoginSessions for TLC. *)
EXTENDS LoginSessions, TLC

CONSTANTS a, b

TwoTabs == {a, b}
Symmetric == Permutations(Tabs)
BothModes == {TRUE, FALSE}
=============================================================================
