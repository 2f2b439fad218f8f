------------------------------- MODULE MCAuth -------------------------------
(***************************************************************************)
(* Small instances of AuthRegistry for TLC.                                *)
(***************************************************************************)
EXTENDS AuthProperties, TLC

AuthSymmetry == Permutations(Logins) \cup Permutations(Passwords)
=============================================================================
