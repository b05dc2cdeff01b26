---------------------------- MODULE MCQQSession ----------------------------
(* Instances of QQSession for TLC. *)
EXTENDS QQSession
=============================================================================
