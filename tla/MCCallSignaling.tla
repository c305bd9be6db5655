-------------------------- MODULE MCCallSignaling ---------------------------
(***************************************************************************)
(* Callers with one tab each: a tab stands for its user.                   *)
(***************************************************************************)
EXTENDS CallSignaling

CONSTANTS ann, bob, cas

MCUserOf == [t \in Tabs |-> t]
=============================================================================
