---------------------------- MODULE MCControlDialog ----------------------------
(* A small instance of an analysis with its dialog for TLC. *)
EXTENDS ControlDialog, TLC

CONSTANT f1

OneFunction == <<f1>>
NoSignature == <<>>

MCTasks == Builders \X (Evaluators \cup {Build})
===============================================================================
