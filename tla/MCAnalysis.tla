------------------------------ MODULE MCAnalysis ------------------------------
(* Small instances of an analysis for TLC. *)
EXTENDS Analysis, TLC

CONSTANTS f1, f2, s1

TwoFunctions == <<f1, f2>>
NoSignature == <<>>
OneSignature == <<s1>>

MCTasks == Builders \X (Evaluators \cup {Build})

\* Workers are interchangeable.
WorkerSymmetry == Permutations(Workers)
===============================================================================
