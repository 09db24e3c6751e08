----------------------------- MODULE MCThreadPool -----------------------------
(* Small instances of the thread pool for TLC: the configurations give Workers and
   Tasks as sets of model values. *)
EXTENDS ThreadPool, TLC
===============================================================================
