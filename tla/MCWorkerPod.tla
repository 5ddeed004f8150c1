---- MODULE MCWorkerPod ----
(* Two conversations forwarded one after the other to one pod, whose process *)
(* may die once and be told to stop twice.                                   *)
EXTENDS WorkerPod
CONSTANTS c1, c2
============================
