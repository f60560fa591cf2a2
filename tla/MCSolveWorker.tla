---- MODULE MCSolveWorker ----
EXTENDS SolveWorker
====
