---- MODULE MCSolveQueue ----
EXTENDS SolveQueue
====
