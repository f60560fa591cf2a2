---- MODULE MCServiceUpdate ----
EXTENDS ServiceUpdate
====
