---------------------------- MODULE FrontierTrace ----------------------------
(***************************************************************************)
(* The build of a song and the trace of a row of one of its frontiers: a    *)
(* solve reads the frontier when its build has ended, and the row it picks  *)
(* is shown with the trace that trace/reconstruct.py finds for it.          *)
(***************************************************************************)
EXTENDS FrontierProducer, TraceSearch

\* A row of a finished frontier is traced on the chart and the geometry it was built for.
ReconstructRow ==
    /\ BuildIsDone /\ problem = <<>>
    /\ \E i \in DOMAIN found : \E row \in found[i] : BeginTrace(Context(chart, song.timed, song.geoms[i]), row)

TracedInit == ProducerInit /\ TraceInit
TracedNext ==
    \/ ProducerNext /\ UNCHANGED traceVars
    \/ ReconstructRow /\ UNCHANGED producerVars
    \/ TraceNext /\ UNCHANGED producerVars
TracedSpec == TracedInit /\ [][TracedNext]_<<producerVars, traceVars>>
=============================================================================
