--------------------------- MODULE MCGpuExecutor ---------------------------
(* The executor, with the device reduced to where its data is from, and the genetic search of a song with its data.  *)
(* They share no state: a behavior is one of them.  The executor: two requests for the same song with different      *)
(* items, and one for another song.                                                                                *)
EXTENDS GpuExecutor, GeneticSearch
CONSTANTS a1, a2, b, w, songA, songB, songW
MCSongOf == a1 :> songA @@ a2 :> songA @@ b :> songB @@ w :> songW

MCBox == [E |-> <<0, 7600>>, B |-> <<200, 485>>, C |-> <<20, 27>>, F |-> <<30, 54>>]
MCCurves ==
    [pp |-> [v \in 0..MaxStat |-> 200 + 4 * v], cm |-> [v \in 0..MaxStat |-> 20 + (v * 7) \div 9],
     fm |-> [v \in 0..MaxStat |-> 30 + (v * (18 - v) * 24) \div 81]]

\* A song by its colors and notes, its base stats, the stats where its frontier changes, its surfaces <<F, b>>, its
\* items, the <<first, count>> of its pools, and the sizes <<runs, genomes, generations, copies, unlucky>> of its search.
GaSong(colors, total, fixed, steps, frontiers, gear, pools, sizes) ==
    [primary |-> colors[1], secondary |-> colors[2], total |-> total, fixed |-> fixed, items |-> gear, pools |-> pools,
     runs |-> sizes[1], genomes |-> sizes[2], generations |-> sizes[3], copies |-> sizes[4], unlucky |-> sizes[5],
     frontiers |-> [i \in DOMAIN frontiers |-> [k \in DOMAIN frontiers[i] |->
                      [F |-> frontiers[i][k][1], G |-> {}, b |-> frontiers[i][k][2], n |-> 0, q |-> 0]]],
     frontierOf |-> [stats \in (0..MaxStat) \X (0..MaxStat) |->
                       1 + (IF stats[1] >= steps[1] THEN 1 ELSE 0) + (IF stats[2] >= steps[2] THEN 2 ELSE 0)]]
MCGaSongs == <<
    GaSong(<<"Rush", "Vibe">>, 27, <<1, 0, 0, 80, 10, 1, 1>>, <<5, 4>>,
      <<<<<<{0}, 4>>, <<{1, 2}, 3>>>>, <<<<{}, 10>>, <<{1}, 7>>>>, <<<<{0, 1}, 9>>, <<{0, 1, 2}, 1>>>>, <<<<{1}, 18>>, <<{0, 1, 2}, 12>>>>>>,
      <<<<0, 0, 0, 12, 2, 0, 0>>, <<0, 1, 2, 8, 2, 0, 0>>, <<0, 1, 0, 16, 0, 0, 0>>, <<2, 2, 1, 10, 4, 1, 0>>,
        <<1, 0, 0, 14, 0, 0, 0>>, <<0, 0, 2, 6, 0, 0, 1>>, <<1, 0, 0, 10, 0, 0, 0>>, <<0, 1, 0, 4, 8, 0, 1>>, <<0, 0, 2, 6, 4, 1, 0>>>>,
      <<<<1, 2>>, <<3, 2>>, <<5, 2>>, <<7, 3>>, <<7, 3>>, <<7, 3>>>>, <<2, 2, 2, 2, FALSE>>),
    GaSong(<<"Chill", "Beat">>, 15, <<0, 0, 1, 90, 40, 0, 0>>, <<4, 6>>,
      <<<<<<{0}, 2>>, <<{1, 2}, 1>>>>, <<<<{0, 2}, 3>>, <<{}, 5>>>>, <<<<{0, 1}, 4>>>>, <<<<{0, 1, 2}, 6>>, <<{2}, 9>>>>>>,
      <<<<1, 3, 2, 60, 4, 0, 1>>, <<4, 0, 1, 66, 10, 2, 0>>, <<0, 1, 4, 50, 16, 0, 0>>, <<1, 0, 0, 16, 0, 0, 0>>,
        <<0, 1, 0, 4, 8, 0, 1>>, <<0, 0, 2, 6, 4, 1, 0>>, <<1, 1, 0, 4, 8, 0, 0>>, <<0, 2, 0, 4, 6, 0, 0>>, <<0, 0, 1, 8, 4, 1, 0>>>>,
      <<<<1, 3>>, <<4, 3>>, <<7, 3>>, <<7, 3>>, <<7, 3>>>>, <<2, 2, 2, 2, FALSE>>),
    GaSong(<<"Vibe", "Rush">>, 15, <<0, 0, 0, 80, 36, 0, 0>>, <<4, 6>>,
      <<<<<<{0}, 2>>, <<{1, 2}, 1>>>>, <<<<{0, 2}, 3>>, <<{}, 5>>>>, <<<<{0, 1}, 4>>>>, <<<<{0, 1, 2}, 6>>, <<{2}, 9>>>>>>,
      <<<<0, 0, 1, 10, 4, 0, 0>>, <<1, 2, 0, 10, 0, 0, 0>>, <<0, 1, 0, 4, 8, 0, 1>>, <<0, 0, 2, 6, 4, 1, 0>>>>,
      <<<<1, 1>>, <<2, 3>>, <<2, 3>>, <<2, 3>>>>, <<1, 2, 2, 2, TRUE>>),
    GaSong(<<"Flow", "Rush">>, 43, <<3, 2, 1, 84, 40, 0, 0>>, <<4, 4>>,
      <<<<<<{0}, 2>>>>, <<<<{2}, 5>>, <<{0, 1}, 4>>>>, <<<<{}, 6>>>>, <<<<{2}, 6>>>>>>,
      <<<<0, 0, 0, 6, 0, 0, 0>>, <<1, 1, 0, 4, 4, 0, 0>>>>, <<<<1, 1>>, <<2, 1>>, <<2, 1>>, <<2, 1>>>>, <<2, 1, 1, 1, TRUE>>)>>

ExecutorGone ==
    /\ DeviceInit
    /\ service = FALSE /\ client = "exited" /\ task = Nothing /\ future = NoFuture /\ asked = 0
    /\ calls = <<>> /\ owner = "off" /\ readyEvent = FALSE /\ initError = FALSE /\ hung = FALSE
    /\ abort = FALSE /\ stopEvent = FALSE /\ late = 0

MCInit == GeneticInit /\ IF gaSong = 0 THEN Init ELSE ExecutorGone
MCNext ==
    \/ Next /\ UNCHANGED geneticVars
    \/ GeneticNext /\ UNCHANGED vars

\* The fairness of the executor.
MCSpec ==
    /\ MCInit /\ [][MCNext]_<<vars, geneticVars>>
    /\ WF_vars(OwnerStep /\ UNCHANGED geneticVars) /\ WF_vars(ClientStep /\ UNCHANGED geneticVars)
    /\ WF_vars(StopWatch /\ UNCHANGED geneticVars)
=============================================================================
