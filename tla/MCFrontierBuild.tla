-------------------------- MODULE MCFrontierBuild --------------------------
(* The pool that builds songs; the build of one song, the trace of one of its surfaces and a game that     *)
(* plays it; and the gem search of a song.  The three share no state: a behavior is one of them, while     *)
(* the others have ended or never begin.                                                                  *)
EXTENDS FgPrebuild, FrontierTrace, GameSim, GemSearch

\* Three songs in the pool, of which the heaviest fills the budget by itself.
MCNotes == <<7000, 4200, 1400>>

\* A song by its hit times, held tails and lanes; a geometry by its fill in half Perfects, its forced Greats and fever time.
Song(timed, geoms, times, holds, lanes) ==
    [timed |-> timed, geoms |-> [g \in DOMAIN geoms |-> [d |-> geoms[g][1], base |-> geoms[g][2], rt |-> geoms[g][3]]],
     notes |-> [i \in DOMAIN times |-> [at |-> times[i], tail |-> i \in holds, lane |-> lanes[i]]]]
NoSong == Song(FALSE, <<>>, <<>>, {}, <<>>)
MCSongs == {
    Song(TRUE, <<<<4, 1, 1716>>, <<4, 1, 1724>>, <<4, 1, 1684>>>>,
         <<0, 20, 320, 820, 1120, 1180, 1180, 1680, 1740>>, {6}, <<2, 1, 2, 2, 3, 2, 1, 1, 1>>),
    Song(TRUE, <<<<2, 3, 2596>>, <<2, 3, 2604>>, <<2, 3, 2584>>>>,
         <<0, 250, 290, 540, 790, 890, 930, 1030>>, {3, 4}, <<1, 2, 2, 1, 1, 3, 1, 1>>),
    Song(TRUE, <<<<3, 0, 980>>, <<3, 0, 992>>>>,
         <<0, 150, 210, 250, 350, 410, 430, 530, 630>>, {}, <<2, 2, 1, 3, 1, 3, 2, 1, 4>>),
    Song(TRUE, <<<<7, 0, 2080>>, <<7, 0, 2264>>>>,
         <<0, 500, 560, 580, 640, 940, 1240, 1740, 2040, 2340>>, {}, <<2, 4, 1, 2, 2, 4, 3, 4, 2, 2>>),
    Song(TRUE, <<<<4, 2, 1616>>>>, <<0, 150, 190, 340, 340, 400, 500, 650, 690>>, {4}, <<2, 3, 1, 2, 2, 1, 4, 2, 2>>),
    Song(TRUE, <<<<2, 5, 1292>>, <<2, 5, 1276>>>>, <<0, 500, 650, 950, 1010, 1070, 1090, 1090>>, {6}, <<2, 2, 1, 1, 2, 2, 2, 2>>),
    Song(TRUE, <<<<2, 0, 2564>>, <<2, 0, 2212>>>>, <<0, 500, 1000, 1500, 1650, 1800, 2100, 2400>>, {}, <<2, 2, 3, 4, 1, 3, 1, 1>>),
    Song(TRUE, <<<<3, 5, 1064>>, <<3, 5, 1048>>, <<5, 3, 1064>>>>,
         <<0, 150, 170, 230, 330, 390, 410, 410, 510, 550>>, {}, <<2, 3, 2, 4, 1, 2, 1, 2, 2, 1>>),
    Song(TRUE, <<<<5, 4, 1112>>>>,
         <<0, 20, 80, 180, 240, 240, 240, 260, 410, 470, 530, 570>>, {2, 10}, <<2, 2, 2, 3, 2, 3, 3, 2, 4, 4, 1, 2>>),
    Song(TRUE, <<<<5, 2, 1172>>, <<5, 2, 1188>>>>,
         <<0, 0, 150, 300, 450, 470, 620, 640, 680, 700, 700, 760>>, {8}, <<3, 2, 1, 1, 2, 2, 2, 2, 2, 2, 2, 2>>),
    Song(TRUE, <<<<5, 3, 992>>, <<5, 3, 1004>>>>,
         <<0, 40, 140, 180, 280, 380, 530, 590, 590, 630, 650, 650>>, {6, 7}, <<2, 4, 3, 2, 1, 2, 3, 2, 1, 2, 2, 2>>),
    Song(FALSE, <<<<4, 3, 1100>>, <<4, 3, 1140>>, <<8, 3, 1092>>>>,
         <<0, 100, 250, 310, 370, 390, 490, 510, 570, 720, 820, 820>>, {6, 12}, <<3, 1, 2, 1, 2, 2, 1, 2, 3, 3, 1, 2>>),
    Song(TRUE, <<<<2, 1, 1500>>, <<3, 1, 1980>>>>, <<0, 300, 600, 900, 1200, 1500>>, {4}, <<1, 2, 1, 2, 1, 2>>),
    Song(TRUE, <<<<2, 1, 700>>, <<1, 2, 700>>>>, <<0, 150>>, {}, <<1, 2>>),
    NoSong}

MCBox == [E |-> <<0, 7600>>, B |-> <<200, 485>>, C |-> <<20, 27>>, F |-> <<30, 54>>]
MCFactors == {Factors(p, 0, b, c, f) : p \in {0, 1500, 3000}, b \in {200, 485}, c \in {20, 27}, f \in {30, 54}}

\* The Perfect windows of Perfect Time -40, 0 and 40, and frames on the grid or off it.
MCWindows == {<<-5, 10>>, <<-20, 40>>, <<-60, 120>>}
MCPhases == {0, 1, 3}

\* A song by its colors, its notes, the stats where its frontier changes, its surfaces <<F, G, b, n, q>> and its
\* batches of loadouts with their floors (-1: none).
GemSong(primary, secondary, total, steps, frontiers, batches) ==
    LET Surface(s) == [F |-> s[1], G |-> s[2], b |-> s[3], n |-> s[4], q |-> s[5]] IN
    [primary |-> primary, secondary |-> secondary, total |-> total,
     frontiers |-> [i \in DOMAIN frontiers |-> [k \in DOMAIN frontiers[i] |-> Surface(frontiers[i][k])]],
     frontierOf |-> [stats \in (0..MaxStat) \X (0..MaxStat) |->
                       1 + (IF stats[1] >= steps[1] THEN 1 ELSE 0) + (IF stats[2] >= steps[2] THEN 2 ELSE 0)],
     batches |-> [i \in DOMAIN batches |-> [k \in DOMAIN batches[i] |-> [stats |-> batches[i][k][1], floor |-> batches[i][k][2]]]]]
NoGemSong == GemSong("none", "none", 0, <<0, 0>>, <<>>, <<>>)
MCCurves ==
    [pp |-> [v \in 0..MaxStat |-> 200 + 4 * v], cm |-> [v \in 0..MaxStat |-> 20 + (v * 7) \div 9],
     fm |-> [v \in 0..MaxStat |-> 30 + (v * (18 - v) * 24) \div 81]]
MCGemSongs == {NoGemSong,
    GemSong("Rush", "Vibe", 27, <<9, 4>>,
      <<<<<<{}, {0, 2}, 0, 0, 0>>, <<{}, {0, 2}, 4, 0, 0>>, <<{}, {2}, 1, 1, 0>>>>, <<<<{}, {}, 10, 0, 0>>, <<{1}, {}, 7, 0, 0>>, <<{0, 1}, {2}, 4, 4, 0>>>>, <<<<{}, {}, 9, 2, 0>>, <<{0, 1}, {0, 2}, 0, 4, 0>>, <<{0, 1, 2}, {1}, 1, 1, 0>>>>, <<<<{}, {1, 2}, 8, 4, 0>>, <<{0, 1, 2}, {0}, 4, 0, 1>>, <<{0}, {}, 18, 0, 0>>>>>>,
      <<<<<<<<6, 0, 3, 201, 26, 2, 1>>, -1>>, <<<<1, 3, 7, 201, 26, 2, 1>>, -1>>>>, <<<<<<6, 0, 3, 246, 162, 5, 9>>, 999999>>, <<<<6, 0, 3, 246, 162, 5, 9>>, 114214>>, <<<<6, 0, 3, 201, 26, 2, 1>>, 110609>>>>>>),
    GemSong("Chill", "Beat", 15, <<4, 7>>,
      <<<<<<{}, {0}, 2, 0, 0>>, <<{}, {1, 2}, 1, 4, 0>>, <<{1, 2}, {}, 3, 4, 0>>>>, <<<<{0, 2}, {}, 3, 0, 0>>, <<{1, 2}, {1}, 0, 0, 0>>>>, <<<<{}, {0, 1, 2}, 6, 3, 0>>, <<{1}, {0, 1}, 3, 4, 1>>>>, <<<<{0, 1, 2}, {}, 1, 0, 0>>, <<{2}, {2}, 2, 2, 0>>, <<{}, {0, 1}, 2, 0, 2>>>>>>,
      <<<<<<<<10, 8, 8, 61, 142, 3, 3>>, -1>>, <<<<10, 8, 8, 31, 83, 3, 3>>, -1>>, <<<<8, 7, 1, 31, 83, 3, 3>>, -1>>>>, <<<<<<10, 8, 8, 31, 83, 8, 0>>, 18657>>, <<<<8, 7, 1, 31, 83, 8, 0>>, -1>>, <<<<8, 7, 1, 61, 142, 8, 0>>, 49079>>>>>>),
    GemSong("Rush", "Flow", 27, <<4, 5>>,
      <<<<<<{1}, {}, 6, 2, 0>>>>, <<<<{0, 2}, {0, 1}, 1, 0, 0>>, <<{1, 2}, {}, 4, 2, 0>>>>, <<<<{}, {0}, 6, 0, 1>>, <<{0, 1}, {}, 8, 3, 0>>, <<{0, 1, 2}, {2}, 4, 0, 3>>>>, <<<<{0, 1, 2}, {}, 14, 0, 0>>, <<{0, 1, 2}, {1}, 6, 3, 0>>>>>>,
      <<<<<<<<8, 10, 3, 184, 32, 6, 6>>, 103652>>, <<<<1, 4, 3, 351, 128, 6, 6>>, -1>>, <<<<1, 4, 3, 351, 128, 7, 6>>, -1>>>>, <<<<<<8, 10, 3, 184, 32, 6, 6>>, -1>>, <<<<1, 4, 3, 184, 32, 6, 6>>, -1>>>>>>),
    GemSong("Chill", "Beat", 43, <<9, 9>>,
      <<<<<<{1, 2}, {}, 4, 2, 1>>, <<{}, {1}, 3, 4, 0>>, <<{0, 1}, {1, 2}, 8, 3, 0>>>>, <<<<{1, 2}, {0}, 11, 0, 0>>, <<{1}, {2}, 2, 1, 0>>>>, <<<<{1}, {1, 2}, 15, 3, 0>>, <<{0}, {1, 2}, 19, 0, 0>>, <<{0, 2}, {2}, 5, 1, 0>>>>, <<<<{1}, {0}, 2, 2, 0>>>>>>,
      <<<<<<<<7, 3, 5, 25, 180, 5, 5>>, 55012>>, <<<<7, 3, 5, 221, 22, 7, 0>>, -1>>, <<<<7, 3, 5, 25, 180, 7, 0>>, 85881>>>>, <<<<<<8, 7, 3, 25, 180, 7, 0>>, 51815>>, <<<<7, 3, 5, 221, 22, 5, 5>>, -1>>>>>>),
    GemSong("Flow", "Rush", 43, <<5, 4>>,
      <<<<<<{1}, {}, 6, 4, 0>>, <<{}, {2}, 6, 0, 0>>>>, <<<<{}, {0, 2}, 1, 0, 0>>>>, <<<<{0, 2}, {}, 2, 0, 0>>>>, <<<<{}, {1}, 12, 0, 0>>, <<{0, 1, 2}, {2}, 18, 0, 0>>, <<{0, 1}, {}, 17, 0, 0>>>>>>,
      <<<<<<<<7, 2, 0, 199, 168, 0, 9>>, 152443>>, <<<<5, 7, 8, 127, 108, 7, 7>>, 111598>>>>, <<<<<<5, 7, 8, 127, 108, 0, 9>>, -1>>, <<<<7, 2, 0, 127, 108, 0, 9>>, 148664>>, <<<<5, 7, 8, 127, 108, 0, 9>>, -1>>>>>>),
    GemSong("Flow", "Rush", 15, <<6, 2>>,
      <<<<<<{0}, {1}, 1, 4, 0>>, <<{1, 2}, {0}, 3, 0, 1>>, <<{}, {}, 3, 0, 0>>>>, <<<<{0}, {}, 2, 3, 2>>>>, <<<<{0}, {}, 4, 4, 0>>>>, <<<<{0, 1, 2}, {2}, 0, 2, 0>>, <<{0, 1, 2}, {2}, 0, 2, 0>>, <<{1, 2}, {0}, 9, 0, 0>>>>>>,
      <<<<<<<<0, 0, 10, 400, 69, 9, 7>>, -1>>, <<<<0, 0, 10, 400, 69, 9, 8>>, -1>>, <<<<0, 0, 10, 400, 69, 9, 7>>, -1>>>>, <<<<<<0, 0, 10, 400, 69, 9, 8>>, -1>>, <<<<8, 5, 9, 400, 69, 9, 8>>, -1>>>>>>),
    GemSong("Rush", "Vibe", 43, <<8, 9>>,
      <<<<<<{}, {}, 7, 0, 0>>>>, <<<<{0, 1}, {}, 2, 0, 1>>, <<{0, 1, 2}, {}, 7, 0, 0>>>>, <<<<{0}, {0, 1}, 14, 0, 3>>>>, <<<<{2}, {0}, 26, 0, 1>>, <<{0}, {2}, 30, 0, 0>>, <<{0, 1}, {1}, 20, 1, 0>>>>>>,
      <<<<<<<<4, 9, 6, 151, 118, 6, 3>>, 114178>>, <<<<4, 9, 6, 11, 36, 9, 9>>, 83506>>>>, <<<<<<0, 3, 6, 11, 36, 6, 3>>, 35770>>, <<<<0, 3, 6, 151, 118, 6, 3>>, -1>>>>>>),
    GemSong("Beat", "Beat", 27, <<7, 8>>,
      <<<<<<{0}, {}, 1, 1, 0>>, <<{}, {0}, 6, 2, 2>>, <<{2}, {}, 5, 0, 2>>>>, <<<<{}, {0}, 9, 1, 0>>, <<{2}, {}, 3, 0, 0>>>>, <<<<{0, 2}, {}, 7, 1, 2>>, <<{0, 1}, {}, 2, 2, 0>>>>, <<<<{}, {0}, 4, 0, 0>>, <<{0, 1, 2}, {0}, 0, 0, 0>>>>>>,
      <<<<<<<<1, 10, 8, 78, 78, 4, 3>>, 59811>>, <<<<2, 9, 9, 206, 206, 7, 3>>, -1>>>>, <<<<<<1, 10, 8, 78, 78, 7, 3>>, -1>>, <<<<1, 10, 8, 78, 78, 4, 3>>, -1>>, <<<<1, 10, 8, 206, 206, 7, 3>>, 151180>>>>>>),
    GemSong("Flow", "Beat", 15, <<2, 2>>,
      <<<<<<{}, {}, 2, 0, 2>>, <<{}, {}, 3, 1, 0>>, <<{1}, {}, 1, 2, 0>>>>, <<<<{0, 1, 2}, {}, 6, 0, 0>>, <<{1, 2}, {0, 1}, 0, 4, 0>>>>, <<<<{}, {2}, 6, 4, 0>>, <<{}, {0, 2}, 5, 0, 3>>, <<{1, 2}, {0}, 6, 4, 0>>>>, <<<<{0, 1, 2}, {}, 7, 3, 0>>>>>>,
      <<<<<<<<1, 1, 10, 243, 197, 0, 6>>, -1>>, <<<<7, 3, 2, 243, 197, 0, 0>>, -1>>>>, <<<<<<1, 1, 10, 243, 197, 0, 0>>, -1>>, <<<<1, 1, 10, 211, 140, 0, 0>>, 68754>>, <<<<7, 3, 2, 243, 197, 0, 6>>, -1>>>>>>),
    GemSong("Flow", "Rush", 27, <<8, 6>>,
      <<<<<<{}, {}, 1, 0, 0>>, <<{2}, {0}, 6, 1, 0>>>>, <<<<{0}, {1, 2}, 1, 0, 0>>, <<{1, 2}, {}, 7, 0, 1>>>>, <<<<{0, 2}, {0, 2}, 3, 0, 0>>, <<{1}, {}, 8, 0, 1>>>>, <<<<{2}, {0, 2}, 9, 0, 0>>>>>>,
      <<<<<<<<10, 0, 1, 308, 66, 5, 3>>, 64977>>, <<<<10, 0, 1, 308, 66, 0, 5>>, 142249>>, <<<<10, 0, 1, 396, 199, 5, 3>>, -1>>>>, <<<<<<10, 9, 9, 396, 199, 5, 3>>, 95680>>, <<<<10, 9, 9, 308, 66, 5, 3>>, -1>>>>>>)}

PoolEnded ==
    /\ ram = {3} /\ tracker = FALSE /\ budget = Peak /\ at = "ended"
    /\ pending = {} /\ candidate = Nobody /\ inFlight = {} /\ admitted = 0 /\ built = Builds /\ failed = {}
    /\ outcome = [b \in Builds |-> "ok"]
    /\ generation = {} /\ broken = FALSE /\ tokens = 0 /\ spawned = 0 /\ doing = <<>> /\ queue = <<>> /\ reader = Nobody
    /\ suspended = <<>> /\ polls = 0 /\ deaths = 0

\* The build is over when a row of it is traced.
ForgetBuild ==
    /\ song' = NoSong /\ chart' = ChartOf(NoSong) /\ tables' = <<>> /\ canon' = <<>> /\ found' = <<>> /\ nextGroup' = 1
    /\ state' = Start
    /\ UNCHANGED <<admitting, building, reducing, finished, reserved, cores, current, ends, reach, width, queues, tails, heads>>

Idle == song = NoSong /\ gemSong = NoGemSong

Init ==
    /\ ProducerInit /\ TraceInit /\ GameInit
    /\ GemInit /\ (gemSong = NoGemSong \/ song = NoSong)
    /\ IF Idle THEN PrebuildInit ELSE PoolEnded

Next ==
    \/ PrebuildNext /\ UNCHANGED <<producerVars, traceVars, gameVars, gemVars>>
    \/ ProducerNext /\ UNCHANGED <<prebuildVars, traceVars, gameVars, gemVars>>
    \/ ReconstructRow /\ ForgetBuild /\ UNCHANGED <<prebuildVars, gameVars, gemVars>>
    \/ TraceNext /\ UNCHANGED <<prebuildVars, producerVars, gameVars, gemVars>>
    \/ GameNext /\ UNCHANGED <<prebuildVars, producerVars, gemVars>>
    \/ GemNext /\ UNCHANGED <<prebuildVars, producerVars, traceVars, gameVars>>

Spec == Init /\ [][Next]_<<prebuildVars, producerVars, traceVars, gameVars, gemVars>> /\ PrebuildFairness
=============================================================================
