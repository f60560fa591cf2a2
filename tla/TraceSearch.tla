----------------------------- MODULE TraceSearch -----------------------------
(***************************************************************************)
(* The trace of a response surface (trace/reconstruct.py): a depth-first    *)
(* search over the sections of a geometry for some whose edges add up to    *)
(* the surface and that a play can reach (trace/activation_witness.py).     *)
(* The options of a section start are tried in one fixed order.             *)
(***************************************************************************)
EXTENDS TraceSections

VARIABLES
    problem,    \* the context of its sections, <<>> before the search
    wanted,     \* the surface
    stack,      \* the calls of _search: [at, left, options], the innermost last
    memo,       \* the calls that found nothing
    answer,     \* what the innermost call has just returned: <<>> while one runs, else <<a trace or NoTrace>>
    traced      \* what the search returned, <<>> before

traceVars == <<problem, wanted, stack, memo, answer, traced>>

(***************************************************************************)
(* The witness of a section's activation: a hit that ends the fever where   *)
(* the section says, in the middle of those that do, with the notes before  *)
(* it played first and in chart order on every lane.                        *)
(***************************************************************************)
IsEarlyExit(s) == s.end < s.family.base
HitWindow(x, s) ==
    LET f == s.family
        c == x.c
        target == Least(s.end, f.base)
        lowest == IF f.own THEN c.lf[f.act]
                  ELSE IF IsEarlyExit(s) THEN c.pf[f.act] ELSE Least(c.ts[f.act], c.pc[f.act])
        ceiling == IF IsEarlyExit(s) THEN c.ec ELSE c.pf
    IN  <<IF target <= f.act + 1 THEN lowest ELSE Most(lowest, c.pf[target - 1] - x.rt + 1),
          IF target >= c.n THEN f.hit ELSE Least(f.hit, ceiling[target] - x.rt)>>
Centered(window) == (window[1] + window[2]) \div 2

\* A note's bands under its label: a Great is early or late, never between, unless hits are fixed.
BandsOf(c, j, great) ==
    IF great /\ c.pc # c.ts THEN {<<c.early[j], c.open[j] - MS>>, <<c.lf[j], c.gc[j]>>} ELSE {<<c.open[j], c.pc[j]>>}
\* Later than every hit.
Unplayed == 1000000
EarliestHit(bands, floor) == Min({Unplayed} \cup {Most(floor, b[1]) : b \in {b \in bands : floor <= b[2]}})

\* The head is hit in chart order from the clock, then every lane by itself, each note as early as it can be.
PrefixHits(c, bands, start, a, clock) ==
    LET head == Most(start, Least(a, HeadLen))
        Earlier(j) == {i \in start..(j - 1) : i < head \/ c.lane[i] = c.lane[j]}
        hit[j \in start..(a - 1)] == EarliestHit(bands[j], IF Earlier(j) = {} THEN clock ELSE hit[Max(Earlier(j))])
    IN  hit

PrefixOrder(c, bands, start, a, hit, clock) ==
    /\ \A j \in start..(a - 1) : \E b \in bands[j] : b[1] <= hit
    /\ \A j \in (a + 1)..(c.n - 1) : \E b \in bands[j] : b[2] >= hit
    /\ \A j \in start..(a - 1) : PrefixHits(c, bands, start, a, clock)[j] <= hit

\* The notes before the activation in input order: by hit, the first lane of the section first.
PreactivationOrder(c, bands, start, a, clock) ==
    LET hits == PrefixHits(c, bands, start, a, clock)
        Rank(j) == Min({i \in start..(c.n - 1) : c.lane[i] = c.lane[j]})
        Ahead(i, j) ==
            IF i < HeadLen \/ j < HeadLen THEN i < j
            ELSE \/ hits[i] < hits[j]
                 \/ (hits[i] = hits[j] /\ (Rank(i) < Rank(j) \/ (Rank(i) = Rank(j) /\ i < j)))
        notes == start..(a - 1)
    IN  [i \in 1..(a - start) |-> CHOOSE j \in notes : Cardinality({k \in notes : Ahead(k, j)}) = i - 1]

SectionBands(x, s) ==
    [j \in DOMAIN x.c.ts |-> BandsOf(x.c, j, InRun(j, s.family.gs, s.family.ge) \/ (s.family.own /\ j = s.family.act))]
SectionClock(x, s) == IF s.start = 0 THEN -Unplayed ELSE x.c.pf[s.start - 1]
SectionOrder(x, s) == PreactivationOrder(x.c, SectionBands(x, s), s.start, s.family.act, SectionClock(x, s))

Witnessed(x, s) ==
    LET f == s.family
        c == x.c
        window == HitWindow(x, s)
        hit == Centered(window)
        IsGreat(j) == InRun(j, f.gs, f.ge) \/ (f.own /\ j = f.act)
        bands == SectionBands(x, s)
        fill == 2 * (f.act - s.start) - Cardinality({j \in s.start..(f.act - 1) : InRun(j, f.gs, f.ge)})
        clock == SectionClock(x, s)
    IN  /\ window[1] <= window[2]
        /\ fill < x.d /\ x.d <= fill + (IF IsGreat(f.act) THEN 1 ELSE 2)
        /\ clock <= hit
        /\ \E b \in bands[f.act] : b[1] <= hit /\ hit <= b[2]
        /\ PrefixOrder(c, bands, s.start, f.act, hit, clock)

(***************************************************************************)
(* The search.  A surface is kept as the edges are: masks, and the counts   *)
(* of the body's notes in fever, Greats and Greats in fever.                *)
(***************************************************************************)
EdgeOfSurface(s) == [F |-> s.F, G |-> s.G, b |-> s.b, g |-> s.n + s.q, q |-> s.q]
Nothing == EdgeOfSurface(Zero)

EdgeFits(edge, left) == edge.F \subseteq left.F /\ edge.G \subseteq left.G /\ edge.b <= left.b /\ edge.g <= left.g /\ edge.q <= left.q
SubtractEdge(left, edge) ==
    [F |-> left.F \ edge.F, G |-> left.G \ edge.G, b |-> left.b - edge.b, g |-> left.g - edge.g, q |-> left.q - edge.q]

FittingEdges(x, at, left) == {s \in TraceSections(x, at = -1, at) : EdgeFits(EdgeOfSurface(s.edge), left)}

\* Mutant: the note the next section starts at is taken for one it cannot play.
CannotEndAfter(x, end, left) == end >= x.c.n \/ \E i \in left.F \cup left.G : i <= end + 1

\* No section after `end` takes a head note up to it.
CannotEnd(x, end, left) == end >= x.c.n \/ \E i \in left.F \cup left.G : i <= end

\* What a call returns: the sections of a trace, or that there is none.
TraceOf(sections) == [found |-> TRUE, sections |-> sections]
NoTrace == [found |-> FALSE, sections |-> <<>>]

TraceInit ==
    /\ problem = <<>> /\ wanted = Zero /\ stack = <<>> /\ memo = {} /\ answer = <<>> /\ traced = <<>>

Call(x, at, left) == [at |-> at, left |-> left, options |-> FittingEdges(x, at, left)]

BeginTrace(x, surface) ==
    /\ problem' = x /\ wanted' = surface
    /\ IF surface = Zero
       THEN traced' = <<TraceOf(<<>>)>> /\ stack' = <<>>
       ELSE traced' = <<>> /\ stack' = <<Call(x, -1, EdgeOfSurface(surface))>>
    /\ memo' = {} /\ answer' = <<>>

Top == stack[Len(stack)]
Option == CHOOSE s \in Top.options : TRUE
Left == SubtractEdge(Top.left, EdgeOfSurface(Option.edge))
Popped == SubSeq(stack, 1, Len(stack) - 1)
Dropped == [stack EXCEPT ![Len(stack)].options = @ \ {Option}]

\* Mutant: a trace ends when the head notes are taken.
TryOptionOfHead ==
    /\ stack # <<>> /\ answer = <<>> /\ Top.options # {}
    /\ IF Left.F = {} /\ Left.G = {} THEN answer' = <<TraceOf(<<>>)>> /\ UNCHANGED stack
       ELSE IF CannotEnd(problem, Option.end, Left) \/ <<Option.end, Left>> \in memo
            THEN stack' = Dropped /\ UNCHANGED answer
       ELSE stack' = Append(stack, Call(problem, Option.end, Left)) /\ UNCHANGED answer
    /\ UNCHANGED <<problem, wanted, memo, traced>>

\* The option ends the trace, cannot be continued, is known to fail, or is continued.
TryOption ==
    /\ stack # <<>> /\ answer = <<>> /\ Top.options # {}
    /\ IF Left = Nothing THEN answer' = <<TraceOf(<<>>)>> /\ UNCHANGED stack
       ELSE IF CannotEnd(problem, Option.end, Left) \/ <<Option.end, Left>> \in memo
            THEN stack' = Dropped /\ UNCHANGED answer
       ELSE stack' = Append(stack, Call(problem, Option.end, Left)) /\ UNCHANGED answer
    /\ UNCHANGED <<problem, wanted, memo, traced>>

\* The rest of the trace is known: the section is stored, unless no hit plays it.
StoreSection ==
    /\ stack # <<>> /\ answer # <<>>
    /\ IF answer = <<NoTrace>> \/ ~Witnessed(problem, Option)
       THEN stack' = Dropped /\ answer' = <<>> /\ UNCHANGED traced
       ELSE LET trace == TraceOf(<<Option>> \o answer[1].sections) IN
            /\ stack' = Popped
            /\ IF Len(stack) = 1 THEN traced' = <<trace>> /\ answer' = <<>> ELSE answer' = <<trace>> /\ UNCHANGED traced
    /\ UNCHANGED <<problem, wanted, memo>>

Exhausted ==
    /\ stack # <<>> /\ answer = <<>> /\ Top.options = {}
    /\ memo' = memo \cup {<<Top.at, Top.left>>}
    /\ stack' = Popped
    /\ IF Len(stack) = 1 THEN traced' = <<NoTrace>> /\ UNCHANGED answer ELSE answer' = <<NoTrace>> /\ UNCHANGED traced
    /\ UNCHANGED <<problem, wanted>>

TraceNext == TryOption \/ StoreSection \/ Exhausted

(***************************************************************************)
(* Properties.                                                              *)
(***************************************************************************)
\* Every surface that some sections a play can reach add up to, from each note that ends a fever.
WitnessedFrom(x) ==
    LET plays[at \in -1..x.c.n] ==
            IF at = x.c.n THEN {Zero}
            ELSE (IF at = -1 THEN {} ELSE {Zero})
                 \cup UNION {{Join(s.edge, t) : t \in plays[s.end]} : s \in {s \in TraceSections(x, at = -1, at) : Witnessed(x, s)}}
    IN  plays
WitnessedPlays(x) == WitnessedFrom(x)[-1]

(* The search gives a row up only if no sections a play can reach add up to it: neither the order it tries them in, *)
(* nor the memo of failed calls, nor the test for head notes that are left behind loses a trace.                    *)
SearchIsComplete == traced = <<NoTrace>> => wanted \notin WitnessedPlays(problem)

\* What is left of a surface after each of its sections.
LeftAfter(surface, sections) ==
    LET left[i \in 0..Len(sections)] ==
            IF i = 0 THEN EdgeOfSurface(surface) ELSE SubtractEdge(left[i - 1], EdgeOfSurface(sections[i].edge))
    IN  left

(* A trace is a play of its row: each section starts where the fever before it ended, can be played, and takes of the *)
(* surface what is still there; in the end nothing is left, whatever options were stored, dropped and tried again on  *)
(* the way (trace/reconstruct.py _search).                                                                           *)
TracesAddUp ==
    traced # <<>> /\ traced # <<NoTrace>> =>
        LET sections == traced[1].sections
            left == LeftAfter(wanted, sections)
        IN  /\ left[Len(sections)] = Nothing
            /\ \A i \in 1..Len(sections) :
                  /\ sections[i] \in FittingEdges(problem, IF i = 1 THEN -1 ELSE sections[i - 1].end, left[i - 1])
                  /\ Witnessed(problem, sections[i])

(* The search of a row answers with a play of the row, and with no trace only if the row has none: a section that is  *)
(* tried, stored, dropped and tried again costs no play and leaves no piece of a dropped one behind.                  *)
SearchIsExact == SearchIsComplete /\ TracesAddUp
=============================================================================
