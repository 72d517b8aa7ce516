------------------------------- MODULE Finder -------------------------------
(***************************************************************************)
(* The search for one symbol's setups (src/suggestion_engine.rs), as its   *)
(* three callers run it over the same simulated configurations: the        *)
(* scanner keeps the best per side, the capital-fit finder the best of     *)
(* either side, both over the light intervals, and the deep dive builds a  *)
(* block per strategy over all intervals.                                  *)
(*                                                                         *)
(* A search has two passes, because a configuration is scored against      *)
(* every configuration that was tried: collect them all, then score. A     *)
(* configuration is [at, strat, tf, dir, sharpe, floor, regime, stats]: its *)
(* place in the sweep, what was simulated, and in `stats` what             *)
(* build_config_stat makes of its trades, a ConfInput that is still        *)
(* neutral in the fields the second pass fills.                            *)
(***************************************************************************)
EXTENDS Confidence, SeqFilter, FiniteSets

CONSTANTS
    Configs,        \* simulated configurations: one per non-empty trade list
    MaxConfigs,     \* bound: configurations of a symbol
    LightTfs,       \* 15m, 30m, 1h
    ExpectedMax(_), \* best Sharpe that a set of trials shows by luck
    Gate,           \* 50
    MinShortScore, MinShortFloor

ASSUME ConfigAssumption ==
    /\ \A c \in Configs :
          /\ c.stats.n \in Nat /\ {c.stats.exp, c.stats.t12} \subseteq Int
          /\ {"n", "exp", "t12", "dsrOk", "robust", "regime"} \subseteq DOMAIN c.stats
    /\ Gate \in Int

VARIABLES
    pass,     \* "collect", "score", "done"
    tried,    \* every configuration simulated, in the order of the sweep
    next,     \* next candidate of the light search to score
    picked    \* best so far: scanner's "BUY" and "SELL", finder's "FIT"

findVars == <<pass, tried, next, picked>>

Nothing == [score |-> NoScore]
Picks == {"BUY", "SELL", "FIT"}

FindInit ==
    /\ pass = "collect" /\ tried = <<>> /\ next = 1
    /\ picked = [p \in Picks |-> Nothing]

Light == Filter(tried, {c \in Configs : c.tf \in LightTfs})
Trials(configs) == [k \in DOMAIN configs |-> configs[k].sharpe]

\* deflated_sharpe >= 0.5: a single trial must be positive, the best of several
\* must beat what luck shows among them (norm_cdf of 0 falls just under a half).
PassesDsr(c, trials) ==
    c.sharpe > IF Len(trials) = 1 THEN 0 ELSE ExpectedMax(trials)

\* Candidates with enough trades; all of them count as trials.
Candidates(configs) == Filter(configs, {c \in Configs : c.stats.n >= ProvisionalMin})

\* Mutant: the scanner scores with the neutral DSR it had before.
LightInputNeutral(c) == [c.stats EXCEPT !.dsrOk = TRUE]

\* ConfInput of the light search: robustness and regime stay neutral.
LightInput(c) == [c.stats EXCEPT !.dsrOk = PassesDsr(c, Trials(Light))]

LightScore(c) == ConfidenceOf(LightInput(c))

\* One configuration with trades; a sweep yields them in a fixed order.
Collect ==
    /\ pass = "collect"
    /\ Len(tried) < MaxConfigs
    /\ \E c \in Configs :
        /\ \A k \in DOMAIN tried : tried[k].at <= c.at
        /\ tried' = Append(tried, c)
    /\ UNCHANGED <<pass, next, picked>>

CollectDone ==
    /\ pass = "collect"
    /\ pass' = "score"
    /\ UNCHANGED <<tried, next, picked>>

\* Mutant: expectancy does not decide between equal scores.
BeatsByScore(c, best) == best.score = NoScore \/ LightScore(c) > best.score

\* Better than the best so far, by score and then expectancy; the first of equals
\* stays.
Beats(c, best) ==
    \/ best.score = NoScore
    \/ LightScore(c) > best.score
    \/ LightScore(c) = best.score /\ c.stats.exp > best.config.stats.exp

Kept(best, c) ==
    IF LightScore(c) # NoScore /\ LightScore(c) >= Gate /\ Beats(c, best)
    THEN [score |-> LightScore(c), config |-> c,
          shortlist |-> Shortlisted(LightScore(c), c.floor, PassesDsr(c, Trials(Light)),
                                    MinShortScore, MinShortFloor)]
    ELSE best

Side(c) == IF c.dir = "Long" THEN "BUY" ELSE "SELL"

\* gate_and_pick and the second pass of fit_symbol look at one candidate each.
ScoreOne ==
    /\ pass = "score"
    /\ next \in DOMAIN Candidates(Light)
    /\ LET c == Candidates(Light)[next]
       IN  picked' = [p \in Picks |-> IF p \in {Side(c), "FIT"} THEN Kept(picked[p], c)
                                      ELSE picked[p]]
    /\ next' = next + 1
    /\ UNCHANGED <<pass, tried>>

ScoreDone ==
    /\ pass = "score"
    /\ next \notin DOMAIN Candidates(Light)
    /\ pass' = "done"
    /\ UNCHANGED <<tried, next, picked>>

FindNext == Collect \/ CollectDone \/ ScoreOne \/ ScoreDone
FindSpec == FindInit /\ [][FindNext]_findVars

-----------------------------------------------------------------------------
\* The deep dive.

\* Places in `tried` of a strategy's candidates.
GroupOf(strat) ==
    {k \in DOMAIN tried : tried[k].strat = strat /\ tried[k].stats.n >= ProvisionalMin}

\* The R:R configurations of the same strategy, interval and direction.
Neighbours(k) ==
    {j \in GroupOf(tried[k].strat) : tried[j].tf = tried[k].tf /\ tried[j].dir = tried[k].dir}

Positive(ks) == {k \in ks : tried[k].stats.exp > 0}

\* The reliability pre-pass: DSR over all trials, robustness, regime (already
\* judged from the trades' days and held by the configuration).
DeepInput(k) ==
    [tried[k].stats EXCEPT
        !.dsrOk = PassesDsr(tried[k], Trials(tried)),
        !.robust = PositiveShare(Cardinality(Positive(Neighbours(k))), Cardinality(Neighbours(k))),
        !.regime = tried[k].regime]

DeepScore(k) == ConfidenceOf(DeepInput(k))

\* selection_key of a below b's, or equal keys and a before b: no score counts as
\* -1, expectancy breaks ties, max_by returns the last of equals.
RanksBelow(a, b) ==
    LET Key(k) == IF DeepScore(k) = NoScore THEN -1 ELSE DeepScore(k) IN
    \/ Key(a) < Key(b)
    \/ Key(a) = Key(b) /\ tried[a].stats.exp < tried[b].stats.exp
    \/ Key(a) = Key(b) /\ tried[a].stats.exp = tried[b].stats.exp /\ a <= b

BestOf(ks) == CHOOSE b \in ks : \A a \in ks : RanksBelow(a, b)

Verdict(score) ==
    IF score # NoScore /\ score >= 80 THEN "shortlist"
    ELSE IF score # NoScore /\ score >= 60 THEN "watch" ELSE "skip"

\* build_strategy_block: no edge unless some setup is valid, and then the card of
\* the best of ALL of them. `agree` counts intervals over both directions.
Block(strat) ==
    LET group == GroupOf(strat)
        valid == Positive(group)
    IN  IF valid = {} THEN [verdict |-> "no_edge", valid |-> 0, agree |-> 0]
        ELSE [verdict |-> Verdict(DeepScore(BestOf(group))), valid |-> Cardinality(valid),
              agree |-> Cardinality({tried[k].tf : k \in valid}),
              best |-> BestOf(group), score |-> DeepScore(BestOf(group))]

Strategies == {tried[k].strat : k \in DOMAIN tried}

-----------------------------------------------------------------------------
\* A score that reads as an edge is never a selection artifact: whatever the page
\* shows at 60 or more has 50 trades, a positive expectancy and a Sharpe ratio
\* above what luck shows among everything that search tried.
Genuine(c, trials) ==
    c.stats.n >= MinSample /\ c.stats.exp > 0 /\ PassesDsr(c, trials)

GatedEverywhere ==
    pass = "done" =>
        /\ \A p \in Picks : picked[p].score # NoScore /\ picked[p].score > LowBand
                => Genuine(picked[p].config, Trials(Light))
        /\ \A s \in Strategies : Block(s).verdict \in {"watch", "shortlist"}
                => Genuine(tried[Block(s).best], Trials(tried))

\* The scanner's and the finder's pick are what their searches promise: no
\* candidate of the side (of either side) that clears the gate has a higher score,
\* or the same score and a higher expectancy; and a deep dive's block that claims an
\* edge shows a card that has one.
PicksTheBest ==
    pass = "done" =>
        /\ \A p \in Picks, k \in DOMAIN Candidates(Light) :
              LET c == Candidates(Light)[k]
                  score == LightScore(c)
              IN  p \in {Side(c), "FIT"} /\ score # NoScore /\ score >= Gate =>
                      \/ picked[p].score > score
                      \/ picked[p].score = score /\ picked[p].config.stats.exp >= c.stats.exp
        /\ \A s \in Strategies :
              Block(s).verdict # "no_edge" => tried[Block(s).best].stats.exp > 0
=============================================================================
