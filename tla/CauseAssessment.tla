--------------------------- MODULE CauseAssessment ---------------------------
(***************************************************************************)
(* How the candidate root causes of one incident are scored and ranked     *)
(* (causality_engine), how the leading one is tested by removing evidence  *)
(* (counterfactual_analysis_service) and how strong the case for it is     *)
(* called (root_cause_evidence_strength_service).                          *)
(*                                                                         *)
(* Scores are thousandths, times are hours.  What a file says is a set of  *)
(* marks: those its events carry once it is parsed, those its detections   *)
(* and their exposure facts carry once it is searched.  A signal asks for  *)
(* marks, for their absence, for a number of detections or for a time.     *)
(***************************************************************************)
EXTENDS Integers, FiniteSets, FiniteSetsExt

CONSTANTS
  Files,         \* evidence files, numbered in the order of their ids
  TypeOf,        \* file -> evidence type, which is a mark too
  EventMarks,    \* file -> marks of its events
  FindingMarks,  \* file -> marks of its detections, {} when it holds none
  Findings,      \* file -> number of its detections
  TimeOf,        \* file -> time of its events
  Causes,        \* candidate causes, numbered in the order of their names
  Rule,          \* cause -> [signals, boosts, required, cap, only]
  Penalty,       \* evidence type -> what its absence costs
  TopN,          \* causes kept by a ranking
  Known,         \* what is known of the incident: "service", "endpoint", "time"
  Limits,        \* evidence limits a request may ask for
  MaxAnalyses,   \* bound on analyses
  MaxStudies     \* bound on stored counterfactual analyses

VARIABLES
  linked,        \* files linked to the incident
  parsed,        \* those with normalised events
  detected,      \* those with detections
  stored,        \* current analysis: its causes, leader, score and contradictions
  studies        \* stored counterfactual analyses

vars == <<linked, parsed, detected, stored, studies>>

Retest    == {"fixed_log", "fixed_scan"}
Symptoms  == {"api_log", "runtime_log", "siem_alert"}
Technical == {"deployment_log", "semgrep_report", "cicd"}

-----------------------------------------------------------------------------
(* Evidence context *)

\* What the scoring reads: everything parsed or searched, but for what is left out.
Without(E) == [parsed |-> parsed \ E, detected |-> detected \ E]
Reading    == Without({})

Marks(ctx, e) ==
  {TypeOf[e]} \cup (IF e \in ctx.parsed THEN EventMarks[e] ELSE {})
              \cup (IF e \in ctx.detected THEN FindingMarks[e] ELSE {})

Times(ctx) == {TimeOf[e] : e \in ctx.parsed}
First(ctx) == Min(Times(ctx))

Carrying(ctx, marks) == {e \in ctx.parsed : Marks(ctx, e) \cap marks # {}}

\* The files behind a signal.  "release" is a deployment no later than the first event,
\* which the earliest event always is itself.
Backing(ctx, s) ==
  CASE s.kind = "has"   -> Carrying(ctx, s.of)
    [] s.kind = "lacks" -> {}
    [] s.kind = "count" ->
         IF MapThenSumSet(LAMBDA e : Findings[e], ctx.detected) >= s.least
           THEN ctx.detected ELSE {}
    [] s.kind = "near"  ->
         {e \in Carrying(ctx, s.of) : TimeOf[e] - First(ctx) <= s.within}
    [] s.kind = "release" ->
         LET early == {e \in Carrying(ctx, s.of) : TimeOf[e] <= First(ctx)}
         IN  IF early = {} THEN {} ELSE {Min(early)}

Matches(ctx, s) ==
  IF s.kind = "lacks" THEN Carrying(ctx, s.of) = {} ELSE Backing(ctx, s) # {}

AllRetest(E) == E # {} /\ \A e \in E : TypeOf[e] \in Retest
RetestOnly(ctx, s) == AllRetest(Backing(ctx, s))

-----------------------------------------------------------------------------
(* Score of one candidate cause *)

Counting(ctx, c) == {s \in Rule[c].signals : Matches(ctx, s) /\ ~RetestOnly(ctx, s)}
InRole(ctx, c, role) == {s \in Counting(ctx, c) : s.role = role}

\* Ontology categories that an exposure fact corroborates; each counts once.
Boosts(ctx, c) ==
  {b \in Rule[c].boosts : \E e \in ctx.detected : FindingMarks[e] \cap b.of # {}}
BoostFile(ctx, b) == Min({e \in ctx.detected : FindingMarks[e] \cap b.of # {}})

Base(ctx, c) ==
  LET weight(x) == x.weight
  IN  Min({ MapThenSumSet(weight, Counting(ctx, c)) + MapThenSumSet(weight, Boosts(ctx, c)),
            Rule[c].cap })

Contradicting(ctx, c) == UNION {Backing(ctx, s) : s \in InRole(ctx, c, "contradicts")}
Contradictions(ctx, c) ==
  MapThenSumSet(LAMBDA s : Max({1, Cardinality(Backing(ctx, s))}), InRole(ctx, c, "contradicts"))

Supporting(ctx, c) ==
  LET matched == (UNION {Backing(ctx, s) : s \in Counting(ctx, c)})
                   \cup {BoostFile(ctx, b) : b \in Boosts(ctx, c)}
  IN  {e \in matched : TypeOf[e] \notin Retest} \ Contradicting(ctx, c)

Missing(ctx, c) ==
  MapThenSumSet(LAMBDA t : Penalty[t], Rule[c].required \ {TypeOf[e] : e \in ctx.parsed})
    + (IF ctx.parsed # {} /\ Max(Times(ctx)) - First(ctx) > 48 THEN 100 ELSE 0)

SingleSourceCap(ctx, c, score) ==
  IF Cardinality(Supporting(ctx, c)) <= 1 /\ Base(ctx, c) > 0 THEN Min({score, 740}) ELSE score

SupportingOnlyCap(c, score) == IF Rule[c].only THEN Min({score, 440}) ELSE score

Score(ctx, c) ==
  LET capped == SupportingOnlyCap(c, SingleSourceCap(ctx, c, Base(ctx, c) - Missing(ctx, c)))
  IN  Max({0, Min({1000, capped})})

Band(score) == CASE score >= 750 -> "high"
                 [] score >= 450 /\ score <= 740 -> "medium"
                 [] OTHER -> "low"

-----------------------------------------------------------------------------
(* Ranking *)

\* A supporting-only cause is worth nothing without a signal.
Points(ctx) ==
  [c \in Causes |->
     IF Rule[c].only /\ \A s \in Rule[c].signals : ~Matches(ctx, s) THEN 0 ELSE Score(ctx, c)]

Scored(points) == {c \in Causes : points[c] > 0}

\* More points, or as many and the earlier name.
Better(points, a, b) == points[a] > points[b] \/ (points[a] = points[b] /\ a < b)

\* A supporting-only cause would lead, so it goes behind every other cause.
Demoted(points) ==
  \E c \in Scored(points) :
     Rule[c].only /\ \A a \in Scored(points) \ {c} : Better(points, c, a)

Ahead(points, demoted, a, b) ==
  IF demoted /\ Rule[a].only # Rule[b].only THEN Rule[b].only ELSE Better(points, a, b)

\* Ranks from 1, without the causes cut off.
Ranks(points, demoted) ==
  LET rank(c) == 1 + Cardinality({a \in Scored(points) \ {c} : Ahead(points, demoted, a, c)})
  IN  [c \in {d \in Scored(points) : rank(d) <= TopN} |-> rank(c)]

RankBy(points) == Ranks(points, Demoted(points))
Ranking(ctx)   == RankBy(Points(ctx))

\* 0 for a cause that is not ranked.
RankIn(ranks, c) == IF c \in DOMAIN ranks THEN ranks[c] ELSE 0
RankOf(ctx, c)   == RankIn(Ranking(ctx), c)

-----------------------------------------------------------------------------
(* Counterfactual tests: how much depends on one file *)

\* Files of the positive signals and the boosts; neither contradicting nor retest.
Tested(ctx, c) ==
  LET matched == (UNION {Backing(ctx, s) : s \in InRole(ctx, c, "supports")})
                   \cup {BoostFile(ctx, b) : b \in Boosts(ctx, c)}
  IN  {e \in matched : TypeOf[e] \notin Retest} \ Contradicting(ctx, c)

\* The first limit files: supporting ones, then contradicting ones, then the others.
InOrder(tested, contra, others, limit) ==
  LET ahead(e) == IF e \in tested THEN {d \in tested : d < e}
                  ELSE IF e \in contra THEN tested \cup {d \in contra : d < e}
                  ELSE tested \cup contra \cup {d \in others : d < e}
  IN  {e \in tested \cup contra \cup others : Cardinality(ahead(e)) < limit}
Considered(ctx, c, limit) ==
  InOrder(Tested(ctx, c), Contradicting(ctx, c),
          {e \in linked : TypeOf[e] \notin Retest} \ (Tested(ctx, c) \cup Contradicting(ctx, c)),
          limit)

\* What is lost without one file: points, and the rank.
Change(c, e) == Score(Reading, c) - Score(Without({e}), c)
Moved(c, e)  == RankOf(Without({e}), c) # RankOf(Reading, c)
Lost(c, tested) == [e \in tested |-> [points |-> Change(c, e), moved |-> Moved(c, e)]]

Stability(lost) ==
  CASE DOMAIN lost = {} -> "insufficient_evidence"
    [] \E e \in DOMAIN lost : lost[e].points >= 200 \/ lost[e].moved -> "fragile"
    [] OTHER -> IF \E e \in DOMAIN lost : lost[e].points >= 50
                  THEN "moderately_stable" ELSE "stable"

StillFirst(c, E) == RankOf(Without(E), c) = 1

\* Fault: each file is tried alone.
GreedyOneByOne(c, lost) == {e \in DOMAIN lost : ~StillFirst(c, {e})}

\* Leave out one file after the other, those that matter least first, while the cause
\* stays first with what remains.
Greedy(c, lost) ==
  LET less(a, b) == lost[a].points < lost[b].points \/ (lost[a].points = lost[b].points /\ a < b)
      turn(n) == {e \in DOMAIN lost : Cardinality({d \in DOMAIN lost : less(d, e)}) = n - 1}
      out[n \in 0..Cardinality(DOMAIN lost)] ==
        IF n = 0 THEN {}
        ELSE IF StillFirst(c, out[n - 1] \cup turn(n)) THEN out[n - 1] \cup turn(n) ELSE out[n - 1]
  IN  DOMAIN lost \ out[Cardinality(DOMAIN lost)]

\* A minimal set is looked for when the cause leads and no supporting file is cut off.
Searched(c, tested) ==
  RankOf(Reading, c) = 1 /\ tested # {} /\ tested = Tested(Reading, c)

\* The fingerprint under which a request is the same as an earlier one.
Fingerprint(c, limit) ==
  [ row |-> <<stored.version, c>>, score |-> Score(Reading, c), rank |-> RankOf(Reading, c),
    signals |-> {<<s, Backing(Reading, s)>> : s \in InRole(Reading, c, "supports")},
    contradicting |-> Contradicting(Reading, c), considered |-> Considered(Reading, c, limit) ]

Study(print, c, lost, searched) ==
  [ print |-> print, cause |-> c, tested |-> DOMAIN lost, on |-> Reading,
    stability |-> Stability(lost), searched |-> searched,
    minimal |-> IF searched THEN Greedy(c, lost) ELSE {} ]

-----------------------------------------------------------------------------
(* Evidence strength *)

SymptomCount ==
  MapThenSumSet(LAMBDA e : Findings[e], detected) + Cardinality({e \in linked : TypeOf[e] \in Symptoms})

TimelineCount == Cardinality(parsed)

TechnicalSources == {TypeOf[e] : e \in {f \in parsed : TypeOf[f] \in Technical}}
TechnicalCount   == Cardinality({e \in parsed : TypeOf[e] \in Technical})

Strength ==
  LET points == (IF SymptomCount > 0 THEN 180 + Min({120, (SymptomCount - 1) * 30}) ELSE 0)
              + (IF TimelineCount > 0 THEN Min({120, 40 + TimelineCount * 15}) ELSE 0)
              + (IF {"service", "endpoint"} \subseteq Known THEN 80 ELSE 0)
              + (IF TechnicalCount > 0 THEN Min({340, 200 + TechnicalCount * 35}) ELSE 0)
              - Min({300, stored.contradictions * 100})
              - 80 * Cardinality({"service", "endpoint"} \ Known)
              - (IF "time" \in Known THEN 0 ELSE 60)
  IN  Max({0, Min({1000, points})})

Corroborated ==
  Cardinality(TechnicalSources) >= 2 /\ stored.contradictions = 0
    /\ {"service", "endpoint", "time"} \subseteq Known

ConfidenceCap ==
  LET top == CASE Corroborated -> 920
               [] ~Corroborated /\ TechnicalCount > 0 -> 850
               [] OTHER -> IF SymptomCount >= 2 /\ {"service", "endpoint", "time"} \subseteq Known
                             THEN 720 ELSE 600
      cut == 100 * Cardinality({"service", "endpoint"} \ Known)
           + (IF "time" \in Known THEN 0 ELSE 80) + Min({250, 100 * stored.contradictions})
  IN  Max({200, Min({920, top - cut})})

\* A strength of zero is read as "no strength" and leaves the candidate's own confidence.
CausalConfidence ==
  LET own == IF stored.leader = 0 \/ stored.score = 0 THEN Strength ELSE stored.score
  IN  Min({own, IF Strength = 0 THEN own ELSE Strength, ConfidenceCap})

-----------------------------------------------------------------------------
(* Operations *)

NoAnalysis == [version |-> 0, causes |-> {}, leader |-> 0, score |-> 0, contradictions |-> 0]

Init == /\ linked = {} /\ parsed = {} /\ detected = {}
        /\ stored = NoAnalysis /\ studies = {}

Link(e) ==
  /\ e \notin linked
  /\ linked' = linked \cup {e}
  /\ UNCHANGED <<parsed, detected, stored, studies>>

ParseEvidence(e) ==
  /\ e \in linked \ parsed
  /\ parsed' = parsed \cup {e}
  /\ UNCHANGED <<linked, detected, stored, studies>>

DetectEvidence(e) ==
  /\ e \in parsed \ detected /\ Findings[e] > 0
  /\ detected' = detected \cup {e}
  /\ UNCHANGED <<linked, parsed, stored, studies>>

\* Ranks the causes of what has been found and makes the result the current analysis.
Ranked(rank) ==
  \E lead \in {c \in DOMAIN rank : rank[c] = 1} :
     stored' = [ version |-> stored.version + 1, causes |-> DOMAIN rank,
                 leader |-> lead, score |-> Score(Reading, lead),
                 contradictions |-> Contradictions(Reading, lead) ]
Analyse ==
  /\ detected # {} /\ stored.version < MaxAnalyses
  /\ Ranked(Ranking(Reading))
  /\ UNCHANGED <<linked, parsed, detected, studies>>

\* A counterfactual analysis of a stored cause; a request with a known fingerprint gets
\* the earlier analysis and changes nothing.
Keep(print, c, tested) ==
  /\ \A s \in studies : s.print # print
  /\ studies' = studies \cup {Study(print, c, Lost(c, tested), Searched(c, tested))}
RunAnalysis(c, limit) ==
  /\ c \in stored.causes /\ Cardinality(studies) < MaxStudies
  /\ RankOf(Reading, c) # 0
  /\ Keep(Fingerprint(c, limit), c, Tested(Reading, c) \cap Considered(Reading, c, limit))
  /\ UNCHANGED <<linked, parsed, detected, stored>>

Next == \/ \E e \in Files : Link(e) \/ ParseEvidence(e) \/ DetectEvidence(e)
        \/ Analyse
        \/ \E c \in Causes, limit \in Limits : RunAnalysis(c, limit)

Spec == Init /\ [][Next]_vars

-----------------------------------------------------------------------------
(* Properties *)

TypeOK ==
  /\ detected \subseteq parsed /\ parsed \subseteq linked /\ linked \subseteq Files
  /\ stored.causes \subseteq Causes /\ stored.score \in 0..1000
  /\ \A s \in studies : s.minimal \subseteq s.tested /\ s.tested \subseteq Files

\* A cause that one original file supports is never called high, whatever retest files,
\* contradictions and exposure facts are linked beside it (single_source_cap).
OneSourceNeverHigh ==
  \A c \in Causes : Band(Score(Reading, c)) = "high" =>
     Cardinality({e \in Supporting(Reading, c) : TypeOf[e] \notin Retest}) >= 2

\* The minimal set of a study is enough: on the evidence the study was made on, leaving
\* out every other supporting file keeps the cause first.
MinimalSetIsEnough ==
  \A s \in studies : s.searched =>
     LET E == s.tested \ s.minimal
     IN  RankOf([parsed |-> s.on.parsed \ E, detected |-> s.on.detected \ E], s.cause) = 1

\* Retest evidence never changes the causal record
\* (root_cause_evidence_strength_service.py:8-14).
RetestNeverCounts ==
  [][ (\E e \in Files : stored.version > 0 /\ TypeOf[e] \in Retest /\ (Link(e) \/ ParseEvidence(e) \/ DetectEvidence(e)))
        => Strength' = Strength /\ CausalConfidence' = CausalConfidence ]_vars
=============================================================================
