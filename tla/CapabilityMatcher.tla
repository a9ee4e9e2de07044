-------------------------- MODULE CapabilityMatcher --------------------------
(***************************************************************************)
(* match() of control_plane/capability_matcher.py: hard filters, a         *)
(* weighted score, one primary agent and at most one delegate.             *)
(*                                                                         *)
(* Agent ids are numbers, so that "ascending" is <.  Proficiencies are 0   *)
(* to 5, pass rates tenths, costs integers, and scores are scaled by 1200: *)
(* with at most four capabilities and tools, and a budget that divides 60, *)
(* the weighted sum is an integer and ties are exact.                      *)
(***************************************************************************)
EXTENDS Registries, FiniteSetsExt

Minimum(caps, c) == IF Known(caps, c) THEN Get(caps, c).minimum ELSE Nothing

Satisfies(agent, caps, c) ==
  c \in DOMAIN agent.claims /\ agent.claims[c] >= Minimum(caps, c)

Covered(agent, caps, S) == {c \in S : Satisfies(agent, caps, c)}

Lookup(f, k) == IF k \in DOMAIN f THEN f[k] ELSE Nothing

\* Slip: half of the cost is left out.
AffordableByShare(agent, request) ==
  LET cost == Lookup(request.costs, agent.id)
  IN  request.budget = Nothing \/ cost = Nothing \/ cost <= 2 * request.budget

Affordable(agent, request) ==
  LET cost == Lookup(request.costs, agent.id)
  IN  request.budget = Nothing \/ cost = Nothing \/ cost <= request.budget

FitToRun(agent, request) ==
  /\ agent.id \notin request.excluded
  /\ agent.status = "active"
  /\ evaluate_health(agent, Lookup(request.rates, agent.id))
  /\ Affordable(agent, request)

\* Slip: the classification is not looked at.
PassesUncleared(agent, request, caps, required, full) ==
  /\ FitToRun(agent, request)
  /\ request.tools \subseteq agent.tools
  /\ full => Covered(agent, caps, required) = required

\* _hard_filter_reason, of which only "is there one" matters.
PassesFilters(agent, request, caps, required, full) ==
  /\ FitToRun(agent, request)
  /\ request.class \in agent.classes
  /\ request.tools \subseteq agent.tools
  /\ full => Covered(agent, caps, required) = required

Efficiency(agent, request) ==
  LET cost == Lookup(request.costs, agent.id)
  IN  IF cost = Nothing \/ request.budget \in {Nothing, 0} THEN 60
      ELSE IF cost > request.budget THEN 0
      ELSE 60 - (60 * cost) \div request.budget

\* _score_agent.  What is covered is claimed, and a request lists each tool once.
Score(agent, request, covered) ==
  LET coverage == IF covered = {} THEN 0
                  ELSE (84 * MapThenSumSet(LAMBDA c : agent.claims[c], covered))
                         \div Cardinality(covered)
      quality  == IF agent.minRate = Nothing THEN 120 ELSE 24 * agent.minRate
      tools    == IF request.tools = {} THEN 120
                  ELSE (120 * Cardinality(request.tools \cap agent.tools))
                         \div Cardinality(request.tools)
      model    == IF agent.profile THEN 120 ELSE 60
      present  == IF agent.id \in request.unavailable THEN 0 ELSE 60
  IN  coverage + quality + tools + model + present + Efficiency(agent, request)

\* First in the order of sort(): the higher rank, then the lower agent id.
FirstBy(rank) ==
  CHOOSE a \in DOMAIN rank : \A b \in DOMAIN rank \ {a} :
    rank[a] > rank[b] \/ (rank[a] = rank[b] /\ a.id < b.id)

NoTeam(required, unresolved) ==
  [required |-> required, primary |-> Nothing, delegates |-> {}, unresolved |-> unresolved]

\* The primary is the one that covers most; of the others, the delegate is the first
\* in the same order that covers most of what is left.  Scores stay below 10000.
MatchWithDelegation(request, agents, caps, required) ==
  LET Cov(a)   == Covered(a, caps, required)
      partial  == {a \in agents : PassesFilters(a, request, caps, required, FALSE) /\ Cov(a) # {}}
      rank     == [a \in partial |-> 10000 * Cardinality(Cov(a)) + Score(a, request, Cov(a))]
      primary  == FirstBy(rank)
      left     == required \ Cov(primary)
      helpers  == {a \in partial \ {primary} : Cov(a) \cap left # {}}
      delegate == FirstBy([a \in helpers |->
                             1000000 * Cardinality(Cov(a) \cap left) + rank[a]])
  IN  IF partial = {} THEN NoTeam(required, required)
      ELSE [required   |-> required,
            primary    |-> primary.id,
            delegates  |-> IF helpers = {} THEN {} ELSE {delegate.id},
            unresolved |-> IF helpers = {} THEN left ELSE left \ Cov(delegate)]

MatchByScore(request, agents, caps, required) ==
  LET full == {a \in agents : PassesFilters(a, request, caps, required, TRUE)}
  IN  [required |-> required, primary |-> FirstBy([a \in full |-> Score(a, request, required)]).id,
       delegates |-> {}, unresolved |-> {}]

\* An alias of an alias is known here and in the expansion, which resolve once more.
UnknownCapability(explicit, caps) == \E c \in explicit : ~Known(caps, Resolve(caps, c))

match(request, agents, caps) ==
  LET required == expand_dependencies(caps, {Resolve(caps, c) : c \in request.explicit})
  IN  IF \E a \in agents : PassesFilters(a, request, caps, required, TRUE)
      THEN MatchByScore(request, agents, caps, required)
      ELSE MatchWithDelegation(request, agents, caps, required)

=============================================================================
