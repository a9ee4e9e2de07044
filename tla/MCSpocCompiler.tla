--------------------------- MODULE MCSpocCompiler ---------------------------
(* Small registries, SPOCs and requests for SpocCompiler. *)
EXTENDS SpocCompiler

Capability(id, aliases, requires, risk, minimum) ==
  [valid |-> TRUE, id |-> id, aliases |-> aliases, requires |-> requires,
   risk |-> risk, minimum |-> minimum]

Low   == Capability("low", {"small"}, {}, "low", Nothing)
Needy == Capability("low", {"small"}, {"twin", "other"}, "low", Nothing)
Other == Capability("other", {}, {"small"}, "low", 3)
High  == Capability("high", {"twin"}, {}, "high", 3)

\* Without and with (cyclic) dependencies, and one that repeats an id.
SmallCatalogs == {<<Low, Other, High>>, <<Needy, Other, High>>, <<Low, Low>>}
\* The file may redirect an alias, to an alias too.
SmallAliasFiles == {<<>>, [twin |-> "small"]}

Worker(id, status, claims, classes, tools, minRate) ==
  [valid |-> TRUE, id |-> id, status |-> status, claims |-> claims, classes |-> classes,
   tools |-> tools, minRate |-> minRate, profile |-> id # 2]

All    == Worker(1, "active", [low |-> 4, other |-> 4, high |-> 4], {"internal"}, {"t"}, 9)
Lone   == Worker(2, "active", [low |-> 5], {"internal", "confidential"}, {}, Nothing)
Pair   == Worker(3, "active", [other |-> 3, high |-> 3], {"internal", "confidential"}, {"t"}, 8)
Weak   == Worker(4, "active", [low |-> 5, other |-> 2, high |-> 2], {"internal", "confidential"}, {"t"}, 5)
Draft  == Worker(5, "draft", [low |-> 5, other |-> 5, high |-> 5], {"internal", "confidential"}, {"t"}, 9)
Lost   == Worker(6, "active", [ghost |-> 5], {"internal"}, {}, 9)
ByName == Worker(7, "active", [low |-> 4, other |-> 4, twin |-> 5], {"internal", "confidential"}, {}, 9)

SmallAgentFiles ==
  {<<All, Lone, Pair, Draft>>, <<Lone, Pair, Weak>>, <<Weak, Draft, ByName>>, <<All, Lost>>}

Flow1 == [valid |-> TRUE, id |-> "wf", version |-> 1, modes |-> {"atomic"}]
SmallWorkflowFiles == {<<Flow1>>}

\* One dependency; three of the SPOCs are versions of one.
SmallBlocks == [dep1 |-> {"SPOC-3"}]

Spoc(id, content, declared, explicit, inference, class, inputs) ==
  [id |-> id, content |-> content, declared |-> declared, workflow |-> <<"wf", 1>>, mode |-> "atomic",
   explicit |-> explicit, inference |-> inference, class |-> class, prohibited |-> FALSE,
   inputs |-> inputs]

SmallSpocs ==
  {Spoc("SPOC-1", 11, Nothing, {"small"}, FALSE, "confidential", <<"h1", "h2">>),
   Spoc("SPOC-1", 12, Nothing, {"small", "twin"}, FALSE, "confidential", <<"h2", "h1">>),
   Spoc("SPOC-1", 13, 11, {"other"}, TRUE, "internal", <<"h1", "h2">>),
   Spoc("SPOC-3", 14, Nothing, {"twin"}, TRUE, "internal", <<>>),
   [Spoc("SPOC-4", 15, Nothing, {"low"}, TRUE, "internal", <<>>) EXCEPT !.workflow = <<"wf", 2>>]}

SmallProposals == {<<>>, <<"low", "ghost">>, <<"twin">>, <<"small", "high", "other">>}

Request(explicit, class, excluded, tools, rates, costs, budget) ==
  [explicit |-> explicit, class |-> class, excluded |-> excluded, tools |-> tools,
   rates |-> rates, unavailable |-> {2}, costs |-> costs, budget |-> budget]

SmallRequests ==
  {Request({"low", "high"}, class, excluded, tools, (1 :> rate) @@ (3 :> 8),
           (1 :> 4) @@ (3 :> 2), budget) :
     class \in {"internal", "confidential"}, excluded \in {{}, {1}}, tools \in {{}, {"t"}},
     rate \in {7, 9}, budget \in {Nothing, 3, 6}}

=============================================================================
