---------------------------- MODULE KnowledgeGraph ----------------------------
(***************************************************************************)
(* What is computed from a project's documents: the linter and the         *)
(* cross-reference validator (schemas/) and the graph                      *)
(* (knowledge_graph/graph_generator.py).                                   *)
(*                                                                         *)
(* A document is its front matter: identifier, type, classification, typed *)
(* links and whether the other mandatory fields are there; "" is an absent *)
(* field.  A tree t maps files to documents; files are numbered in the     *)
(* order of their paths.  The target of a link to an events file is its    *)
(* base name.                                                              *)
(***************************************************************************)
EXTENDS Integers, FiniteSets, FiniteSetsExt

CONSTANTS
  Dir,                   \* sequence: the directory of each file
  LeafDir, LeafName,     \* events.jsonl file -> its directory, its base name
  Gone, Broken           \* no file; one without readable front matter

Files == DOMAIN Dir

OkfTypes == {"concept", "architecture_decision", "requirement", "user_story", "epic",
             "test_case", "test_result", "spoc", "decision", "risk", "issue", "dependency",
             "deliverable", "acceptance", "status_report", "run_summary"}

\* style_config.yaml.
Styled == OkfTypes \cup {"agent", "capability", "raw_event"}

Link(type, target) == [type |-> type, target |-> target]

Doc(id, type, links) ==
  [id |-> id, type |-> type, class |-> "internal", links |-> links, complete |-> TRUE]

\* What intake and planning write; the charter stands for all that have no links.
ProjectIntake == Doc("CHARTER", "concept", {})

PlanningBaseline ==
  <<Doc("EPIC-001", "epic", {}),
    Doc("TC-001", "test_case", {Link("validates", "US-001")}),
    Doc("US-001", "user_story", {Link("part_of", "EPIC-001"), Link("tested_by", "TC-001")})>>

\* The summary of a run leaves out some of the mandatory fields.
RunSummary(run, spoc) ==
  [Doc(run, "run_summary", {Link("generated_by", spoc), Link("evidenced_by", "events.jsonl")})
     EXCEPT !.complete = FALSE]

-----------------------------------------------------------------------------

Existing(t) == {f \in Files : t[f] # Gone}
Parsed(t)   == {f \in Existing(t) : t[f] # Broken}
Named(t)    == {f \in Parsed(t) : t[f].id # ""}

LintDocument(d) ==
  /\ d.complete /\ d.id # "" /\ d.type \in OkfTypes /\ d.class # ""
  /\ d.type = "user_story" => \E l \in d.links : l.type = "tested_by"

LintDirectory(t) ==
  /\ Existing(t) = Parsed(t)
  /\ \A f \in Parsed(t) : LintDocument(t[f])
  /\ \A f, g \in Named(t) : t[f].id = t[g].id => f = g

RelationTargetTypes ==
  [validates    |-> {"requirement", "user_story", "spoc"},
   produces     |-> {"test_result", "deliverable"},
   generated_by |-> {"run_summary", "spoc"},
   evidenced_by |-> {"run_summary", "test_result"},
   part_of      |-> {"epic"},
   tested_by    |-> {"test_case"}]

\* build_id_index: the last file with an identifier holds it.
Holders(t, id) == {f \in Named(t) : t[f].id = id}

Compatible(t, l) ==
  l.type \in DOMAIN RelationTargetTypes =>
    t[Max(Holders(t, l.target))].type \in RelationTargetTypes[l.type]

\* Slip: a link that does not resolve is left to somebody else.
ValidateResolved(t) ==
  \A f \in Parsed(t) : \A l \in t[f].links :
    l.target # "" /\ Holders(t, l.target) # {} => Compatible(t, l)

ValidateCrossReferences(t) ==
  \A f \in Parsed(t) : \A l \in t[f].links :
    l.target # "" => Holders(t, l.target) # {} /\ Compatible(t, l)

\* project validate, in full mode.
ProjectValidate(t) == LintDirectory(t) /\ ValidateCrossReferences(t)

-----------------------------------------------------------------------------

ClassOf(d) == IF d.class = "" THEN "internal" ELSE d.class

\* The first walk: a node per file that has an identifier, and one per leaf.
NodesOf(t, leaves) ==
  {[id |-> t[f].id, type |-> t[f].type, class |-> ClassOf(t[f]), file |-> f] : f \in Named(t)}
    \cup {[id |-> l, type |-> "raw_event", class |-> "internal", file |-> 0] : l \in leaves}

Ids(nodes)      == {n.id : n \in nodes}
LeavesOf(nodes) == {n.id : n \in {m \in nodes : m.file = 0}}

UnknownTypes(nodes) == {n.type : n \in nodes} \ Styled

\* Beside the source first; then the only leaf of that name.
ResolveEvidenceRef(directory, target, leaves) ==
  LET namesakes == {l \in leaves : LeafName[l] = target}
      beside    == {l \in namesakes : LeafDir[l] = directory}
  IN  IF beside # {} THEN beside
      ELSE IF Cardinality(namesakes) = 1 THEN namesakes ELSE {}

\* Slip: what is evidence need not resolve.
EndsOfTrusted(f, l, nodes) ==
  IF l.target \in Ids(nodes) \/ l.type \in {"generated_by", "evidenced_by"} THEN {l.target} ELSE {}

\* What a link of file f leads to: one node, or none.
EndsOf(f, l, nodes) ==
  IF l.target \in Ids(nodes) THEN {l.target}
  ELSE IF l.type \in {"generated_by", "evidenced_by"}
       THEN ResolveEvidenceRef(Dir[f], l.target, LeavesOf(nodes))
       ELSE {}

\* The second walk: the edges, and whether a link dangles.
EdgesOf(t, nodes) ==
  UNION {UNION {{[type |-> l.type, source |-> t[f].id, target |-> e] : e \in EndsOf(f, l, nodes)}
                : l \in t[f].links} : f \in Named(t)}

Dangles(t, nodes) ==
  \E f \in Named(t) : \E l \in t[f].links : l.target # "" /\ EndsOf(f, l, nodes) = {}

\* build_and_validate of a tree that holds still.
Builds(t, leaves) ==
  LET nodes == NodesOf(t, leaves)
  IN  UnknownTypes(nodes) = {} /\ ~Dangles(t, nodes)

=============================================================================
