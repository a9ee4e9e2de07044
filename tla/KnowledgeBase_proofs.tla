------------------------ MODULE KnowledgeBase_proofs ------------------------
(***************************************************************************)
(* Proofs about KnowledgeBase: for any tree of files, any documents people *)
(* write, any number of builds, sessions and askers, and any bounds.       *)
(***************************************************************************)
EXTENDS KnowledgeBase, SequenceTheorems, TLAPS

-----------------------------------------------------------------------------
(* Types                                                                   *)

Written     == Drafts \cup {ProjectIntake} \cup {PlanningBaseline[i] : i \in 1 .. 3}
Identifiers == Leaves \cup {d.id : d \in Written \ {Gone, Broken}}
Messages    == [role : {"user", "assistant"}, asker : Askers, citations : SUBSET Identifiers]
Chats       == [class : {"internal", "confidential"}, messages : Seq(Messages), overlapped : BOOLEAN]
Answers     == [authorized : BOOLEAN, citations : SUBSET Identifiers]
Asks        == [pc : {"idle", "question", "answer"}, session : Sessions \cup {Gone}, answer : Answers]

\* The builds and the tree need no more than their shape.
IsBuild(x) == x \in [pc : {"idle", "link", "open", "fill"}, nodes : {x.nodes}, edges : {x.edges},
                     skewed : BOOLEAN, clean : BOOLEAN]

TreeType ==
  /\ docs = [f \in Files |-> docs[f]]
  /\ \A f \in Files : docs[f] \in Written \cup {Gone}
  /\ leaves \subseteq Leaves
  /\ readable \subseteq Identifiers

BuildType == build = [b \in Builders |-> build[b]] /\ \A b \in Builders : IsBuild(build[b])

TalkType == chat \in [Sessions -> Chats \cup {Gone}] /\ ask \in [Askers -> Asks]

TypeInv == TreeType /\ BuildType /\ TalkType

\* Whoever asks, asks in a session that exists, or in one that was replaced.
SessionsExist == \A a \in Askers : ask[a].session \in Sessions => chat[ask[a].session] # Gone

\* What stands for an expired session is no session.
LEMMA GoneIsGone == Gone \notin Chats /\ Gone \notin Sessions
  BY GoneIsNoSession DEF Chats, Messages, Identifiers, Written

-----------------------------------------------------------------------------
(* The tree and the graph                                                  *)

\* A node is a file that has an identifier, or the events of a run.
LEMMA NodesAre ==
  ASSUME NEW t, NEW ls
  PROVE  /\ \A f \in Named(t) : t[f].id \in Ids(NodesOf(t, ls))
         /\ \A n \in NodesOf(t, ls) :
              \/ \E f \in Named(t) : n.id = t[f].id /\ n.type = t[f].type /\ n.class = ClassOf(t[f])
              \/ n.id \in ls /\ n.type = "raw_event" /\ n.class = "internal"
<1> DEFINE node(f) == [id |-> t[f].id, type |-> t[f].type, class |-> ClassOf(t[f]), file |-> f]
           leaf(l) == [id |-> l, type |-> "raw_event", class |-> "internal", file |-> 0]
<1>1. NodesOf(t, ls) = {node(f) : f \in Named(t)} \cup {leaf(l) : l \in ls}
  BY DEF NodesOf
<1>2. ASSUME NEW f \in Named(t)
      PROVE  t[f].id \in Ids(NodesOf(t, ls))
  <2>1. node(f) \in NodesOf(t, ls) /\ node(f).id = t[f].id
    BY <1>1
  <2> QED
    BY <2>1 DEF Ids
<1>3. ASSUME NEW n \in NodesOf(t, ls)
      PROVE  \/ \E f \in Named(t) : n.id = t[f].id /\ n.type = t[f].type /\ n.class = ClassOf(t[f])
             \/ n.id \in ls /\ n.type = "raw_event" /\ n.class = "internal"
  <2>1. CASE \E f \in Named(t) : n = node(f)
    BY <2>1
  <2>2. CASE \E l \in ls : n = leaf(l)
    BY <2>2
  <2> QED
    BY <1>1, <2>1, <2>2
<1> QED
  BY <1>2, <1>3

\* A tree that "project validate" passes can be built to a graph, whatever is in it: there
\* is no document the linter and the cross-reference validator let through at which
\* generate_graph_index fails.
LEMMA ValidatedTreeBuilds ==
  ASSUME NEW t, NEW ls, ProjectValidate(t)
  PROVE  Builds(t, ls)
<1> DEFINE nodes == NodesOf(t, ls)
<1> HIDE DEF nodes
<1>1. ASSUME NEW n \in nodes
      PROVE  n.type \in Styled
  <2>1. \A f \in Named(t) : t[f].type \in OkfTypes
    BY DEF ProjectValidate, LintDirectory, LintDocument, Named
  <2>2. (\E f \in Named(t) : n.type = t[f].type) \/ n.type = "raw_event"
    BY <1>1, NodesAre DEF nodes
  <2> QED
    BY <2>1, <2>2 DEF Styled
<1>2. ASSUME NEW f \in Named(t), NEW l \in t[f].links, l.target # ""
      PROVE  EndsOf(f, l, nodes) # {}
  <2>1. PICK g \in Named(t) : t[g].id = l.target
    BY <1>2 DEF ProjectValidate, ValidateCrossReferences, Holders, Named
  <2>2. l.target \in Ids(nodes)
    BY <2>1, NodesAre DEF nodes
  <2> QED
    BY <2>2 DEF EndsOf
<1>3. UnknownTypes(nodes) = {} /\ ~Dangles(t, nodes)
  BY <1>1, <1>2 DEF UnknownTypes, Dangles
<1> QED
  BY <1>3 DEF Builds, nodes

\* ... so that validation is never followed by a build that fails on the same tree.
THEOREM ValidatedTreesBuild == Spec => []ValidTreesBuild
<1>1. ValidTreesBuild
  BY ValidatedTreeBuilds DEF ValidTreesBuild
<1> QED
  BY <1>1, PTL

\* The edges of a tree join nodes, if all its documents are among the nodes.
LEMMA EdgesOfJoin ==
  ASSUME NEW t, NEW nodes, \A f \in Named(t) : t[f].id \in Ids(nodes), NEW e \in EdgesOf(t, nodes)
  PROVE  {e.source, e.target} \subseteq Ids(nodes)
<1>1. PICK f \in Named(t) : \E l \in t[f].links : \E x \in EndsOf(f, l, nodes) :
        e = [type |-> l.type, source |-> t[f].id, target |-> x]
  BY DEF EdgesOf
<1>2. LeavesOf(nodes) \subseteq Ids(nodes)
  BY DEF LeavesOf, Ids
<1>3. ASSUME NEW l \in t[f].links, NEW x \in EndsOf(f, l, nodes)
      PROVE  x \in Ids(nodes)
  BY <1>2 DEF EndsOf, ResolveEvidenceRef
<1> QED
  BY <1>1, <1>3

-----------------------------------------------------------------------------
(* Edges                                                                   *)

Joined(nodes, edges) == \A e \in edges : {e.source, e.target} \subseteq Ids(nodes)

\* A build whose tree held still has a node for every document when it links them, and its
\* edges join its nodes from then on.
EdgesInv ==
  /\ \A b \in Builders : ~build[b].skewed =>
       /\ build[b].pc = "link" => \A f \in Named(docs) : docs[f].id \in Ids(build[b].nodes)
       /\ build[b].pc \in {"open", "fill"} => Joined(build[b].nodes, build[b].edges)
  /\ graph \in {NoGraph, Torn} \/ skewed \/ Joined(graph.nodes, graph.edges)

\* The state of a process that builds nothing.
LEMMA NoBuildIs ==
  IsBuild(NoBuild) /\ NoBuild.pc = "idle" /\ NoBuild.nodes = {}
  BY DEF NoBuild, IsBuild

\* What a build does to itself, and what it leaves of the others.
LEMMA BuildSteps ==
  ASSUME BuildType, NEW b \in Builders
  PROVE  /\ StartBuild(b) =>
              /\ BuildType' /\ build'[b].pc = "link" /\ build'[b].nodes = NodesOf(docs, leaves)
              /\ \A c \in Builders \ {b} : build'[c] = build[c]
         /\ LinkBuild(b) =>
              /\ BuildType' /\ \A c \in Builders \ {b} : build'[c] = build[c]
              /\ \/ build'[b] = NoBuild
                 \/ /\ build[b].pc = "link" /\ build'[b].pc = "open"
                    /\ build'[b].nodes = build[b].nodes
                    /\ build'[b].edges = EdgesOf(docs, build[b].nodes)
                    /\ build'[b].skewed = build[b].skewed
         /\ KeepGraph(b) \/ KillBuild(b) =>
              /\ BuildType' /\ build'[b] = NoBuild
              /\ \A c \in Builders \ {b} : build'[c] = build[c]
         /\ OpenGraph(b) =>
              /\ BuildType' /\ \A c \in Builders \ {b} : build'[c] = build[c]
              /\ build[b].pc = "open" /\ build'[b].pc = "fill"
              /\ build'[b].nodes = build[b].nodes /\ build'[b].edges = build[b].edges
              /\ build'[b].skewed = build[b].skewed
         /\ FillGraph(b) =>
              /\ BuildType' /\ build'[b] = NoBuild
              /\ \A c \in Builders \ {b} :
                   /\ build'[c].pc = build[c].pc /\ build'[c].skewed = build[c].skewed
                   /\ build'[c].nodes = build[c].nodes /\ build'[c].edges = build[c].edges
<1> DEFINE Others == \A c \in Builders \ {b} : build'[c] = build[c]
<1>0. ASSUME NEW x, IsBuild(x), build' = [build EXCEPT ![b] = x]
      PROVE  BuildType' /\ build'[b] = x /\ Others
  BY <1>0 DEF BuildType
<1>1. ASSUME StartBuild(b)
      PROVE  /\ BuildType' /\ build'[b].pc = "link" /\ build'[b].nodes = NodesOf(docs, leaves)
             /\ Others
  <2> DEFINE x == [NoBuild EXCEPT !.pc = "link", !.nodes = NodesOf(docs, leaves)]
  <2>1. IsBuild(x) /\ x.pc = "link" /\ x.nodes = NodesOf(docs, leaves)
    BY DEF IsBuild, NoBuild
  <2>2. build' = [build EXCEPT ![b] = x]
    BY <1>1 DEF StartBuild
  <2> HIDE DEF x
  <2> QED
    BY <1>0, <2>1, <2>2
<1>2. ASSUME LinkBuild(b)
      PROVE  /\ BuildType' /\ Others
             /\ \/ build'[b] = NoBuild
                \/ /\ build[b].pc = "link" /\ build'[b].pc = "open"
                   /\ build'[b].nodes = build[b].nodes
                   /\ build'[b].edges = EdgesOf(docs, build[b].nodes)
                   /\ build'[b].skewed = build[b].skewed
  <2> DEFINE x == [build[b] EXCEPT !.pc = "open", !.edges = EdgesOf(docs, build[b].nodes)]
  <2>1. /\ IsBuild(x) /\ x.pc = "open" /\ x.nodes = build[b].nodes
        /\ x.edges = EdgesOf(docs, build[b].nodes) /\ x.skewed = build[b].skewed
    BY DEF BuildType, IsBuild
  <2>2. build[b].pc = "link" /\ (build' = [build EXCEPT ![b] = NoBuild] \/ build' = [build EXCEPT ![b] = x])
    BY <1>2 DEF LinkBuild
  <2> HIDE DEF x
  <2> QED
    BY <1>0, <2>1, <2>2, NoBuildIs
<1>3. ASSUME KeepGraph(b) \/ KillBuild(b)
      PROVE  BuildType' /\ build'[b] = NoBuild /\ Others
  BY <1>0, <1>3, NoBuildIs DEF KeepGraph, KillBuild
<1>4. ASSUME OpenGraph(b)
      PROVE  /\ BuildType' /\ Others
             /\ build[b].pc = "open" /\ build'[b].pc = "fill"
             /\ build'[b].nodes = build[b].nodes /\ build'[b].edges = build[b].edges
             /\ build'[b].skewed = build[b].skewed
  <2> DEFINE x == [[build[b] EXCEPT !.pc = "fill"] EXCEPT !.clean = TRUE]
  <2>1. /\ IsBuild(x) /\ x.pc = "fill" /\ x.nodes = build[b].nodes /\ x.edges = build[b].edges
        /\ x.skewed = build[b].skewed
    BY DEF BuildType, IsBuild
  <2>2. build' = [build EXCEPT ![b] = x]
    BY <1>4 DEF OpenGraph, BuildType
  <2> HIDE DEF x
  <2> QED
    BY <1>0, <1>4, <2>1, <2>2 DEF OpenGraph
<1>5. ASSUME FillGraph(b)
      PROVE  /\ BuildType' /\ build'[b] = NoBuild
             /\ \A c \in Builders \ {b} :
                  /\ build'[c].pc = build[c].pc /\ build'[c].skewed = build[c].skewed
                  /\ build'[c].nodes = build[c].nodes /\ build'[c].edges = build[c].edges
  <2> DEFINE x(c) == [build[c] EXCEPT !.clean = @ /\ Output(c) = Output(b)]
  <2>1. \A c \in Builders :
          /\ IsBuild(x(c)) /\ x(c).pc = build[c].pc /\ x(c).skewed = build[c].skewed
          /\ x(c).nodes = build[c].nodes /\ x(c).edges = build[c].edges
    BY DEF BuildType, IsBuild
  <2>2. build' = [c \in Builders |-> IF c = b THEN NoBuild ELSE x(c)]
    BY <1>5 DEF FillGraph
  <2> HIDE DEF x
  <2>3. build'[b] = NoBuild /\ \A c \in Builders \ {b} : build'[c] = x(c)
    BY <2>2
  <2>4. BuildType'
    BY <2>1, <2>2, <2>3, NoBuildIs DEF BuildType
  <2> QED
    BY <2>1, <2>3, <2>4
<1> QED
  BY <1>1, <1>2, <1>3, <1>4, <1>5

\* Builds in progress: what each of their steps leaves.
BuildNext(b) ==
  StartBuild(b) \/ LinkBuild(b) \/ KeepGraph(b) \/ OpenGraph(b) \/ FillGraph(b) \/ KillBuild(b)

TalkNext ==
  \/ StartServer
  \/ \E s \in Sessions, class \in {"internal", "confidential"} : CreateSession(s, class)
  \/ \E a \in Askers, s \in Sessions, q \in Questions : Ask(a, s, q)
  \/ \E a \in Askers : LogQuestion(a) \/ LogAnswer(a)

TreeNext == (\E f \in Editable, d \in Drafts : Edit(f, d)) \/ (\E l \in Leaves : ProjectEvents(l))

\* The steps, grouped by whose they are: a person's, a build's, the chat's.
LEMMA NextIs ==
  Next <=> TreeNext \/ (\E b \in Builders : BuildNext(b)) \/ TalkNext
  BY DEF Next, TreeNext, BuildNext, TalkNext

\* A build writes edges between the nodes it has, and into a file of its own making.
LEMMA BuildEdges ==
  ASSUME BuildType, EdgesInv, NEW b \in Builders, BuildNext(b)
  PROVE  EdgesInv'
<1>1. docs' = docs /\ leaves' = leaves
  BY DEF BuildNext, StartBuild, LinkBuild, KeepGraph, OpenGraph, FillGraph, KillBuild, tree
<1>2. CASE StartBuild(b)
  <2>1. \A f \in Named(docs) : docs[f].id \in Ids(build'[b].nodes)
    BY <1>2, BuildSteps, NodesAre
  <2>2. UNCHANGED <<graph, skewed>>
    BY <1>2 DEF StartBuild
  <2> QED
    BY <1>1, <1>2, <2>1, <2>2, BuildSteps DEF EdgesInv
<1>3. CASE LinkBuild(b)
  <2>1. UNCHANGED <<graph, skewed>>
    BY <1>3 DEF LinkBuild
  <2>2. CASE build'[b] = NoBuild
    BY <1>1, <1>3, <2>1, <2>2, BuildSteps, NoBuildIs DEF EdgesInv
  <2>3. CASE build'[b] # NoBuild
    <3>1. ~build'[b].skewed => Joined(build'[b].nodes, build'[b].edges)
      BY <1>3, <2>3, BuildSteps, EdgesOfJoin DEF EdgesInv, Joined
    <3>2. build'[b].pc = "open" /\ \A c \in Builders \ {b} : build'[c] = build[c]
      BY <1>3, <2>3, BuildSteps
    <3> QED
      BY <1>1, <2>1, <3>1, <3>2 DEF EdgesInv
  <2> QED
    BY <2>2, <2>3
<1>4. CASE KeepGraph(b) \/ KillBuild(b)
  <2>1. UNCHANGED <<graph, skewed>>
    BY <1>4 DEF KeepGraph, KillBuild
  <2> QED
    BY <1>1, <1>4, <2>1, BuildSteps, NoBuildIs DEF EdgesInv
<1>5. CASE OpenGraph(b)
  <2>1. graph' = Torn
    BY <1>5 DEF OpenGraph
  <2> QED
    BY <1>1, <1>5, <2>1, BuildSteps DEF EdgesInv
<1>6. CASE FillGraph(b)
  <2>1. build[b].pc = "fill" /\ skewed' = build[b].skewed /\ graph' \in {Output(b), Torn}
    BY <1>6 DEF FillGraph
  <2>2. graph' \in {NoGraph, Torn} \/ skewed' \/ Joined(graph'.nodes, graph'.edges)
    BY <2>1 DEF EdgesInv, Output
  <2> QED
    BY <1>1, <1>6, <2>2, BuildSteps, NoBuildIs DEF EdgesInv
<1> QED
  BY <1>2, <1>3, <1>4, <1>5, <1>6 DEF BuildNext

\* People change the tree and leave the builds their types.
LEMMA TreeEdgesType ==
  ASSUME BuildType, TreeNext
  PROVE  BuildType'
<1>1. CASE \E f \in Editable, d \in Drafts : Edit(f, d)
  <2>1. build' = [b \in Builders |-> [build[b] EXCEPT !.skewed = @ \/ build[b].pc = "link"]]
    BY <1>1 DEF Edit
  <2>2. \A b \in Builders : IsBuild(build'[b])
    BY <2>1 DEF BuildType, IsBuild
  <2> QED
    BY <2>1, <2>2 DEF BuildType
<1>2. CASE \E l \in Leaves : ProjectEvents(l)
  BY <1>2 DEF ProjectEvents, made, BuildType
<1> QED
  BY <1>1, <1>2 DEF TreeNext

\* People change the tree under a build, which is then marked.
LEMMA TreeEdges ==
  ASSUME BuildType, EdgesInv, TreeNext
  PROVE  BuildType' /\ EdgesInv'
<1>1. CASE \E f \in Editable, d \in Drafts : Edit(f, d)
  <2>1. /\ build' = [b \in Builders |-> [build[b] EXCEPT !.skewed = @ \/ build[b].pc = "link"]]
        /\ UNCHANGED <<graph, skewed>>
    BY <1>1 DEF Edit
  <2>2. \A b \in Builders :
          /\ IsBuild(build'[b]) /\ build'[b].pc = build[b].pc
          /\ build'[b].nodes = build[b].nodes /\ build'[b].edges = build[b].edges
    BY <2>1 DEF BuildType, IsBuild
  <2>3. \A b \in Builders : build'[b].skewed = (build[b].skewed \/ build[b].pc = "link")
    BY <2>1 DEF BuildType, IsBuild
  <2>4. BuildType'
    BY <2>1, <2>2 DEF BuildType
  <2> QED
    BY <2>1, <2>2, <2>3, <2>4 DEF EdgesInv
<1>2. CASE \E l \in Leaves : ProjectEvents(l)
  BY <1>2 DEF ProjectEvents, made, BuildType, EdgesInv
<1> QED
  BY <1>1, <1>2 DEF TreeNext

\* Every edge of graph_index.json joins two of its nodes, unless a document changed between
\* the two walks of its build: whatever builds and writers overlap.
THEOREM EdgesAreJoined == Spec => []EdgesJoinNodes
<1>1. Init => BuildType /\ EdgesInv
  BY NoBuildIs DEF Init, BuildType, EdgesInv
<1>2. BuildType /\ EdgesInv /\ [Next]_vars => (BuildType /\ EdgesInv)'
  <2> SUFFICES ASSUME BuildType, EdgesInv, [Next]_vars
               PROVE  (BuildType /\ EdgesInv)'
    OBVIOUS
  <2>1. CASE UNCHANGED vars \/ TalkNext
    <3>1. UNCHANGED <<docs, build, graph, skewed>>
      BY <2>1 DEF vars, tree, made, TalkNext, StartServer, CreateSession, Ask,
                  LogQuestion, LogAnswer
    <3> QED
      BY <3>1 DEF BuildType, EdgesInv
  <2>2. ASSUME NEW b \in Builders, BuildNext(b)
        PROVE  (BuildType /\ EdgesInv)'
    BY <2>2, BuildEdges, BuildSteps DEF BuildNext
  <2> QED
    BY <2>1, <2>2, TreeEdges, NextIs
<1>3. EdgesInv => EdgesJoinNodes
  BY DEF EdgesInv, EdgesJoinNodes, Joined
<1> QED
  BY <1>1, <1>2, <1>3, PTL DEF Spec

-----------------------------------------------------------------------------
(* What may be read                                                        *)

\* The nodes the chat may use were readable documents.
Readable(nodes) == \A n \in nodes : n.class \in Allowed => n.id \in readable

\* From the tree over builds, the file, the server's copy and answers in progress to the
\* messages: what is open was readable at some time.
ReadableInv ==
  /\ OpenIds(docs) \cup leaves \subseteq readable
  /\ \A b \in Builders : Readable(build[b].nodes)
  /\ graph \in {NoGraph, Torn} \/ Readable(graph.nodes)
  /\ loaded = NoGraph \/ Readable(loaded.nodes)
  /\ \A a \in Askers : ask[a].answer.citations \subseteq readable
  /\ \A s \in Sessions : chat[s] = Gone \/
       \A i \in DOMAIN chat[s].messages : chat[s].messages[i].citations \subseteq readable

TalkInv == TalkType /\ SessionsExist

\* Documents that are open are among what may be cited.
LEMMA OpenIdsTyped ==
  ASSUME TreeType
  PROVE  OpenIds(docs) \subseteq Identifiers
<1>1. \A f \in Named(docs) : docs[f] \in Written \ {Gone, Broken}
  BY DEF TreeType, Named, Parsed, Existing
<1> QED
  BY <1>1 DEF OpenIds, Identifiers

\* A walk over the tree finds what is readable.
LEMMA NodesOfReadable ==
  ASSUME ReadableInv
  PROVE  Readable(NodesOf(docs, leaves))
<1> SUFFICES ASSUME NEW n \in NodesOf(docs, leaves), n.class \in Allowed
             PROVE  n.id \in readable
  BY DEF Readable
<1>1. CASE \E f \in Named(docs) : n.id = docs[f].id /\ n.class = ClassOf(docs[f])
  BY <1>1 DEF ReadableInv, OpenIds
<1>2. CASE n.id \in leaves
  BY <1>2 DEF ReadableInv
<1> QED
  BY <1>1, <1>2, NodesAre

\* What was readable stays on the list.
LEMMA ReadableGrows ==
  ASSUME NEW nodes, Readable(nodes), readable \subseteq readable'
  PROVE  \A n \in nodes : n.class \in Allowed => n.id \in readable'
  BY DEF Readable

\* What was once readable stays on the history of the tree.
LEMMA TreeReadable ==
  ASSUME TreeType, BuildType, TalkType, ReadableInv, TreeNext
  PROVE  TreeType' /\ ReadableInv'
<1>1. CASE \E f \in Editable, d \in Drafts : Edit(f, d)
  <2>1. PICK f \in Editable, d \in Drafts : Edit(f, d)
    BY <1>1
  <2>2. /\ docs' = [docs EXCEPT ![f] = d] /\ readable' = readable \cup OpenIds(docs')
        /\ UNCHANGED <<leaves, graph, loaded, ask, chat>>
        /\ build' = [b \in Builders |-> [build[b] EXCEPT !.skewed = @ \/ build[b].pc = "link"]]
    BY <2>1 DEF Edit, talk
  <2>3. \A b \in Builders : build'[b].nodes = build[b].nodes
    BY <2>2 DEF BuildType, IsBuild
  <2>4. docs' = [g \in Files |-> docs'[g]] /\ \A g \in Files : docs'[g] \in Written \cup {Gone}
    BY <2>2 DEF TreeType, Written
  <2>5. OpenIds(docs') \subseteq Identifiers
    <3>1. \A g \in Named(docs') : docs'[g] \in Written \ {Gone, Broken}
      BY <2>4 DEF Named, Parsed, Existing
    <3> QED
      BY <3>1 DEF OpenIds, Identifiers
  <2>6. TreeType'
    BY <2>2, <2>4, <2>5 DEF TreeType
  <2>7. OpenIds(docs') \cup leaves' \subseteq readable' /\ readable \subseteq readable'
    BY <2>2 DEF ReadableInv
  <2> QED
    BY <2>2, <2>3, <2>6, <2>7 DEF ReadableInv, Readable
<1>2. CASE \E l \in Leaves : ProjectEvents(l)
  <2>1. PICK l \in Leaves : ProjectEvents(l)
    BY <1>2
  <2>2. /\ leaves' = leaves \cup {l} /\ readable' = readable \cup {l}
        /\ UNCHANGED <<docs, build, graph, loaded, ask, chat>>
    BY <2>1 DEF ProjectEvents, made, talk
  <2>3. TreeType'
    BY <2>2 DEF TreeType, Identifiers
  <2>4. OpenIds(docs') \cup leaves' \subseteq readable' /\ readable \subseteq readable'
    BY <2>2 DEF ReadableInv
  <2> QED
    BY <2>2, <2>3, <2>4 DEF ReadableInv, Readable
<1> QED
  BY <1>1, <1>2 DEF TreeNext

\* A build copies what it read; a server copies what a build wrote.
LEMMA BuildReadable ==
  ASSUME BuildType, ReadableInv, NEW b \in Builders, BuildNext(b)
  PROVE  ReadableInv'
<1>1. UNCHANGED <<docs, leaves, readable, loaded, ask, chat>>
  BY DEF BuildNext, StartBuild, LinkBuild, KeepGraph, OpenGraph, FillGraph, KillBuild, tree, talk
<1>2. \A c \in Builders :
        build'[c].nodes = build[c].nodes \/ build'[c].nodes = NodesOf(docs, leaves) \/ build'[c].nodes = {}
  BY BuildSteps, NoBuildIs DEF BuildNext
<1>3. \A c \in Builders : Readable(build'[c].nodes)
  BY <1>2, NodesOfReadable DEF ReadableInv, Readable
<1>4. graph' = graph \/ graph' = Torn \/ graph' = Output(b)
  BY DEF BuildNext, StartBuild, LinkBuild, KeepGraph, OpenGraph, FillGraph, KillBuild
<1>5. graph' \in {NoGraph, Torn} \/ Readable(graph'.nodes)
  BY <1>4 DEF ReadableInv, Output
<1> QED
  BY <1>1, <1>3, <1>5 DEF ReadableInv, Readable

\* Nobody is answered with what was not readable.
LEMMA AnswersAreReadable ==
  ASSUME ReadableInv, NEW class, NEW q, NEW x \in AnswersTo(class, q)
  PROVE  x.authorized \in BOOLEAN /\ x.citations \subseteq readable
         /\ x = [authorized |-> x.authorized, citations |-> x.citations]
<1>1. CASE x = Refusal
  BY <1>1 DEF Refusal
<1>2. CASE \E c \in Best(QueryGraph(q), q) : x = [authorized |-> TRUE, citations |-> Ids(c)]
  <2>1. PICK c \in Best(QueryGraph(q), q) : x = [authorized |-> TRUE, citations |-> Ids(c)]
    BY <1>2
  <2>2. c \subseteq QueryGraph(q)
    BY DEF Best
  <2>3. Ids(c) \subseteq readable
    BY <2>2 DEF Ids, QueryGraph, ReadableInv, Readable
  <2> QED
    BY <2>1, <2>3
<1> QED
  BY <1>1, <1>2 DEF AnswersTo

-----------------------------------------------------------------------------
(* The chat                                                                *)

\* A session after one more message.
Said(a, role, overlapped) ==
  [chat[ask[a].session] EXCEPT !.messages = Append(@, Message(role, a)), !.overlapped = overlapped]

\* One more line makes a chat a chat.
LEMMA SaidTyped ==
  ASSUME TalkInv, NEW a \in Askers, ask[a].session \in Sessions, NEW role \in {"user", "assistant"},
         NEW o \in BOOLEAN
  PROVE  /\ chat[ask[a].session] \in Chats
         /\ Said(a, role, o) \in Chats
         /\ Said(a, role, o).messages = Append(chat[ask[a].session].messages, Message(role, a))
         /\ Said(a, role, o).overlapped = o
         /\ Message(role, a) \in Messages
<1>1. chat[ask[a].session] \in Chats
  BY DEF TalkInv, TalkType, SessionsExist
<1>2. Message(role, a) \in Messages
  BY DEF Message, Messages, TalkInv, TalkType, Asks, Answers
<1>3. Append(chat[ask[a].session].messages, Message(role, a)) \in Seq(Messages)
  BY <1>1, <1>2, AppendProperties DEF Chats
<1> QED
  BY <1>1, <1>2, <1>3 DEF Chats, Said

\* Where a line goes: to the session its handler holds, unless that was replaced.
LEMMA SaysIs ==
  ASSUME TalkInv, NEW a \in Askers, NEW role \in {"user", "assistant"}, NEW o \in BOOLEAN,
         Says(role, a, o)
  PROVE  \/ ask[a].session = Gone /\ chat' = chat
         \/ /\ ask[a].session \in Sessions
            /\ (chat[ask[a].session].overlapped \/ o) \in BOOLEAN
            /\ chat' = [chat EXCEPT ![ask[a].session] =
                          Said(a, role, chat[ask[a].session].overlapped \/ o)]
<1> DEFINE s == ask[a].session
<1>1. CASE s = Gone
  BY <1>1 DEF Says
<1>2. CASE s # Gone
  <2>1. s \in Sessions
    BY <1>2 DEF TalkInv, TalkType, Asks
  <2>2. chat[s] \in Chats /\ chat \in [Sessions -> Chats \cup {Gone}]
    BY <2>1 DEF TalkInv, TalkType, SessionsExist
  <2>3. chat' = [chat EXCEPT ![s].messages = Append(@, Message(role, a)), ![s].overlapped = @ \/ o]
    BY <1>2 DEF Says
  <2>4. (chat[s].overlapped \/ o) \in BOOLEAN
    BY <2>2 DEF Chats
  <2>5. chat' = [chat EXCEPT ![s] = Said(a, role, chat[s].overlapped \/ o)]
    BY <2>1, <2>2, <2>3 DEF Said, Chats
  <2> QED
    BY <2>1, <2>4, <2>5
<1> QED
  BY <1>1, <1>2

\* What the steps of post_chat_message do to sessions and askers.
LEMMA LogSteps ==
  ASSUME TalkInv, NEW a \in Askers, LogQuestion(a) \/ LogAnswer(a)
  PROVE  /\ UNCHANGED <<docs, leaves, readable, build, graph, loaded>>
         /\ \/ /\ ask[a].pc = "question" /\ ask' = [ask EXCEPT ![a].pc = "answer"]
               /\ Says("user", a, Intrudes(a)) /\ Intrudes(a) \in BOOLEAN
            \/ /\ ask[a].pc = "answer" /\ ask' = [ask EXCEPT ![a] = NoAsk]
               /\ Says("assistant", a, FALSE)
<1>1. Intrudes(a) \in BOOLEAN
  BY DEF Intrudes
<1> QED
  BY <1>1 DEF LogQuestion, LogAnswer, Goes, tree, made

\* The state of a handler that answers nothing.
LEMMA NoAskIs ==
  NoAsk \in Asks /\ NoAsk.pc = "idle" /\ NoAsk.session = Gone /\ NoAsk.answer.citations = {}
  BY DEF NoAsk, Asks, Answers, Refusal

\* A session begins without lines.
LEMMA EmptyChatTyped ==
  ASSUME NEW c \in {"internal", "confidential"}
  PROVE  [class |-> c, messages |-> <<>>, overlapped |-> FALSE] \in Chats
  BY EmptySeq DEF Chats

\* What the chat does keeps the types of its handlers and sessions.
LEMMA TalkTyped ==
  ASSUME TreeType, BuildType, TalkInv, ReadableInv, TalkNext
  PROVE  TreeType' /\ BuildType' /\ TalkInv' /\ ReadableInv'
<1>0. /\ UNCHANGED <<docs, leaves, readable, build, graph>>
      /\ loaded' = loaded \/ (loaded' = graph /\ graph # Torn)
  <2>1. CASE StartServer
    BY <2>1 DEF StartServer, tree, made
  <2>2. CASE \E s \in Sessions, class \in {"internal", "confidential"} : CreateSession(s, class)
    BY <2>2 DEF CreateSession, tree, made
  <2>3. CASE \E a \in Askers, s \in Sessions, q \in Questions : Ask(a, s, q)
    BY <2>3 DEF Ask, tree, made
  <2>4. CASE \E a \in Askers : LogQuestion(a) \/ LogAnswer(a)
    BY <2>4 DEF LogQuestion, LogAnswer, tree, made
  <2> QED
    BY <2>1, <2>2, <2>3, <2>4 DEF TalkNext
<1>1. ASSUME TalkInv',
             \A a \in Askers : ask'[a].answer.citations \subseteq readable,
             \A s \in Sessions : chat'[s] = Gone \/
               \A i \in DOMAIN chat'[s].messages : chat'[s].messages[i].citations \subseteq readable
      PROVE  TreeType' /\ BuildType' /\ TalkInv' /\ ReadableInv'
  <2>1. loaded' = NoGraph \/ Readable(loaded'.nodes)
    BY <1>0 DEF ReadableInv
  <2>2. TreeType' /\ BuildType'
    BY <1>0 DEF TreeType, BuildType
  <2> QED
    BY <1>0, <1>1, <2>1, <2>2 DEF ReadableInv, Readable
<1>2. CASE StartServer
  <2>1. chat' = [s \in Sessions |-> Gone] /\ ask' = [a \in Askers |-> NoAsk]
    BY <1>2 DEF StartServer
  <2>2. TalkInv'
    BY <2>1, NoAskIs, GoneIsGone DEF TalkInv, TalkType, SessionsExist
  <2> QED
    BY <1>1, <2>1, <2>2, NoAskIs
<1>3. CASE \E s \in Sessions, class \in {"internal", "confidential"} : CreateSession(s, class)
  <2>1. PICK s \in Sessions, class \in {"internal", "confidential"} : CreateSession(s, class)
    BY <1>3
  <2> DEFINE new == [class |-> class, messages |-> <<>>, overlapped |-> FALSE]
  <2>2. new \in Chats /\ DOMAIN new.messages = {} /\ new # Gone
    <3>1. new \in Chats
      BY EmptyChatTyped
    <3>2. DOMAIN new.messages = {}
      OBVIOUS
    <3> QED
      BY <3>1, <3>2, GoneIsGone
  <2>3. chat' = [chat EXCEPT ![s] = new]
    BY <2>1 DEF CreateSession
  <2>a. /\ ask' \in [Askers -> Asks]
        /\ \A a \in Askers : /\ ask'[a].answer = ask[a].answer
                             /\ ask'[a].session \in {ask[a].session, Gone}
    BY <2>1 DEF CreateSession, TalkInv, TalkType, Asks
  <2> HIDE DEF new
  <2>4. TalkInv'
    BY <2>2, <2>3, <2>a, GoneIsGone DEF TalkInv, TalkType, SessionsExist
  <2> QED
    BY <1>1, <2>2, <2>3, <2>4, <2>a DEF ReadableInv, TalkInv, TalkType
<1>4. CASE \E a \in Askers, s \in Sessions, q \in Questions : Ask(a, s, q)
  <2>1. PICK a \in Askers, s \in Sessions, q \in Questions : Ask(a, s, q)
    BY <1>4
  <2>2. PICK x \in AnswersTo(chat[s].class, q) :
          ask' = [ask EXCEPT ![a] = [pc |-> "question", session |-> s, answer |-> x]]
    BY <2>1 DEF Ask
  <2>3. x \in Answers /\ x.citations \subseteq readable
    BY AnswersAreReadable DEF Answers, TreeType
  <2>4. [pc |-> "question", session |-> s, answer |-> x] \in Asks
    BY <2>3 DEF Asks
  <2>5. chat' = chat /\ chat[s] # Gone
    BY <2>1 DEF Ask
  <2>6. TalkInv'
    BY <2>2, <2>4, <2>5 DEF TalkInv, TalkType, SessionsExist
  <2> QED
    BY <1>1, <2>2, <2>3, <2>5, <2>6 DEF ReadableInv, TalkInv, TalkType
<1>5. CASE \E a \in Askers : LogQuestion(a) \/ LogAnswer(a)
  <2>1. PICK a \in Askers : LogQuestion(a) \/ LogAnswer(a)
    BY <1>5
  <2>2. /\ ask' \in [Askers -> Asks]
        /\ \A b \in Askers : ask'[b].answer.citations \subseteq readable
        /\ \A b \in Askers : ask'[b].session \in {ask[b].session, Gone}
    <3>1. CASE ask' = [ask EXCEPT ![a] = NoAsk]
      BY <3>1, NoAskIs DEF TalkInv, TalkType, ReadableInv
    <3>2. CASE ask' = [ask EXCEPT ![a].pc = "answer"]
      BY <3>2 DEF TalkInv, TalkType, ReadableInv, Asks
    <3> QED
      BY <2>1, <3>1, <3>2, LogSteps
  <2>3. CASE chat' = chat
    <3>1. TalkInv'
      BY <2>2, <2>3, GoneIsGone DEF TalkInv, TalkType, SessionsExist
    <3> QED
      BY <1>1, <2>2, <2>3, <3>1 DEF ReadableInv
  <2>4. ASSUME NEW role \in {"user", "assistant"}, NEW o \in BOOLEAN, ask[a].session \in Sessions,
               chat' = [chat EXCEPT ![ask[a].session] = Said(a, role, o)]
        PROVE  TreeType' /\ BuildType' /\ TalkInv' /\ ReadableInv'
    <3> DEFINE t == ask[a].session
               m == chat[t].messages
    <3>1. t \in Sessions /\ chat[t] \in Chats /\ chat[t] # Gone
          /\ Said(a, role, o) \in Chats /\ Said(a, role, o) # Gone
          /\ Said(a, role, o).messages = Append(m, Message(role, a))
      BY <2>4, SaidTyped, GoneIsGone
    <3>2. TalkInv'
      BY <2>2, <2>4, <3>1, GoneIsGone DEF TalkInv, TalkType, SessionsExist
    <3>3. Message(role, a).citations \subseteq readable
      BY DEF Message, ReadableInv
    <3>4. \A i \in DOMAIN Append(m, Message(role, a)) : Append(m, Message(role, a))[i].citations \subseteq readable
      <4>1. m \in Seq(Messages)
        BY <3>1 DEF Chats
      <4>2. \A i \in DOMAIN m : m[i].citations \subseteq readable
        BY <3>1 DEF ReadableInv
      <4>3. \A i \in DOMAIN Append(m, Message(role, a)) :
              \/ i \in DOMAIN m /\ Append(m, Message(role, a))[i] = m[i]
              \/ Append(m, Message(role, a))[i] = Message(role, a)
        BY <4>1, SaidTyped, <2>4, AppendProperties
      <4> QED
        BY <3>3, <4>2, <4>3
    <3>5. \A s \in Sessions : chat'[s] = Gone \/
            \A i \in DOMAIN chat'[s].messages : chat'[s].messages[i].citations \subseteq readable
      BY <2>4, <3>1, <3>4 DEF ReadableInv, TalkInv, TalkType
    <3> QED
      BY <1>1, <2>2, <3>2, <3>5
  <2>5. PICK role \in {"user", "assistant"}, o \in BOOLEAN : Says(role, a, o)
    BY <2>1, LogSteps
  <2> QED
    BY <2>3, <2>4, <2>5, SaysIs
<1> QED
  BY <1>2, <1>3, <1>4, <1>5 DEF TalkNext

\* What holds of the project's documents, builds and sessions.
LEMMA KnowledgeHolds == Spec => [](TreeType /\ BuildType /\ TalkInv /\ ReadableInv)
<1>1. Init => TreeType /\ BuildType /\ TalkInv /\ ReadableInv
  <2> SUFFICES ASSUME Init
               PROVE  TreeType /\ BuildType /\ TalkInv /\ ReadableInv
    OBVIOUS
  <2>1. docs = [f \in Files |-> docs[f]] /\ \A f \in Files : docs[f] \in Written \cup {Gone}
    <3>1. docs = [f \in Files |-> IF f = 1 THEN ProjectIntake
                                  ELSE IF f <= 4 THEN PlanningBaseline[f - 1] ELSE Gone]
      BY DEF Init
    <3>2. Files \subseteq Nat \ {0}
      BY KnowledgeBounds, LenProperties DEF Files
    <3>3. \A f \in Files : f # 1 /\ f <= 4 => f - 1 \in 1 .. 3
      BY <3>2
    <3> QED
      BY <3>1, <3>3 DEF Written
  <2>2. TreeType
    <3>1. \A f \in Named(docs) : docs[f] \in Written \ {Gone, Broken}
      BY <2>1 DEF Named, Parsed, Existing
    <3>2. OpenIds(docs) \subseteq Identifiers
      BY <3>1 DEF OpenIds, Identifiers
    <3> QED
      BY <2>1, <3>2 DEF Init, TreeType
  <2>3. BuildType /\ TalkInv /\ ReadableInv
    BY NoBuildIs, NoAskIs, GoneIsGone
    DEF Init, BuildType, TalkInv, TalkType, SessionsExist, ReadableInv, Readable
  <2> QED
    BY <2>2, <2>3
<1>2. TreeType /\ BuildType /\ TalkInv /\ ReadableInv /\ [Next]_vars
        => (TreeType /\ BuildType /\ TalkInv /\ ReadableInv)'
  <2> SUFFICES ASSUME TreeType, BuildType, TalkInv, ReadableInv, [Next]_vars
               PROVE  (TreeType /\ BuildType /\ TalkInv /\ ReadableInv)'
    OBVIOUS
  <2>1. CASE UNCHANGED vars
    <3>1. UNCHANGED <<docs, leaves, readable, build, graph, loaded, ask, chat>>
      BY <2>1 DEF vars, tree, made, talk
    <3> QED
      BY <3>1 DEF TreeType, BuildType, TalkInv, TalkType, SessionsExist, ReadableInv, Readable
  <2>2. ASSUME NEW b \in Builders, BuildNext(b)
        PROVE  (TreeType /\ BuildType /\ TalkInv /\ ReadableInv)'
    <3>1. UNCHANGED <<docs, leaves, readable, ask, chat>>
      BY <2>2 DEF BuildNext, StartBuild, LinkBuild, KeepGraph, OpenGraph, FillGraph, KillBuild, tree, talk
    <3>2. BuildType' /\ ReadableInv'
      BY <2>2, BuildSteps, BuildReadable DEF BuildNext
    <3> QED
      BY <3>1, <3>2 DEF TreeType, TalkInv, TalkType, SessionsExist
  <2>3. CASE TreeNext
    <3>1. UNCHANGED <<ask, chat>>
      BY <2>3 DEF TreeNext, Edit, ProjectEvents, talk
    <3>2. TalkInv'
      BY <3>1 DEF TalkInv, TalkType, SessionsExist
    <3> QED
      BY <2>3, <3>2, TreeReadable, TreeEdgesType DEF TalkInv
  <2> QED
    BY <2>1, <2>2, <2>3, TalkTyped, NextIs
<1> QED
  BY <1>1, <1>2, PTL DEF Spec

\* Whatever the chat cites was at some time in the tree as a document it may read: a stale
\* graph, a namesake or a reclassified document does not let it cite what never was
\* (_query_graph keeps to the classifications of the nodes).
THEOREM CitationsStayReadable == Spec => []CitationsWereReadable
<1>1. ReadableInv => CitationsWereReadable
  BY DEF ReadableInv, CitationsWereReadable
<1> QED
  BY <1>1, KnowledgeHolds, PTL

-----------------------------------------------------------------------------
(* Questions and answers                                                   *)

\* A row of questions, each with its own answer behind it, the last perhaps without.
Paired(m) ==
  \A i \in DOMAIN m :
    IF i % 2 = 1 THEN m[i].role = "user"
    ELSE m[i].role = "assistant" /\ m[i].asker = m[i - 1].asker

Answering(s) == {a \in Askers : ask[a].pc = "answer" /\ ask[a].session = s}

\* Who is about to answer has asked last; where nobody is, every question is answered.
SessionInv(s) ==
  (chat[s] # Gone /\ ~chat[s].overlapped) =>
    /\ Paired(chat[s].messages)
    /\ \A a \in Answering(s) :
         /\ Len(chat[s].messages) % 2 = 1
         /\ chat[s].messages[Len(chat[s].messages)].asker = a
    /\ Answering(s) = {} => Len(chat[s].messages) % 2 = 0

SessionsInv == \A s \in Sessions : SessionInv(s)

\* A question after paired ones, and an answer after a question.
LEMMA PairsGrow ==
  ASSUME NEW S, NEW m \in Seq(S), Paired(m), NEW x \in S
  PROVE  /\ (Len(m) % 2 = 0 /\ x.role = "user") => /\ Paired(Append(m, x))
                                                   /\ Len(Append(m, x)) % 2 = 1
                                                   /\ Append(m, x)[Len(Append(m, x))] = x
         /\ (Len(m) % 2 = 1 /\ x.role = "assistant" /\ x.asker = m[Len(m)].asker) =>
              Paired(Append(m, x)) /\ Len(Append(m, x)) % 2 = 0
<1> DEFINE n == Append(m, x)
<1>1. /\ Len(m) \in Nat /\ DOMAIN m = 1 .. Len(m) /\ DOMAIN n = 1 .. Len(m) + 1
      /\ Len(n) = Len(m) + 1 /\ n[Len(m) + 1] = x /\ \A i \in 1 .. Len(m) : n[i] = m[i]
  BY AppendProperties, LenProperties
<1> HIDE DEF n
<1>2. ASSUME Len(m) % 2 = 0, x.role = "user"
      PROVE  Paired(n) /\ Len(n) % 2 = 1 /\ n[Len(n)] = x
  <2>1. \A i \in 1 .. Len(m) : n[i] = m[i] /\ (i % 2 # 1 => i - 1 \in 1 .. Len(m))
    BY <1>1
  <2>2. (Len(m) + 1) % 2 = 1
    BY <1>1, <1>2
  <2>3. \A i \in DOMAIN n : i \in 1 .. Len(m) \/ i = Len(m) + 1
    BY <1>1
  <2> QED
    BY <1>1, <1>2, <2>1, <2>2, <2>3 DEF Paired
<1>3. ASSUME Len(m) % 2 = 1, x.role = "assistant", x.asker = m[Len(m)].asker
      PROVE  Paired(n) /\ Len(n) % 2 = 0
  <2>1. \A i \in 1 .. Len(m) : n[i] = m[i] /\ (i % 2 # 1 => i - 1 \in 1 .. Len(m))
    BY <1>1
  <2>2. (Len(m) + 1) % 2 = 0 /\ Len(m) \in 1 .. Len(m) /\ (Len(m) + 1) - 1 = Len(m)
    BY <1>1, <1>3
  <2>3. \A i \in DOMAIN n : i \in 1 .. Len(m) \/ i = Len(m) + 1
    BY <1>1
  <2> QED
    BY <1>1, <1>3, <2>1, <2>2, <2>3 DEF Paired
<1> QED
  BY <1>2, <1>3 DEF n

\* A session nobody writes to, and whose answerers stay the same.
LEMMA OtherSession ==
  ASSUME NEW s \in Sessions, SessionInv(s), chat'[s] = chat[s], Answering(s)' = Answering(s)
  PROVE  SessionInv(s)'
  BY DEF SessionInv

\* _log: a question, then its answer, each at the end of the session.
LEMMA LogSessions ==
  ASSUME TalkInv, SessionsInv, NEW a \in Askers, LogQuestion(a) \/ LogAnswer(a)
  PROVE  SessionsInv'
<1>1. chat \in [Sessions -> Chats \cup {Gone}] /\ ask \in [Askers -> Asks]
  BY DEF TalkInv, TalkType
<1>4. CASE ask[a].session = Gone
  <2>1. chat' = chat
    BY <1>4, LogSteps, SaysIs, GoneIsGone
  <2>2. \A b \in Askers \ {a} : ask'[b] = ask[b]
    BY <1>1, LogSteps
  <2>3. ask'[a].session = Gone
    <3>1. CASE ask' = [ask EXCEPT ![a].pc = "answer"]
      BY <1>1, <1>4, <3>1 DEF Asks
    <3>2. CASE ask' = [ask EXCEPT ![a] = NoAsk]
      BY <1>1, <3>2, NoAskIs
    <3> QED
      BY <3>1, <3>2, LogSteps
  <2>4. \A s \in Sessions : Answering(s)' = Answering(s)
    BY <1>4, <2>2, <2>3, GoneIsGone DEF Answering
  <2> QED
    BY <2>1, <2>4, OtherSession DEF SessionsInv
<1> SUFFICES ASSUME ask[a].session # Gone
             PROVE  SessionsInv'
  BY <1>4
<1>0. PICK t \in Sessions, m \in Seq(Messages) :
        /\ ask[a].pc # "idle" /\ t = ask[a].session /\ m = chat[t].messages
        /\ chat[t] \in Chats /\ chat[t] # Gone
  <2>1. ask[a].pc # "idle" /\ ask[a].session \in Sessions
    BY <1>1, LogSteps DEF Asks
  <2> QED
    BY <1>1, <2>1 DEF TalkInv, SessionsExist, Chats
<1>2. CASE /\ ask[a].pc = "question" /\ ask' = [ask EXCEPT ![a].pc = "answer"]
           /\ chat' = [chat EXCEPT ![t] = Said(a, "user", chat[t].overlapped \/ Intrudes(a))]
  <2>1. \A b \in Askers : /\ ask'[b].session = ask[b].session
                          /\ ask'[b].pc = IF b = a THEN "answer" ELSE ask[b].pc
    BY <1>1, <1>2 DEF Asks
  <2>2. \A s \in Sessions \ {t} : SessionInv(s)'
    BY <1>0, <1>1, <1>2, <2>1, OtherSession DEF Answering, SessionsInv
  <2>3. Answering(t)' = Answering(t) \cup {a}
    BY <1>0, <2>1 DEF Answering
  <2>4. (chat[t].overlapped \/ Intrudes(a)) \in BOOLEAN
    BY <1>0 DEF Intrudes, Chats
  <2>5. /\ chat'[t].messages = Append(m, Message("user", a)) /\ Message("user", a) \in Messages
        /\ chat'[t].overlapped = (chat[t].overlapped \/ Intrudes(a))
    BY <1>0, <1>1, <1>2, <2>4, SaidTyped
  <2>6. ASSUME ~chat'[t].overlapped
        PROVE  SessionInv(t)'
    <3>1. ~chat[t].overlapped /\ Answering(t) = {}
      BY <1>0, <1>2, <2>5, <2>6 DEF Intrudes, Answering
    <3>2. Paired(m) /\ Len(m) % 2 = 0
      BY <1>0, <3>1 DEF SessionsInv, SessionInv
    <3>3. Message("user", a).role = "user" /\ Message("user", a).asker = a
      BY DEF Message
    <3> DEFINE x == Message("user", a)
               n == Append(m, x)
    <3>a. x \in Messages /\ x.role = "user" /\ x.asker = a
      BY <2>5, <3>3
    <3> HIDE DEF x
    <3>b. Paired(n) /\ Len(n) % 2 = 1 /\ n[Len(n)].asker = a
      BY <3>2, <3>a, PairsGrow
    <3>c. chat'[t].messages = n
      BY <2>5 DEF x
    <3> HIDE DEF n
    <3>4. /\ Paired(chat'[t].messages) /\ Len(chat'[t].messages) % 2 = 1
          /\ chat'[t].messages[Len(chat'[t].messages)].asker = a
      BY <3>b, <3>c
    <3>5. Answering(t)' = {a}
      BY <2>3, <3>1
    <3> QED
      BY <3>4, <3>5 DEF SessionInv
  <2>7. SessionInv(t)'
    BY <2>6 DEF SessionInv
  <2> QED
    BY <2>2, <2>7 DEF SessionsInv
<1>3. CASE /\ ask[a].pc = "answer" /\ ask' = [ask EXCEPT ![a] = NoAsk]
           /\ chat' = [chat EXCEPT ![t] = Said(a, "assistant", chat[t].overlapped \/ FALSE)]
  <2>1. ask'[a].pc = "idle" /\ \A b \in Askers \ {a} : ask'[b] = ask[b]
    BY <1>1, <1>3, NoAskIs
  <2>2. \A s \in Sessions \ {t} : SessionInv(s)'
    BY <1>0, <1>1, <1>3, <2>1, OtherSession DEF Answering, SessionsInv
  <2>3. Answering(t)' = Answering(t) \ {a} /\ a \in Answering(t)
    BY <1>0, <1>3, <2>1 DEF Answering
  <2>4. (chat[t].overlapped \/ FALSE) \in BOOLEAN /\ (chat[t].overlapped \/ FALSE) = chat[t].overlapped
    BY <1>0 DEF Chats
  <2>5. /\ chat'[t].messages = Append(m, Message("assistant", a)) /\ Message("assistant", a) \in Messages
        /\ chat'[t].overlapped = chat[t].overlapped
    BY <1>0, <1>1, <1>3, <2>4, SaidTyped
  <2>6. ASSUME ~chat'[t].overlapped
        PROVE  SessionInv(t)'
    <3>a. Paired(m) /\ \A b \in Answering(t) : Len(m) % 2 = 1 /\ m[Len(m)].asker = b
      BY <1>0, <2>5, <2>6 DEF SessionsInv, SessionInv
    <3>1. Paired(m) /\ Len(m) % 2 = 1 /\ m[Len(m)].asker = a /\ Answering(t) = {a}
      BY <2>3, <3>a
    <3>2. Message("assistant", a).role = "assistant" /\ Message("assistant", a).asker = a
      BY DEF Message
    <3> DEFINE x == Message("assistant", a)
               n == Append(m, x)
    <3>b. x \in Messages /\ x.role = "assistant" /\ x.asker = m[Len(m)].asker
      BY <2>5, <3>1, <3>2
    <3> HIDE DEF x
    <3>c. Paired(n) /\ Len(n) % 2 = 0
      BY <3>1, <3>b, PairsGrow
    <3>d. chat'[t].messages = n
      BY <2>5 DEF x
    <3> HIDE DEF n
    <3>3. Paired(chat'[t].messages) /\ Len(chat'[t].messages) % 2 = 0
      BY <3>c, <3>d
    <3>4. Answering(t)' = {}
      BY <2>3, <3>1
    <3> QED
      BY <3>3, <3>4 DEF SessionInv
  <2>7. SessionInv(t)'
    BY <2>6 DEF SessionInv
  <2> QED
    BY <2>2, <2>7 DEF SessionsInv
<1>5. CASE /\ ask[a].pc = "question" /\ ask' = [ask EXCEPT ![a].pc = "answer"]
           /\ Says("user", a, Intrudes(a)) /\ Intrudes(a) \in BOOLEAN
  BY <1>0, <1>2, <1>5, SaysIs
<1>6. CASE /\ ask[a].pc = "answer" /\ ask' = [ask EXCEPT ![a] = NoAsk]
           /\ Says("assistant", a, FALSE)
  BY <1>0, <1>3, <1>6, SaysIs
<1> QED
  BY <1>5, <1>6, LogSteps

\* What the chat does keeps questions and answers in order where no two overlap.
LEMMA TalkSessions ==
  ASSUME TalkInv, SessionsInv, TalkNext
  PROVE  SessionsInv'
<1>1. chat \in [Sessions -> Chats \cup {Gone}] /\ ask \in [Askers -> Asks]
  BY DEF TalkInv, TalkType
<1>2. CASE StartServer
  BY <1>2 DEF StartServer, SessionsInv, SessionInv
<1>3. CASE \E s \in Sessions, class \in {"internal", "confidential"} : CreateSession(s, class)
  <2>1. PICK s \in Sessions, class \in {"internal", "confidential"} : CreateSession(s, class)
    BY <1>3
  <2>2. /\ chat' = [chat EXCEPT ![s] = [class |-> class, messages |-> <<>>, overlapped |-> FALSE]]
        /\ \A a \in Askers : /\ ask[a].session = s => ask'[a].session = Gone
                             /\ ask[a].session # s => ask'[a] = ask[a]
    BY <1>1, <2>1 DEF CreateSession, Asks
  <2>3. \A r \in Sessions \ {s} : Answering(r)' = Answering(r)
    BY <2>2, GoneIsGone DEF Answering
  <2>4. chat'[s].messages = <<>> /\ Answering(s)' = {}
    BY <1>1, <2>2, GoneIsGone DEF Answering
  <2>5. Paired(<<>>) /\ Len(<<>>) % 2 = 0
    BY DEF Paired
  <2>6. SessionInv(s)'
    BY <2>4, <2>5 DEF SessionInv
  <2>7. \A r \in Sessions \ {s} : SessionInv(r)'
    BY <1>1, <2>2, <2>3, OtherSession DEF SessionsInv
  <2> QED
    BY <2>6, <2>7 DEF SessionsInv
<1>4. CASE \E a \in Askers, s \in Sessions, q \in Questions : Ask(a, s, q)
  <2>1. PICK a \in Askers, s \in Sessions, q \in Questions : Ask(a, s, q)
    BY <1>4
  <2>2. /\ chat' = chat /\ ask[a].pc = "idle"
        /\ \E x : ask' = [ask EXCEPT ![a] = [pc |-> "question", session |-> s, answer |-> x]]
    BY <2>1 DEF Ask
  <2>3. ask'[a].pc = "question" /\ \A b \in Askers \ {a} : ask'[b] = ask[b]
    BY <1>1, <2>2
  <2>4. \A r \in Sessions : Answering(r)' = Answering(r)
    BY <2>2, <2>3 DEF Answering
  <2> QED
    BY <2>2, <2>4, OtherSession DEF SessionsInv
<1>5. CASE \E a \in Askers : LogQuestion(a) \/ LogAnswer(a)
  BY <1>5, LogSessions
<1> QED
  BY <1>2, <1>3, <1>4, <1>5 DEF TalkNext

\* A session is a row of questions, each with its own answer behind it, unless two questions
\* overlapped: _log writes a question and its answer in two steps, to a list all askers share.
THEOREM QuestionsAreAnswered == Spec => []AnswersFollowQuestions
<1>1. Init => SessionsInv
  BY DEF Init, SessionsInv, SessionInv
<1>2. TalkInv /\ SessionsInv /\ [Next]_vars => SessionsInv'
  <2> SUFFICES ASSUME TalkInv, SessionsInv, [Next]_vars
               PROVE  SessionsInv'
    OBVIOUS
  <2>1. CASE UNCHANGED vars \/ TreeNext \/ (\E b \in Builders : BuildNext(b))
    <3>1. UNCHANGED <<ask, chat>>
      BY <2>1 DEF vars, talk, TreeNext, Edit, ProjectEvents, BuildNext, StartBuild,
                  LinkBuild, KeepGraph, OpenGraph, FillGraph, KillBuild
    <3>2. \A s \in Sessions : Answering(s)' = Answering(s)
      BY <3>1 DEF Answering
    <3> QED
      BY <3>1, <3>2, OtherSession DEF SessionsInv
  <2> QED
    BY <2>1, TalkSessions, NextIs
<1>3. SessionsInv => AnswersFollowQuestions
  BY DEF SessionsInv, SessionInv, Paired, AnswersFollowQuestions
<1> QED
  BY <1>1, <1>2, <1>3, KnowledgeHolds, PTL DEF Spec

=============================================================================
