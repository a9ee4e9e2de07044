---------------------------- MODULE KnowledgeBase ----------------------------
(***************************************************************************)
(* A project's documents while people edit them and runs leave evidence:   *)
(* the command that rebuilds graph_index.json, the server that loads the   *)
(* graph when it starts, and the project manager's chat over what was      *)
(* loaded (execution_plane/pm_query_flow.py, api/app.py).                  *)
(*                                                                         *)
(* A walk over the tree is one step; a graph build walks it twice.  A      *)
(* question is a set of words, an answer what it cites.                    *)
(***************************************************************************)
EXTENDS KnowledgeGraph, Sequences

CONSTANTS
  Leaves,                     \* the events files runs may leave
  Drafts, Editable,           \* what people write, and where
  Builders,                   \* "graph rebuild" processes
  Sessions, Askers, Questions,
  MaxCitations,               \* 5 in the code
  MaxOperations,              \* bound: edits, rebuilds, server starts, questions
  NoGraph, Torn               \* no graph_index.json; one cut off or garbled

ASSUME KnowledgeBounds ==
  /\ Dir \in Seq({Dir[f] : f \in Files}) /\ Len(Dir) >= 4 /\ Editable \subseteq Files
  /\ MaxCitations \in Nat \ {0}
  /\ MaxOperations \in Nat

\* A session is not taken for the lack of one.
ASSUME GoneIsNoSession ==
  LET Written     == Drafts \cup {ProjectIntake} \cup {PlanningBaseline[i] : i \in 1 .. 3}
      Identifiers == Leaves \cup {d.id : d \in Written \ {Gone, Broken}}
      Messages    == [role : {"user", "assistant"}, asker : Askers, citations : SUBSET Identifiers]
  IN  Gone \notin Sessions \cup
        [class : {"internal", "confidential"}, messages : Seq(Messages), overlapped : BOOLEAN]

VARIABLES
  docs, leaves,   \* the tree
  graph,          \* graph_index.json
  build,          \* each rebuild process
  up, loaded,     \* whether the server runs; what it read when it started
  chat,           \* session -> its classification and messages, or Gone
  ask,            \* each handler of post_chat_message
  readable,       \* history: identifiers that were once open to the chat
  skewed,         \* history: the graph's build saw the tree change between its walks
  operations

tree  == <<docs, leaves, readable>>
made  == <<graph, build, skewed>>
talk  == <<up, loaded, chat, ask>>
vars  == <<tree, made, talk, operations>>

\* The bound on what is begun.
Operate == operations < MaxOperations /\ operations' = operations + 1

Allowed     == {"public", "internal"}
OpenIds(t)  == {t[f].id : f \in {g \in Named(t) : ClassOf(t[g]) \in Allowed}}

NoBuild == [pc |-> "idle", nodes |-> {}, edges |-> {}, skewed |-> FALSE, clean |-> FALSE]
Refusal == [authorized |-> FALSE, citations |-> {}]
NoAsk   == [pc |-> "idle", session |-> Gone, answer |-> Refusal]

\* A project after intake and planning.
Init ==
  /\ docs = [f \in Files |-> IF f = 1 THEN ProjectIntake
                             ELSE IF f <= 4 THEN PlanningBaseline[f - 1] ELSE Gone]
  /\ leaves = {}
  /\ graph = NoGraph
  /\ build = [b \in Builders |-> NoBuild]
  /\ loaded = NoGraph
  /\ chat = [s \in Sessions |-> Gone]
  /\ ask = [a \in Askers |-> NoAsk]
  /\ readable = OpenIds(docs)
  /\ skewed = FALSE
  /\ up = FALSE
  /\ operations = 0

-----------------------------------------------------------------------------
(* The tree                                                                *)

\* Somebody writes or deletes a document.
Edit(f, d) ==
  /\ Operate
  /\ docs[f] # d
  /\ docs' = [docs EXCEPT ![f] = d]
  /\ readable' = readable \cup OpenIds(docs')
  /\ build' = [b \in Builders |-> [build[b] EXCEPT !.skewed = @ \/ build[b].pc = "link"]]
  /\ UNCHANGED <<leaves, graph, skewed, talk>>

\* The events of a run are projected to a new file.
ProjectEvents(l) ==
  /\ l \notin leaves
  /\ leaves' = leaves \cup {l}
  /\ readable' = readable \cup {l}
  /\ UNCHANGED <<docs, made, talk, operations>>

-----------------------------------------------------------------------------
(* graph rebuild                                                           *)

StartBuild(b) ==
  /\ build[b].pc = "idle" /\ Operate
  /\ build' = [build EXCEPT ![b] = [NoBuild EXCEPT !.pc = "link", !.nodes = NodesOf(docs, leaves)]]
  /\ UNCHANGED <<graph, skewed, tree, talk>>

\* A type without a style or a dangling link ends the build before anything is written.
LinkBuild(b) ==
  LET nodes == build[b].nodes
  IN  /\ build[b].pc = "link"
      /\ build' = [build EXCEPT ![b] =
           IF UnknownTypes(nodes) # {} \/ Dangles(docs, nodes) THEN NoBuild
           ELSE [build[b] EXCEPT !.pc = "open", !.edges = EdgesOf(docs, nodes)]]
      /\ UNCHANGED <<graph, skewed, tree, talk, operations>>

Output(b) == [nodes |-> build[b].nodes, edges |-> build[b].edges]

\* What is unchanged is not rewritten.
KeepGraph(b) ==
  /\ build[b].pc = "open" /\ graph = Output(b)
  /\ build' = [build EXCEPT ![b] = NoBuild]
  /\ UNCHANGED <<graph, skewed, tree, talk, operations>>

\* write_text empties the file, then fills it.
OpenGraph(b) ==
  /\ build[b].pc = "open" /\ graph # Output(b)
  /\ graph' = Torn
  /\ build' = [build EXCEPT ![b].pc = "fill", ![b].clean = TRUE]
  /\ UNCHANGED <<skewed, tree, talk, operations>>

\* Where another build has filled the file meanwhile, the end of its text may stay.
FillGraph(b) ==
  /\ build[b].pc = "fill"
  /\ graph' \in {Output(b)} \cup IF build[b].clean THEN {} ELSE {Torn}
  /\ skewed' = build[b].skewed
  /\ build' = [c \in Builders |->
       IF c = b THEN NoBuild
       ELSE [build[c] EXCEPT !.clean = @ /\ Output(c) = Output(b)]]
  /\ UNCHANGED <<tree, talk, operations>>

KillBuild(b) ==
  /\ build[b].pc # "idle"
  /\ build' = [build EXCEPT ![b] = NoBuild]
  /\ UNCHANGED <<graph, skewed, tree, talk, operations>>

-----------------------------------------------------------------------------
(* The server and its chat                                                 *)

\* Sessions live in memory.  A graph that is cut off keeps the server from starting.
StartServer ==
  /\ Operate /\ graph # Torn
  /\ up' = TRUE
  /\ loaded' = graph
  /\ chat' = [s \in Sessions |-> Gone]
  /\ ask' = [a \in Askers |-> NoAsk]
  /\ UNCHANGED <<tree, made>>

\* An identifier that is in use gets a new session; who is asking in the old one goes on
\* with it, and nobody will read what they log.
CreateSession(s, class) ==
  /\ up
  /\ chat' = [chat EXCEPT ![s] = [class |-> class, messages |-> <<>>, overlapped |-> FALSE]]
  /\ ask' = [a \in Askers |-> IF ask[a].session = s THEN [ask[a] EXCEPT !.session = Gone] ELSE ask[a]]
  /\ UNCHANGED <<up, loaded, tree, made, operations>>

Score(n, question) == Cardinality(question \cap {n.id, n.type, n.class})

\* Slip: the classification of the nodes is left to the gate.
QueryEverything(question) ==
  IF loaded = NoGraph THEN {} ELSE {n \in loaded.nodes : Score(n, question) > 0}

QueryGraph(question) ==
  IF loaded = NoGraph THEN {}
  ELSE {n \in loaded.nodes : n.class \in Allowed /\ Score(n, question) > 0}

\* The best of the matches; the order of the identifiers decides among equals.
Best(matches, question) ==
  {c \in SUBSET matches :
     /\ Cardinality(c) = Min({MaxCitations, Cardinality(matches)})
     /\ \A n \in c, m \in matches \ c : Score(n, question) >= Score(m, question)}

\* The gate on the session, the policy, the answer from the graph.
AnswersTo(class, question) ==
  {Refusal} \cup
    IF class \notin Allowed THEN {}
    ELSE {[authorized |-> TRUE, citations |-> Ids(c)] :
            c \in Best(QueryGraph(question), question)}

Ask(a, s, question) ==
  /\ ask[a].pc = "idle" /\ chat[s] # Gone /\ Operate
  /\ \E answer \in AnswersTo(chat[s].class, question) :
       ask' = [ask EXCEPT ![a] = [pc |-> "question", session |-> s, answer |-> answer]]
  /\ UNCHANGED <<up, loaded, chat, tree, made>>

Goes(a, pc) == ask' = [ask EXCEPT ![a].pc = pc]

Message(role, a) == [role |-> role, asker |-> a, citations |->
                     IF role = "user" THEN {} ELSE ask[a].answer.citations]

\* Between the question and the answer of somebody else.
Intrudes(a) == \E c \in Askers \ {a} : ask[c].pc = "answer" /\ ask[c].session = ask[a].session

Says(role, a, overlaps) ==
  chat' = IF ask[a].session = Gone THEN chat
          ELSE [chat EXCEPT ![ask[a].session].messages = Append(@, Message(role, a)),
                            ![ask[a].session].overlapped = @ \/ overlaps]

\* Slip: the question of a refusal is not logged.
LogQuestionIfAnswered(a) ==
  /\ ask[a].pc = "question"
  /\ Goes(a, "answer")
  /\ IF ask[a].answer = Refusal THEN UNCHANGED chat ELSE Says("user", a, Intrudes(a))
  /\ UNCHANGED <<up, loaded, tree, made, operations>>

\* _log: the question, then the answer, each to the list as it is by then.
LogQuestion(a) ==
  /\ ask[a].pc = "question"
  /\ Goes(a, "answer")
  /\ Says("user", a, Intrudes(a))
  /\ UNCHANGED <<up, loaded, tree, made, operations>>

LogAnswer(a) ==
  /\ ask[a].pc = "answer"
  /\ ask' = [ask EXCEPT ![a] = NoAsk]
  /\ Says("assistant", a, FALSE)
  /\ UNCHANGED <<up, loaded, tree, made, operations>>

-----------------------------------------------------------------------------

Next ==
  \/ \E f \in Editable, d \in Drafts : Edit(f, d)
  \/ \E l \in Leaves : ProjectEvents(l)
  \/ \E b \in Builders : \/ StartBuild(b) \/ LinkBuild(b) \/ KeepGraph(b)
                         \/ OpenGraph(b) \/ FillGraph(b) \/ KillBuild(b)
  \/ StartServer
  \/ \E s \in Sessions, class \in {"internal", "confidential"} : CreateSession(s, class)
  \/ \E a \in Askers, s \in Sessions, q \in Questions : Ask(a, s, q)
  \/ \E a \in Askers : LogQuestion(a) \/ LogAnswer(a)

Spec == Init /\ [][Next]_vars

-----------------------------------------------------------------------------
(* Properties                                                              *)

\* A tree that "project validate" passes can be built to a graph: linter, cross-reference
\* validator and generator do not disagree in that direction (build_and_validate).
ValidTreesBuild == ProjectValidate(docs) => Builds(docs, leaves)

\* Every edge of the graph on disk joins two of its nodes, unless the tree changed between
\* the two walks of its build (generate_graph_index, write_graph_index).
EdgesJoinNodes ==
  graph \in {NoGraph, Torn} \/ skewed \/
    \A e \in graph.edges : {e.source, e.target} \subseteq Ids(graph.nodes)

\* Whatever the chat cites was at some time in the tree as a document it may read: neither
\* a stale graph nor a namesake lets it cite what never was (_query_graph).
CitationsWereReadable ==
  \A s \in Sessions : chat[s] = Gone \/
    \A i \in DOMAIN chat[s].messages : chat[s].messages[i].citations \subseteq readable

\* A session is a row of questions, each with its own answer behind it, unless two
\* questions overlapped (_log).
AnswersFollowQuestions ==
  \A s \in Sessions : chat[s] = Gone \/ chat[s].overlapped \/
    LET messages == chat[s].messages
    IN  \A i \in DOMAIN messages :
          IF i % 2 = 1 THEN messages[i].role = "user"
          ELSE messages[i].role = "assistant" /\ messages[i].asker = messages[i - 1].asker

=============================================================================
