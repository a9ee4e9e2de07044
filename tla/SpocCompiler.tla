---------------------------- MODULE SpocCompiler ----------------------------
(***************************************************************************)
(* CompileSpocService (control_plane/spoc_compiler.py) with the capability *)
(* inference and the in-memory approval gateway it asks.                   *)
(*                                                                         *)
(* The gateway is shared with the humans who resolve requests, so that a   *)
(* compilation is cut where it leaves a request there and where it reads   *)
(* the answer; everything else in it is its own and is one action with the *)
(* step before.  The inference adapter is a model: it may propose any      *)
(* sequence of Proposals.  A SPOC is what its hash distinguishes, content, *)
(* and the fields the compiler decides on; files and limits are copied.    *)
(***************************************************************************)
EXTENDS CapabilityMatcher, SequencesExt

CONSTANTS
  Catalogs, AliasFiles, AgentFiles, WorkflowFiles,  \* what the registry directory may hold
  Blocks,           \* which SPOC ids each dependency of the RAID log blocks
  Spocs,            \* SPOCs a client may submit
  Requests,         \* match requests of the library's other callers
  Proposals,        \* what the inference adapter may answer
  AutoApprove,      \* the gateway approves by itself
  MaxCompiles,      \* bound: compilations
  MaxResolutions    \* bound: human resolutions, of approvals and dependencies

ASSUME CompilerBounds == MaxCompiles \in Nat /\ MaxResolutions \in Nat

\* Files that satisfy their schema: numbers where one is meant, Nothing where there is none.
ASSUME FilesAreTyped ==
  /\ \A files \in Catalogs : IsFiniteSet(DOMAIN files)
  /\ \A files \in AgentFiles :
       /\ IsFiniteSet(DOMAIN files)
       /\ \A f \in Range(files) : f.valid =>
            /\ f.id \in Nat
            /\ f.minRate \in Nat \cup {Nothing}
            /\ IsFiniteSet(DOMAIN f.claims)
            /\ \A c \in DOMAIN f.claims : f.claims[c] \in Nat

\* MatchRequest's annotations: costs, pass rates and a budget, where there is one.
RequestTyped(request) ==
  /\ IsFiniteSet(request.tools)
  /\ request.budget \in Nat \cup {Nothing}
  /\ \A f \in {request.costs, request.rates} : \A id \in DOMAIN f : f[id] \in Nat

ASSUME RequestsAreTyped == \A request \in Requests : RequestTyped(request)

\* The content hash covers the capabilities a SPOC lists.
ASSUME ContentIsHashed == \A s, t \in Spocs : s.content = t.content => s.explicit = t.explicit

VARIABLES
  phase,            \* "boot", "down", "ready", "review" or "asked"
  caps, agents, workflows,   \* the loaded registries
  unresolved,       \* dependencies that are open, identified or in progress
  approvals,        \* InMemoryApprovalGateway: [subject, status], the id is the index
  job,              \* the compilation in progress
  manifests,        \* what compile has returned
  report,           \* the latest match a library caller got
  outcome,          \* history: how the latest compilation ended, on which capability, and
                    \* which approvals stood then
  granted,          \* history: approvals that were approved at some time
  compiles, resolutions

registries == <<caps, agents, workflows>>
counters   == <<compiles, resolutions>>
vars == <<phase, registries, unresolved, approvals, job, manifests, report, outcome, granted, counters>>

None    == "none"
NoJob   == [spoc |-> None]

Init ==
  /\ phase = "boot"
  /\ caps \in Catalogs \X AliasFiles
  /\ agents \in AgentFiles
  /\ workflows \in WorkflowFiles
  /\ unresolved \in SUBSET DOMAIN Blocks
  /\ approvals = <<>>
  /\ job = NoJob
  /\ manifests = {}
  /\ report = <<>>
  /\ outcome = [end |-> None, capability |-> None, approved |-> {}]
  /\ granted = {}
  /\ compiles = 0
  /\ resolutions = 0

\* build_app: the server starts with all the registries or not at all.
Startup ==
  LET c == load_capability_registry(caps[1], caps[2])
      a == load_agent_registry(agents, c)
      w == load_workflow_registry(workflows)
      loads == c # NoRegistry /\ a # NoRegistry /\ w # NoRegistry
  IN  /\ phase = "boot"
      /\ phase' = IF loads THEN "ready" ELSE "down"
      /\ caps' = IF loads THEN c ELSE <<>>
      /\ agents' = IF loads THEN Range(a) ELSE {}
      /\ workflows' = IF loads THEN w ELSE <<>>
      /\ UNCHANGED <<unresolved, approvals, job, manifests, report, outcome, granted, counters>>

-----------------------------------------------------------------------------
(* Compiling                                                               *)

Ended(end, c) ==
  [end |-> end, capability |-> c,
   approved |-> {id \in DOMAIN approvals : approvals[id].status = "approved"}]

\* The blocked_check a deployment passes: check_blocked over the RAID log.
Blocked(spoc) == \E d \in unresolved : spoc.id \in Blocks[d]

\* Workflow reference, version and execution mode.
KnownWorkflow(spoc) ==
  /\ spoc.workflow \in DOMAIN workflows
  /\ spoc.mode \in workflows[spoc.workflow].modes

\* process_inferred_candidates: the candidates that are known and not explicit.  What is
\* explicit under an alias is not recognised.
Candidates(spoc, proposal) ==
  LET new(c) == Known(caps, Resolve(caps, c)) /\ Resolve(caps, c) \notin spoc.explicit
      picked == SelectSeq(proposal, new)
  IN  [i \in DOMAIN picked |-> Resolve(caps, picked[i])]

HighRisk(c) == Get(caps, c).risk # "low"

\* auto_added and needs_human_review; nothing is inferred where the SPOC forbids it.
AutoAdded(spoc, proposal) ==
  IF spoc.inference THEN {c \in Range(Candidates(spoc, proposal)) : ~HighRisk(c)} ELSE {}

NeedsReview(spoc, proposal) ==
  IF spoc.inference THEN SelectSeq(Candidates(spoc, proposal), HighRisk) ELSE <<>>

\* compile, up to the first capability that needs a human.
Compile(spoc, proposal) ==
  /\ phase = "ready"
  /\ compiles < MaxCompiles
  /\ compiles' = compiles + 1
  /\ IF ~Blocked(spoc) /\ KnownWorkflow(spoc)
     THEN /\ phase' = "review"
          /\ job' = [spoc     |-> spoc,
                     inferred |-> AutoAdded(spoc, proposal),
                     todo     |-> NeedsReview(spoc, proposal),
                     asked    |-> {}]
          /\ UNCHANGED outcome
     ELSE /\ outcome' = Ended("failed", None)
          /\ UNCHANGED <<phase, job>>
  /\ UNCHANGED <<registries, unresolved, approvals, manifests, report, granted, resolutions>>

\* request_approval, always with a new id.
RequestReview ==
  LET id == Len(approvals) + 1
  IN  /\ phase = "review"
      /\ job.todo # <<>>
      /\ approvals' = Append(approvals, [subject |-> Head(job.todo),
                                         status  |-> IF AutoApprove THEN "approved" ELSE "pending"])
      /\ granted' = IF AutoApprove THEN granted \cup {id} ELSE granted
      /\ job' = [job EXCEPT !.asked = @ \cup {id}]
      /\ phase' = "asked"
      /\ UNCHANGED <<registries, unresolved, manifests, report, outcome, counters>>

\* Slip: any answer will do.
ReadReviewAnyway ==
  /\ phase = "asked"
  /\ phase' = "review"
  /\ job' = [job EXCEPT !.inferred = @ \cup {Head(job.todo)}, !.todo = Tail(@)]
  /\ UNCHANGED <<registries, unresolved, approvals, manifests, report, outcome, granted, counters>>

\* get_status, of the request left a moment ago: anything but "approved" ends compile.
ReadReview ==
  /\ phase = "asked"
  /\ IF Last(approvals).status = "approved"
     THEN /\ phase' = "review"
          /\ job' = [job EXCEPT !.inferred = @ \cup {Head(job.todo)}, !.todo = Tail(@)]
          /\ UNCHANGED outcome
     ELSE /\ phase' = "ready"
          /\ job' = NoJob
          /\ outcome' = Ended("needs_approval", Head(job.todo))
  /\ UNCHANGED <<registries, unresolved, approvals, manifests, report, granted, counters>>

MatchRequest(explicit, class) ==
  [explicit |-> explicit, class |-> class, excluded |-> {}, tools |-> {}, rates |-> <<>>,
   unavailable |-> {}, costs |-> <<>>, budget |-> Nothing]

\* spoc_version: the declared hash is taken as it is.
Version(spoc) == IF spoc.declared # Nothing THEN spoc.declared ELSE spoc.content

\* Slip: the execution key leaves the SPOC out.
ExecutionKeyUnversioned(spoc) == [id |-> spoc.id, version |-> 0, inputs |-> {}, workflow |-> spoc.workflow]

\* compute_execution_key: sorted input hashes are a bag, whichever input has which.
ExecutionKey(spoc) ==
  [id |-> spoc.id, version |-> Version(spoc), inputs |-> ToBag(spoc.inputs), workflow |-> spoc.workflow]

\* _requires_approval.  The policy denies compile_spoc only when it fails, and then closed.
RequiresApproval(spoc, denied) ==
  spoc.class \in {"confidential", "restricted"} \/ spoc.prohibited \/ denied

Manifest(spoc, inferred, team, denied) ==
  [spoc |-> spoc, inferred |-> inferred, asked |-> job.asked, team |-> team,
   approvalRequired |-> RequiresApproval(spoc, denied), key |-> ExecutionKey(spoc)]

\* The rest of compile, once nothing is left to review.
FinishCompile(denied) ==
  LET explicit == job.spoc.explicit \cup job.inferred
      team     == match(MatchRequest(explicit, job.spoc.class), agents, caps)
  IN  /\ phase = "review"
      /\ job.todo = <<>>
      /\ phase' = "ready"
      /\ job' = NoJob
      /\ IF UnknownCapability(explicit, caps) \/ team.unresolved # {}
         THEN outcome' = Ended("failed", None) /\ UNCHANGED manifests
         ELSE /\ manifests' = manifests \cup {Manifest(job.spoc, job.inferred, team, denied)}
              /\ outcome' = Ended("compiled", None)
      /\ UNCHANGED <<registries, unresolved, approvals, report, granted, counters>>

-----------------------------------------------------------------------------
(* Others                                                                  *)

\* A human resolves any request, as often as he likes.
ResolveApproval(id, approved) ==
  /\ resolutions < MaxResolutions
  /\ id \in DOMAIN approvals
  /\ resolutions' = resolutions + 1
  /\ approvals' = [approvals EXCEPT ![id].status = IF approved THEN "approved" ELSE "rejected"]
  /\ granted' = IF approved THEN granted \cup {id} ELSE granted
  /\ UNCHANGED <<phase, registries, unresolved, job, manifests, report, outcome, compiles>>

\* Somebody resolves a dependency, or opens it again.
ChangeDependency(d) ==
  /\ resolutions < MaxResolutions
  /\ resolutions' = resolutions + 1
  /\ unresolved' = IF d \in unresolved THEN unresolved \ {d} ELSE unresolved \cup {d}
  /\ UNCHANGED <<phase, registries, approvals, job, manifests, report, outcome, granted, compiles>>

\* match() called with a full request, as a match report does.  It reads the registries
\* only: one call, before the first compilation, is as good as any.
Explain(request) ==
  /\ phase = "ready"
  /\ report = <<>> /\ compiles = 0
  /\ ~UnknownCapability(request.explicit, caps)
  /\ report' = <<request, match(request, agents, caps)>>
  /\ UNCHANGED <<phase, registries, unresolved, approvals, job, manifests, outcome, granted, counters>>

Next ==
  \/ Startup
  \/ \E spoc \in Spocs, proposal \in Proposals : Compile(spoc, proposal)
  \/ RequestReview
  \/ ReadReview
  \/ \E denied \in BOOLEAN : FinishCompile(denied)
  \/ \E id \in DOMAIN approvals, approved \in BOOLEAN : ResolveApproval(id, approved)
  \/ \E d \in DOMAIN Blocks : ChangeDependency(d)
  \/ \E request \in Requests : Explain(request)

Spec == Init /\ [][Next]_vars

-----------------------------------------------------------------------------
(* Properties                                                              *)

Agent(id) == CHOOSE a \in agents : a.id = id
Members(team) == {Agent(id) : id \in team.delegates \cup ({team.primary} \ {Nothing})}

\* An agent holds a capability at or above the minimum its entry declares.
Holds(a, c) == c \in DOMAIN a.claims /\ a.claims[c] >= Get(caps, c).minimum

\* An agent may work on what is requested, and nothing observed or estimated speaks against it.
Fit(a, request) ==
  /\ a.status = "active" /\ a.id \notin request.excluded
  /\ request.class \in a.classes /\ request.tools \subseteq a.tools
  /\ ~(a.id \in DOMAIN request.rates /\ request.rates[a.id] < a.minRate)
  /\ request.budget # Nothing =>
       ~(a.id \in DOMAIN request.costs /\ request.costs[a.id] > request.budget)

\* What a caller of match() relies on, of any result without unresolved capabilities:
\* the required set holds the explicit capabilities and is closed under "requires"; each
\* of it is held well enough by a member; each member may work on the request; and there
\* is a second member only where nobody could do it alone.
Staffed(team, request) ==
  LET members == Members(team)
  IN  /\ \A c \in request.explicit : Resolve(caps, Resolve(caps, c)) \in team.required
      /\ Required(caps, team.required) \subseteq team.required
      /\ \A c \in team.required : \E a \in members : Holds(a, c)
      /\ \A a \in members : Fit(a, request)
      /\ Cardinality(members) = 2 =>
           ~\E a \in agents : Fit(a, request) /\ \A c \in team.required : Holds(a, c)

\* A manifest is staffed: whatever the registry, the aliases and the inference came to,
\* its agents hold every capability it needs and may see its data (spoc_compiler.compile).
ManifestsAreStaffed ==
  \A m \in manifests :
    Staffed(m.team, MatchRequest(m.spoc.explicit \cup m.inferred, m.spoc.class))

\* The same holds of every complete match, with exclusions, tools, costs and observed
\* pass rates in the request (capability_matcher.match).
MatchesAreStaffed ==
  report # <<>> => (report[2].unresolved = {} => Staffed(report[2], report[1]))

\* A high-risk capability gets into a manifest by inference only on an approval that was
\* asked for by that compilation and granted (_resolve_inferred_capabilities).
InferredRiskWasApproved ==
  \A m \in manifests : \A c \in m.inferred :
    HighRisk(c) => \E id \in m.asked \cap granted : approvals[id].subject = c

\* Two manifests with one execution key need the same capabilities, unless a SPOC
\* declared its own hash or let a model infer capabilities (compute_execution_key).
SameKeySameWork ==
  \A m, n \in manifests :
    /\ m.key = n.key
    /\ \A k \in {m, n} : k.spoc.declared = Nothing /\ ~k.spoc.inference
    => m.team.required = n.team.required

\* As the docstring of _resolve_inferred_capabilities has it, a review blocks compilation
\* until an approval record for the capability exists.
ApprovalUnblocksCompilation ==
  outcome.end = "needs_approval" =>
    ~\E id \in outcome.approved : approvals[id].subject = outcome.capability

=============================================================================
