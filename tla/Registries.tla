----------------------------- MODULE Registries -----------------------------
(***************************************************************************)
(* The registries of the agent platform (registries/): what a directory of *)
(* entries loads as, and how capability names are resolved.                *)
(*                                                                         *)
(* A file is a record; its field "valid" stands for a readable file that   *)
(* satisfies its JSON schema.  Loaders read the files of a sequence in     *)
(* order and raise RegistryError, here NoRegistry, on any error: nothing   *)
(* loads in part.  A score or rate that is None is Nothing.                *)
(***************************************************************************)
EXTENDS Integers, Sequences, FiniteSets, Functions, TLC

CONSTANT NoRegistry     \* RegistryError

Nothing == -1

-----------------------------------------------------------------------------
(* Loading                                                                 *)

Ids(files) == [i \in DOMAIN files |-> files[i].id]
IdsAndVersions(files) == [i \in DOMAIN files |-> <<files[i].id, files[i].version>>]

Loadable(files, keys) == (\A i \in DOMAIN files : files[i].valid) /\ IsInjective(keys)

Entries(files, keys) ==
  [k \in Range(keys) |-> files[CHOOSE i \in DOMAIN files : keys[i] = k]]

Load(files, keys) == IF Loadable(files, keys) THEN Entries(files, keys) ELSE NoRegistry

load_workflow_registry(files) == Load(files, IdsAndVersions(files))

\* The alias file comes first; of the entries, the first to claim an alias keeps it.
AliasMap(files, aliasFile) ==
  LET Claimants(a) == {i \in DOMAIN files : a \in files[i].aliases}
      First(a) == CHOOSE i \in Claimants(a) : \A j \in Claimants(a) : i <= j
      claimed  == UNION {f.aliases : f \in Range(files)}
  IN  aliasFile @@ [a \in claimed |-> files[First(a)].id]

load_capability_registry(files, aliasFile) ==
  IF Loadable(files, Ids(files))
  THEN [entries |-> Entries(files, Ids(files)), aliases |-> AliasMap(files, aliasFile)]
  ELSE NoRegistry

-----------------------------------------------------------------------------
(* CapabilityRegistry                                                      *)

Resolve(reg, c) == IF c \in DOMAIN reg.aliases THEN reg.aliases[c] ELSE c
Known(reg, c)   == Resolve(reg, c) \in DOMAIN reg.entries
Get(reg, c)     == reg.entries[Resolve(reg, c)]

\* One round of the frontier: whatever the known capabilities of S require.
Required(reg, S) ==
  {Resolve(reg, d) : d \in UNION {reg.entries[c].requires : c \in S \cap DOMAIN reg.entries}}

\* Every round but the last one adds to the set, and only a known entry feeds the next.
expand_dependencies(reg, S) ==
  LET round[n \in Nat] == IF n = 0 THEN {Resolve(reg, c) : c \in S}
                          ELSE round[n - 1] \cup Required(reg, round[n - 1])
  IN  round[Cardinality(DOMAIN reg.entries)]

-----------------------------------------------------------------------------
(* Agents                                                                  *)

\* A claim may name a capability by an alias: loading resolves it, matching does not.
load_agent_registry(files, caps) ==
  IF \A f \in Range(files) : \A c \in DOMAIN f.claims : Known(caps, c)
  THEN Load(files, Ids(files))
  ELSE NoRegistry

\* An agent without observations, or without a declared minimum, is healthy.
evaluate_health(agent, observed) ==
  \/ observed = Nothing
  \/ agent.minRate = Nothing
  \/ observed >= agent.minRate

=============================================================================
