--------------------------- MODULE SqlPersistence ---------------------------
(***************************************************************************)
(* The SQLite and PostgreSQL adapters of RunStateStore and EventLedger     *)
(* (adapters/sqlite.py, repositories/postgres/stores.py), the id           *)
(* generators, and the projection of the ledger into events.jsonl          *)
(* (telemetry/event_writer.py).                                            *)
(*                                                                         *)
(* Each statement commits by itself, so an operation is atomic.  Events    *)
(* are numbered in the order the platform emits them.  Ids are numbers:    *)
(* the sequential generator counts within one process, the random one      *)
(* draws any that was never drawn.  A projector gets the events, reads     *)
(* the file and then writes line by line; it may die between any two of    *)
(* these, leaving half a line perhaps.                                     *)
(***************************************************************************)
EXTENDS Integers, Sequences, SequencesExt, FiniteSets

CONSTANTS
  Runs, Attempts, States,
  Backends,         \* "sqlite", "postgres"
  Generators,       \* "sequential", "random"
  Projectors,
  MaxOperations,    \* bound: saves, deletes and appends
  MaxEvents,        \* bound: events, and ids
  MaxRestarts,      \* bound: restarts of the process that emits
  MaxDeaths         \* bound: deaths of projectors

ASSUME PersistenceBounds ==
  {MaxOperations, MaxEvents, MaxRestarts, MaxDeaths} \subseteq Nat

VARIABLES
  backend, generator,
  runState,         \* rows [run, attempt, state, seq]
  savedSeq,         \* the last saved_seq
  rows,             \* rows [id, event] of the events table, by rowid
  counter,          \* of SequentialIdGenerator
  emitted,          \* history: the id each event was given
  process,          \* history: the process that emitted each event
  file,             \* lines of events.jsonl: ids, Torn, Broken
  projector,        \* [phase, todo] of each projection
  raced,            \* history: projections have overlapped
  operations, restarts, deaths

storeVars == <<runState, savedSeq>>
ledgerVars == <<rows, counter, emitted, process>>
fileVars == <<file, projector, raced>>
counters == <<operations, restarts, deaths>>
vars == <<backend, generator, storeVars, ledgerVars, fileVars, counters>>

Torn   == 0         \* half a line at the end
Broken == -1        \* half a line that another one was written to
Idle == [phase |-> "idle", todo |-> <<>>]

Init ==
  /\ backend \in Backends
  /\ generator \in Generators
  /\ runState = {} /\ savedSeq = 0
  /\ rows = <<>> /\ counter = 0 /\ emitted = <<>> /\ process = <<>>
  /\ file = <<>> /\ projector = [p \in Projectors |-> Idle] /\ raced = FALSE
  /\ operations = 0 /\ restarts = 0 /\ deaths = 0

Counted ==
  operations < MaxOperations /\ operations' = operations + 1 /\ UNCHANGED <<restarts, deaths>>

-----------------------------------------------------------------------------
(* run_state                                                               *)

RowsOf(run, attempt) == {r \in runState : r.run = run /\ r.attempt = attempt}

\* Slip: INSERT OR REPLACE, which is a new row.
SaveReplacing(run, attempt, state) ==
  /\ Counted
  /\ savedSeq' = savedSeq + 1
  /\ runState' = (runState \ RowsOf(run, attempt)) \cup
                   {[run |-> run, attempt |-> attempt, state |-> state, seq |-> savedSeq + 1]}
  /\ UNCHANGED <<backend, generator, ledgerVars, fileVars>>

\* INSERT ... ON CONFLICT DO UPDATE: a row that is there keeps its number.
Save(run, attempt, state) ==
  LET there == RowsOf(run, attempt)
  IN  /\ Counted
      /\ savedSeq' = savedSeq + 1
      /\ runState' = IF there # {}
                     THEN (runState \ there) \cup {[r EXCEPT !.state = state] : r \in there}
                     ELSE runState \cup {[run |-> run, attempt |-> attempt,
                                          state |-> state, seq |-> savedSeq + 1]}
      /\ UNCHANGED <<backend, generator, ledgerVars, fileVars>>

Delete(run, attempt) ==
  /\ Counted
  /\ RowsOf(run, attempt) # {}
  /\ runState' = runState \ RowsOf(run, attempt)
  /\ UNCHANGED <<backend, generator, savedSeq, ledgerVars, fileVars>>

\* What load returns, by run and attempt.
Snapshots ==
  [k \in {<<r.run, r.attempt>> : r \in runState} |->
     (CHOOSE r \in runState : k = <<r.run, r.attempt>>).state]

\* The members of a finite set of numbers, in ascending order.
Ascending(S) ==
  CHOOSE s \in [1 .. Cardinality(S) -> S] : \A i, j \in DOMAIN s : i < j => s[i] < s[j]

\* SELECT ... ORDER BY column, where the column is unique.
OrderedBy(table, column) ==
  LET keys == Ascending({r[column] : r \in table})
  IN  [i \in DOMAIN keys |-> CHOOSE r \in table : r[column] = keys[i]]

\* The order latest_attempt_id takes the last of.
AttemptOrder(run) ==
  LET ordered == OrderedBy({r \in runState : r.run = run}, "seq")
  IN  [i \in DOMAIN ordered |-> ordered[i].attempt]

-----------------------------------------------------------------------------
(* events                                                                  *)

\* new_id.
NewIds ==
  IF generator = "sequential" THEN {counter + 1}
  ELSE (1 .. MaxEvents) \ ToSet(emitted)

\* Slip: INSERT OR REPLACE.
InsertReplacing(table, row) == Append(SelectSeq(table, LAMBDA r : r.id # row.id), row)

\* INSERT OR IGNORE, ON CONFLICT DO NOTHING.
Insert(table, row) == IF \E r \in ToSet(table) : r.id = row.id THEN table ELSE Append(table, row)

AppendEvent(id) ==
  /\ Counted
  /\ Len(emitted) < MaxEvents
  /\ id \in NewIds
  /\ counter' = IF generator = "sequential" THEN id ELSE counter
  /\ emitted' = Append(emitted, id)
  /\ process' = Append(process, restarts)
  /\ rows' = Insert(rows, [id |-> id, event |-> Len(emitted) + 1])
  /\ UNCHANGED <<backend, generator, storeVars, fileVars>>

\* all_events: SQLite by rowid, PostgreSQL by id.
AllEvents == IF backend = "sqlite" THEN rows ELSE OrderedBy(ToSet(rows), "id")

-----------------------------------------------------------------------------
(* events.jsonl                                                            *)

\* The caller's query, and the call of project_events_to_jsonl.
StartProjection(p) ==
  /\ projector[p].phase = "idle"
  /\ rows # <<>>
  /\ projector' = [projector EXCEPT ![p] =
                     [phase |-> "called", todo |-> [i \in DOMAIN AllEvents |-> AllEvents[i].id]]]
  /\ raced' = (raced \/ \E q \in Projectors \ {p} : projector[q].phase # "idle")
  /\ UNCHANGED <<backend, generator, storeVars, ledgerVars, file, counters>>

\* Slip: only the last line is compared.
NotWrittenLast(ids, lines) ==
  SelectSeq(ids, LAMBDA id : lines = <<>> \/ id # lines[Len(lines)])

NotWrittenYet(ids, lines) ==
  LET new == Ascending({i \in DOMAIN ids : ids[i] \notin ToSet(lines)})
  IN  [n \in DOMAIN new |-> ids[new[n]]]

\* _existing_event_ids: half a line is no JSON, and raises.
ReadFile(p) ==
  LET new == NotWrittenYet(projector[p].todo, file)
  IN  /\ projector[p].phase = "called"
      /\ projector' = [projector EXCEPT ![p] =
                         IF {Torn, Broken} \cap ToSet(file) # {} \/ new = <<>> THEN Idle
                         ELSE [@ EXCEPT !.phase = "writing", !.todo = new]]
      /\ UNCHANGED <<backend, generator, storeVars, ledgerVars, file, raced, counters>>

OpenEnded == file # <<>> /\ file[Len(file)] = Torn

WriteLine(p) ==
  LET todo == projector[p].todo
  IN  /\ projector[p].phase = "writing"
      /\ file' = IF OpenEnded THEN [file EXCEPT ![Len(file)] = Broken]
                 ELSE Append(file, Head(todo))
      /\ projector' = [projector EXCEPT ![p] =
                         IF Len(todo) = 1 THEN Idle ELSE [@ EXCEPT !.todo = Tail(todo)]]
      /\ UNCHANGED <<backend, generator, storeVars, ledgerVars, raced, counters>>

-----------------------------------------------------------------------------

\* The process that emits starts over, and its sequential ids with it.
Restart ==
  /\ restarts < MaxRestarts
  /\ restarts' = restarts + 1
  /\ counter' = 0
  /\ UNCHANGED <<backend, generator, storeVars, rows, emitted, process, fileVars, operations, deaths>>

\* A projector dies, in the middle of a line perhaps.
Die(p, half) ==
  /\ deaths < MaxDeaths
  /\ deaths' = deaths + 1
  /\ projector[p].phase = "writing"
  /\ file' = IF half /\ ~OpenEnded THEN Append(file, Torn) ELSE file
  /\ projector' = [projector EXCEPT ![p] = Idle]
  /\ UNCHANGED <<backend, generator, storeVars, ledgerVars, raced, operations, restarts>>

Next ==
  \/ \E r \in Runs, a \in Attempts, s \in States : Save(r, a, s)
  \/ \E r \in Runs, a \in Attempts : Delete(r, a)
  \/ \E id \in 1 .. MaxEvents : AppendEvent(id)
  \/ \E p \in Projectors : StartProjection(p) \/ ReadFile(p) \/ WriteLine(p)
  \/ Restart
  \/ \E p \in Projectors, half \in BOOLEAN : Die(p, half)

Spec == Init /\ [][Next]_vars

-----------------------------------------------------------------------------
(* Properties                                                              *)

\* The events as a client reads them; of the ledger the refinement speaks only where ids
\* do not repeat and the order is kept.
ReadEvents ==
  IF backend = "sqlite" /\ generator = "random"
  THEN [i \in DOMAIN AllEvents |-> AllEvents[i].event] ELSE <<>>

Memory == INSTANCE MemoryPersistence WITH
  Events <- 1 .. MaxEvents,
  snapshots <- Snapshots,
  attemptOrder <- [run \in Runs |-> AttemptOrder(run)],
  events <- ReadEvents

\* The SQL stores can take the place of the in-memory ones (sqlite.py, stores.py): every
\* save, delete and append does to what can be read just what the dictionary did.
ImplementsMemoryAdapters == Memory!Spec

\* An event that was appended is there for good, unless its id had been given to another
\* event by an earlier process: then it is dropped without a word (INSERT OR IGNORE).
OnlyReusedIdsAreLost ==
  \A e \in DOMAIN emitted :
    \/ \E r \in ToSet(rows) : r.id = emitted[e] /\ r.event = e
    \/ \E d \in 1 .. e - 1 : emitted[d] = emitted[e] /\ process[d] < process[e]

\* events.jsonl has no line twice unless two projections overlapped, however often the
\* projector is run or dies (project_events_to_jsonl).
LinesRepeatOnlyAfterARace ==
  raced \/ \A i, j \in DOMAIN file : file[i] = file[j] => i = j

=============================================================================
