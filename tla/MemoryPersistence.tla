------------------------- MODULE MemoryPersistence -------------------------
(***************************************************************************)
(* The RunStateStore and EventLedger ports as the in-memory adapters keep  *)
(* them (adapters/persistence.py): what every other adapter promises.      *)
(***************************************************************************)
EXTENDS Sequences, SequencesExt

CONSTANTS Runs, Attempts, States, Events

VARIABLES
  snapshots,        \* (run, attempt) -> state, where there is one
  attemptOrder,     \* run -> its attempts, in the order they were first saved
  events

vars == <<snapshots, attemptOrder, events>>

Init ==
  /\ snapshots = <<>>
  /\ attemptOrder = [r \in Runs |-> <<>>]
  /\ events = <<>>

Save(run, attempt, state) ==
  LET key == <<run, attempt>>
  IN  /\ snapshots' = [k \in DOMAIN snapshots \cup {key} |->
                         IF k = key THEN state ELSE snapshots[k]]
      /\ attemptOrder' = IF attempt \in ToSet(attemptOrder[run]) THEN attemptOrder
                         ELSE [attemptOrder EXCEPT ![run] = Append(@, attempt)]
      /\ UNCHANGED events

Delete(run, attempt) ==
  /\ snapshots' = [k \in DOMAIN snapshots \ {<<run, attempt>>} |-> snapshots[k]]
  /\ attemptOrder' = [attemptOrder EXCEPT ![run] = RemoveFirst(@, attempt)]
  /\ UNCHANGED events

AppendEvent(event) ==
  /\ events' = Append(events, event)
  /\ UNCHANGED <<snapshots, attemptOrder>>

Next ==
  \/ \E r \in Runs, a \in Attempts, s \in States : Save(r, a, s)
  \/ \E r \in Runs, a \in Attempts : Delete(r, a)
  \/ \E e \in Events : AppendEvent(e)

Spec == Init /\ [][Next]_vars

=============================================================================
