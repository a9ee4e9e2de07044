------------------------- MODULE ScopedFiles_proofs -------------------------
(***************************************************************************)
(* Proofs about ScopedFiles: for any threads in any processes, any rules,  *)
(* names, lock directories and contents, and any number of writes and      *)
(* deaths.                                                                 *)
(***************************************************************************)
EXTENDS ScopedFiles, SequenceTheorems, WellFoundedInduction, TLAPS

-----------------------------------------------------------------------------
(* Types                                                                   *)

Written  == [text : Texts \ Secrets, run : {None}]
Content  == [text : Texts \cup {"old"}, run : {None, "run"}]
Anything == Content \cup {Missing, Partial}
Places   == {"idle", "lock", "open", "fill", "replace", "hash"}

WriterStates == [pc : Places, path : Paths \cup {<<>>}, content : Written \cup {Missing},
                 before : Anything, replaced : Anything]
StampStates  == [pc : {"idle", "stamp", "fill"}, path : Paths \cup {<<>>},
                 text : Content \cup {Missing}, linked : BOOLEAN]

TypeInv ==
  /\ files \in [Paths -> Anything]
  /\ tmp \in [Procs \X Paths -> Written \cup {Missing, Partial}]
  /\ lock \in [LockFiles -> Writers \cup {None}]
  /\ writer \in [Writers -> WriterStates]
  /\ stamper \in StampStates
  /\ \A w \in Writers : writer[w].pc # "idle" => writer[w].path \in Paths
                                                   /\ writer[w].content \in Written
  /\ stamper.pc # "idle" => stamper.path \in Paths /\ stamper.text \in Content
  /\ stamper.linked => stamper.pc = "fill"

\* From opening the temporary file to replacing the target a thread holds the lock of the
\* path, and what it is about to move there is its whole content.
LockInv ==
  \A w \in Writers :
    /\ writer[w].pc \in {"open", "fill", "replace"} => lock[Sidecar(w)] = w
    /\ writer[w].pc = "replace" => tmp[<<Process[w], writer[w].path>>] = writer[w].content

\* No content is a stand-in, and what a scoped write writes is a content.
LEMMA ContentsAreReal ==
  /\ Written \subseteq Content
  /\ Missing \notin Content /\ Partial \notin Content /\ Missing # Partial
<1>1. "missing" \notin Texts \cup {"old"} /\ "partial" \notin Texts \cup {"old"}
  BY StandInsAreOthers DEF Missing, Partial
<1> QED
  BY <1>1 DEF Written, Content, Missing, Partial

\* Where a thread of the process that replaces a path has its temporary file.
LEMMA Mine ==
  ASSUME NEW w \in Writers, NEW p \in Paths
  PROVE  <<Process[w], p>> \in Procs \X Paths
  BY DEF Procs

\* Where a thread finds the lock of its target.
LEMMA SidecarIsALock ==
  ASSUME NEW w \in Writers, writer[w].path \in Paths
  PROVE  Sidecar(w) \in LockFiles
  BY DEF Sidecar, LockFiles, Procs

\* Threads of one process that write the same path share the lock file.
LEMMA SidecarIsShared ==
  ASSUME NEW v \in Writers, NEW w \in Writers,
         Process[v] = Process[w], writer[v].path = writer[w].path
  PROVE  Sidecar(v) = Sidecar(w)
  BY DEF Sidecar

\* The lock file of a thread is that of its path, as long as it keeps the path.
LEMMA SidecarStays ==
  ASSUME NEW w \in Writers, writer'[w].path = writer[w].path
  PROVE  Sidecar(w)' = Sidecar(w)
  BY DEF Sidecar

\* A writer that does nothing is a writer.
LEMMA RestingTyped == Resting \in WriterStates
  BY DEF Resting, WriterStates, Places, Anything

\* A thread that moves on keeps what it knows.
LEMMA GoesTyped ==
  ASSUME TypeInv, NEW w \in Writers, writer[w].pc # "idle", NEW pc \in Places, Goes(w, pc)
  PROVE  /\ writer' \in [Writers -> WriterStates]
         /\ \A v \in Writers \ {w} : writer'[v] = writer[v]
         /\ writer'[w].pc = pc /\ writer'[w].path = writer[w].path
         /\ writer'[w].content = writer[w].content /\ writer'[w].before = writer[w].before
         /\ writer'[w].replaced = writer[w].replaced
  BY DEF TypeInv, Goes, WriterStates

\* What a writer does keeps the types.
LEMMA WriterTyped ==
  ASSUME TypeInv, LockInv, NEW w \in Writers, WriterStep(w)
  PROVE  TypeInv'
<1>1. ASSUME NEW n \in Names, NEW text \in Texts, Begin(w, n, text)
      PROVE  TypeInv'
  <2>1. /\ files' = files /\ tmp' = tmp /\ lock' = lock /\ stamper' = stamper
        /\ n.resolved \in Paths
    BY <1>1 DEF Begin, Paths
  <2>2. CASE text \in Secrets
    BY <1>1, <2>1, <2>2 DEF Begin, TypeInv
  <2>3. CASE text \notin Secrets
    <3> DEFINE r == [pc |-> "lock", path |-> n.resolved, content |-> [text |-> text, run |-> None],
                     before |-> files[n.resolved], replaced |-> Missing]
    <3>1. writer' = [writer EXCEPT ![w] = r]
      BY <1>1, <2>3 DEF Begin
    <3>2. r \in WriterStates /\ r.path \in Paths /\ r.content \in Written
      BY <2>1, <2>3 DEF TypeInv, WriterStates, Written, Places, Anything
    <3> HIDE DEF r
    <3> QED
      BY <2>1, <3>1, <3>2 DEF TypeInv
  <2> QED
    BY <2>2, <2>3
<1>2. CASE Lock(w)
  <2>1. /\ files' = files /\ tmp' = tmp /\ stamper' = stamper
        /\ writer[w].path \in Paths /\ lock' = [lock EXCEPT ![Sidecar(w)] = w]
    BY <1>2 DEF Lock, TypeInv
  <2>2. Sidecar(w) \in LockFiles
    BY <2>1, SidecarIsALock
  <2> QED
    BY <1>2, <2>1, <2>2, GoesTyped DEF Lock, TypeInv, Places
<1>3. CASE Open(w)
  <2>1. /\ files' = files /\ lock' = lock /\ stamper' = stamper
        /\ writer[w].path \in Paths
        /\ tmp' = [tmp EXCEPT ![<<Process[w], writer[w].path>>] = Partial]
    BY <1>3 DEF Open, TypeInv
  <2> QED
    BY <1>3, <2>1, GoesTyped DEF Open, TypeInv, Places
<1>4. CASE Fill(w)
  <2>1. /\ files' = files /\ lock' = lock /\ stamper' = stamper
        /\ writer[w].path \in Paths /\ writer[w].content \in Written
        /\ tmp' = [tmp EXCEPT ![<<Process[w], writer[w].path>>] = writer[w].content]
    BY <1>4 DEF Fill, TypeInv
  <2> QED
    BY <1>4, <2>1, GoesTyped DEF Fill, TypeInv, Places
<1>5. CASE Replace(w)
  <2>1. /\ writer[w].path \in Paths /\ writer[w].content \in Written
        /\ tmp[<<Process[w], writer[w].path>>] = writer[w].content
        /\ files[writer[w].path] \in Anything
    BY <1>5 DEF Replace, TypeInv, LockInv, Anything
  <2>2. /\ files' = [files EXCEPT ![writer[w].path] = writer[w].content]
        /\ tmp' = [tmp EXCEPT ![<<Process[w], writer[w].path>>] = Missing]
        /\ lock' = [lock EXCEPT ![Sidecar(w)] = None]
        /\ writer' = [writer EXCEPT ![w].pc = "hash", ![w].replaced = files[writer[w].path]]
        /\ stamper' = IF stamper.path = writer[w].path THEN [stamper EXCEPT !.linked = FALSE]
                                                       ELSE stamper
    BY <1>5, <2>1 DEF Replace
  <2>3. /\ writer' \in [Writers -> WriterStates]
        /\ \A v \in Writers : writer'[v].path = writer[v].path
                                /\ writer'[v].content = writer[v].content
                                /\ (v # w => writer'[v].pc = writer[v].pc)
    BY <2>1, <2>2 DEF TypeInv, WriterStates, Places
  <2>4. files' \in [Paths -> Anything]
    BY <2>1, <2>2, ContentsAreReal DEF TypeInv, Anything
  <2>5. /\ stamper' \in StampStates /\ stamper'.pc = stamper.pc
        /\ stamper'.path = stamper.path /\ stamper'.text = stamper.text
        /\ stamper'.linked => stamper.linked
    BY <2>2 DEF TypeInv, StampStates
  <2>6. Sidecar(w) \in LockFiles
    BY <2>1, SidecarIsALock
  <2> QED
    BY <2>1, <2>2, <2>3, <2>4, <2>5, <2>6 DEF TypeInv
<1>6. CASE Finish(w)
  BY <1>6, RestingTyped DEF Finish, TypeInv, Resting
<1>7. CASE Raise(w)
  BY <1>7, RestingTyped DEF Raise, TypeInv, Resting
<1> QED
  BY <1>1, <1>2, <1>3, <1>4, <1>5, <1>6, <1>7 DEF WriterStep

\* Killing a process and stamping a file keep the types.
LEMMA OthersTyped ==
  ASSUME TypeInv, Next, \A w \in Writers : ~WriterStep(w)
  PROVE  TypeInv'
<1>1. ASSUME NEW q \in Procs, Kill(q)
      PROVE  TypeInv'
  <2> DEFINE gone == {w \in Writers : Process[w] = q}
  <2>1. /\ files' = files /\ tmp' = tmp /\ stamper' = stamper
        /\ writer' = [w \in Writers |-> IF w \in gone THEN Resting ELSE writer[w]]
        /\ lock' = [f \in LockFiles |-> IF lock[f] \in gone THEN None ELSE lock[f]]
    BY <1>1 DEF Kill
  <2> HIDE DEF gone
  <2> QED
    BY <2>1, RestingTyped DEF TypeInv, Resting
<1>2. CASE \E n \in Names : Read(n)
  BY <1>2 DEF Read, TypeInv
<1>3. ASSUME NEW p \in Documents, StampRead(p)
      PROVE  TypeInv'
  <2>1. p \in Paths /\ files[p] \in Content
    BY <1>3, PathsAreSequences DEF TypeInv, StampRead, Anything
  <2>2. [files[p] EXCEPT !.run = "run"] \in Content
    BY <2>1 DEF Content
  <2> QED
    BY <1>3, <2>1, <2>2 DEF StampRead, TypeInv, StampStates
<1>4. CASE StampOpen
  BY <1>4 DEF StampOpen, TypeInv, StampStates, Anything
<1>5. CASE StampFill
  <2>1. files' \in [Paths -> Anything]
    BY <1>5 DEF StampFill, TypeInv, Anything
  <2> QED
    BY <1>5, <2>1 DEF StampFill, TypeInv, StampStates, NoStamp
<1>6. CASE StampDies
  BY <1>6 DEF StampDies, TypeInv, StampStates, NoStamp
<1> QED
  BY <1>1, <1>2, <1>3, <1>4, <1>5, <1>6 DEF Next

-----------------------------------------------------------------------------
(* Locks                                                                   *)

\* What a writer does keeps a target under its lock while it is being written.
LEMMA WriterLocks ==
  ASSUME TypeInv, LockInv, NEW w \in Writers, WriterStep(w)
  PROVE  LockInv'
<1>1. ASSUME NEW n \in Names, NEW text \in Texts, Begin(w, n, text)
      PROVE  LockInv'
  <2>1. /\ UNCHANGED <<tmp, lock>>
        /\ \A v \in Writers : writer'[v] = writer[v] \/ writer'[v].pc = "lock"
    BY <1>1 DEF Begin, TypeInv
  <2> QED
    BY <2>1, SidecarStays DEF LockInv
<1>2. CASE Lock(w)
  <2>1. /\ lock[Sidecar(w)] = None /\ lock' = [lock EXCEPT ![Sidecar(w)] = w]
        /\ tmp' = tmp /\ writer[w].path \in Paths
        /\ \A v \in Writers \ {w} : writer'[v] = writer[v]
        /\ writer'[w].pc = "open" /\ writer'[w].path = writer[w].path
    BY <1>2, GoesTyped DEF Lock, TypeInv, Places
  <2>2. Sidecar(w) \in LockFiles /\ \A v \in Writers : Sidecar(v)' = Sidecar(v)
    BY <2>1, SidecarIsALock, SidecarStays
  <2>3. lock'[Sidecar(w)] = w /\ \A f \in LockFiles : f # Sidecar(w) => lock'[f] = lock[f]
    BY <2>1, <2>2 DEF TypeInv
  <2>4. ASSUME NEW v \in Writers \ {w}, writer[v].pc \in {"open", "fill", "replace"}
        PROVE  lock'[Sidecar(v)] = v
    <3>1. lock[Sidecar(v)] = v /\ Sidecar(v) \in LockFiles
      BY <2>4, SidecarIsALock DEF LockInv, TypeInv
    <3>2. Sidecar(v) # Sidecar(w)
      BY <2>1, <3>1, StandInsAreOthers
    <3> QED
      BY <2>3, <3>1, <3>2
  <2> QED
    BY <2>1, <2>2, <2>3, <2>4 DEF LockInv
<1>3. CASE Open(w)
  <2>1. /\ tmp' = [tmp EXCEPT ![<<Process[w], writer[w].path>>] = Partial]
        /\ lock' = lock /\ writer[w].path \in Paths /\ lock[Sidecar(w)] = w
        /\ \A v \in Writers \ {w} : writer'[v] = writer[v]
        /\ writer'[w].pc = "fill" /\ writer'[w].path = writer[w].path
    BY <1>3, GoesTyped DEF Open, TypeInv, LockInv, Places
  <2>2. \A v \in Writers : Sidecar(v)' = Sidecar(v)
    BY <2>1, SidecarStays
  <2>3. \A v \in Writers : lock[Sidecar(v)] = v /\ v # w =>
          tmp'[<<Process[v], writer[v].path>>] = tmp[<<Process[v], writer[v].path>>]
    BY <2>1, SidecarIsShared DEF TypeInv
  <2> QED
    BY <2>1, <2>2, <2>3 DEF LockInv
<1>4. CASE Fill(w)
  <2>1. /\ tmp' = [tmp EXCEPT ![<<Process[w], writer[w].path>>] = writer[w].content]
        /\ lock' = lock /\ writer[w].path \in Paths /\ lock[Sidecar(w)] = w
        /\ \A v \in Writers \ {w} : writer'[v] = writer[v]
        /\ writer'[w].pc = "replace" /\ writer'[w].path = writer[w].path
        /\ writer'[w].content = writer[w].content
    BY <1>4, GoesTyped DEF Fill, TypeInv, LockInv, Places
  <2>2. tmp'[<<Process[w], writer[w].path>>] = writer[w].content
    BY <2>1, Mine DEF TypeInv
  <2>3. \A v \in Writers : lock[Sidecar(v)] = v /\ v # w =>
          tmp'[<<Process[v], writer[v].path>>] = tmp[<<Process[v], writer[v].path>>]
    BY <2>1, SidecarIsShared DEF TypeInv
  <2>4. \A v \in Writers : Sidecar(v)' = Sidecar(v)
    BY <2>1, SidecarStays
  <2> QED
    BY <2>1, <2>2, <2>3, <2>4 DEF LockInv
<1>5. CASE Replace(w)
  <2>1. /\ tmp' = [tmp EXCEPT ![<<Process[w], writer[w].path>>] = Missing]
        /\ lock' = [lock EXCEPT ![Sidecar(w)] = None]
        /\ writer[w].path \in Paths /\ lock[Sidecar(w)] = w
    BY <1>5 DEF Replace, TypeInv, LockInv
  <2>2. /\ \A v \in Writers \ {w} : writer'[v] = writer[v]
        /\ writer'[w].pc = "hash"
    BY <1>5 DEF Replace, TypeInv, WriterStates
  <2>3. \A v \in Writers : lock[Sidecar(v)] = v /\ v # w =>
          tmp'[<<Process[v], writer[v].path>>] = tmp[<<Process[v], writer[v].path>>]
    BY <2>1, SidecarIsShared DEF TypeInv
  <2>4. ASSUME NEW v \in Writers \ {w}, writer[v].pc \in {"open", "fill", "replace"}
        PROVE  lock'[Sidecar(v)] = v /\ Sidecar(v)' = Sidecar(v)
    <3>1. lock[Sidecar(v)] = v /\ Sidecar(v) \in LockFiles
      BY <2>4, SidecarIsALock DEF LockInv, TypeInv
    <3>2. Sidecar(v) # Sidecar(w)
      BY <2>1, <3>1
    <3> QED
      BY <2>1, <2>2, <3>1, <3>2, SidecarStays DEF TypeInv
  <2>5. ASSUME NEW v \in Writers
        PROVE  /\ writer'[v].pc \in {"open", "fill", "replace"} => (lock[Sidecar(v)] = v)'
               /\ writer'[v].pc = "replace" =>
                    tmp'[<<Process[v], writer'[v].path>>] = writer'[v].content
    <3>1. CASE v = w
      BY <2>2, <3>1
    <3>2. CASE v # w /\ writer[v].pc \in {"open", "fill", "replace"}
      BY <2>2, <2>3, <2>4, <3>2 DEF LockInv
    <3>3. CASE v # w /\ writer[v].pc \notin {"open", "fill", "replace"}
      BY <2>2, <3>3
    <3> QED
      BY <3>1, <3>2, <3>3
  <2> QED
    BY <2>5 DEF LockInv
<1>6. CASE Finish(w)
  <2>1. UNCHANGED <<tmp, lock>> /\ \A v \in Writers : writer'[v] = writer[v] \/ writer'[v].pc = "idle"
    BY <1>6 DEF Finish, TypeInv, Resting
  <2> QED
    BY <2>1, SidecarStays DEF LockInv
<1>7. CASE Raise(w)
  <2>1. /\ tmp' = tmp /\ writer'[w].pc = "idle"
        /\ \A v \in Writers \ {w} : writer'[v] = writer[v]
        /\ \A f \in LockFiles : lock[f] # w => lock'[f] = lock[f]
    BY <1>7 DEF Raise, TypeInv, Resting
  <2>2. ASSUME NEW v \in Writers \ {w}, writer[v].pc \in {"open", "fill", "replace"}
        PROVE  (lock[Sidecar(v)] = v)'
    BY <2>1, <2>2, SidecarIsALock, SidecarStays DEF LockInv, TypeInv
  <2>3. \A v \in Writers \ {w} : writer[v].pc = "replace" =>
          tmp'[<<Process[v], writer'[v].path>>] = writer'[v].content
    BY <2>1 DEF LockInv
  <2> QED
    BY <2>1, <2>2, <2>3 DEF LockInv
<1> QED
  BY <1>1, <1>2, <1>3, <1>4, <1>5, <1>6, <1>7 DEF WriterStep

\* Deaths and stamps take no lock from another process.
LEMMA OthersLocks ==
  ASSUME TypeInv, LockInv, Next, \A w \in Writers : ~WriterStep(w)
  PROVE  LockInv'
<1>1. ASSUME NEW q \in Procs, Kill(q)
      PROVE  LockInv'
  <2> DEFINE gone == {w \in Writers : Process[w] = q}
  <2>1. /\ tmp' = tmp
        /\ writer' = [w \in Writers |-> IF w \in gone THEN Resting ELSE writer[w]]
        /\ lock' = [f \in LockFiles |-> IF lock[f] \in gone THEN None ELSE lock[f]]
    BY <1>1 DEF Kill
  <2>2. /\ \A v \in Writers : writer'[v].pc # "idle" => v \notin gone /\ writer'[v] = writer[v]
        /\ \A v \in Writers \ gone, f \in LockFiles : lock[f] = v => lock'[f] = v
    BY <2>1 DEF TypeInv, Resting
  <2> HIDE DEF gone
  <2>3. ASSUME NEW v \in Writers, writer'[v].pc \in {"open", "fill", "replace"}
        PROVE  /\ (lock[Sidecar(v)] = v)'
               /\ writer'[v].pc = "replace" =>
                    tmp'[<<Process[v], writer'[v].path>>] = writer'[v].content
    <3>1. writer'[v] = writer[v] /\ v \notin gone
      BY <2>2, <2>3
    <3>2. lock[Sidecar(v)] = v /\ Sidecar(v) \in LockFiles /\ Sidecar(v)' = Sidecar(v)
      BY <2>3, <3>1, SidecarIsALock, SidecarStays DEF LockInv, TypeInv
    <3> QED
      BY <2>1, <2>2, <2>3, <3>1, <3>2 DEF LockInv
  <2> QED
    BY <2>3 DEF LockInv
<1>2. CASE UNCHANGED <<tmp, lock, writer>>
  BY <1>2, SidecarStays DEF LockInv
<1> QED
  BY <1>1, <1>2 DEF Next, Read, StampRead, StampOpen, StampFill, StampDies

FileInv == TypeInv /\ LockInv

\* Types and locks hold in every state.
THEOREM LocksAreHeld == Spec => []FileInv
<1>1. Init => FileInv
  BY DEF Init, FileInv, TypeInv, LockInv, Content, WriterStates, StampStates, Resting, NoStamp,
         Places, Anything, Old
<1>2. FileInv /\ [Next]_vars => FileInv'
  <2>1. CASE UNCHANGED vars
    BY <2>1, SidecarStays DEF vars, FileInv, TypeInv, LockInv
  <2>2. CASE Next
    BY <2>2, WriterTyped, WriterLocks, OthersTyped, OthersLocks DEF FileInv
  <2> QED
    BY <2>1, <2>2
<1> QED
  BY <1>1, <1>2, PTL DEF Spec

-----------------------------------------------------------------------------
(* Whole files                                                             *)

\* What replaces a file is the content its thread set out to write.
LEMMA ReplacesWithContent ==
  ASSUME FileInv, NEW w \in Writers, Replace(w)
  PROVE  /\ writer[w].path \in Paths /\ writer[w].content \in Content
         /\ files' = [files EXCEPT ![writer[w].path] = writer[w].content]
  BY ContentsAreReal DEF Replace, FileInv, TypeInv, LockInv

\* Everybody else leaves the files alone, but for the stamp.
LEMMA FilesChangeBy ==
  ASSUME [Next]_vars
  PROVE  \/ UNCHANGED <<files, stamper, torn>>
         \/ \E w \in Writers : Replace(w)
         \/ \E p \in Documents : StampRead(p)
         \/ StampOpen \/ StampFill \/ StampDies
  BY DEF Next, vars, WriterStep, Begin, Lock, Open, Fill, Finish, Raise, Kill, Read

\* What lies under a target's name is always one whole content, unless a stamp is being
\* written there or died there since the last scoped write: scoped writers never expose
\* half a file, even threads that share a temporary file, even when they are killed or
\* raise (_locked_write).
THEOREM FilesStayWhole == Spec => []FilesAreWhole
<1>1. Init => FilesAreWhole
  BY ContentsAreReal DEF Init, FilesAreWhole, Partial, Missing, Old
<1>2. FileInv /\ FilesAreWhole /\ [Next]_vars => FilesAreWhole'
  <2> SUFFICES ASSUME FileInv, FilesAreWhole, [Next]_vars
               PROVE  FilesAreWhole'
    OBVIOUS
  <2>1. CASE UNCHANGED <<files, stamper, torn>>
    BY <2>1 DEF FilesAreWhole
  <2>2. ASSUME NEW w \in Writers, Replace(w)
        PROVE  FilesAreWhole'
    <3>1. /\ torn' = torn \ {writer[w].path}
          /\ stamper.path # writer[w].path => stamper' = stamper
          /\ stamper.linked /\ stamper.path # writer[w].path =>
               stamper'.linked /\ stamper'.path = stamper.path
      BY <2>2 DEF Replace
    <3>2. /\ writer[w].path \in Paths /\ writer[w].content # Partial
          /\ \A p \in Paths : files'[p] = IF p = writer[w].path THEN writer[w].content
                                                               ELSE files[p]
      BY <2>2, ReplacesWithContent, ContentsAreReal DEF FileInv, TypeInv
    <3> QED
      BY <3>1, <3>2 DEF FilesAreWhole
  <2>3. CASE \E p \in Documents : StampRead(p)
    BY <2>3 DEF StampRead, FilesAreWhole, FileInv, TypeInv
  <2>4. CASE StampOpen
    BY <2>4 DEF StampOpen, FilesAreWhole, FileInv, TypeInv, StampStates
  <2>5. CASE StampFill
    BY <2>5, ContentsAreReal DEF StampFill, FilesAreWhole, FileInv, TypeInv
  <2>6. CASE StampDies
    BY <2>6 DEF StampDies, FilesAreWhole
  <2> QED
    BY <2>1, <2>2, <2>3, <2>4, <2>5, <2>6, FilesChangeBy
<1> QED
  BY <1>1, <1>2, LocksAreHeld, PTL DEF Spec

-----------------------------------------------------------------------------
(* Audits                                                                  *)

\* As long as nobody else changed the file under a thread, the content it hashed first is
\* there until it replaces it, and its own until it hashes again.
Undisturbed(w) ==
  /\ writer[w].pc \in {"lock", "open", "fill", "replace"} =>
       files[writer[w].path] = writer[w].before
  /\ writer[w].pc = "hash" =>
       /\ writer[w].replaced = writer[w].before
       /\ files[writer[w].path] = writer[w].content

AuditInv ==
  /\ \A w \in Writers \ deranged : Undisturbed(w)
  /\ AuditsAreTrueUnlessDeranged

\* A write hashes what it finds and what it leaves, and notices nothing in between.
LEMMA WriterAudits ==
  ASSUME FileInv, AuditInv, NEW w \in Writers, WriterStep(w)
  PROVE  AuditInv'
<1>1. ASSUME NEW n \in Names, NEW text \in Texts, Begin(w, n, text)
      PROVE  AuditInv'
  <2>1. files' = files /\ (audit' = audit \/ audit'.event = "security_event")
    BY <1>1 DEF Begin
  <2>2. CASE text \in Secrets
    BY <1>1, <2>1, <2>2 DEF Begin, AuditInv, Undisturbed, AuditsAreTrueUnlessDeranged
  <2>3. CASE text \notin Secrets
    <3>1. /\ \A v \in Writers \ {w} : writer'[v] = writer[v]
          /\ writer'[w].pc = "lock" /\ writer'[w].path = n.resolved
          /\ writer'[w].before = files[n.resolved]
          /\ deranged' = deranged \ {w} /\ audit' = audit
      BY <1>1, <2>3 DEF Begin, FileInv, TypeInv
    <3> QED
      BY <2>1, <3>1 DEF AuditInv, Undisturbed, AuditsAreTrueUnlessDeranged
  <2> QED
    BY <2>2, <2>3
<1>2. CASE Lock(w) \/ Open(w) \/ Fill(w)
  <2>1. /\ writer[w].pc \in {"lock", "open", "fill"} /\ UNCHANGED <<files, audit, deranged>>
        /\ \E pc \in {"open", "fill", "replace"} : Goes(w, pc)
    BY <1>2 DEF Lock, Open, Fill, Unaudited
  <2>2. /\ \A v \in Writers \ {w} : writer'[v] = writer[v]
        /\ writer'[w].pc \in {"open", "fill", "replace"} /\ writer'[w].path = writer[w].path
        /\ writer'[w].before = writer[w].before
    BY <2>1, GoesTyped DEF FileInv, Places
  <2> QED
    BY <2>1, <2>2 DEF AuditInv, Undisturbed, AuditsAreTrueUnlessDeranged
<1>3. CASE Replace(w)
  <2>1. /\ \A v \in Writers \ {w} : writer'[v] = writer[v]
        /\ writer'[w].pc = "hash" /\ writer'[w].path = writer[w].path
        /\ writer'[w].before = writer[w].before /\ writer'[w].content = writer[w].content
        /\ writer'[w].replaced = files[writer[w].path]
        /\ writer[w].pc = "replace" /\ audit' = audit
        /\ deranged' = deranged \cup {v \in Writers \ {w} : writer[v].path = writer[w].path
                                                              /\ writer[v].pc # "idle"}
    BY <1>3 DEF Replace, FileInv, TypeInv, WriterStates, Deranges, Unaudited
  <2>2. /\ writer[w].path \in Paths
        /\ files' = [files EXCEPT ![writer[w].path] = writer[w].content]
    BY <1>3, ReplacesWithContent
  <2>3. \A v \in Writers \ deranged' : v # w => Undisturbed(v)'
    BY <2>1, <2>2 DEF AuditInv, Undisturbed, FileInv, TypeInv
  <2>4. w \notin deranged' => Undisturbed(w)'
    BY <2>1, <2>2 DEF AuditInv, Undisturbed, FileInv, TypeInv
  <2> QED
    BY <2>1, <2>3, <2>4 DEF AuditInv, AuditsAreTrueUnlessDeranged
<1>4. CASE Finish(w)
  <2>1. /\ \A v \in Writers \ {w} : writer'[v] = writer[v]
        /\ writer'[w].pc = "idle" /\ UNCHANGED <<files, deranged>>
        /\ writer[w].pc = "hash" /\ audit' = Record(w, files[writer[w].path])
    BY <1>4 DEF Finish, FileInv, TypeInv, Resting
  <2> QED
    BY <2>1 DEF AuditInv, Undisturbed, AuditsAreTrueUnlessDeranged, Record
<1>5. CASE Raise(w)
  <2>1. /\ UNCHANGED <<files, audit, deranged>> /\ writer'[w].pc = "idle"
        /\ \A v \in Writers \ {w} : writer'[v] = writer[v]
    BY <1>5 DEF Raise, FileInv, TypeInv, Resting, Unaudited
  <2> QED
    BY <2>1 DEF AuditInv, Undisturbed, AuditsAreTrueUnlessDeranged
<1> QED
  BY <1>1, <1>2, <1>3, <1>4, <1>5 DEF WriterStep

\* What others do to a file between two hashes is remembered.
LEMMA OthersAudits ==
  ASSUME FileInv, AuditInv, Next, \A w \in Writers : ~WriterStep(w)
  PROVE  AuditInv'
<1>1. ASSUME NEW q \in Procs, Kill(q)
      PROVE  AuditInv'
  <2>1. /\ UNCHANGED <<files, audit, deranged>>
        /\ \A w \in Writers : writer'[w] = writer[w] \/ writer'[w].pc = "idle"
    BY <1>1 DEF Kill, Resting
  <2> QED
    BY <2>1 DEF AuditInv, Undisturbed, AuditsAreTrueUnlessDeranged
<1>2. CASE \E n \in Names : Read(n)
  <2>1. UNCHANGED <<files, writer, deranged>> /\ audit'.event = "repository_read"
    BY <1>2 DEF Read
  <2> QED
    BY <2>1 DEF AuditInv, Undisturbed, AuditsAreTrueUnlessDeranged
<1>3. CASE StampOpen \/ (StampFill /\ stamper.linked)
  <2>1. /\ UNCHANGED <<writer, audit>> /\ stamper.path \in Paths
        /\ \A p \in Paths : p # stamper.path => files'[p] = files[p]
        /\ deranged' = deranged \cup {v \in Writers : writer[v].path = stamper.path
                                                        /\ writer[v].pc # "idle"}
    BY <1>3, StandInsAreOthers DEF StampOpen, StampFill, Deranges, FileInv, TypeInv
  <2> QED
    BY <2>1 DEF AuditInv, Undisturbed, AuditsAreTrueUnlessDeranged, FileInv, TypeInv
<1>4. CASE UNCHANGED <<files, writer, audit, deranged>>
  BY <1>4 DEF AuditInv, Undisturbed, AuditsAreTrueUnlessDeranged
<1> QED
  BY <1>1, <1>2, <1>3, <1>4 DEF Next, StampRead, StampFill, StampDies

\* The audit of a write names the content it replaced and the one it left, unless somebody
\* else changed the file between its two hashes (write_bytes).
THEOREM AuditsAreTrue == Spec => []AuditsAreTrueUnlessDeranged
<1>1. Init => AuditInv
  BY DEF Init, AuditInv, Undisturbed, AuditsAreTrueUnlessDeranged, Resting, None
<1>2. FileInv /\ AuditInv /\ [Next]_vars => AuditInv'
  <2>1. ASSUME AuditInv, UNCHANGED vars
        PROVE  AuditInv'
    BY <2>1 DEF vars, AuditInv, Undisturbed, AuditsAreTrueUnlessDeranged
  <2> QED
    BY <2>1, WriterAudits, OthersAudits
<1>3. AuditInv => AuditsAreTrueUnlessDeranged
  BY DEF AuditInv
<1> QED
  BY <1>1, <1>2, <1>3, LocksAreHeld, PTL DEF Spec

-----------------------------------------------------------------------------
(* Scope                                                                   *)

\* Some member of a set of numbers is the least.
LEMMA Least ==
  ASSUME NEW S \in SUBSET Nat, S # {}
  PROVE  \E n \in S : \A m \in S : n <= m
<1>1. PICK n \in S : \A m \in S : <<m, n>> \notin OpToRel(<, Nat)
  BY NatLessThanWellFounded, WFMin
<1>2. ASSUME NEW m \in S, m < n
      PROVE  <<m, n>> \in OpToRel(<, Nat)
  BY <1>2 DEF OpToRel
<1>3. \A m \in S : ~(m < n)
  BY <1>1, <1>2
<1>4. \A m \in S : m \in Int /\ n \in Int
  OBVIOUS
<1> QED
  BY <1>3, <1>4

\* Of the rules above a path one is the longest.
LEMMA BestRuleExists ==
  ASSUME NEW path \in Paths, Rules(path) # {}
  PROVE  /\ BestRule(path) \in Rules(path)
         /\ \A l \in Rules(path) : Len(BestRule(path)) >= Len(l)
<1> DEFINE S == {Len(path) - Len(k) : k \in Rules(path)}
<1>1. \A k \in Rules(path) : Len(k) \in Nat /\ Len(path) \in Nat /\ Len(k) <= Len(path)
  BY PathsAreSequences, LenProperties DEF Rules, IsPrefix
<1>2. S \in SUBSET Nat /\ S # {}
  BY <1>1
<1>3. PICK n \in S : \A m \in S : n <= m
  BY <1>2, Least
<1>4. PICK k \in Rules(path) : n = Len(path) - Len(k)
  BY <1>3
<1>5. \A l \in Rules(path) : Len(k) >= Len(l)
  <2> SUFFICES ASSUME NEW l \in Rules(path)
               PROVE  Len(k) >= Len(l)
    OBVIOUS
  <2>1. n <= Len(path) - Len(l)
    BY <1>3
  <2>2. Len(k) \in Nat /\ Len(l) \in Nat /\ Len(path) \in Nat
    BY <1>1
  <2> HIDE DEF S
  <2> QED
    BY <1>4, <2>1, <2>2
<1> QED
  BY <1>5 DEF BestRule

\* The longest rule above a path is the nearest: no prefix of the path that is longer has
\* a rule of its own.
LEMMA BestRuleGoverns ==
  ASSUME NEW path \in Paths, Rules(path) # {}
  PROVE  BestRule(path) \in DOMAIN Allowlist /\ Governs(BestRule(path), path)
<1> DEFINE k == BestRule(path)
<1>1. k \in DOMAIN Allowlist /\ IsPrefix(k, path)
  BY BestRuleExists DEF Rules
<1>2. ASSUME NEW n \in Len(k) + 1 .. Len(path), SubSeq(path, 1, n) \in DOMAIN Allowlist
      PROVE  FALSE
  <2>1. /\ path \in Seq(STRING) /\ Len(path) \in Nat
        /\ k \in Seq(STRING) /\ Len(k) \in Nat
    BY <1>1, PathsAreSequences, LenProperties
  <2>2. n \in Nat /\ 1 <= n /\ n <= Len(path) /\ Len(k) < n
    BY <1>2, <2>1
  <2> DEFINE t == SubSeq(path, 1, n)
  <2>3. t \in Seq(STRING) /\ Len(t) = n
    <3>1. \A i \in 1 .. n : path[i] \in STRING
      BY <2>1, <2>2, ElementOfSeq
    <3> QED
      BY <2>2, <3>1, SubSeqProperties
  <2>4. SubSeq(t, 1, Len(t)) = t
    BY <2>3, SubSeqFull
  <2>5. IsPrefix(t, path)
    BY <2>2, <2>3, <2>4 DEF IsPrefix
  <2>6. t \in Rules(path)
    BY <1>2, <2>5 DEF Rules
  <2>7. Len(k) >= Len(t)
    BY <2>6, BestRuleExists
  <2> HIDE DEF t, k
  <2> QED
    BY <2>1, <2>2, <2>3, <2>7
<1> QED
  BY <1>1, <1>2 DEF Governs

\* A path under a root whose nearest rule allows writing.
Writable(p) ==
  /\ \E root \in Roots : SubSeq(p, 1, Len(root)) = root
  /\ \E k \in DOMAIN Allowlist : Governs(k, p) /\ Allowlist[k] = "write"

\* What the guard lets pass is under a root, by its nearest rule.
LEMMA PermittedIsWritable ==
  ASSUME NEW n \in Names, Permitted(n, "write")
  PROVE  Writable(n.resolved)
<1>1. n.resolved \in Paths /\ WithinRoots(n.resolved) /\ HasPermission(n.resolved, "write")
  BY DEF Permitted, Paths
<1>2. PICK root \in Roots : IsPrefix(root, n.resolved)
  BY <1>1 DEF WithinRoots
<1>3. SubSeq(root, 1, Len(root)) = root
  BY PathsAreSequences, SubSeqFull
<1>4. SubSeq(n.resolved, 1, Len(root)) = root
  BY <1>2, <1>3 DEF IsPrefix
<1>5. Rules(n.resolved) # {} /\ Allowlist[BestRule(n.resolved)] = "write"
  BY <1>1 DEF HasPermission
<1> QED
  BY <1>1, <1>4, <1>5, BestRuleGoverns DEF Writable

ScopeInv ==
  /\ \A w \in Writers : writer[w].pc # "idle" => Writable(writer[w].path)
  /\ audit.event = "repository_write" => Writable(audit.path)

\* No temporary file holds a secret: neither a written content nor a stand-in is one.
LEMMA NoSecretWritten ==
  ASSUME TypeInv, NEW q \in DOMAIN tmp
  PROVE  tmp[q].text \notin Secrets
<1>1. q \in Procs \X Paths /\ tmp[q] \in Written \cup {Missing, Partial}
  BY DEF TypeInv
<1>2. Missing.text \notin Secrets /\ Partial.text \notin Secrets
  BY FileBounds, StandInsAreOthers
<1> QED
  BY <1>1, <1>2 DEF Written

\* Every step keeps writes to what the guard and the scanner let pass.
LEMMA ScopeStep ==
  ASSUME FileInv, ScopeInv, [Next]_vars
  PROVE  ScopeInv'
<1>1. ASSUME NEW w \in Writers, NEW n \in Names, NEW text \in Texts, Begin(w, n, text)
      PROVE  ScopeInv'
  <2>1. Writable(n.resolved)
    BY <1>1, PermittedIsWritable DEF Begin
  <2>2. /\ \A v \in Writers : writer'[v] = writer[v] \/ writer'[v].path = n.resolved
        /\ audit' = audit \/ audit'.event = "security_event"
    BY <1>1 DEF Begin, FileInv, TypeInv
  <2> QED
    BY <2>1, <2>2 DEF ScopeInv
<1>2. ASSUME NEW w \in Writers, Lock(w) \/ Open(w) \/ Fill(w) \/ Replace(w)
      PROVE  ScopeInv'
  <2>1. /\ audit' = audit
        /\ writer[w].pc # "idle"
        /\ \A v \in Writers : writer'[v].path = writer[v].path
                                /\ (v # w => writer'[v].pc = writer[v].pc)
    BY <1>2 DEF Lock, Open, Fill, Replace, Goes, Unaudited, FileInv, TypeInv, WriterStates
  <2> QED
    BY <2>1 DEF ScopeInv
<1>3. ASSUME NEW w \in Writers, Finish(w)
      PROVE  ScopeInv'
  <2>1. /\ audit'.path = writer[w].path /\ writer[w].pc # "idle"
        /\ \A v \in Writers : writer'[v] = writer[v] \/ writer'[v].pc = "idle"
    BY <1>3 DEF Finish, Record, Resting, FileInv, TypeInv
  <2> QED
    BY <2>1 DEF ScopeInv
<1>4. ASSUME NEW q \in Procs, Kill(q)
      PROVE  ScopeInv'
  BY <1>4 DEF Kill, Resting, ScopeInv
<1>5. CASE \E n \in Names : Read(n)
  BY <1>5 DEF Read, ScopeInv
<1>6. CASE UNCHANGED <<writer, audit>>
  BY <1>6 DEF ScopeInv
<1>7. ASSUME NEW w \in Writers, Raise(w)
      PROVE  ScopeInv'
  <2>1. /\ audit' = audit
        /\ \A v \in Writers : writer'[v] = writer[v] \/ writer'[v].pc = "idle"
    BY <1>7 DEF Raise, Resting, Unaudited, FileInv, TypeInv
  <2> QED
    BY <2>1 DEF ScopeInv
<1> QED
  BY <1>1, <1>2, <1>3, <1>4, <1>5, <1>6, <1>7
  DEF Next, vars, WriterStep, StampRead, StampOpen, StampFill, StampDies

\* A write, be it on its way, done or audited, is to a path under a root whose nearest
\* rule allows writing, and never of a secret (PathGuard, scan_bytes).
THEOREM WritesAreInScope == Spec => []WritesStayInScope
<1>1. Init => ScopeInv
  BY DEF Init, ScopeInv, Resting, None
<1>2. FileInv /\ ScopeInv /\ [Next]_vars => ScopeInv'
  BY ScopeStep
<1>3. FileInv /\ ScopeInv => WritesStayInScope
  BY NoSecretWritten DEF FileInv, ScopeInv, Writable, WritesStayInScope
<1> QED
  BY <1>1, <1>2, <1>3, LocksAreHeld, PTL DEF Spec

=============================================================================
