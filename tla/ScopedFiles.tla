----------------------------- MODULE ScopedFiles -----------------------------
(***************************************************************************)
(* The file tools of the agents (tools/file_tools): the path guard, scoped *)
(* reads and writes with their audit records, and the provenance stamp of  *)
(* tools/validation_tools/checksum_manifest.py, which goes round them.     *)
(*                                                                         *)
(* A path is a sequence of components.  What a caller names has a resolved *)
(* path and the targets of the symbolic links on the way to it.  Hashes    *)
(* are the contents they stand for; a content is [text, run], run being    *)
(* the provenance in its front matter, or Partial while it is written.     *)
(* Writers are threads; a temporary file belongs to a target and a process,*)
(* and the lock file of a target lies beside it or in the lock_dir of the  *)
(* process.  Links, roots and rules do not change while a write runs.      *)
(***************************************************************************)
EXTENDS Integers, Sequences, SequencesExt, FiniteSets

CONSTANTS
  Writers, Process,     \* threads, and the process each belongs to
  LockDir,              \* process -> its lock_dir, <<>> for none
  Roots, Allowlist,     \* of the guard: paths, and path -> "read" or "write"
  Names,                \* what callers may name: [links, resolved]
  Documents,            \* the paths that are OKF files of a run's output
  Present,              \* the paths whose files are there from the start
  Texts, Secrets,       \* what they may write; a subset of it
  MaxWrites,            \* bound: writes begun
  MaxDeaths             \* bound: processes killed

ASSUME FileBounds == Secrets \subseteq Texts /\ MaxWrites \in Nat /\ MaxDeaths \in Nat

VARIABLES
  files,            \* path -> content
  tmp,              \* (process, path) -> content
  lock,             \* lock file -> who holds the flock on it
  writer,           \* what each thread is at; "replaced" is history
  audit,            \* the latest audit record
  stamper,          \* stamp_okf_file, at most one at a time
  deranged,         \* history: writers whose file somebody else changed meanwhile
  torn,             \* history: paths whose stamp was cut off, and nobody replaced since
  writes, deaths

vars == <<files, tmp, lock, writer, audit, stamper, deranged, torn, writes, deaths>>

None    == "none"
Missing == [text |-> "missing", run |-> None]
Partial == [text |-> "partial", run |-> None]
Paths   == {n.resolved : n \in Names}
Procs   == {Process[w] : w \in Writers}

\* The sidecar lock: in lock_dir, or else where the target is.
LockFile(process, path) ==
  Append(IF LockDir[process] = <<>> THEN Front(path) ELSE LockDir[process], Last(path))

LockFiles == {LockFile(q, p) : q \in Procs, p \in Paths}

Sidecar(w) == LockFile(Process[w], writer[w].path)

\* The stand-ins for no content and for half of one are no contents; no thread is None.
ASSUME StandInsAreOthers == None \notin Writers /\ {Missing.text, Partial.text} \cap Texts = {}

\* Paths are what a caller can name; the components of a path are strings.
ASSUME PathsAreSequences ==
  /\ Documents \subseteq Paths
  /\ Paths \cup Roots \cup DOMAIN Allowlist \subseteq Seq(STRING)

Resting == [pc |-> "idle", path |-> <<>>, content |-> Missing, before |-> Missing,
            replaced |-> Missing]
NoStamp == [pc |-> "idle", path |-> <<>>, text |-> Missing, linked |-> FALSE]
Old     == [text |-> "old", run |-> None]

Init ==
  /\ files \in [Paths -> {Old, Missing}]
  /\ \A p \in Present \cap Paths : files[p] = Old
  /\ tmp = [q \in Procs \X Paths |-> Missing]
  /\ lock = [f \in LockFiles |-> None]
  /\ writer = [w \in Writers |-> Resting]
  /\ audit = [event |-> None]
  /\ stamper = NoStamp
  /\ deranged = {} /\ torn = {}
  /\ writes = 0 /\ deaths = 0

-----------------------------------------------------------------------------
(* PathGuard                                                               *)

WithinRoots(path) == \E root \in Roots : IsPrefix(root, path)

Rules(path) == {k \in DOMAIN Allowlist : IsPrefix(k, path)}

\* Slip: the broadest rule wins.
BroadestRule(path) == CHOOSE k \in Rules(path) : \A l \in Rules(path) : Len(k) <= Len(l)

\* The longest prefix wins.
BestRule(path) == CHOOSE k \in Rules(path) : \A l \in Rules(path) : Len(k) >= Len(l)

HasPermission(path, required) ==
  Rules(path) # {} /\ Allowlist[BestRule(path)] \in {"write", required}

\* assert_read, assert_write.
Permitted(name, required) ==
  /\ \A target \in name.links : WithinRoots(target)
  /\ WithinRoots(name.resolved)
  /\ HasPermission(name.resolved, required)

-----------------------------------------------------------------------------
(* write_bytes                                                             *)

Unaudited == UNCHANGED audit

Goes(w, pc) == writer' = [writer EXCEPT ![w].pc = pc]

\* Whoever else is between its two hashes of this path has lost track of it.
Deranges(path, w) ==
  deranged' = deranged \cup
    {v \in Writers \ {w} : writer[v].path = path /\ writer[v].pc # "idle"}

\* Permission, secret scan, hash before.  A secret leaves an audit record and no write.
Begin(w, name, text) ==
  LET path == name.resolved
  IN  /\ writer[w].pc = "idle"
      /\ writes < MaxWrites
      /\ Permitted(name, "write")
      /\ writes' = writes + 1
      /\ IF text \in Secrets
         THEN /\ audit' = [event |-> "security_event", path |-> path]
              /\ UNCHANGED <<writer, deranged>>
         ELSE /\ writer' = [writer EXCEPT ![w] =
                              [pc |-> "lock", path |-> path,
                               content |-> [text |-> text, run |-> None],
                               before |-> files[path], replaced |-> Missing]]
              /\ deranged' = deranged \ {w}
              /\ UNCHANGED audit
      /\ UNCHANGED <<files, tmp, lock, stamper, torn, deaths>>

\* Slip: two threads of one process do not exclude each other.
LockProcess(w) ==
  /\ writer[w].pc = "lock"
  /\ lock[Sidecar(w)] \in {None} \cup {v \in Writers : Process[v] = Process[w]}
  /\ lock' = [lock EXCEPT ![Sidecar(w)] = w]
  /\ Goes(w, "open")
  /\ UNCHANGED <<files, tmp, stamper, torn, deranged, writes, deaths>>
  /\ Unaudited

\* flock on a descriptor of its own: threads exclude each other too.
Lock(w) ==
  /\ writer[w].pc = "lock"
  /\ lock[Sidecar(w)] = None
  /\ lock' = [lock EXCEPT ![Sidecar(w)] = w]
  /\ Goes(w, "open")
  /\ UNCHANGED <<files, tmp, stamper, torn, deranged, writes, deaths>>
  /\ Unaudited

\* write_bytes of the temporary file: it is there before it is whole.
Open(w) ==
  /\ writer[w].pc = "open"
  /\ tmp' = [tmp EXCEPT ![<<Process[w], writer[w].path>>] = Partial]
  /\ Goes(w, "fill")
  /\ UNCHANGED <<files, lock, stamper, torn, deranged, writes, deaths>>
  /\ Unaudited

Fill(w) ==
  /\ writer[w].pc = "fill"
  /\ tmp' = [tmp EXCEPT ![<<Process[w], writer[w].path>>] = writer[w].content]
  /\ Goes(w, "replace")
  /\ UNCHANGED <<files, lock, stamper, torn, deranged, writes, deaths>>
  /\ Unaudited

\* os.replace, and the unlocking.  A stamp that has the old file open goes on writing to
\* it, where nobody finds it any more.
Replace(w) ==
  LET path == writer[w].path
      mine == <<Process[w], path>>
  IN  /\ writer[w].pc = "replace"
      /\ files' = [files EXCEPT ![path] = tmp[mine]]
      /\ tmp' = [tmp EXCEPT ![mine] = Missing]
      /\ lock' = [lock EXCEPT ![Sidecar(w)] = None]
      /\ writer' = [writer EXCEPT ![w].pc = "hash", ![w].replaced = files[path]]
      /\ stamper' = IF stamper.path = path THEN [stamper EXCEPT !.linked = FALSE] ELSE stamper
      /\ torn' = torn \ {path}
      /\ Deranges(path, w)
      /\ UNCHANGED <<writes, deaths>>
      /\ Unaudited

Record(w, after) ==
  [event |-> "repository_write", path |-> writer[w].path, before |-> writer[w].before,
   after |-> after, content |-> writer[w].content, replaced |-> writer[w].replaced,
   deranged |-> w \in deranged]

\* Slip: the hash after the write is taken with the one before.
FinishEarly(w) ==
  /\ writer[w].pc = "hash"
  /\ audit' = Record(w, writer[w].before)
  /\ writer' = [writer EXCEPT ![w] = Resting]
  /\ UNCHANGED <<files, tmp, lock, stamper, deranged, torn, writes, deaths>>

\* The hash after, the audit record.
Finish(w) ==
  /\ writer[w].pc = "hash"
  /\ audit' = Record(w, files[writer[w].path])
  /\ writer' = [writer EXCEPT ![w] = Resting]
  /\ UNCHANGED <<files, tmp, lock, stamper, deranged, torn, writes, deaths>>

\* An exception, where a write waits for its lock, opens, fills or replaces, or hashes
\* afterwards: the lock is dropped, no audit is made, and the temporary file stays.
Raise(w) ==
  /\ writer[w].pc # "idle"
  /\ writer' = [writer EXCEPT ![w] = Resting]
  /\ lock' = [f \in LockFiles |-> IF lock[f] = w THEN None ELSE lock[f]]
  /\ UNCHANGED <<files, tmp, stamper, torn, deranged, writes, deaths>>
  /\ Unaudited

\* A process dies: its threads stop, the system drops their locks, its files stay.
Kill(q) ==
  LET gone == {w \in Writers : Process[w] = q}
  IN  /\ deaths < MaxDeaths
      /\ \E w \in gone : writer[w].pc # "idle"
      /\ deaths' = deaths + 1
      /\ writer' = [w \in Writers |-> IF w \in gone THEN Resting ELSE writer[w]]
      /\ lock' = [f \in LockFiles |-> IF lock[f] \in gone THEN None ELSE lock[f]]
      /\ UNCHANGED <<files, tmp, audit, stamper, deranged, torn, writes>>

\* read_bytes.
Read(name) ==
  /\ Permitted(name, "read")
  /\ files[name.resolved] # Missing
  /\ audit' = [event |-> "repository_read", path |-> name.resolved]
  /\ UNCHANGED <<files, tmp, lock, writer, stamper, deranged, torn, writes, deaths>>

-----------------------------------------------------------------------------
(* stamp_okf_file: no guard, no lock, no temporary file                    *)

StampRead(path) ==
  /\ stamper.pc = "idle"
  /\ files[path] \notin {Missing, Partial}
  /\ stamper' = [pc |-> "stamp", path |-> path, text |-> [files[path] EXCEPT !.run = "run"],
                 linked |-> FALSE]
  /\ UNCHANGED <<files, tmp, lock, writer, audit, deranged, torn, writes, deaths>>

\* write_text empties the file that it opens, and writes to that one.
StampOpen ==
  /\ stamper.pc = "stamp"
  /\ files' = [files EXCEPT ![stamper.path] = Partial]
  /\ stamper' = [stamper EXCEPT !.pc = "fill", !.linked = TRUE]
  /\ Deranges(stamper.path, None)
  /\ UNCHANGED <<tmp, lock, writer, audit, torn, writes, deaths>>

StampFill ==
  /\ stamper.pc = "fill"
  /\ IF stamper.linked
     THEN /\ files' = [files EXCEPT ![stamper.path] = stamper.text]
          /\ Deranges(stamper.path, None)
     ELSE UNCHANGED <<files, deranged>>
  /\ stamper' = NoStamp
  /\ UNCHANGED <<tmp, lock, writer, audit, torn, writes, deaths>>

StampDies ==
  /\ stamper.pc = "fill"
  /\ deaths < MaxDeaths
  /\ deaths' = deaths + 1
  /\ stamper' = NoStamp
  /\ torn' = IF stamper.linked THEN torn \cup {stamper.path} ELSE torn
  /\ UNCHANGED <<files, tmp, lock, writer, audit, deranged, writes>>

-----------------------------------------------------------------------------

WriterStep(w) ==
  \/ \E n \in Names, text \in Texts : Begin(w, n, text)
  \/ Lock(w) \/ Open(w) \/ Fill(w) \/ Replace(w) \/ Finish(w) \/ Raise(w)

Next ==
  \/ \E w \in Writers : WriterStep(w)
  \/ \E q \in Procs : Kill(q)
  \/ \E n \in Names : Read(n)
  \/ \E p \in Documents : StampRead(p)
  \/ StampOpen \/ StampFill \/ StampDies

Spec == Init /\ [][Next]_vars

-----------------------------------------------------------------------------
(* Properties                                                              *)

\* What lies under a target's name is always one whole content, unless a stamp is being
\* written there or died there since the last scoped write: scoped writers never expose
\* half a file, even threads that share a temporary file, even when they are killed or
\* raise (_locked_write).
FilesAreWhole ==
  \A p \in Paths :
    files[p] = Partial => p \in torn \/ (stamper.linked /\ stamper.path = p)

\* The nearest rule above a path, or of the path itself, if there is one.
Governs(k, path) ==
  /\ IsPrefix(k, path)
  /\ \A n \in Len(k) + 1 .. Len(path) : SubSeq(path, 1, n) \notin DOMAIN Allowlist

\* A write, be it on its way, done or audited, is to a path under a root whose nearest
\* rule allows writing, and never of a secret (PathGuard, scan_bytes).
WritesStayInScope ==
  LET Writable(p) ==
        /\ \E root \in Roots : SubSeq(p, 1, Len(root)) = root
        /\ \E k \in DOMAIN Allowlist : Governs(k, p) /\ Allowlist[k] = "write"
  IN  /\ \A w \in Writers : writer[w].pc # "idle" => Writable(writer[w].path)
      /\ audit.event = "repository_write" => Writable(audit.path)
      /\ \A q \in DOMAIN tmp : tmp[q].text \notin Secrets

\* The audit of a write names the content it replaced and the one it left, unless somebody
\* else changed the file between its two hashes (write_bytes).
AuditsAreTrueUnlessDeranged ==
  audit.event = "repository_write" =>
    \/ audit.deranged
    \/ audit.before = audit.replaced /\ audit.after = audit.content

=============================================================================
