---------------------------- MODULE MCScopedFiles ----------------------------
EXTENDS ScopedFiles, TLC

CONSTANTS t1, t2, t3

\* Two threads of one process and one of another.
SomeWriters == {t1, t2, t3}
SomeProcess == (t1 :> "p") @@ (t2 :> "p") @@ (t3 :> "q")

\* The second process keeps its locks elsewhere: the processes do not exclude each other.
SomeLockDirs == ("p" :> <<>>) @@ ("q" :> <<"locks">>)

Root == <<"repo">>
Logs == <<"repo", "logs">>
Plan == <<"repo", "plan">>
Run1 == <<"repo", "logs", "run1">>
Away == <<"etc">>

SomeRoots     == {Root}
SomeAllowlist == (Root :> "write") @@ (Logs :> "read") @@ (Away :> "write")
SomeDocuments == {Plan}
SomePresent   == {Run1, Away}

Name(links, resolved) == [links |-> links, resolved |-> resolved]

\* The plan itself, by a link that stays inside and by one that does not; a file the
\* nearest rule makes read-only; one outside the roots.
SomeNames == {Name({}, Plan), Name({Plan}, Plan), Name({Away}, Plan), Name({}, Run1),
              Name({}, Away)}

\* Nothing tells the threads of one process apart.
ThreadSymmetry == Permutations({t1, t2})

=============================================================================
