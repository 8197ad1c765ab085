--------------------------- MODULE MCReferenceManager ---------------------------
(* ReferenceManager for TLC: three processes on one candidate and one       *)
(* current symlink, two packages.                                           *)
EXTENDS ReferenceManager, TLC

\* Processes are interchangeable, and so are packages.
MCSymmetry == Permutations(Procs) \cup Permutations(Pkgs)

\* Every system call that changes a symlink may fail, except that a select's
\* symlink replacement does not ...
MCFailing ==
    (({"link", "select", "restore"} \X {"replace", "mkback"})
        \cup ({"unlink", "deselect", "remove"} \X {"rmfwd"})) \ {<<"select", "replace">>}

\* ... or only that one does.
MCReplaceFails == {<<"select", "replace">>}
================================================================================
