--------------------------- MODULE MCFileMutation ---------------------------
(* FileMutation on an instance TLC can check.                                  *)
EXTENDS FileMutation, TLC

CONSTANTS a, b   \* two paths

Do(kind, key) == <<[kind |-> kind, key |-> key]>>

\* An edit, a write, a patch that updates both files and one that replaces the first.
MCPlans == {Do("update", a), Do("write", a), Do("update", a) \o Do("update", b),
            Do("delete", a) \o Do("add", a)}

MCKeys == {a, b}

Symmetry == Permutations(Fibers) \cup Permutations(Entries)
=============================================================================
