---------------------------- MODULE Relationships ----------------------------
(***************************************************************************)
(* What entities think of each other, in PostgreSQL and in the memory of   *)
(* the API process, and what the two promise: every vector is led to by    *)
(* the causal history of its changes.  How they change is the matter of    *)
(* Minds.                                                                  *)
(***************************************************************************)
EXTENDS Integers, Sequences

CONSTANT Relation             \* pairs of entities: who thinks something of whom

VARIABLES
    row, changes,             \* relationships and their changes in PostgreSQL
    live, known,              \* the same in memory
    orderly                   \* no two changes overlapped, and nothing was restarted

Stored == {changes[i] : i \in DOMAIN changes}

\* The i-th of some changes is the last of relation r among the first n.
Latest(log, r, i, n) ==
    /\ i \in 1..n
    /\ log[i].relation = r
    /\ \A k \in (i + 1)..n : log[k].relation # r

\* The first n of some changes lead relation r from no opinion to v.
Explained(log, r, n, v) ==
    \/ v = 0 /\ \A i \in 1..n : log[i].relation # r
    \/ \E i \in 1..n : Latest(log, r, i, n) /\ v = log[i].after

\* The changes of a relation lead from no opinion to its row, each from where the
\* one before it ended, whatever threads raced for them, repeated them or failed
\* ("Atomically append causal evidence and advance its relationship projection",
\* cognition/postgres.py:329).
RowsAreExplained ==
    /\ \A i \in DOMAIN changes :
           Explained(changes, changes[i].relation, i - 1, changes[i].before)
    /\ \A r \in Relation : Explained(changes, r, Len(changes), row[r])

\* However changes overlap, are repeated, fail or lose their answers, and whenever
\* the process is restarted: what memory knows of is stored, and its vector is that
\* of no opinion or one that some stored change of the relation ended with.
MemoryIsCommitted ==
    /\ known \subseteq Stored
    /\ \A r \in Relation :
           live[r] = 0 \/ \E c \in Stored : c.relation = r /\ c.after = live[r]

\* As long as changes come one at a time and the process lives, the vector in memory,
\* from which the next change is computed, is that of the row or the one before the
\* last change, whose publication is still to come or was lost with an answer.
MemoryIsCloseBehind ==
    orderly => \A r \in Relation :
        \/ live[r] = row[r]
        \/ \E i \in DOMAIN changes :
               Latest(changes, r, i, Len(changes)) /\ live[r] = changes[i].before
==============================================================================
