---------------------------- MODULE CommandLedger ----------------------------
(***************************************************************************)
(* What a branch promises its clients, with no thread, no transaction and  *)
(* no cache: a ledger in which every idempotency key is decided at most    *)
(* once, every entry was computed by its command's handler from the        *)
(* projection the entry before it left behind, nothing is ever taken back, *)
(* and a client is only ever answered with an entry of the ledger.         *)
(***************************************************************************)
EXTENDS Integers, Sequences

CONSTANTS
    Key,            \* idempotency keys of one (run, actor)
    Op,             \* logical commands
    Raises,         \* what a handler that raises yields instead of deltas
    InitProjection, \* the projection the branch is created with
    Handler,        \* Handler[op][p]: the deltas op computes on p, or Raises
    Effect          \* Effect[d][p]: the projection the deltas d make of p

VARIABLES
    ledger,   \* the committed commands, in commit order
    answered  \* the entries clients were answered with

vars == <<ledger, answered>>

Current(l) == IF Len(l) = 0 THEN InitProjection ELSE l[Len(l)].after

Entry(key, op, p) ==
    [key |-> key, op |-> op, delta |-> Handler[op][p],
     after |-> Effect[Handler[op][p]][p]]

Init ==
    /\ ledger = <<>>
    /\ answered = {}

\* A key that is not decided yet is decided by a command that does not raise.
Commit(key, op) ==
    /\ \A i \in 1..Len(ledger) : ledger[i].key # key
    /\ Handler[op][Current(ledger)] # Raises
    /\ ledger' = Append(ledger, Entry(key, op, Current(ledger)))
    /\ UNCHANGED answered

\* A client learns how its key was decided.
Answer(i) ==
    /\ answered' = answered \cup {ledger[i]}
    /\ UNCHANGED ledger

Next ==
    \/ \E key \in Key, op \in Op : Commit(key, op)
    \/ \E i \in 1..Len(ledger) : Answer(i)

Spec == Init /\ [][Next]_vars
==============================================================================
