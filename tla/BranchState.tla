----------------------------- MODULE BranchState -----------------------------
(***************************************************************************)
(* The projection of one branch and the deltas that change it              *)
(* (kernel/state.py, StateDelta in kernel/contracts.py).                   *)
(*                                                                         *)
(* A projection is a function from bucket names to buckets, a bucket a     *)
(* function from row keys (an entity, or "singleton") to rows, and a row a *)
(* function from attribute names to values: the nested dictionaries of     *)
(* BranchState.projections.  state_hash is injective on projections here,  *)
(* so two projections have the same hash exactly when they are equal.      *)
(***************************************************************************)
EXTENDS Integers, Sequences, SequencesExt

\* The empty dictionary.
Empty == [x \in {} |-> 0]

\* dict.get(key, default).
Lookup(dict, key, default) == IF key \in DOMAIN dict THEN dict[key] ELSE default

\* dict[key] = value, for a new key as well as for an old one.
Put(dict, key, value) ==
    [k \in DOMAIN dict \cup {key} |-> IF k = key THEN value ELSE dict[k]]

\* MERGE: dict.update(values).
Update(row, values) ==
    [a \in DOMAIN row \cup DOMAIN values |->
        IF a \in DOMAIN values THEN values[a] ELSE row[a]]

\* INCREMENT: each named attribute grows by its amount, a missing one from 0.
Increment(row, amounts) ==
    Update(row, [a \in DOMAIN amounts |-> Lookup(row, a, 0) + amounts[a]])

\* The bucket a delta leaves behind.
BucketAfter(bucket, delta) ==
    LET old == Lookup(bucket, delta.row, Empty) IN
    CASE delta.operation = "DELETE" -> Restrict(bucket, DOMAIN bucket \ {delta.row})
      [] delta.operation = "SET" -> Put(bucket, delta.row, delta.values)
      [] delta.operation = "MERGE" -> Put(bucket, delta.row, Update(old, delta.values))
      [] delta.operation = "INCREMENT" -> Put(bucket, delta.row, Increment(old, delta.values))

\* BranchState.apply.  The bucket is created first (setdefault), so even a
\* DELETE of a row that is not there changes the projection, and its hash,
\* when the bucket was missing.
ApplyDelta(projection, delta) ==
    Put(projection, delta.bucket,
        BucketAfter(Lookup(projection, delta.bucket, Empty), delta))

\* The deltas of one command, in order.
ApplyDeltas(projection, deltas) == FoldLeft(ApplyDelta, projection, deltas)
==============================================================================
