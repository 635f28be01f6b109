-------------------------- MODULE TrialBranchesProofs --------------------------
(***************************************************************************)
(* Proofs about TrialBranches, for any number of clients, workers, runs    *)
(* and branches.  They come in two parts.  The first is about the rules of *)
(* the tabletop alone: what folds, deltas and handlers do to the rows of a *)
(* projection.  The second is about the branches, for any command handlers *)
(* that satisfy RulesOK, and ends with the laws that a domain keeps, of    *)
(* which those of the tabletop are two.                                    *)
(***************************************************************************)
EXTENDS TabletopTrials, FiniteSetTheorems, WellFoundedInduction, SequenceTheorems, TLAPS

(***************************************************************************)
(* Induction over the naturals, for a set instead of a predicate.          *)
(***************************************************************************)
LEMMA CountUp ==
    ASSUME NEW S, 0 \in S, \A n \in Nat : n \in S => n + 1 \in S
    PROVE  Nat \subseteq S
<1> DEFINE T == Nat \ S
<1> SUFFICES ASSUME T # {} PROVE FALSE
  OBVIOUS
<1>1. PICK n \in T : \A m \in T : ~ (<<m, n>> \in OpToRel(<, Nat))
  BY NatLessThanWellFounded, WFMin, Zenon
<1>2. n \in Nat /\ n # 0
  OBVIOUS
<1>3. n - 1 \in Nat /\ n - 1 < n /\ n - 1 + 1 = n
  BY <1>2
<1>4. n - 1 \in T
  BY <1>2, <1>3
<1>5. <<n - 1, n>> \in OpToRel(<, Nat)
  BY <1>2, <1>3 DEF OpToRel
<1> QED
  BY <1>1, <1>4, <1>5

(***************************************************************************)
(* What ApplyDeltas does.  The fold is a recursive function on the subsets *)
(* of the places of the list, which takes the greatest place first.  There *)
(* is such a function for every length, and all of them agree.             *)
(***************************************************************************)
Folded(g, p, d, s) == IF s = {} THEN p ELSE ApplyDelta(g[s \ {Max(s)}], d[Max(s)])
IsFold(g, p, d, n) == g = [s \in SUBSET (1..n) |-> Folded(g, p, d, s)]

LEMMA GreatestPlace ==
    ASSUME NEW n \in Nat, NEW s \in SUBSET (1..n), n \in s
    PROVE  Max(s) = n
<1>1. \A y \in s : n >= y
  OBVIOUS
<1>2. \A x \in s : (\A y \in s : x >= y) => x = n
  OBVIOUS
<1> QED
  BY <1>1, <1>2, Zenon DEF Max

LEMMA LongerFold ==
    ASSUME NEW p, NEW d, NEW n \in Nat, NEW g, IsFold(g, p, d, n)
    PROVE  \E h : IsFold(h, p, d, n + 1)
<1> DEFINE h == [s \in SUBSET (1..(n + 1)) |->
                    IF n + 1 \in s THEN ApplyDelta(g[s \ {n + 1}], d[n + 1]) ELSE g[s]]
<1>1. ASSUME NEW s \in SUBSET (1..n) PROVE g[s] = Folded(g, p, d, s)
  <2> HIDE DEF h
  <2> QED
    BY Zenon DEF IsFold
<1>2. ASSUME NEW s \in SUBSET (1..(n + 1)) PROVE h[s] = Folded(h, p, d, s)
  <2>1. CASE n + 1 \in s
    <3>1. Max(s) = n + 1 /\ s # {}
      BY <2>1, GreatestPlace
    <3>2. s \ {n + 1} \in SUBSET (1..(n + 1)) /\ n + 1 \notin s \ {n + 1}
      OBVIOUS
    <3>3. h[s \ {n + 1}] = g[s \ {n + 1}]
      BY <3>2, Zenon
    <3>4. h[s] = ApplyDelta(g[s \ {n + 1}], d[n + 1])
      BY <2>1, Zenon
    <3> HIDE DEF h
    <3> QED
      BY <3>1, <3>3, <3>4, Zenon DEF Folded
  <2>2. CASE n + 1 \notin s
    <3>1. s \in SUBSET (1..n)
      BY <2>2
    <3>2. h[s] = g[s]
      BY <2>2, Zenon
    <3>3. CASE s = {}
      <4> HIDE DEF h
      <4> QED
        BY <1>1, <3>1, <3>2, <3>3, Zenon DEF Folded
    <3>4. CASE s # {}
      <4>1. s \ {Max(s)} \in SUBSET (1..(n + 1)) /\ n + 1 \notin s \ {Max(s)}
        BY <2>2
      <4>2. h[s \ {Max(s)}] = g[s \ {Max(s)}]
        BY <4>1, Zenon
      <4> HIDE DEF h
      <4> QED
        BY <1>1, <3>1, <3>2, <3>4, <4>2, Zenon DEF Folded
    <3> QED
      BY <3>3, <3>4
  <2> QED
    BY <2>1, <2>2
<1>3. IsFold(h, p, d, n + 1)
  <2>1. h = [s \in SUBSET (1..(n + 1)) |-> h[s]]
    OBVIOUS
  <2>2. h = [s \in SUBSET (1..(n + 1)) |-> Folded(h, p, d, s)]
    <3> HIDE DEF h
    <3> QED
      BY <1>2, <2>1, Zenon
  <2> HIDE DEF h
  <2> QED
    BY <2>2, Zenon DEF IsFold
<1> QED
  BY <1>3, Zenon

LEMMA FoldExists ==
    ASSUME NEW p, NEW d, NEW n \in Nat
    PROVE  \E g : IsFold(g, p, d, n)
<1> DEFINE T == {k \in Nat : \E g : IsFold(g, p, d, k)}
<1>1. 0 \in T
  <2> DEFINE g == [s \in SUBSET (1..0) |-> p]
  <2>1. \A s \in SUBSET (1..0) : s = {}
    OBVIOUS
  <2>2. g = [s \in SUBSET (1..0) |-> Folded(g, p, d, s)]
    BY <2>1, Zenon DEF Folded
  <2> HIDE DEF g
  <2>3. IsFold(g, p, d, 0)
    BY <2>2, Zenon DEF IsFold
  <2> QED
    BY <2>3
<1>2. ASSUME NEW k \in Nat, k \in T PROVE k + 1 \in T
  BY <1>2, LongerFold
<1> HIDE DEF T
<1>3. n \in T
  BY <1>1, <1>2, CountUp
<1> QED
  BY <1>3 DEF T

Chained(g, p, d, n) ==
    g[1..0] = p /\ \A k \in 1..n : g[1..k] = ApplyDelta(g[1..(k - 1)], d[k])

LEMMA FoldSteps ==
    ASSUME NEW p, NEW d, NEW n \in Nat, NEW g, IsFold(g, p, d, n)
    PROVE  Chained(g, p, d, n)
<1>1. ASSUME NEW s \in SUBSET (1..n) PROVE g[s] = Folded(g, p, d, s)
  BY Zenon DEF IsFold
<1>2. g[1..0] = p
  <2>1. 1..0 = {} /\ 1..0 \in SUBSET (1..n)
    OBVIOUS
  <2> QED
    BY <1>1, <2>1, Zenon DEF Folded
<1>3. ASSUME NEW k \in 1..n PROVE g[1..k] = ApplyDelta(g[1..(k - 1)], d[k])
  <2>1. 1..k # {} /\ 1..k \in SUBSET (1..n) /\ k \in Nat /\ k \in 1..k
    OBVIOUS
  <2>2. Max(1..k) = k
    BY <2>1, GreatestPlace
  <2>3. (1..k) \ {k} = 1..(k - 1)
    OBVIOUS
  <2> QED
    BY <1>1, <2>1, <2>2, <2>3, Zenon DEF Folded
<1> QED
  BY <1>2, <1>3 DEF Chained

LEMMA AppliedIsFold ==
    ASSUME NEW p, NEW T, NEW d \in Seq(T)
    PROVE  \E g : IsFold(g, p, d, Len(d)) /\ ApplyDeltas(p, d) = g[1..Len(d)]
<1> DEFINE g == CHOOSE h : IsFold(h, p, d, Len(d))
<1>1. DOMAIN d = 1..Len(d) /\ Len(d) \in Nat
  OBVIOUS
<1>2. ApplyDeltas(p, d) = g[1..Len(d)]
  BY <1>1, Zenon DEF ApplyDeltas, FoldLeft, MapThenFoldSet, IsFold, Folded
<1>3. IsFold(g, p, d, Len(d))
  BY <1>1, FoldExists, Zenon
<1> QED
  BY <1>2, <1>3, Zenon

\* No delta changes nothing.
LEMMA ApplyNone == ASSUME NEW p PROVE ApplyDeltas(p, <<>>) = p
<1>1. <<>> \in Seq({}) /\ Len(<<>>) = 0
  OBVIOUS
<1>2. PICK g : IsFold(g, p, <<>>, 0) /\ ApplyDeltas(p, <<>>) = g[1..0]
  BY <1>1, AppliedIsFold, Zenon
<1> QED
  BY <1>2, FoldSteps DEF Chained

\* The last delta changes what the ones before it have left.
LEMMA ApplyAppended ==
    ASSUME NEW p, NEW T, NEW d \in Seq(T), NEW e \in T
    PROVE  ApplyDeltas(p, Append(d, e)) = ApplyDelta(ApplyDeltas(p, d), e)
<1>1. PICK n \in Nat : n = Len(d)
  OBVIOUS
<1>2. PICK c \in Seq(T) : c = Append(d, e)
  BY AppendProperties, Zenon
<1>3. Len(c) = n + 1 /\ c[n + 1] = e /\ \A k \in 1..n : c[k] = d[k]
  BY <1>1, <1>2
<1>4. PICK g : IsFold(g, p, d, n) /\ ApplyDeltas(p, d) = g[1..n]
  BY <1>1, AppliedIsFold
<1>5. PICK h : IsFold(h, p, c, n + 1) /\ ApplyDeltas(p, c) = h[1..(n + 1)]
  <2>1. PICK h : IsFold(h, p, c, Len(c)) /\ ApplyDeltas(p, c) = h[1..Len(c)]
    BY AppliedIsFold
  <2> QED
    BY <1>3, <2>1
<1>6. g[1..0] = p /\ \A k \in 1..n : g[1..k] = ApplyDelta(g[1..(k - 1)], d[k])
  <2>1. Chained(g, p, d, n)
    BY <1>4, FoldSteps, Zenon
  <2> QED
    BY <2>1, Zenon DEF Chained
<1>7. h[1..0] = p /\ \A k \in 1..(n + 1) : h[1..k] = ApplyDelta(h[1..(k - 1)], c[k])
  <2>1. n + 1 \in Nat
    OBVIOUS
  <2> QED
    <3>1. Chained(h, p, c, n + 1)
      BY <1>5, <2>1, FoldSteps, Zenon
    <3> QED
      BY <3>1, Zenon DEF Chained
<1> DEFINE S == {k \in Nat : k <= n => g[1..k] = h[1..k]}
<1>8. 0 \in S
  BY <1>6, <1>7
<1>9. ASSUME NEW k \in Nat, k \in S PROVE k + 1 \in S
  <2> SUFFICES ASSUME k + 1 <= n PROVE g[1..(k + 1)] = h[1..(k + 1)]
    OBVIOUS
  <2>1. g[1..k] = h[1..k]
    BY <1>9
  <2>2. k + 1 \in 1..n /\ k + 1 \in 1..(n + 1) /\ k + 1 - 1 = k
    OBVIOUS
  <2>3. g[1..(k + 1)] = ApplyDelta(g[1..k], d[k + 1])
    BY <1>6, <2>2
  <2>4. h[1..(k + 1)] = ApplyDelta(h[1..k], c[k + 1])
    BY <1>7, <2>2
  <2>5. c[k + 1] = d[k + 1]
    BY <1>3, <2>2
  <2> QED
    BY <2>1, <2>3, <2>4, <2>5
<1> HIDE DEF S
<1>10. n \in S
  BY <1>8, <1>9, CountUp
<1>11. g[1..n] = h[1..n]
  BY <1>10 DEF S
<1>12. n + 1 \in 1..(n + 1) /\ n + 1 - 1 = n
  OBVIOUS
<1>13. h[1..(n + 1)] = ApplyDelta(h[1..n], e)
  BY <1>3, <1>7, <1>12
<1> QED
  BY <1>2, <1>4, <1>5, <1>11, <1>13

\* One, two and three deltas.
LEMMA ApplyOne ==
    ASSUME NEW p, NEW a
    PROVE  ApplyDeltas(p, <<a>>) = ApplyDelta(p, a)
<1>1. PICK T : T = {a}
  OBVIOUS
<1>2. <<>> \in Seq(T) /\ <<a>> = Append(<<>>, a) /\ a \in T
  BY <1>1
<1>3. PICK less, all : less = <<>> /\ all = <<a>>
  OBVIOUS
<1>4. less \in Seq(T) /\ all = Append(less, a)
  BY <1>2, <1>3, Zenon
<1>5. ApplyDeltas(p, less) = p
  BY <1>3, ApplyNone
<1>6. ApplyDeltas(p, Append(less, a)) = ApplyDelta(ApplyDeltas(p, less), a)
  BY <1>2, <1>4, ApplyAppended, ZenonT(40)
<1>7. ApplyDeltas(p, all) = ApplyDelta(p, a)
  BY <1>4, <1>5, <1>6
<1> QED
  BY <1>3, <1>7

LEMMA ApplyTwo ==
    ASSUME NEW p, NEW a, NEW b
    PROVE  ApplyDeltas(p, <<a, b>>) = ApplyDelta(ApplyDelta(p, a), b)
<1>1. PICK T : T = {a, b}
  OBVIOUS
<1>2. <<a>> \in Seq(T) /\ <<a, b>> = Append(<<a>>, b) /\ b \in T
  BY <1>1
<1>3. PICK less, all : less = <<a>> /\ all = <<a, b>>
  OBVIOUS
<1>4. less \in Seq(T) /\ all = Append(less, b)
  BY <1>2, <1>3, Zenon
<1>5. ApplyDeltas(p, less) = ApplyDelta(p, a)
  BY <1>3, ApplyOne
<1>6. ApplyDeltas(p, Append(less, b)) = ApplyDelta(ApplyDeltas(p, less), b)
  BY <1>2, <1>4, ApplyAppended, ZenonT(40)
<1>7. ApplyDeltas(p, all) = ApplyDelta(ApplyDelta(p, a), b)
  BY <1>4, <1>5, <1>6
<1> QED
  BY <1>3, <1>7

LEMMA ApplyThree ==
    ASSUME NEW p, NEW a, NEW b, NEW c
    PROVE  ApplyDeltas(p, <<a, b, c>>) = ApplyDelta(ApplyDelta(ApplyDelta(p, a), b), c)
<1>1. PICK T : T = {a, b, c}
  OBVIOUS
<1>2. <<a, b>> \in Seq(T) /\ <<a, b, c>> = Append(<<a, b>>, c) /\ c \in T
  BY <1>1
<1>3. PICK less, all : less = <<a, b>> /\ all = <<a, b, c>>
  OBVIOUS
<1>4. less \in Seq(T) /\ all = Append(less, c)
  BY <1>2, <1>3, Zenon
<1>5. ApplyDeltas(p, less) = ApplyDelta(ApplyDelta(p, a), b)
  BY <1>3, ApplyTwo
<1>6. ApplyDeltas(p, Append(less, c)) = ApplyDelta(ApplyDeltas(p, less), c)
  BY <1>2, <1>4, ApplyAppended, ZenonT(40)
<1>7. ApplyDeltas(p, all) = ApplyDelta(ApplyDelta(ApplyDelta(p, a), b), c)
  BY <1>4, <1>5, <1>6
<1> QED
  BY <1>3, <1>7

(***************************************************************************)
(* What one delta does to the rows of its bucket, and to nothing else.     *)
(***************************************************************************)
LEMMA OtherBuckets ==
    ASSUME NEW p, NEW bucket, NEW operation, NEW row, NEW values, NEW b, b # bucket,
           NEW q, q = ApplyDelta(p, Change(bucket, operation, row, values))
    PROVE  (b \in DOMAIN q <=> b \in DOMAIN p) /\ (b \in DOMAIN p => q[b] = p[b])
  BY DEF ApplyDelta, Put, Change

LEMMA OwnBucket ==
    ASSUME NEW p, NEW bucket \in DOMAIN p, NEW operation, NEW row, NEW values,
           NEW q, q = ApplyDelta(p, Change(bucket, operation, row, values))
    PROVE  /\ bucket \in DOMAIN q
           /\ q[bucket] = BucketAfter(p[bucket], Change(bucket, operation, row, values))
  BY DEF ApplyDelta, Put, Change, Lookup

LEMMA SetRow ==
    ASSUME NEW p, NEW bucket \in DOMAIN p, NEW row, NEW values,
           NEW q, q = ApplyDelta(p, Change(bucket, "SET", row, values))
    PROVE  /\ DOMAIN q[bucket] = DOMAIN p[bucket] \cup {row}
           /\ q[bucket][row] = values
           /\ \A r \in DOMAIN p[bucket] \ {row} : q[bucket][r] = p[bucket][r]
<1>1. q[bucket] = BucketAfter(p[bucket], Change(bucket, "SET", row, values))
  BY OwnBucket
<1>2. BucketAfter(p[bucket], Change(bucket, "SET", row, values)) = Put(p[bucket], row, values)
  BY DEF BucketAfter, Change
<1> QED
  BY <1>1, <1>2 DEF Put

LEMMA MergeRow ==
    ASSUME NEW p, NEW bucket \in DOMAIN p, NEW row \in DOMAIN p[bucket], NEW values,
           NEW q, q = ApplyDelta(p, Change(bucket, "MERGE", row, values))
    PROVE  /\ DOMAIN q[bucket] = DOMAIN p[bucket]
           /\ DOMAIN q[bucket][row] = DOMAIN p[bucket][row] \cup DOMAIN values
           /\ \A a \in DOMAIN values : q[bucket][row][a] = values[a]
           /\ \A a \in DOMAIN p[bucket][row] \ DOMAIN values :
                q[bucket][row][a] = p[bucket][row][a]
           /\ \A r \in DOMAIN p[bucket] \ {row} : q[bucket][r] = p[bucket][r]
<1>1. q[bucket] = BucketAfter(p[bucket], Change(bucket, "MERGE", row, values))
  BY OwnBucket
<1>2. BucketAfter(p[bucket], Change(bucket, "MERGE", row, values))
        = Put(p[bucket], row, Update(p[bucket][row], values))
  BY DEF BucketAfter, Change, Lookup
<1>3. PICK new : new = Update(p[bucket][row], values)
  OBVIOUS
<1>4. /\ DOMAIN new = DOMAIN p[bucket][row] \cup DOMAIN values
      /\ \A a \in DOMAIN values : new[a] = values[a]
      /\ \A a \in DOMAIN p[bucket][row] \ DOMAIN values : new[a] = p[bucket][row][a]
  BY <1>3 DEF Update
<1>5. /\ DOMAIN q[bucket] = DOMAIN p[bucket] /\ q[bucket][row] = new
      /\ \A r \in DOMAIN p[bucket] \ {row} : q[bucket][r] = p[bucket][r]
  BY <1>1, <1>2, <1>3 DEF Put
<1> QED
  BY <1>4, <1>5, Zenon

(***************************************************************************)
(* Where entities stand.  Of the handlers only moves and spawns write the  *)
(* place of an entity, and they write both of its rows.                    *)
(***************************************************************************)
LEMMA EntitiesThere ==
    ASSUME NEW p, "entities" \in DOMAIN p
    PROVE  Entities(p) = p["entities"]
  BY DEF Entities, Rows, Lookup

LEMMA OtherRowKeepsPlaces ==
    ASSUME NEW p, PlacesFit(p), NEW bucket, bucket \notin {"entities", "positions"},
           NEW operation, NEW row, NEW values
    PROVE  PlacesFit(ApplyDelta(p, Change(bucket, operation, row, values)))
<1>1. PICK q : q = ApplyDelta(p, Change(bucket, operation, row, values))
  OBVIOUS
<1>2. \A b \in {"entities", "positions"} : b \in DOMAIN q /\ q[b] = p[b]
  BY <1>1, OtherBuckets DEF PlacesFit
<1>3. PlacesFit(q)
  BY <1>2 DEF PlacesFit
<1> QED
  BY <1>1, <1>3

LEMMA MergeKeepsPlaces ==
    ASSUME NEW p, PlacesFit(p), NEW e \in DOMAIN Entities(p), NEW values,
           "x" \notin DOMAIN values
    PROVE  /\ PlacesFit(ApplyDelta(p, Merge(e, values)))
           /\ DOMAIN Entities(ApplyDelta(p, Merge(e, values))) = DOMAIN Entities(p)
<1>1. PICK q : q = ApplyDelta(p, Change("entities", "MERGE", e, values))
  OBVIOUS
<1>2. "entities" \in DOMAIN p /\ "positions" \in DOMAIN p /\ e \in DOMAIN p["entities"]
  BY EntitiesThere DEF PlacesFit
<1>3. "positions" \in DOMAIN q /\ q["positions"] = p["positions"]
  BY <1>1, <1>2, OtherBuckets
<1>4. "entities" \in DOMAIN q
  BY <1>1, <1>2, OwnBucket
<1>5. /\ DOMAIN q["entities"] = DOMAIN p["entities"]
      /\ \A r \in DOMAIN p["entities"] :
           /\ "x" \in DOMAIN q["entities"][r] <=> "x" \in DOMAIN p["entities"][r]
           /\ "x" \in DOMAIN p["entities"][r] => q["entities"][r]["x"] = p["entities"][r]["x"]
  BY <1>1, <1>2, MergeRow
<1>6. PlacesFit(q)
  BY <1>3, <1>4, <1>5 DEF PlacesFit, Get, Lookup
<1> QED
  BY <1>1, <1>2, <1>4, <1>5, <1>6, EntitiesThere DEF Merge

\* Both rows of an entity are written with one place.
LEMMA TwoRowsKeepPlaces ==
    ASSUME NEW p, PlacesFit(p), NEW e \in DOMAIN p["entities"], NEW place, "x" \in DOMAIN place,
           NEW q, q = ApplyDelta(p, Change("positions", "SET", e, place)),
           NEW values, "x" \in DOMAIN values, values["x"] = place["x"],
           NEW r, r = ApplyDelta(q, Change("entities", "MERGE", e, values))
    PROVE  PlacesFit(r)
<1>1. /\ "positions" \in DOMAIN q /\ DOMAIN q["positions"] = DOMAIN p["entities"]
      /\ q["positions"][e] = place
      /\ \A o \in DOMAIN p["entities"] \ {e} : q["positions"][o] = p["positions"][o]
  <2>1. "positions" \in DOMAIN p /\ DOMAIN p["positions"] = DOMAIN p["entities"]
    BY DEF PlacesFit
  <2>2. /\ DOMAIN q["positions"] = DOMAIN p["positions"] \cup {e} /\ q["positions"][e] = place
        /\ \A o \in DOMAIN p["positions"] \ {e} : q["positions"][o] = p["positions"][o]
    BY <2>1, SetRow
  <2> QED
    BY <2>1, <2>2, OwnBucket
<1>2. "entities" \in DOMAIN q /\ q["entities"] = p["entities"]
  BY OtherBuckets DEF PlacesFit
<1>3. "positions" \in DOMAIN r /\ r["positions"] = q["positions"] /\ "entities" \in DOMAIN r
  BY <1>1, <1>2, OtherBuckets, OwnBucket
<1>4. /\ DOMAIN r["entities"] = DOMAIN p["entities"]
      /\ "x" \in DOMAIN r["entities"][e] /\ r["entities"][e]["x"] = place["x"]
      /\ \A o \in DOMAIN p["entities"] \ {e} : r["entities"][o] = p["entities"][o]
  BY <1>2, MergeRow
<1>5. ASSUME NEW o \in DOMAIN r["entities"]
      PROVE  Get(r["positions"][o], "x") = Get(r["entities"][o], "x")
  BY <1>1, <1>3, <1>4 DEF PlacesFit, Get, Lookup
<1> QED
  BY <1>1, <1>3, <1>4, <1>5 DEF PlacesFit

LEMMA TradeKeepsPlaces ==
    ASSUME NEW p, PlacesFit(p), NEW c, Trade(c, p) # Raises
    PROVE  PlacesFit(ApplyDeltas(p, Trade(c, p)))
<1>1. {c.entity, c.other} \subseteq DOMAIN Entities(p)
  BY DEF Trade, When
<1>2. PICK v, w : /\ Trade(c, p) = <<Merge(Buyer(c), v), Merge(Seller(c), w)>>
                  /\ "x" \notin DOMAIN v /\ "x" \notin DOMAIN w
  <2> DEFINE price == c.quantity * c.price
             v == [gold |-> Charged(Entities(p)[Buyer(c)], price),
                   herbs |-> Get(Entities(p)[Buyer(c)], "herbs") + c.quantity]
             w == [gold |-> Get(Entities(p)[Seller(c)], "gold") + price,
                   herbs |-> Get(Entities(p)[Seller(c)], "herbs") - c.quantity]
  <2>1. Trade(c, p) = <<Merge(Buyer(c), v), Merge(Seller(c), w)>>
    BY Zenon DEF Trade, When
  <2>2. "x" \notin DOMAIN v /\ "x" \notin DOMAIN w
    OBVIOUS
  <2> HIDE DEF v, w
  <2> QED
    BY <2>1, <2>2, Zenon
<1>3. Buyer(c) \in DOMAIN Entities(p) /\ Seller(c) \in DOMAIN Entities(p)
  BY <1>1 DEF Buyer, Seller
<1>4. PICK q : q = ApplyDelta(p, Merge(Buyer(c), v))
  OBVIOUS
<1>5. PlacesFit(q) /\ DOMAIN Entities(q) = DOMAIN Entities(p)
  BY <1>2, <1>3, <1>4, MergeKeepsPlaces
<1>6. PlacesFit(ApplyDelta(q, Merge(Seller(c), w)))
  BY <1>2, <1>3, <1>5, MergeKeepsPlaces
<1>7. ApplyDeltas(p, <<Merge(Buyer(c), v), Merge(Seller(c), w)>>)
        = ApplyDelta(ApplyDelta(p, Merge(Buyer(c), v)), Merge(Seller(c), w))
  BY ApplyTwo
<1> QED
  BY <1>2, <1>4, <1>6, <1>7, Zenon

LEMMA AttackKeepsPlaces ==
    ASSUME NEW p, PlacesFit(p), NEW c, Attack(c, p) # Raises
    PROVE  PlacesFit(ApplyDeltas(p, Attack(c, p)))
<1>1. c.other \in DOMAIN Entities(p)
  BY DEF Attack, When
<1>2. PICK v : Attack(c, p) = <<Merge(c.other, v)>> /\ "x" \notin DOMAIN v
  <2>1. PICK hp : Attack(c, p) = <<Merge(c.other, [hp |-> hp, defeated |-> hp = 0])>>
    BY Zenon DEF Attack, When
  <2> DEFINE v == [hp |-> hp, defeated |-> hp = 0]
  <2>2. Attack(c, p) = <<Merge(c.other, v)>>
    BY <2>1, Zenon
  <2>3. "x" \notin DOMAIN v
    OBVIOUS
  <2> HIDE DEF v
  <2> QED
    BY <2>2, <2>3, Zenon
<1>3. PlacesFit(ApplyDelta(p, Merge(c.other, v)))
  BY <1>1, <1>2, MergeKeepsPlaces
<1>4. ApplyDeltas(p, <<Merge(c.other, v)>>) = ApplyDelta(p, Merge(c.other, v))
  BY ApplyOne
<1> QED
  BY <1>2, <1>3, <1>4, Zenon

LEMMA CastKeepsPlaces ==
    ASSUME NEW p, PlacesFit(p), NEW c, Cast(c, p) # Raises,
           c.effect \in {"DAMAGE", "HEAL", "CONDITION"}
    PROVE  PlacesFit(ApplyDeltas(p, Cast(c, p)))
<1>1. c.entity \in DOMAIN Entities(p) /\ c.other \in DOMAIN Entities(p)
  BY DEF Cast, When
<1>2. PICK v, w : /\ Cast(c, p) = <<Merge(c.entity, v), Merge(c.other, w)>>
                  /\ "x" \notin DOMAIN v /\ "x" \notin DOMAIN w
  <2> DEFINE v == [mana |-> Get(Entities(p)[c.entity], "mana") - c.cost]
             w == Effect(c, Entities(p)[c.other])
  <2>1. Cast(c, p) = <<Merge(c.entity, v), Merge(c.other, w)>>
    BY Zenon DEF Cast, When
  <2>2. "x" \notin DOMAIN v
    OBVIOUS
  <2>3. "x" \notin DOMAIN w
    BY DEF Effect
  <2> HIDE DEF v, w
  <2> QED
    BY <2>1, <2>2, <2>3, Zenon
<1>3. PICK q : q = ApplyDelta(p, Merge(c.entity, v))
  OBVIOUS
<1>4. PlacesFit(q) /\ DOMAIN Entities(q) = DOMAIN Entities(p)
  BY <1>1, <1>2, <1>3, MergeKeepsPlaces
<1>5. PlacesFit(ApplyDelta(q, Merge(c.other, w)))
  BY <1>1, <1>2, <1>4, MergeKeepsPlaces
<1>6. ApplyDeltas(p, <<Merge(c.entity, v), Merge(c.other, w)>>)
        = ApplyDelta(ApplyDelta(p, Merge(c.entity, v)), Merge(c.other, w))
  BY ApplyTwo
<1> QED
  BY <1>2, <1>3, <1>5, <1>6, Zenon

LEMMA MoveKeepsPlaces ==
    ASSUME NEW p, PlacesFit(p), NEW c, Move(c, p) # Raises
    PROVE  PlacesFit(ApplyDeltas(p, Move(c, p)))
<1>1. c.entity \in DOMAIN p["entities"]
  BY EntitiesThere DEF Move, When, Rows, Lookup, PlacesFit
<1>2. PICK x : Move(c, p) = <<Change("positions", "SET", c.entity, [x |-> x]),
                              Merge(c.entity, [x |-> x])>>
  BY Zenon DEF Move, When, Show
<1> DEFINE place == [x |-> x]
           placed == Change("positions", "SET", c.entity, place)
           shown == Merge(c.entity, place)
<1>3. "x" \in DOMAIN place
  OBVIOUS
<1>4. Move(c, p) = <<placed, shown>>
  BY <1>2, Zenon
<1> HIDE DEF place
<1>5. PICK q : q = ApplyDelta(p, placed)
  OBVIOUS
<1>6. PICK r : r = ApplyDelta(q, shown)
  OBVIOUS
<1>7. PlacesFit(r)
  BY <1>1, <1>3, <1>5, <1>6, TwoRowsKeepPlaces DEF Merge
<1> HIDE DEF placed, shown
<1>8. ApplyDeltas(p, <<placed, shown>>) = ApplyDelta(ApplyDelta(p, placed), shown)
  BY ApplyTwo
<1> QED
  BY <1>4, <1>5, <1>6, <1>7, <1>8, Zenon

LEMMA SpawnKeepsPlaces ==
    ASSUME NEW p, PlacesFit(p), NEW c, Spawn(c, p) # Raises
    PROVE  PlacesFit(ApplyDeltas(p, Spawn(c, p)))
<1> DEFINE place == [x |-> Get(c.public, "x")]
           senses == [deafened |-> FALSE, blinded |-> FALSE]
           born == Change("entities", "SET", c.created, c.public)
           placed == Change("positions", "SET", c.created, place)
           sensing == Change("sensory_profiles", "SET", c.created, senses)
<1>1. Spawn(c, p) = <<born, placed, sensing>>
  BY Zenon DEF Spawn, When
<1>2. Get(place, "x") = Get(c.public, "x")
  BY DEF Get, Lookup
<1> HIDE DEF place, senses
<1>3. PICK q : q = ApplyDelta(p, born)
  OBVIOUS
<1>4. PICK r : r = ApplyDelta(q, placed)
  OBVIOUS
<1>5. PlacesFit(r)
  <2>1. /\ "entities" \in DOMAIN q /\ DOMAIN q["entities"] = DOMAIN p["entities"] \cup {c.created}
        /\ q["entities"][c.created] = c.public
        /\ \A o \in DOMAIN p["entities"] \ {c.created} : q["entities"][o] = p["entities"][o]
    BY <1>3, SetRow, OwnBucket DEF PlacesFit
  <2>2. "positions" \in DOMAIN q /\ q["positions"] = p["positions"]
    BY <1>3, OtherBuckets DEF PlacesFit
  <2>3. /\ DOMAIN r["positions"] = DOMAIN p["entities"] \cup {c.created}
        /\ "positions" \in DOMAIN r /\ r["positions"][c.created] = place
        /\ \A o \in DOMAIN p["entities"] \ {c.created} : r["positions"][o] = p["positions"][o]
    BY <1>4, <2>2, SetRow, OwnBucket DEF PlacesFit
  <2>4. "entities" \in DOMAIN r /\ r["entities"] = q["entities"]
    BY <1>4, <2>1, OtherBuckets
  <2> QED
    BY <1>2, <2>1, <2>3, <2>4 DEF PlacesFit
<1>6. PlacesFit(ApplyDelta(r, sensing))
  BY <1>5, OtherRowKeepsPlaces
<1> HIDE DEF born, placed, sensing
<1>7. ApplyDeltas(p, <<born, placed, sensing>>)
        = ApplyDelta(ApplyDelta(ApplyDelta(p, born), placed), sensing)
  BY ApplyThree
<1> QED
  BY <1>1, <1>3, <1>4, <1>6, <1>7, Zenon

LEMMA OneOtherRowKeepsPlaces ==
    ASSUME NEW p, PlacesFit(p), NEW bucket, bucket \notin {"entities", "positions"},
           NEW operation, NEW row, NEW values
    PROVE  PlacesFit(ApplyDeltas(p, <<Change(bucket, operation, row, values)>>))
  BY OtherRowKeepsPlaces, ApplyOne

LEMMA ScenarioKeepsPlaces ==
    ASSUME NEW p, NEW c, NEW T, c.deltas \in Seq(T), PlacesFit(ApplyDeltas(p, c.deltas))
    PROVE  PlacesFit(ApplyDeltas(p, ApplyScenario(c, p)))
<1> DEFINE run == [status |-> "COMPLETED"]
           record == Change("scenario_runs", "SET", c.scenario, run)
<1>1. ApplyScenario(c, p) = Append(c.deltas, record)
  BY Zenon DEF ApplyScenario
<1> HIDE DEF run
<1>2. PlacesFit(ApplyDelta(ApplyDeltas(p, c.deltas), record))
  BY OtherRowKeepsPlaces
<1> HIDE DEF record
<1>3. PICK U, d : U = T \cup {record} /\ d = c.deltas
  OBVIOUS
<1>4. d \in Seq(U) /\ record \in U
  BY <1>3
<1>5. ApplyDeltas(p, Append(d, record)) = ApplyDelta(ApplyDeltas(p, d), record)
  BY <1>4, ApplyAppended, Zenon
<1> QED
  BY <1>1, <1>2, <1>3, <1>5, Zenon

(***************************************************************************)
(* The hypotheses: the handlers are those of the tabletop, and commands    *)
(* have passed their request models.                                       *)
(***************************************************************************)
Tabletop ==
    /\ \E T : Delta = Seq(T)
    /\ \A c \in Command : WellFormed(c)
    /\ \A c \in Command, p \in Projection : Handle(c, p) = HandleCommand(c, p)
    /\ \A p \in Projection, d \in Delta : Apply(p, d) = ApplyDeltas(p, d)

\* The deltas scenarios come with do not break a law either: they are the world author's.
ScenariosKeep(L) ==
    \A c \in Command, p \in L \cap Projection :
        c.type = "scenario" => ApplyDeltas(p, c.deltas) \in L

LEMMA HandlersKeepPlaces ==
    ASSUME Tabletop, NEW c \in Command, NEW p, PlacesFit(p), HandleCommand(c, p) # Raises,
           c.type = "scenario" => PlacesFit(ApplyDeltas(p, c.deltas))
    PROVE  PlacesFit(ApplyDeltas(p, HandleCommand(c, p)))
<1>1. WellFormed(c)
  BY DEF Tabletop
<1>2. CASE c.type = "trade"
  BY <1>1, <1>2, TradeKeepsPlaces DEF HandleCommand
<1>3. CASE c.type = "attack"
  BY <1>1, <1>3, AttackKeepsPlaces DEF HandleCommand
<1>4. CASE c.type = "cast"
  BY <1>1, <1>4, CastKeepsPlaces DEF HandleCommand, WellFormed
<1>5. CASE c.type = "move"
  BY <1>1, <1>5, MoveKeepsPlaces DEF HandleCommand
<1>6. CASE c.type = "spawn"
  BY <1>1, <1>6, SpawnKeepsPlaces DEF HandleCommand
<1>7. CASE c.type = "quest"
  <2>1. PICK values : Advance(c, p) = <<Change("quests", "MERGE", c.entity, values)>>
    BY Zenon DEF Advance
  <2> QED
    BY <1>1, <1>7, <2>1, OneOtherRowKeepsPlaces DEF HandleCommand
<1>8. CASE c.type = "squad_order"
  <2>1. PICK values : IssueSquadOrder(c, p)
                        = <<Change("squad_orders", "MERGE", c.squad, values)>>
    BY <1>8, Zenon DEF IssueSquadOrder, When, HandleCommand
  <2> QED
    BY <1>1, <1>8, <2>1, OneOtherRowKeepsPlaces DEF HandleCommand
<1>9. CASE c.type = "scenario"
  <2>1. PICK T : c.deltas \in Seq(T)
    BY <1>1, <1>9 DEF WellFormed, Tabletop
  <2>2. PlacesFit(ApplyDeltas(p, c.deltas))
    BY <1>9
  <2>3. PlacesFit(ApplyDeltas(p, ApplyScenario(c, p)))
    BY <2>1, <2>2, ScenarioKeepsPlaces
  <2> QED
    BY <1>9, <2>3 DEF HandleCommand
<1> QED
  BY <1>1, <1>2, <1>3, <1>4, <1>5, <1>6, <1>7, <1>8, <1>9 DEF WellFormed

(***************************************************************************)
(* Sums over finite sets.  The fold takes the elements in an order nobody  *)
(* knows, but it adds: there is a function on the subsets of the set that  *)
(* gains by each element what that element has, and the fold is it.        *)
(***************************************************************************)
SumOver(f, S) == FoldFunctionOnSet(+, 0, f, S)

Additive(A, f, S) ==
    /\ A \in [SUBSET S -> Int]
    /\ A[{}] = 0
    /\ \A s \in SUBSET S : \A x \in s : A[s] = f[x] + A[s \ {x}]

LEMMA AddOne ==
    ASSUME NEW S, NEW n, n \notin S, NEW f, f[n] \in Int, \A x \in S : f[x] \in Int,
           NEW A, Additive(A, f, S)
    PROVE  \E B : Additive(B, f, S \cup {n})
<1>1. A \in [SUBSET S -> Int] /\ A[{}] = 0
  BY DEF Additive
<1>2. ASSUME NEW s \in SUBSET (S \cup {n}) PROVE s \ {n} \in SUBSET S
  OBVIOUS
<1>3. ASSUME NEW s \in SUBSET (S \cup {n}), n \notin s PROVE s \in SUBSET S
  BY <1>3
<1> DEFINE B == [s \in SUBSET (S \cup {n}) |-> IF n \in s THEN f[n] + A[s \ {n}] ELSE A[s]]
<1>4. ASSUME NEW s \in SUBSET (S \cup {n})
      PROVE  B[s] = IF n \in s THEN f[n] + A[s \ {n}] ELSE A[s]
  OBVIOUS
<1>5. B \in [SUBSET (S \cup {n}) -> Int]
  <2>1. ASSUME NEW s \in SUBSET (S \cup {n})
        PROVE  (IF n \in s THEN f[n] + A[s \ {n}] ELSE A[s]) \in Int
    BY <1>1, <1>2, <1>3
  <2> QED
    BY <2>1
<1> HIDE DEF B
<1>6. B[{}] = 0
  BY <1>1, <1>4
<1>7. ASSUME NEW s \in SUBSET (S \cup {n}), NEW x \in s PROVE B[s] = f[x] + B[s \ {x}]
  <2>1. s \ {x} \in SUBSET (S \cup {n})
    OBVIOUS
  <2>2. CASE x = n
    BY <1>4, <2>1, <2>2
  <2>3. CASE x # n /\ n \in s
    <3>1. s \ {n} \in SUBSET S /\ x \in s \ {n} /\ x \in S
      BY <2>3
    <3>2. PICK r : r = (s \ {n}) \ {x} /\ r = (s \ {x}) \ {n} /\ r \in SUBSET S
      <4>1. (s \ {n}) \ {x} = (s \ {x}) \ {n} /\ (s \ {n}) \ {x} \in SUBSET S
        BY <3>1
      <4> QED
        BY <4>1, Zenon
    <3>3. A[s \ {n}] = f[x] + A[r]
      BY <3>1, <3>2 DEF Additive
    <3>4. B[s] = f[n] + A[s \ {n}] /\ B[s \ {x}] = f[n] + A[r]
      BY <1>4, <2>1, <2>3, <3>2
    <3>5. A[r] \in Int /\ f[x] \in Int
      BY <1>1, <3>1, <3>2
    <3> QED
      BY <3>3, <3>4, <3>5
  <2>4. CASE n \notin s
    <3>1. s \in SUBSET S /\ n \notin s \ {x}
      BY <2>4
    <3>2. B[s] = A[s] /\ B[s \ {x}] = A[s \ {x}]
      BY <1>4, <2>1, <2>4, <3>1
    <3> QED
      BY <3>1, <3>2 DEF Additive
  <2> QED
    BY <2>2, <2>3, <2>4
<1>8. Additive(B, f, S \cup {n})
  BY <1>5, <1>6, <1>7 DEF Additive
<1> QED
  BY <1>8, Zenon

LEMMA AdditiveExists ==
    ASSUME NEW f, NEW S, IsFiniteSet(S), \A x \in S : f[x] \in Int
    PROVE  \E A : Additive(A, f, S)
<1> DEFINE T == {k \in Nat : \A s \in SUBSET S : Cardinality(s) = k => \E A : Additive(A, f, s)}
<1>1. 0 \in T
  <2> SUFFICES ASSUME NEW s \in SUBSET S, Cardinality(s) = 0 PROVE \E A : Additive(A, f, s)
    OBVIOUS
  <2>1. s = {}
    BY FS_Subset, FS_EmptySet
  <2> DEFINE A == [u \in SUBSET s |-> 0]
  <2>2. Additive(A, f, s)
    BY <2>1 DEF Additive
  <2> QED
    BY <2>2
<1>2. ASSUME NEW k \in Nat, k \in T PROVE k + 1 \in T
  <2> SUFFICES ASSUME NEW s \in SUBSET S, Cardinality(s) = k + 1 PROVE \E A : Additive(A, f, s)
    OBVIOUS
  <2>1. IsFiniteSet(s)
    BY FS_Subset
  <2>2. PICK n : n \in s
    BY FS_EmptySet
  <2>3. PICK u : u = s \ {n} /\ n \notin u /\ u \cup {n} = s /\ u \in SUBSET S
    <3>1. (s \ {n}) \cup {n} = s /\ s \ {n} \in SUBSET S
      BY <2>2
    <3> QED
      BY <3>1, Zenon
  <2>4. Cardinality(u) = k
    <3>1. Cardinality(u) = Cardinality(s) - 1
      BY <2>1, <2>2, <2>3, FS_RemoveElement
    <3> QED
      BY <3>1
  <2>5. PICK A : Additive(A, f, u)
    BY <1>2, <2>3, <2>4
  <2>6. f[n] \in Int /\ \A x \in u : f[x] \in Int
    BY <2>2, <2>3
  <2>7. \E B : Additive(B, f, u \cup {n})
    BY <2>3, <2>5, <2>6, AddOne
  <2> QED
    BY <2>3, <2>7
<1> HIDE DEF T
<1>3. Cardinality(S) \in T
  BY <1>1, <1>2, CountUp, FS_CardinalityType
<1> QED
  BY <1>3 DEF T

SumStep(g, f, s) ==
    IF s = {} THEN 0 ELSE f[CHOOSE x \in s : TRUE] + g[s \ {CHOOSE x \in s : TRUE}]

LEMMA SumIsAdditive ==
    ASSUME NEW f, NEW S, IsFiniteSet(S), NEW A, Additive(A, f, S)
    PROVE  SumOver(f, S) = A[S]
<1> DEFINE g == CHOOSE h : h = [s \in SUBSET S |-> SumStep(h, f, s)]
<1>1. SumOver(f, S) = g[S]
  BY Zenon DEF SumOver, FoldFunctionOnSet, MapThenFoldSet, SumStep
<1>2. A = [s \in SUBSET S |-> SumStep(A, f, s)]
  <2>1. ASSUME NEW s \in SUBSET S PROVE A[s] = SumStep(A, f, s)
    <3>1. CASE s = {}
      BY <3>1 DEF Additive, SumStep
    <3>2. CASE s # {}
      <4>1. (CHOOSE x \in s : TRUE) \in s
        BY <3>2
      <4> QED
        BY <3>2, <4>1, Zenon DEF Additive, SumStep
    <3> QED
      BY <3>1, <3>2
  <2>2. A = [s \in SUBSET S |-> A[s]]
    BY DEF Additive
  <2> QED
    BY <2>1, <2>2, Zenon
<1>3. g = [s \in SUBSET S |-> SumStep(g, f, s)]
  BY <1>2, Zenon
<1> HIDE DEF g
<1>4. ASSUME NEW s \in SUBSET S PROVE g[s] = SumStep(g, f, s) /\ A[s] = SumStep(A, f, s)
  BY <1>2, <1>3, Zenon
<1> DEFINE T == {k \in Nat : \A s \in SUBSET S : Cardinality(s) = k => g[s] = A[s]}
<1>5. 0 \in T
  <2> SUFFICES ASSUME NEW s \in SUBSET S, Cardinality(s) = 0 PROVE g[s] = A[s]
    OBVIOUS
  <2>1. s = {}
    BY FS_Subset, FS_EmptySet
  <2> QED
    BY <1>4, <2>1, Zenon DEF SumStep
<1>6. ASSUME NEW k \in Nat, k \in T PROVE k + 1 \in T
  <2> SUFFICES ASSUME NEW s \in SUBSET S, Cardinality(s) = k + 1 PROVE g[s] = A[s]
    OBVIOUS
  <2>1. IsFiniteSet(s) /\ s # {}
    BY FS_Subset, FS_EmptySet
  <2>2. PICK x : x = (CHOOSE y \in s : TRUE) /\ x \in s
    BY <2>1, Zenon
  <2>3. Cardinality(s \ {x}) = Cardinality(s) - 1 /\ s \ {x} \in SUBSET S
    BY <2>1, <2>2, FS_RemoveElement
  <2>4. g[s \ {x}] = A[s \ {x}]
    BY <1>6, <2>3
  <2> QED
    BY <1>4, <2>1, <2>2, <2>4, ZenonT(40) DEF SumStep
<1> HIDE DEF T
<1>7. Cardinality(S) \in T
  BY <1>5, <1>6, CountUp, FS_CardinalityType
<1>8. g[S] = A[S]
  BY <1>7 DEF T
<1> QED
  BY <1>1, <1>8

\* The sum of nothing, and of an element and the rest.
LEMMA SumSplits ==
    ASSUME NEW f, NEW S, IsFiniteSet(S), \A x \in S : f[x] \in Int
    PROVE  /\ SumOver(f, S) \in Int
           /\ S = {} => SumOver(f, S) = 0
           /\ \A x \in S : SumOver(f, S) = f[x] + SumOver(f, S \ {x})
<1>1. PICK A : Additive(A, f, S)
  BY AdditiveExists
<1>2. SumOver(f, S) = A[S]
  BY <1>1, SumIsAdditive
<1>3. SumOver(f, S) \in Int /\ (S = {} => SumOver(f, S) = 0)
  BY <1>1, <1>2 DEF Additive
<1>4. ASSUME NEW x \in S PROVE SumOver(f, S) = f[x] + SumOver(f, S \ {x})
  <2>1. PICK R : R = S \ {x} /\ R \in SUBSET S
    OBVIOUS
  <2>2. IsFiniteSet(R)
    BY <2>1, FS_Subset
  <2> DEFINE B == [s \in SUBSET R |-> A[s]]
  <2>3. ASSUME NEW s \in SUBSET R PROVE s \in SUBSET S
    BY <2>1
  <2>4. Additive(B, f, R)
    BY <1>1, <2>3 DEF Additive
  <2>5. B[R] = A[R]
    OBVIOUS
  <2> HIDE DEF B
  <2>6. SumOver(f, R) = A[R]
    BY <2>2, <2>4, <2>5, SumIsAdditive
  <2>7. A[S] = f[x] + A[S \ {x}]
    BY <1>1 DEF Additive
  <2> QED
    BY <1>2, <2>1, <2>6, <2>7
<1> QED
  BY <1>3, <1>4

\* The sum depends on what the elements have.
LEMMA SameSum ==
    ASSUME NEW f, NEW h, NEW S, IsFiniteSet(S), \A x \in S : f[x] \in Int /\ h[x] = f[x]
    PROVE  SumOver(h, S) = SumOver(f, S)
<1>1. PICK A : Additive(A, f, S)
  BY AdditiveExists
<1>2. Additive(A, h, S)
  BY <1>1 DEF Additive
<1> QED
  BY <1>1, <1>2, SumIsAdditive

(***************************************************************************)
(* What entities own.                                                      *)
(***************************************************************************)
Owned(p, a) == [e \in DOMAIN p["entities"] |-> Get(p["entities"][e], a)]

\* As much of everything in q as in p.
AsRich(q, p) == Counted(q) /\ \A a \in Goods : Total(q, a) = Total(p, a)

LEMMA TotalIsSum ==
    ASSUME NEW p, NEW a
    PROVE  Total(p, a) = SumOver(Owned(p, a), DOMAIN p["entities"])
  BY Zenon DEF Total, SumOver, Owned

LEMMA SameRowsAsRich ==
    ASSUME NEW p, Counted(p), NEW q, "entities" \in DOMAIN q,
           DOMAIN q["entities"] = DOMAIN p["entities"],
           \A e \in DOMAIN p["entities"], a \in Goods :
              Get(q["entities"][e], a) = Get(p["entities"][e], a)
    PROVE  AsRich(q, p)
<1>1. Counted(q)
  BY DEF Counted
<1>2. ASSUME NEW a \in Goods PROVE Total(q, a) = Total(p, a)
  <2>1. Owned(q, a) = Owned(p, a)
    BY <1>2 DEF Owned
  <2> QED
    BY <2>1, TotalIsSum
<1> QED
  BY <1>1, <1>2 DEF AsRich

LEMMA OtherRowAsRich ==
    ASSUME NEW p, Counted(p), NEW bucket, bucket # "entities",
           NEW operation, NEW row, NEW values
    PROVE  /\ AsRich(ApplyDelta(p, Change(bucket, operation, row, values)), p)
           /\ ApplyDelta(p, Change(bucket, operation, row, values))["entities"] = p["entities"]
<1>1. PICK q : q = ApplyDelta(p, Change(bucket, operation, row, values))
  OBVIOUS
<1>2. "entities" \in DOMAIN q /\ q["entities"] = p["entities"]
  BY <1>1, OtherBuckets DEF Counted
<1>3. AsRich(q, p)
  BY <1>2, SameRowsAsRich DEF Counted
<1> QED
  BY <1>1, <1>2, <1>3

LEMMA MergeAsRich ==
    ASSUME NEW p, Counted(p), NEW e \in DOMAIN p["entities"], NEW values,
           Goods \cap DOMAIN values = {}
    PROVE  /\ AsRich(ApplyDelta(p, Merge(e, values)), p)
           /\ DOMAIN ApplyDelta(p, Merge(e, values))["entities"] = DOMAIN p["entities"]
<1>1. PICK q : q = ApplyDelta(p, Change("entities", "MERGE", e, values))
  OBVIOUS
<1>2. "entities" \in DOMAIN p /\ \A a \in Goods : a \notin DOMAIN values
  BY DEF Counted
<1>3. "entities" \in DOMAIN q
  BY <1>1, <1>2, OwnBucket
<1>4. /\ DOMAIN q["entities"] = DOMAIN p["entities"]
      /\ DOMAIN q["entities"][e] = DOMAIN p["entities"][e] \cup DOMAIN values
      /\ \A a \in DOMAIN p["entities"][e] \ DOMAIN values :
           q["entities"][e][a] = p["entities"][e][a]
      /\ \A r \in DOMAIN p["entities"] \ {e} : q["entities"][r] = p["entities"][r]
  BY <1>1, <1>2, MergeRow
<1>5. ASSUME NEW r \in DOMAIN p["entities"], NEW a \in Goods
      PROVE  Get(q["entities"][r], a) = Get(p["entities"][r], a)
  <2>1. CASE r = e
    BY <1>2, <1>4, <2>1 DEF Get, Lookup
  <2>2. CASE r # e
    BY <1>4, <2>2
  <2> QED
    BY <2>1, <2>2
<1>6. AsRich(q, p)
  BY <1>3, <1>4, <1>5, SameRowsAsRich
<1> QED
  BY <1>1, <1>4, <1>6 DEF Merge

LEMMA RichSteps ==
    ASSUME NEW p, NEW q, NEW r, AsRich(q, p), AsRich(r, q)
    PROVE  AsRich(r, p)
  BY DEF AsRich

\* Two rows change by opposite amounts.
LEMMA ExchangeAsRich ==
    ASSUME NEW p, Counted(p), NEW b \in DOMAIN p["entities"], NEW s \in DOMAIN p["entities"],
           b # s, NEW q, "entities" \in DOMAIN q, DOMAIN q["entities"] = DOMAIN p["entities"],
           \A e \in DOMAIN p["entities"], a \in Goods :
              /\ Get(q["entities"][e], a) \in Int
              /\ e \notin {b, s} => q["entities"][e] = p["entities"][e],
           \A a \in Goods : Get(q["entities"][b], a) + Get(q["entities"][s], a)
                              = Get(p["entities"][b], a) + Get(p["entities"][s], a)
    PROVE  AsRich(q, p)
<1>1. Counted(q)
  BY DEF Counted
<1>2. ASSUME NEW a \in Goods PROVE Total(q, a) = Total(p, a)
  <2>1. PICK S, f, h : S = DOMAIN p["entities"] /\ f = Owned(p, a) /\ h = Owned(q, a)
    OBVIOUS
  <2>2. Total(q, a) = SumOver(h, S) /\ Total(p, a) = SumOver(f, S)
    BY <2>1, TotalIsSum
  <2>3. \A e \in S : f[e] = Get(p["entities"][e], a) /\ h[e] = Get(q["entities"][e], a)
    BY <2>1 DEF Owned
  <2>4. \A e \in S : f[e] \in Int /\ h[e] \in Int
    BY <2>1, <2>3 DEF Counted
  <2>5. f[b] + f[s] = h[b] + h[s] /\ \A e \in S \ {b, s} : h[e] = f[e]
    BY <2>1, <2>3
  <2>6. PICK U, V : U = S \ {b} /\ V = U \ {s}
    OBVIOUS
  <2>7. IsFiniteSet(S) /\ IsFiniteSet(U) /\ IsFiniteSet(V)
    BY <2>1, <2>6, FS_RemoveElement DEF Counted
  <2>8. b \in S /\ s \in U /\ \A e \in V : e \in S \ {b, s}
    BY <2>1, <2>6
  <2>9. \A e \in U : f[e] \in Int /\ h[e] \in Int
    BY <2>4, <2>6
  <2>10. SumOver(f, S) = f[b] + SumOver(f, U) /\ SumOver(h, S) = h[b] + SumOver(h, U)
    <3>1. S \ {b} = U /\ b \in S /\ IsFiniteSet(S)
      BY <2>6, <2>7, <2>8
    <3>2. ASSUME NEW g, \A x \in S : g[x] \in Int
          PROVE  SumOver(g, S) = g[b] + SumOver(g, U)
      BY <3>1, <3>2, SumSplits
    <3> QED
      BY <2>4, <3>2
  <2>11. SumOver(f, U) = f[s] + SumOver(f, V) /\ SumOver(h, U) = h[s] + SumOver(h, V)
    <3>1. U \ {s} = V /\ s \in U /\ IsFiniteSet(U)
      BY <2>6, <2>7, <2>8
    <3>2. ASSUME NEW g, \A x \in U : g[x] \in Int
          PROVE  SumOver(g, U) = g[s] + SumOver(g, V)
      BY <3>1, <3>2, SumSplits
    <3> QED
      BY <2>9, <3>2
  <2>12. SumOver(h, V) = SumOver(f, V) /\ SumOver(f, V) \in Int
    BY <2>4, <2>5, <2>7, <2>8, SameSum, SumSplits
  <2> QED
    BY <2>1, <2>2, <2>4, <2>5, <2>10, <2>11, <2>12
<1> QED
  BY <1>1, <1>2 DEF AsRich

\* A row that owns nothing is added.
LEMMA NewcomerAsRich ==
    ASSUME NEW p, Counted(p), NEW c, c \notin DOMAIN p["entities"], NEW q, "entities" \in DOMAIN q,
           DOMAIN q["entities"] = DOMAIN p["entities"] \cup {c},
           \A e \in DOMAIN p["entities"] : q["entities"][e] = p["entities"][e],
           \A a \in Goods : Get(q["entities"][c], a) = 0
    PROVE  AsRich(q, p)
<1>1. Counted(q)
  BY FS_AddElement DEF Counted
<1>2. ASSUME NEW a \in Goods PROVE Total(q, a) = Total(p, a)
  <2>1. PICK S, R, f, h : /\ S = DOMAIN p["entities"] /\ R = DOMAIN q["entities"]
                          /\ f = Owned(p, a) /\ h = Owned(q, a)
    OBVIOUS
  <2>2. Total(q, a) = SumOver(h, R) /\ Total(p, a) = SumOver(f, S)
    BY <2>1, TotalIsSum
  <2>3. /\ \A e \in S : f[e] \in Int /\ h[e] = f[e]
        /\ \A e \in R : h[e] \in Int
        /\ h[c] = 0
    BY <1>1, <2>1 DEF Owned, Counted
  <2>4. IsFiniteSet(S) /\ IsFiniteSet(R) /\ c \in R
    BY <1>1, <2>1 DEF Counted
  <2>5. R \ {c} = S
    BY <2>1
  <2>6. SumOver(h, R) = h[c] + SumOver(h, S)
    <3>1. \A e \in R : h[e] \in Int
      BY <2>3
    <3> QED
      BY <2>4, <2>5, <3>1, SumSplits
  <2>7. SumOver(h, S) = SumOver(f, S) /\ SumOver(f, S) \in Int
    BY <2>3, <2>4, SameSum, SumSplits
  <2> QED
    BY <2>2, <2>3, <2>6, <2>7
<1> QED
  BY <1>1, <1>2 DEF AsRich

(***************************************************************************)
(* Honest commands and what is owned.  The sides of a trade are two: the   *)
(* second row of one who trades with himself is computed from what he had  *)
(* before he bought.  An entity that is spawned brings nothing.            *)
(***************************************************************************)
LEMMA TradeAsRich ==
    ASSUME NEW p, Counted(p), NEW c, Trade(c, p) # Raises, c.entity # c.other,
           c.quantity \in Int, c.price \in Int
    PROVE  AsRich(ApplyDeltas(p, Trade(c, p)), p)
<1> DEFINE rows == p["entities"]
           price == c.quantity * c.price
           b == Buyer(c)
           s == Seller(c)
           v == [gold |-> Charged(rows[b], price), herbs |-> Get(rows[b], "herbs") + c.quantity]
           w == [gold |-> Get(rows[s], "gold") + price, herbs |-> Get(rows[s], "herbs") - c.quantity]
           bought == Merge(b, v)
           sold == Merge(s, w)
<1>1. Entities(p) = rows
  BY EntitiesThere DEF Counted
<1>2. Trade(c, p) = <<bought, sold>> /\ {c.entity, c.other} \subseteq DOMAIN rows
  BY <1>1, Zenon DEF Trade, When
<1>3. b \in DOMAIN rows /\ s \in DOMAIN rows /\ b # s
  BY <1>2 DEF Buyer, Seller
<1>4. price \in Int
  OBVIOUS
<1>5. ASSUME NEW e \in DOMAIN rows, NEW a \in Goods
      PROVE  Get(rows[e], a) \in Int
  BY DEF Counted
<1> HIDE DEF price
<1>6. /\ DOMAIN v = Goods /\ DOMAIN w = Goods
      /\ \A a \in Goods : /\ v[a] \in Int /\ w[a] \in Int
                           /\ v[a] + w[a] = Get(rows[b], a) + Get(rows[s], a)
  <2>1. DOMAIN v = Goods /\ DOMAIN w = Goods
    BY DEF Goods
  <2>2. /\ v["gold"] = Get(rows[b], "gold") - price /\ w["gold"] = Get(rows[s], "gold") + price
        /\ v["herbs"] = Get(rows[b], "herbs") + c.quantity
        /\ w["herbs"] = Get(rows[s], "herbs") - c.quantity
    BY DEF Charged
  <2>3. /\ Get(rows[b], "gold") \in Int /\ Get(rows[b], "herbs") \in Int
        /\ Get(rows[s], "gold") \in Int /\ Get(rows[s], "herbs") \in Int
    BY <1>3, <1>5 DEF Goods
  <2> HIDE DEF v, w, rows
  <2> QED
    BY <1>4, <2>1, <2>2, <2>3 DEF Goods
<1> HIDE DEF v, w, b, s
<1>7. PICK q : q = ApplyDelta(p, Change("entities", "MERGE", b, v))
  OBVIOUS
<1>8. PICK r : r = ApplyDelta(q, Change("entities", "MERGE", s, w))
  OBVIOUS
<1>9. "entities" \in DOMAIN p
  BY DEF Counted
<1>10. "entities" \in DOMAIN q
  BY <1>7, <1>9, OwnBucket
<1>11. /\ DOMAIN q["entities"] = DOMAIN rows
       /\ DOMAIN q["entities"][b] = DOMAIN rows[b] \cup DOMAIN v
       /\ \A a \in DOMAIN v : q["entities"][b][a] = v[a]
       /\ \A e \in DOMAIN rows \ {b} : q["entities"][e] = rows[e]
  BY <1>3, <1>7, <1>9, MergeRow
<1>12. "entities" \in DOMAIN r
  BY <1>8, <1>10, OwnBucket
<1>13. /\ DOMAIN r["entities"] = DOMAIN rows
       /\ DOMAIN r["entities"][s] = DOMAIN q["entities"][s] \cup DOMAIN w
       /\ \A a \in DOMAIN w : r["entities"][s][a] = w[a]
       /\ \A e \in DOMAIN rows \ {s} : r["entities"][e] = q["entities"][e]
  <2>1. s \in DOMAIN q["entities"]
    BY <1>3, <1>11
  <2> QED
    BY <1>8, <1>10, <1>11, <2>1, MergeRow
<1> HIDE DEF rows
<1>14. ASSUME NEW a \in Goods
       PROVE  Get(r["entities"][b], a) = v[a] /\ Get(r["entities"][s], a) = w[a]
  BY <1>3, <1>6, <1>11, <1>13 DEF Get, Lookup
<1>15. ASSUME NEW e \in DOMAIN rows, NEW a \in Goods
       PROVE  /\ Get(r["entities"][e], a) \in Int
              /\ e \notin {b, s} => r["entities"][e] = rows[e]
  BY <1>5, <1>6, <1>11, <1>13, <1>14
<1> USE DEF rows
<1>16. AsRich(r, p)
  BY <1>3, <1>6, <1>12, <1>13, <1>14, <1>15, ExchangeAsRich
<1>17. ApplyDelta(p, bought) = q /\ ApplyDelta(q, sold) = r
  BY <1>7, <1>8, Zenon DEF Merge
<1> HIDE DEF bought, sold
<1>18. ApplyDeltas(p, <<bought, sold>>) = ApplyDelta(ApplyDelta(p, bought), sold)
  BY ApplyTwo
<1> QED
  BY <1>2, <1>16, <1>17, <1>18, Zenon

LEMMA AttackAsRich ==
    ASSUME NEW p, Counted(p), NEW c, Attack(c, p) # Raises
    PROVE  AsRich(ApplyDeltas(p, Attack(c, p)), p)
<1>1. c.other \in DOMAIN p["entities"]
  BY EntitiesThere DEF Attack, When, Counted
<1>2. PICK v : Attack(c, p) = <<Merge(c.other, v)>> /\ Goods \cap DOMAIN v = {}
  <2>1. PICK hp : Attack(c, p) = <<Merge(c.other, [hp |-> hp, defeated |-> hp = 0])>>
    BY Zenon DEF Attack, When
  <2> DEFINE v == [hp |-> hp, defeated |-> hp = 0]
  <2>2. Attack(c, p) = <<Merge(c.other, v)>>
    BY <2>1, Zenon
  <2>3. Goods \cap DOMAIN v = {}
    BY DEF Goods
  <2> HIDE DEF v
  <2> QED
    BY <2>2, <2>3, Zenon
<1>3. AsRich(ApplyDelta(p, Merge(c.other, v)), p)
  BY <1>1, <1>2, MergeAsRich
<1>4. ApplyDeltas(p, <<Merge(c.other, v)>>) = ApplyDelta(p, Merge(c.other, v))
  BY ApplyOne
<1> QED
  BY <1>2, <1>3, <1>4, Zenon

LEMMA CastAsRich ==
    ASSUME NEW p, Counted(p), NEW c, Cast(c, p) # Raises,
           c.effect \in {"DAMAGE", "HEAL", "CONDITION"}
    PROVE  AsRich(ApplyDeltas(p, Cast(c, p)), p)
<1>1. c.entity \in DOMAIN p["entities"] /\ c.other \in DOMAIN p["entities"]
  BY EntitiesThere DEF Cast, When, Counted
<1>2. PICK v, w : /\ Cast(c, p) = <<Merge(c.entity, v), Merge(c.other, w)>>
                  /\ Goods \cap DOMAIN v = {} /\ Goods \cap DOMAIN w = {}
  <2> DEFINE v == [mana |-> Get(Entities(p)[c.entity], "mana") - c.cost]
             w == Effect(c, Entities(p)[c.other])
  <2>1. Cast(c, p) = <<Merge(c.entity, v), Merge(c.other, w)>>
    BY Zenon DEF Cast, When
  <2>2. Goods \cap DOMAIN v = {}
    BY DEF Goods
  <2>3. Goods \cap DOMAIN w = {}
    BY DEF Effect, Goods
  <2> HIDE DEF v, w
  <2> QED
    BY <2>1, <2>2, <2>3, Zenon
<1>3. PICK q : q = ApplyDelta(p, Merge(c.entity, v))
  OBVIOUS
<1>4. AsRich(q, p) /\ DOMAIN q["entities"] = DOMAIN p["entities"]
  BY <1>1, <1>2, <1>3, MergeAsRich
<1>5. AsRich(ApplyDelta(q, Merge(c.other, w)), q)
  <2>1. Counted(q) /\ c.other \in DOMAIN q["entities"]
    BY <1>1, <1>4 DEF AsRich
  <2> QED
    BY <1>2, <2>1, MergeAsRich
<1>6. ApplyDeltas(p, <<Merge(c.entity, v), Merge(c.other, w)>>)
        = ApplyDelta(ApplyDelta(p, Merge(c.entity, v)), Merge(c.other, w))
  BY ApplyTwo
<1>7. AsRich(ApplyDelta(q, Merge(c.other, w)), p)
  BY <1>4, <1>5, RichSteps
<1> QED
  BY <1>2, <1>3, <1>6, <1>7, Zenon

LEMMA MoveAsRich ==
    ASSUME NEW p, Counted(p), PlacesFit(p), NEW c, Move(c, p) # Raises
    PROVE  AsRich(ApplyDeltas(p, Move(c, p)), p)
<1>1. c.entity \in DOMAIN p["entities"]
  BY EntitiesThere DEF Move, When, Rows, Lookup, PlacesFit
<1>2. PICK x : Move(c, p) = <<Change("positions", "SET", c.entity, [x |-> x]),
                              Merge(c.entity, [x |-> x])>>
  BY Zenon DEF Move, When, Show
<1> DEFINE place == [x |-> x]
           placed == Change("positions", "SET", c.entity, place)
           shown == Merge(c.entity, place)
<1>3. Goods \cap DOMAIN place = {}
  BY DEF Goods
<1>4. Move(c, p) = <<placed, shown>>
  BY <1>2, Zenon
<1> HIDE DEF place
<1>5. PICK q : q = ApplyDelta(p, placed)
  OBVIOUS
<1>6. AsRich(q, p) /\ q["entities"] = p["entities"]
  BY <1>5, OtherRowAsRich
<1>7. AsRich(ApplyDelta(q, shown), q)
  BY <1>1, <1>3, <1>6, MergeAsRich DEF AsRich
<1> HIDE DEF placed, shown
<1>8. ApplyDeltas(p, <<placed, shown>>) = ApplyDelta(ApplyDelta(p, placed), shown)
  BY ApplyTwo
<1>9. AsRich(ApplyDelta(q, shown), p)
  BY <1>6, <1>7, RichSteps
<1> QED
  BY <1>4, <1>5, <1>8, <1>9, Zenon

LEMMA SpawnAsRich ==
    ASSUME NEW p, Counted(p), NEW c, Spawn(c, p) # Raises,
           \A a \in Goods : Get(c.public, a) = 0
    PROVE  AsRich(ApplyDeltas(p, Spawn(c, p)), p)
<1> DEFINE place == [x |-> Get(c.public, "x")]
           senses == [deafened |-> FALSE, blinded |-> FALSE]
           born == Change("entities", "SET", c.created, c.public)
           placed == Change("positions", "SET", c.created, place)
           sensing == Change("sensory_profiles", "SET", c.created, senses)
<1>1. Spawn(c, p) = <<born, placed, sensing>> /\ c.created \notin DOMAIN Entities(p)
  BY Zenon DEF Spawn, When
<1>2. c.created \notin DOMAIN p["entities"] /\ "entities" \in DOMAIN p
  BY <1>1, EntitiesThere DEF Counted
<1> HIDE DEF place, senses
<1>3. PICK q : q = ApplyDelta(p, born)
  OBVIOUS
<1>4. AsRich(q, p)
  <2>1. "entities" \in DOMAIN q
    BY <1>2, <1>3, OwnBucket
  <2>2. /\ DOMAIN q["entities"] = DOMAIN p["entities"] \cup {c.created}
        /\ q["entities"][c.created] = c.public
        /\ \A o \in DOMAIN p["entities"] \ {c.created} : q["entities"][o] = p["entities"][o]
    BY <1>2, <1>3, SetRow
  <2> QED
    BY <1>2, <2>1, <2>2, NewcomerAsRich
<1>5. PICK r : r = ApplyDelta(q, placed)
  OBVIOUS
<1>6. AsRich(r, q)
  BY <1>4, <1>5, OtherRowAsRich DEF AsRich
<1>7. AsRich(ApplyDelta(r, sensing), r)
  <2>1. Counted(r)
    BY <1>6 DEF AsRich
  <2> QED
    BY <2>1, OtherRowAsRich
<1> HIDE DEF born, placed, sensing
<1>8. ApplyDeltas(p, <<born, placed, sensing>>)
        = ApplyDelta(ApplyDelta(ApplyDelta(p, born), placed), sensing)
  BY ApplyThree
<1>9. AsRich(ApplyDelta(r, sensing), p)
  BY <1>4, <1>6, <1>7, RichSteps
<1> QED
  BY <1>1, <1>3, <1>5, <1>8, <1>9, Zenon

LEMMA OneOtherRowAsRich ==
    ASSUME NEW p, Counted(p), NEW bucket, bucket # "entities",
           NEW operation, NEW row, NEW values
    PROVE  AsRich(ApplyDeltas(p, <<Change(bucket, operation, row, values)>>), p)
  BY OtherRowAsRich, ApplyOne

LEMMA ScenarioAsRich ==
    ASSUME NEW p, NEW c, NEW T, c.deltas \in Seq(T), AsRich(ApplyDeltas(p, c.deltas), p)
    PROVE  AsRich(ApplyDeltas(p, ApplyScenario(c, p)), p)
<1> DEFINE run == [status |-> "COMPLETED"]
           record == Change("scenario_runs", "SET", c.scenario, run)
<1>1. ApplyScenario(c, p) = Append(c.deltas, record)
  BY Zenon DEF ApplyScenario
<1> HIDE DEF run
<1>2. AsRich(ApplyDelta(ApplyDeltas(p, c.deltas), record), ApplyDeltas(p, c.deltas))
  BY OtherRowAsRich DEF AsRich
<1> HIDE DEF record
<1>3. AsRich(ApplyDelta(ApplyDeltas(p, c.deltas), record), p)
  BY <1>2, RichSteps
<1>4. PICK U, d : U = T \cup {record} /\ d = c.deltas
  OBVIOUS
<1>5. d \in Seq(U) /\ record \in U
  BY <1>4
<1>6. ApplyDeltas(p, Append(d, record)) = ApplyDelta(ApplyDeltas(p, d), record)
  BY <1>5, ApplyAppended, Zenon
<1> QED
  BY <1>1, <1>3, <1>4, <1>6, Zenon

LEMMA HandlersAsRich ==
    ASSUME Tabletop, NEW c \in Command, Honest(c), NEW p, PlacesFit(p), Counted(p),
           HandleCommand(c, p) # Raises,
           c.type = "scenario" => AsRich(ApplyDeltas(p, c.deltas), p)
    PROVE  AsRich(ApplyDeltas(p, HandleCommand(c, p)), p)
<1>1. WellFormed(c)
  BY DEF Tabletop
<1>2. CASE c.type = "trade"
  BY <1>1, <1>2, TradeAsRich DEF HandleCommand, Honest, WellFormed
<1>3. CASE c.type = "attack"
  BY <1>3, AttackAsRich DEF HandleCommand
<1>4. CASE c.type = "cast"
  BY <1>1, <1>4, CastAsRich DEF HandleCommand, WellFormed
<1>5. CASE c.type = "move"
  BY <1>5, MoveAsRich DEF HandleCommand
<1>6. CASE c.type = "spawn"
  BY <1>6, SpawnAsRich DEF HandleCommand, Honest
<1>7. CASE c.type = "quest"
  <2>1. PICK values : Advance(c, p) = <<Change("quests", "MERGE", c.entity, values)>>
    BY Zenon DEF Advance
  <2> QED
    BY <1>7, <2>1, OneOtherRowAsRich DEF HandleCommand
<1>8. CASE c.type = "squad_order"
  <2>1. PICK values : IssueSquadOrder(c, p)
                        = <<Change("squad_orders", "MERGE", c.squad, values)>>
    BY <1>8, Zenon DEF IssueSquadOrder, When, HandleCommand
  <2> QED
    BY <1>8, <2>1, OneOtherRowAsRich DEF HandleCommand
<1>9. CASE c.type = "scenario"
  <2>1. PICK T : c.deltas \in Seq(T)
    BY <1>1, <1>9 DEF WellFormed, Tabletop
  <2>2. AsRich(ApplyDeltas(p, ApplyScenario(c, p)), p)
    BY <1>9, <2>1, ScenarioAsRich
  <2> QED
    BY <1>9, <2>2 DEF HandleCommand
<1> QED
  BY <1>1, <1>2, <1>3, <1>4, <1>5, <1>6, <1>7, <1>8, <1>9 DEF WellFormed

(***************************************************************************)
(* Whoever trades and whatever is spawned, what entities own stays         *)
(* counted.                                                                *)
(***************************************************************************)
LEMMA MergeCounted ==
    ASSUME NEW p, Counted(p), NEW e \in DOMAIN p["entities"], NEW values,
           \A a \in Goods \cap DOMAIN values : values[a] \in Int
    PROVE  /\ Counted(ApplyDelta(p, Merge(e, values)))
           /\ DOMAIN ApplyDelta(p, Merge(e, values))["entities"] = DOMAIN p["entities"]
<1>1. PICK q : q = ApplyDelta(p, Change("entities", "MERGE", e, values))
  OBVIOUS
<1>2. "entities" \in DOMAIN p
  BY DEF Counted
<1>3. "entities" \in DOMAIN q
  BY <1>1, <1>2, OwnBucket
<1>4. /\ DOMAIN q["entities"] = DOMAIN p["entities"]
      /\ DOMAIN q["entities"][e] = DOMAIN p["entities"][e] \cup DOMAIN values
      /\ \A a \in DOMAIN values : q["entities"][e][a] = values[a]
      /\ \A a \in DOMAIN p["entities"][e] \ DOMAIN values :
           q["entities"][e][a] = p["entities"][e][a]
      /\ \A r \in DOMAIN p["entities"] \ {e} : q["entities"][r] = p["entities"][r]
  BY <1>1, <1>2, MergeRow
<1>5. ASSUME NEW r \in DOMAIN p["entities"], NEW a \in Goods
      PROVE  Get(q["entities"][r], a) \in Int
  <2>1. Get(p["entities"][r], a) \in Int
    BY DEF Counted
  <2>2. CASE r = e /\ a \in DOMAIN values
    BY <1>4, <2>2 DEF Get, Lookup
  <2>3. CASE r = e /\ a \notin DOMAIN values
    BY <1>4, <2>1, <2>3 DEF Get, Lookup
  <2>4. CASE r # e
    BY <1>4, <2>1, <2>4
  <2> QED
    BY <2>2, <2>3, <2>4
<1>6. Counted(q)
  BY <1>3, <1>4, <1>5 DEF Counted
<1> QED
  BY <1>1, <1>4, <1>6 DEF Merge

LEMMA TradeCounted ==
    ASSUME NEW p, Counted(p), NEW c, Trade(c, p) # Raises, c.quantity \in Int, c.price \in Int
    PROVE  Counted(ApplyDeltas(p, Trade(c, p)))
<1> DEFINE rows == p["entities"]
           price == c.quantity * c.price
           b == Buyer(c)
           s == Seller(c)
           v == [gold |-> Charged(rows[b], price), herbs |-> Get(rows[b], "herbs") + c.quantity]
           w == [gold |-> Get(rows[s], "gold") + price, herbs |-> Get(rows[s], "herbs") - c.quantity]
<1>1. Entities(p) = rows
  BY EntitiesThere DEF Counted
<1>2. Trade(c, p) = <<Merge(b, v), Merge(s, w)>> /\ {c.entity, c.other} \subseteq DOMAIN rows
  BY <1>1, Zenon DEF Trade, When
<1>3. b \in DOMAIN rows /\ s \in DOMAIN rows
  BY <1>2 DEF Buyer, Seller
<1>4. price \in Int
  OBVIOUS
<1>5. /\ Get(rows[b], "gold") \in Int /\ Get(rows[b], "herbs") \in Int
      /\ Get(rows[s], "gold") \in Int /\ Get(rows[s], "herbs") \in Int
  BY <1>3 DEF Goods, Counted
<1> HIDE DEF price, rows
<1>6. /\ \A a \in Goods \cap DOMAIN v : v[a] \in Int
      /\ \A a \in Goods \cap DOMAIN w : w[a] \in Int
  BY <1>4, <1>5 DEF Goods, Charged
<1> HIDE DEF v, w, b, s
<1> USE DEF rows
<1>7. PICK q : q = ApplyDelta(p, Merge(b, v))
  OBVIOUS
<1>8. Counted(q) /\ DOMAIN q["entities"] = DOMAIN p["entities"]
  BY <1>3, <1>6, <1>7, MergeCounted
<1>9. Counted(ApplyDelta(q, Merge(s, w)))
  BY <1>3, <1>6, <1>8, MergeCounted
<1>10. ApplyDeltas(p, <<Merge(b, v), Merge(s, w)>>)
         = ApplyDelta(ApplyDelta(p, Merge(b, v)), Merge(s, w))
  BY ApplyTwo
<1> QED
  BY <1>2, <1>7, <1>9, <1>10, Zenon

LEMMA SpawnCounted ==
    ASSUME NEW p, Counted(p), NEW c, Spawn(c, p) # Raises,
           \A a \in Goods : Get(c.public, a) \in Int
    PROVE  Counted(ApplyDeltas(p, Spawn(c, p)))
<1> DEFINE place == [x |-> Get(c.public, "x")]
           senses == [deafened |-> FALSE, blinded |-> FALSE]
           born == Change("entities", "SET", c.created, c.public)
           placed == Change("positions", "SET", c.created, place)
           sensing == Change("sensory_profiles", "SET", c.created, senses)
<1>1. Spawn(c, p) = <<born, placed, sensing>>
  BY Zenon DEF Spawn, When
<1>2. "entities" \in DOMAIN p
  BY DEF Counted
<1> HIDE DEF place, senses
<1>3. PICK q : q = ApplyDelta(p, born)
  OBVIOUS
<1>4. Counted(q)
  <2>1. "entities" \in DOMAIN q
    BY <1>2, <1>3, OwnBucket
  <2>2. /\ DOMAIN q["entities"] = DOMAIN p["entities"] \cup {c.created}
        /\ q["entities"][c.created] = c.public
        /\ \A o \in DOMAIN p["entities"] \ {c.created} : q["entities"][o] = p["entities"][o]
    BY <1>2, <1>3, SetRow
  <2>3. IsFiniteSet(DOMAIN q["entities"])
    BY <2>2, FS_AddElement DEF Counted
  <2> QED
    BY <2>1, <2>2, <2>3 DEF Counted
<1>5. PICK r : r = ApplyDelta(q, placed)
  OBVIOUS
<1>6. Counted(r)
  BY <1>4, <1>5, OtherRowAsRich DEF AsRich
<1>7. Counted(ApplyDelta(r, sensing))
  BY <1>6, OtherRowAsRich DEF AsRich
<1> HIDE DEF born, placed, sensing
<1>8. ApplyDeltas(p, <<born, placed, sensing>>)
        = ApplyDelta(ApplyDelta(ApplyDelta(p, born), placed), sensing)
  BY ApplyThree
<1> QED
  BY <1>1, <1>3, <1>5, <1>7, <1>8, Zenon

LEMMA HandlersCounted ==
    ASSUME Tabletop, NEW c \in Command, NEW p, PlacesFit(p), Counted(p),
           HandleCommand(c, p) # Raises,
           c.type = "scenario" => AsRich(ApplyDeltas(p, c.deltas), p)
    PROVE  Counted(ApplyDeltas(p, HandleCommand(c, p)))
<1>1. WellFormed(c)
  BY DEF Tabletop
<1>2. CASE Honest(c)
  BY <1>2, HandlersAsRich DEF AsRich
<1>3. CASE c.type = "trade"
  BY <1>1, <1>3, TradeCounted DEF HandleCommand, WellFormed
<1>4. CASE c.type = "spawn"
  BY <1>1, <1>4, SpawnCounted DEF HandleCommand, WellFormed
<1> QED
  BY <1>2, <1>3, <1>4 DEF Honest

(***************************************************************************)
(* The branches.                                                           *)
(***************************************************************************)
USE SpaceAssumption, NameAssumption
USE DEF Thread, Branch, store, locals

\* Handlers return lists of deltas or raise, and deltas make projections of projections.
RulesOK ==
    /\ \A c \in Command, p \in Projection : Handle(c, p) \in Delta \cup {Raises}
    /\ \A p \in Projection, d \in Delta : Apply(p, d) \in Projection

(***************************************************************************)
(* Types.  Besides its type, the request of a busy thread has the parts    *)
(* the next steps of the thread read.                                      *)
(***************************************************************************)
Ending == [branch : Branch, status : {"completed", "failed", "isolation error"},
           final : Projection \cup {None}]

StoreType ==
    /\ Canonical \in DOMAIN state /\ DOMAIN state \subseteq Branch
    /\ state \in [DOMAIN state -> Projection]
    /\ receipts \in [DOMAIN state -> Seq(Entry)]

AppType ==
    /\ history \in [DOMAIN state -> Seq(Entry)]
    /\ index \in [DOMAIN state -> SUBSET Entity]
    /\ snapshots \subseteq Snapshot
    /\ outcomes \subseteq Ending

ThreadType ==
    /\ pc \in [Thread -> Steps]
    /\ req \in [Thread -> Request \cup {None}]
    /\ mark \in [Thread -> Nat]
    /\ seen \in [Thread -> Projection \cup {None}]
    /\ receipt \in [Thread -> Entry \cup {None}]
    /\ final \in [Thread -> Projection \cup {None}]

\* A request that carries a command.
Carries(t) == req[t].op \in Command \cup Package /\ req[t].key \in Key \cup Package \cup Run

Pending(t) ==
    /\ pc[t] \notin {"idle", "write snapshot"} => req[t] \in Request
    /\ pc[t] \in {"look up trial", "add trial"} =>
         req[t].branch \in Trial /\ (IsRun(t) => Carries(t))
    /\ pc[t] \in {"index entities", "execute", "look up event", "record", "observe"} =>
         req[t].branch \in DOMAIN state
    /\ pc[t] \in {"execute", "look up event", "record", "observe", "verify"} => Carries(t)
    /\ pc[t] \in {"look up event", "record"} => receipt[t] \in Entry

TypeInv == StoreType /\ AppType /\ ThreadType /\ \A t \in Thread : Pending(t)

LEMMA TypeInvTypeOK == TypeInv <=> TypeOK /\ \A t \in Thread : Pending(t)
  BY DEF TypeInv, TypeOK, StoreType, AppType, ThreadType, Ending

\* A thread that is not heard of stays as it is while branches are only added.
LEMMA PendingFrame ==
    ASSUME NEW t, Pending(t), pc'[t] = pc[t], req'[t] = req[t], receipt'[t] = receipt[t],
           DOMAIN state \subseteq DOMAIN state'
    PROVE  Pending(t)'
  BY DEF Pending, Carries, IsRun

LEMMA LeaveType ==
    ASSUME TypeInv, NEW t \in Thread, Leave(t), UNCHANGED state
    PROVE  ThreadType' /\ \A u \in Thread : Pending(u)'
<1> USE DEF TypeInv, ThreadType, Leave, Goto
<1>1. pc' \in [Thread -> Steps]
  BY DEF Steps
<1>2. req' \in [Thread -> Request \cup {None}]
  OBVIOUS
<1>3. mark' \in [Thread -> Nat] /\ seen' \in [Thread -> Projection \cup {None}]
  OBVIOUS
<1>4. receipt' \in [Thread -> Entry \cup {None}] /\ final' \in [Thread -> Projection \cup {None}]
  OBVIOUS
<1>5. ASSUME NEW u \in Thread PROVE Pending(u)'
  <2>1. CASE u = t
    BY <2>1 DEF Pending
  <2>2. CASE u # t
    BY <2>2, PendingFrame
  <2> QED
    BY <2>1, <2>2
<1> QED
  BY <1>1, <1>2, <1>3, <1>4, <1>5

LEMMA SubmittedType ==
    ASSUME TypeInv, NEW t \in Thread, pc[t] \in {"look up event", "record"}, Submitted(t),
           UNCHANGED state
    PROVE  ThreadType' /\ \A u \in Thread : Pending(u)'
<1>1. CASE ~IsRun(t)
  BY <1>1, LeaveType DEF Submitted
<1>2. CASE IsRun(t)
  <2> USE <1>2 DEF TypeInv, ThreadType, Submitted, Goto
  <2>1. ThreadType'
    BY DEF Steps
  <2>2. ASSUME NEW u \in Thread PROVE Pending(u)'
    <3>1. CASE u = t
      BY <3>1 DEF Pending, Carries
    <3>2. CASE u # t
      BY <3>2, PendingFrame
    <3> QED
      BY <3>1, <3>2
  <2> QED
    BY <2>1, <2>2
<1> QED
  BY <1>1, <1>2

LEMMA InitType == Init => TypeInv
<1> SUFFICES ASSUME Init PROVE TypeInv
  OBVIOUS
<1> USE DEF Init
<1>1. StoreType
  BY DEF StoreType
<1>2. AppType
  BY DEF AppType
<1>3. ThreadType
  BY DEF ThreadType, Steps
<1>4. ASSUME NEW t \in Thread PROVE Pending(t)
  BY DEF Pending
<1> QED
  BY <1>1, <1>2, <1>3, <1>4 DEF TypeInv

(***************************************************************************)
(* Every action keeps the types: first what requests start, then the steps *)
(* on branches, then those of commands, then the ends of runs.             *)
(***************************************************************************)
LEMMA LenNat == ASSUME NEW S, NEW s \in Seq(S) PROVE Len(s) \in Nat
  OBVIOUS

LEMMA ReadBoundaryType ==
    ASSUME TypeInv, NEW t \in Thread, ReadBoundary(t) PROVE TypeInv'
<1> USE DEF TypeInv, ReadBoundary, Goto
<1>1. StoreType' /\ AppType'
  BY DEF StoreType, AppType
<1>2. mark' \in [Thread -> Nat]
  <2>1. history[Canonical] \in Seq(Entry)
    BY DEF StoreType, AppType
  <2>2. Len(history[Canonical]) \in Nat
    BY <2>1, LenNat
  <2> QED
    BY <2>2 DEF ThreadType
<1>3. ThreadType'
  BY <1>2 DEF ThreadType, Steps
<1>4. ASSUME NEW u \in Thread PROVE Pending(u)'
  <2>1. CASE u = t
    BY <2>1 DEF Pending, ThreadType
  <2>2. CASE u # t
    BY <2>2, PendingFrame DEF ThreadType
  <2> QED
    BY <2>1, <2>2
<1> QED
  BY <1>1, <1>3, <1>4

LEMMA WriteSnapshotType ==
    ASSUME TypeInv, NEW t \in Thread, WriteSnapshot(t) PROVE TypeInv'
<1> USE DEF TypeInv, WriteSnapshot
<1>1. [through |-> mark[t], state |-> state[Canonical]] \in Snapshot
  BY DEF StoreType, ThreadType, Snapshot
<1>2. StoreType' /\ AppType'
  BY <1>1 DEF StoreType, AppType
<1> QED
  BY <1>2, LeaveType

\* A thread that has asked for something has a request that is pending.
LEMMA AskType ==
    ASSUME TypeInv, NEW t \in Thread, NEW q \in Request, NEW step \in Steps,
           req' = [req EXCEPT ![t] = q], pc' = [pc EXCEPT ![t] = step],
           UNCHANGED <<state, receipts, history, index, snapshots, mark, receipt, final, outcomes>>,
           seen' \in [Thread -> Projection \cup {None}],
           \/ /\ step = "look up trial" /\ q.branch \in Trial
              /\ q.key \in Run => q.op \in Command \cup Package
           \/ /\ step = "execute" /\ q.branch \in DOMAIN state
              /\ q.op \in Command \cup Package /\ q.key \in Key \cup Package \cup Run
    PROVE  TypeInv'
<1> USE DEF TypeInv
<1>1. StoreType' /\ AppType'
  BY DEF StoreType, AppType
<1>2. ThreadType'
  BY DEF ThreadType
<1>3. ASSUME NEW u \in Thread PROVE Pending(u)'
  <2>1. CASE u = t
    <3>1. pc'[t] = step /\ req'[t] = q
      BY DEF ThreadType
    <3>2. CASE step = "look up trial"
      BY <2>1, <3>1, <3>2 DEF Pending, Carries, IsRun
    <3>3. CASE step = "execute"
      BY <2>1, <3>1, <3>3 DEF Pending, Carries, IsRun
    <3> QED
      BY <3>2, <3>3
  <2>2. CASE u # t
    BY <2>2, PendingFrame DEF ThreadType
  <2> QED
    BY <2>1, <2>2
<1> QED
  BY <1>1, <1>2, <1>3

\* The parts of a request as Ask makes it.
LEMMA RequestType ==
    ASSUME NEW b \in Branch, NEW op \in Command \cup Package \cup {None},
           NEW key \in Key \cup Package \cup Run \cup {None}
    PROVE  LET q == [branch |-> b, op |-> op, key |-> key]
           IN  q \in Request /\ q.branch = b /\ q.op = op /\ q.key = key
  BY DEF Request

LEMMA CreateTrialType ==
    ASSUME TypeInv, NEW t \in Thread, NEW s \in snapshots, NEW seed \in Seed, CreateTrial(t, s, seed)
    PROVE  TypeInv'
<1> DEFINE b == [snapshot |-> s, label |-> seed]
           q == [branch |-> b, op |-> None, key |-> None]
<1>1. b \in Trial
  BY DEF TypeInv, AppType, Trial
<1>2. q \in Request /\ q.branch = b /\ q.key = None
  BY <1>1, RequestType
<1>3. req' = [req EXCEPT ![t] = q] /\ pc' = [pc EXCEPT ![t] = "look up trial"]
  BY DEF CreateTrial, Ask, Goto
<1>4. /\ UNCHANGED <<state, receipts, history, index, snapshots, mark, receipt, final, outcomes>>
      /\ seen' \in [Thread -> Projection \cup {None}]
  BY DEF TypeInv, ThreadType, CreateTrial
<1>5. "look up trial" \in Steps
  BY DEF Steps
<1> HIDE DEF b, q
<1> QED
  BY <1>1, <1>2, <1>3, <1>4, <1>5, AskType

LEMMA StartRunType ==
    ASSUME TypeInv, NEW t \in Thread, NEW s \in snapshots, NEW r \in Run, StartRun(t, s, r)
    PROVE  TypeInv'
<1> DEFINE b == [snapshot |-> s, label |-> r]
           q == [branch |-> b, op |-> Scenario[r], key |-> r]
<1>1. b \in Trial
  BY DEF TypeInv, AppType, Trial
<1>2. q \in Request /\ q.branch = b /\ q.op \in Command
  BY <1>1, RequestType
<1>3. req' = [req EXCEPT ![t] = q] /\ pc' = [pc EXCEPT ![t] = "look up trial"]
  BY DEF StartRun, Ask, Goto
<1>4. /\ UNCHANGED <<state, receipts, history, index, snapshots, mark, receipt, final, outcomes>>
      /\ seen' \in [Thread -> Projection \cup {None}]
  BY DEF TypeInv, StoreType, ThreadType, StartRun
<1>5. "look up trial" \in Steps
  BY DEF Steps
<1> HIDE DEF b, q
<1> QED
  BY <1>1, <1>2, <1>3, <1>4, <1>5, AskType

LEMMA SubmitType ==
    ASSUME TypeInv, NEW t \in Thread, NEW b \in DOMAIN state, NEW c \in Command, NEW key \in Key,
           Submit(t, b, c, key)
    PROVE  TypeInv'
<1> DEFINE q == [branch |-> b, op |-> c, key |-> key]
<1>1. b \in Branch
  BY DEF TypeInv, StoreType
<1>2. q \in Request /\ q.branch = b /\ q.op = c /\ q.key = key
  BY <1>1, RequestType
<1>3. req' = [req EXCEPT ![t] = q] /\ pc' = [pc EXCEPT ![t] = "execute"]
  BY DEF Submit, Ask, Goto
<1>4. /\ UNCHANGED <<state, receipts, history, index, snapshots, mark, receipt, final, outcomes>>
      /\ seen' \in [Thread -> Projection \cup {None}]
  BY DEF TypeInv, ThreadType, Submit
<1>5. "execute" \in Steps
  BY DEF Steps
<1> HIDE DEF q
<1> QED
  BY <1>2, <1>3, <1>4, <1>5, AskType

\* Receipts are entries.
LEMMA ReceiptType ==
    ASSUME StoreType, NEW b \in DOMAIN state, NEW i \in 1..Len(receipts[b])
    PROVE  receipts[b][i] \in Entry
  BY DEF StoreType

LEMMA OriginType == ASSUME NEW b \in Branch PROVE Origin(b) \in Projection
  BY DEF Origin, Trial, Snapshot

LEMMA PromoteType ==
    ASSUME TypeInv, NEW t \in Thread, NEW source \in DOMAIN state \ {Canonical}, NEW expected,
           NEW deltas \in Consequences(source), Promote(t, source, expected, deltas)
    PROVE  TypeInv'
<1> DEFINE package == [source |-> source, expected |-> expected, deltas |-> deltas]
           q == [branch |-> Canonical, op |-> package, key |-> package]
<1>1. source \in Trial /\ Canonical \in DOMAIN state
  BY DEF TypeInv, StoreType
<1>2. expected \in Projection
  BY <1>1, OriginType DEF Promote
<1>3. deltas \in Delta
  BY ReceiptType DEF TypeInv, Consequences, Entry
<1>4. package \in Package
  BY <1>1, <1>2, <1>3 DEF Package
<1>5. req' = [req EXCEPT ![t] = q] /\ pc' = [pc EXCEPT ![t] = "execute"]
  BY DEF Promote, Ask, Goto
<1>6. /\ UNCHANGED <<state, receipts, history, index, snapshots, mark, receipt, final, outcomes>>
      /\ seen' \in [Thread -> Projection \cup {None}]
  BY DEF TypeInv, ThreadType, Promote
<1>7. "execute" \in Steps
  BY DEF Steps
<1> HIDE DEF package
<1>8. q \in Request /\ q.branch = Canonical /\ q.op = package /\ q.key = package
  BY <1>4, RequestType
<1> HIDE DEF q
<1> QED
  BY <1>1, <1>4, <1>5, <1>6, <1>7, <1>8, AskType

\* A thread that goes on with its request as it is.
LEMMA GoOnType ==
    ASSUME TypeInv, NEW t \in Thread, NEW step \in Steps, pc' = [pc EXCEPT ![t] = step],
           UNCHANGED <<req, mark, seen>>, DOMAIN state \subseteq DOMAIN state',
           receipt' \in [Thread -> Entry \cup {None}], \A u \in Thread \ {t} : receipt'[u] = receipt[u],
           final' \in [Thread -> Projection \cup {None}], Pending(t)'
    PROVE  ThreadType' /\ \A u \in Thread : Pending(u)'
<1> USE DEF TypeInv
<1>1. ThreadType'
  BY DEF ThreadType
<1>2. ASSUME NEW u \in Thread PROVE Pending(u)'
  <2>1. CASE u # t
    <3>1. pc'[u] = pc[u] /\ req'[u] = req[u] /\ receipt'[u] = receipt[u]
      BY <2>1 DEF ThreadType
    <3> QED
      BY <3>1, PendingFrame
  <2> QED
    BY <2>1
<1> QED
  BY <1>1, <1>2

LEMMA LookUpTrialType ==
    ASSUME TypeInv, NEW t \in Thread, LookUpTrial(t) PROVE TypeInv'
<1> DEFINE step == IF req[t].branch \notin DOMAIN state THEN "add trial"
                   ELSE IF IsRun(t) THEN "execute" ELSE "index entities"
<1>1. StoreType' /\ AppType'
  BY DEF TypeInv, StoreType, AppType, LookUpTrial
<1>2. step \in Steps /\ pc' = [pc EXCEPT ![t] = step]
  BY DEF LookUpTrial, Goto, Steps
<1>3. pc'[t] = step
  BY <1>2 DEF TypeInv, ThreadType
<1>4. Pending(t)'
  BY <1>3 DEF TypeInv, LookUpTrial, Pending, Carries, IsRun
<1>5. /\ receipt' \in [Thread -> Entry \cup {None}] /\ \A u \in Thread \ {t} : receipt'[u] = receipt[u]
      /\ final' \in [Thread -> Projection \cup {None}] /\ UNCHANGED <<req, mark, seen, state>>
  BY DEF TypeInv, ThreadType, LookUpTrial
<1> HIDE DEF step
<1>6. ThreadType' /\ \A u \in Thread : Pending(u)'
  BY <1>2, <1>4, <1>5, GoOnType
<1> QED
  BY <1>1, <1>6 DEF TypeInv

LEMMA ExtendedType ==
    ASSUME NEW S, NEW D, NEW f \in [D -> S], NEW b, NEW v \in S
    PROVE  Extended(f, b, v) \in [D \cup {b} -> S]
  BY DEF Extended

LEMMA AddTrialType ==
    ASSUME TypeInv, NEW t \in Thread, AddTrial(t) PROVE TypeInv'
<1> DEFINE b == req[t].branch
           D == DOMAIN state
           step == IF IsRun(t) THEN "execute" ELSE "index entities"
<1>1. b \in Trial /\ Pending(t) /\ pc[t] = "add trial"
  BY DEF TypeInv, AddTrial, Pending
<1>2. LoadedProjection(b) \in Projection
  BY <1>1 DEF LoadedProjection, Trial, Snapshot
<1>3. state' \in [D \cup {b} -> Projection] /\ DOMAIN state' = D \cup {b}
  <2>1. state' = Extended(state, b, LoadedProjection(b)) /\ state \in [D -> Projection]
    BY DEF TypeInv, StoreType, AddTrial
  <2>2. state' \in [D \cup {b} -> Projection]
    BY <1>2, <2>1, ExtendedType
  <2>3. DOMAIN state' = D \cup {b}
    BY <2>1 DEF Extended
  <2> QED
    BY <2>2, <2>3
<1>4. <<>> \in Seq(Entry) /\ {} \in SUBSET Entity
  OBVIOUS
<1>5. receipts' \in [D \cup {b} -> Seq(Entry)] /\ history' \in [D \cup {b} -> Seq(Entry)]
  BY <1>4, ExtendedType DEF TypeInv, StoreType, AppType, AddTrial
<1>6. index' \in [D \cup {b} -> SUBSET Entity]
  BY <1>4, ExtendedType DEF TypeInv, AppType, AddTrial
<1>7. StoreType' /\ AppType'
  BY <1>1, <1>3, <1>5, <1>6 DEF TypeInv, StoreType, AppType, AddTrial
<1>8. step \in Steps /\ pc' = [pc EXCEPT ![t] = step] /\ UNCHANGED locals
  BY DEF AddTrial, Goto, Steps
<1>9. pc'[t] = step
  BY <1>8 DEF TypeInv, ThreadType
<1>10. b \in DOMAIN state'
  BY <1>3
<1>11. Pending(t)'
  <2>1. req'[t] = req[t] /\ req[t] \in Request /\ req[t].branch = b
    BY <1>1, <1>8 DEF Pending
  <2>2. IsRun(t) => Carries(t)
    BY <1>1 DEF Pending
  <2> HIDE DEF b
  <2>3. CASE IsRun(t)
    BY <1>9, <1>10, <2>1, <2>2, <2>3 DEF Pending, Carries
  <2>4. CASE ~IsRun(t)
    BY <1>9, <1>10, <2>1, <2>4 DEF Pending, Carries
  <2> QED
    BY <2>3, <2>4
<1>12. receipt' \in [Thread -> Entry \cup {None}] /\ final' \in [Thread -> Projection \cup {None}]
  BY <1>8 DEF TypeInv, ThreadType
<1> HIDE DEF step, b
<1>13. ThreadType' /\ \A u \in Thread : Pending(u)'
  BY <1>3, <1>8, <1>11, <1>12, GoOnType
<1> QED
  BY <1>7, <1>13 DEF TypeInv

LEMMA AddFailsType ==
    ASSUME TypeInv, NEW t \in Thread, AddFails(t) PROVE TypeInv'
<1>1. StoreType' /\ AppType' /\ Leave(t) /\ UNCHANGED state
  BY DEF TypeInv, StoreType, AppType, AddFails
<1> QED
  BY <1>1, LeaveType DEF TypeInv

LEMMA IndexEntitiesType ==
    ASSUME TypeInv, NEW t \in Thread, IndexEntities(t) PROVE TypeInv'
<1>1. StoreType' /\ Leave(t) /\ UNCHANGED state
  BY DEF TypeInv, StoreType, IndexEntities
<1>2. AppType'
  BY DEF TypeInv, StoreType, AppType, IndexEntities
<1> QED
  BY <1>1, <1>2, LeaveType DEF TypeInv

LEMMA DuplicateType ==
    ASSUME TypeInv, NEW t \in Thread, Duplicate(t) PROVE TypeInv'
<1>1. StoreType' /\ AppType' /\ UNCHANGED <<req, mark, seen, final, state>>
  BY DEF TypeInv, StoreType, AppType, Duplicate
<1>2. Pending(t) /\ pc[t] = "execute" /\ req[t].branch \in DOMAIN state
  BY DEF TypeInv, Duplicate, Pending
<1>3. PICK r \in ReceiptsFor(req[t].branch, req[t].key) : receipt' = [receipt EXCEPT ![t] = r]
  BY DEF Duplicate
<1>4. r \in Entry
  BY <1>2, ReceiptType DEF TypeInv, ReceiptsFor
<1>5. receipt' \in [Thread -> Entry \cup {None}] /\ receipt'[t] = r
       /\ \A u \in Thread \ {t} : receipt'[u] = receipt[u]
  BY <1>3, <1>4 DEF TypeInv, ThreadType
<1>6. pc' = [pc EXCEPT ![t] = "look up event"] /\ pc'[t] = "look up event"
  BY DEF Duplicate, Goto, TypeInv, ThreadType
<1>7. "look up event" \in Steps /\ final' \in [Thread -> Projection \cup {None}]
  BY <1>1 DEF Steps, TypeInv, ThreadType
<1>8. Pending(t)'
  BY <1>1, <1>2, <1>4, <1>5, <1>6 DEF Pending, Carries, IsRun
<1>9. ThreadType' /\ \A u \in Thread : Pending(u)'
  BY <1>1, <1>5, <1>6, <1>7, <1>8, GoOnType
<1> QED
  BY <1>1, <1>9 DEF TypeInv

\* The receipt a commit of t makes.
NewEntry(t) ==
    LET p == state[req[t].branch]
        delta == Outcome(req[t].op, p)
    IN  [key |-> req[t].key, op |-> req[t].op, delta |-> delta, after |-> Apply(p, delta)]

\* What a commit does, as its proofs use it.
LEMMA CommitEffect ==
    ASSUME TypeInv, NEW t \in Thread, Commit(t)
    PROVE  /\ pc[t] = "execute" /\ Carries(t) /\ req[t].branch \in DOMAIN state
           /\ ReceiptsFor(req[t].branch, req[t].key) = {}
           /\ Outcome(req[t].op, state[req[t].branch]) # Raises
           /\ state' = [state EXCEPT ![req[t].branch] = NewEntry(t).after]
           /\ receipts' = [receipts EXCEPT ![req[t].branch] = Append(@, NewEntry(t))]
           /\ receipt' = [receipt EXCEPT ![t] = NewEntry(t)]
           /\ pc' = [pc EXCEPT ![t] = "look up event"]
           /\ UNCHANGED <<history, index, snapshots, req, mark, seen, final, outcomes>>
<1>1. Pending(t) /\ pc[t] = "execute"
  BY DEF TypeInv, Commit
<1>2. Carries(t) /\ req[t].branch \in DOMAIN state
  BY <1>1 DEF Pending
<1> QED
  BY <1>1, <1>2 DEF Commit, PublishCopy, NewEntry, Goto

LEMMA EntryType ==
    ASSUME RulesOK, TypeInv, NEW t \in Thread, Carries(t), req[t].branch \in DOMAIN state,
           Outcome(req[t].op, state[req[t].branch]) # Raises
    PROVE  NewEntry(t) \in Entry /\ NewEntry(t).after \in Projection
<1> DEFINE p == state[req[t].branch]
           delta == Outcome(req[t].op, p)
<1>1. p \in Projection
  BY DEF TypeInv, StoreType
<1>2. delta \in Delta
  <2>1. CASE req[t].op \in Command
    BY <1>1, <2>1 DEF Outcome, RulesOK
  <2>2. CASE req[t].op \in Package
    BY <2>2 DEF Outcome, Package
  <2> QED
    BY <2>1, <2>2 DEF Carries
<1>3. Apply(p, delta) \in Projection
  BY <1>1, <1>2 DEF RulesOK
<1> HIDE DEF p, delta
<1>4. [key |-> req[t].key, op |-> req[t].op, delta |-> delta, after |-> Apply(p, delta)] \in Entry
  BY <1>2, <1>3 DEF Entry, Carries
<1> USE DEF p, delta
<1> QED
  BY <1>3, <1>4 DEF NewEntry

LEMMA AppendType ==
    ASSUME NEW S, NEW D, NEW f \in [D -> Seq(S)], NEW b \in D, NEW e \in S
    PROVE  [f EXCEPT ![b] = Append(@, e)] \in [D -> Seq(S)]
<1>1. Append(f[b], e) \in Seq(S)
  OBVIOUS
<1> QED
  BY <1>1

LEMMA CommitType ==
    ASSUME RulesOK, TypeInv, NEW t \in Thread, Commit(t) PROVE TypeInv'
<1> DEFINE b == req[t].branch
           entry == NewEntry(t)
<1>1. b \in DOMAIN state /\ Carries(t) /\ entry \in Entry /\ entry.after \in Projection
  BY CommitEffect, EntryType
<1>2. /\ state' = [state EXCEPT ![b] = entry.after]
      /\ receipts' = [receipts EXCEPT ![b] = Append(@, entry)]
      /\ receipt' = [receipt EXCEPT ![t] = entry]
      /\ pc' = [pc EXCEPT ![t] = "look up event"]
      /\ UNCHANGED <<history, index, snapshots, req, mark, seen, final, outcomes>>
  BY CommitEffect
<1>3. Pending(t) /\ pc[t] = "execute"
  BY CommitEffect DEF TypeInv
<1> HIDE DEF b, entry
<1>4. receipts' \in [DOMAIN state -> Seq(Entry)]
  BY <1>1, <1>2, AppendType DEF TypeInv, StoreType
<1>5. StoreType' /\ AppType' /\ DOMAIN state' = DOMAIN state
  BY <1>1, <1>2, <1>4 DEF TypeInv, StoreType, AppType
<1>6. receipt' \in [Thread -> Entry \cup {None}] /\ receipt'[t] = entry /\ pc'[t] = "look up event"
       /\ \A u \in Thread \ {t} : receipt'[u] = receipt[u]
  BY <1>1, <1>2 DEF TypeInv, ThreadType
<1>7. "look up event" \in Steps /\ final' \in [Thread -> Projection \cup {None}]
  BY <1>2 DEF Steps, TypeInv, ThreadType
<1>8. Pending(t)'
  BY <1>1, <1>2, <1>3, <1>5, <1>6 DEF Pending, Carries, IsRun, b
<1>9. ThreadType' /\ \A u \in Thread : Pending(u)'
  BY <1>2, <1>5, <1>6, <1>7, <1>8, GoOnType
<1> QED
  BY <1>5, <1>9 DEF TypeInv

\* A thread that changes its step only.
LEMMA OnlyStepType ==
    ASSUME TypeInv, NEW t \in Thread, NEW step \in Steps, pc' = [pc EXCEPT ![t] = step],
           UNCHANGED <<req, mark, seen, receipt, final, state>>,
           pc[t] \in {"execute", "look up event"}, step \in {"verify", "record"},
           step = "record" => pc[t] = "look up event"
    PROVE  ThreadType' /\ \A u \in Thread : Pending(u)'
<1>1. pc'[t] = step /\ Pending(t)
  BY DEF TypeInv, ThreadType
<1>2. Pending(t)'
  BY <1>1 DEF Pending, Carries, IsRun
<1>3. receipt' \in [Thread -> Entry \cup {None}] /\ final' \in [Thread -> Projection \cup {None}]
  BY DEF TypeInv, ThreadType
<1> QED
  BY <1>2, <1>3, GoOnType

LEMMA RefuseType ==
    ASSUME TypeInv, NEW t \in Thread, Refuse(t) PROVE TypeInv'
<1>1. StoreType' /\ AppType' /\ UNCHANGED state
  BY DEF TypeInv, StoreType, AppType, Refuse
<1>2. CASE IsRun(t)
  <2>1. /\ pc' = [pc EXCEPT ![t] = "verify"] /\ pc[t] = "execute"
        /\ UNCHANGED <<req, mark, seen, receipt, final, state>>
    BY <1>2 DEF Refuse, Goto
  <2>2. "verify" \in Steps
    BY DEF Steps
  <2> QED
    BY <1>1, <2>1, <2>2, OnlyStepType DEF TypeInv
<1>3. CASE ~IsRun(t)
  BY <1>1, <1>3, LeaveType DEF TypeInv, Refuse
<1> QED
  BY <1>2, <1>3

LEMMA LookUpEventType ==
    ASSUME TypeInv, NEW t \in Thread, LookUpEvent(t) PROVE TypeInv'
<1>1. StoreType' /\ AppType' /\ UNCHANGED state /\ pc[t] = "look up event"
  BY DEF TypeInv, StoreType, AppType, LookUpEvent
<1>2. CASE Submitted(t)
  BY <1>1, <1>2, SubmittedType DEF TypeInv
<1>3. CASE pc' = [pc EXCEPT ![t] = "record"] /\ UNCHANGED <<req, mark, seen, receipt, final>>
  <2>1. "record" \in Steps
    BY DEF Steps
  <2> QED
    BY <1>1, <1>3, <2>1, OnlyStepType DEF TypeInv
<1> QED
  BY <1>2, <1>3 DEF LookUpEvent, Goto

LEMMA RecordType ==
    ASSUME TypeInv, NEW t \in Thread, Record(t) PROVE TypeInv'
<1> DEFINE b == req[t].branch
<1>1. StoreType' /\ UNCHANGED <<state, snapshots, outcomes>> /\ pc[t] = "record" /\ Submitted(t)
  BY DEF TypeInv, StoreType, Record
<1>2. receipt[t] \in Entry /\ b \in DOMAIN state
  BY <1>1 DEF TypeInv, Pending
<1>3. history' = [history EXCEPT ![b] = Append(@, receipt[t])]
  BY DEF Record
<1>4. index' = [index EXCEPT ![b] = @ \cup Created(receipt[t].op)]
  BY DEF Record
<1> HIDE DEF b
<1>5. history' \in [DOMAIN state -> Seq(Entry)]
  BY <1>2, <1>3, AppendType DEF TypeInv, AppType
<1>6. Created(receipt[t].op) \in SUBSET Entity
  BY DEF Created
<1>7. index' \in [DOMAIN state -> SUBSET Entity]
  BY <1>2, <1>4, <1>6 DEF TypeInv, AppType
<1>8. AppType'
  BY <1>1, <1>5, <1>7 DEF TypeInv, AppType
<1> QED
  BY <1>1, <1>8, SubmittedType DEF TypeInv

LEMMA ObserveType ==
    ASSUME TypeInv, NEW t \in Thread, Observe(t) PROVE TypeInv'
<1>1. StoreType' /\ AppType' /\ UNCHANGED <<req, mark, seen, receipt, state>> /\ pc[t] = "observe"
  BY DEF TypeInv, StoreType, AppType, Observe
<1>2. Pending(t) /\ req[t].branch \in DOMAIN state
  BY <1>1 DEF TypeInv, Pending
<1>3. state[req[t].branch] \in Projection
  BY <1>2 DEF TypeInv, StoreType
<1>4. final' \in [Thread -> Projection \cup {None}] /\ receipt' \in [Thread -> Entry \cup {None}]
  BY <1>1, <1>3 DEF TypeInv, ThreadType, Observe
<1>5. pc' = [pc EXCEPT ![t] = "verify"] /\ pc'[t] = "verify" /\ "verify" \in Steps
  BY DEF Observe, Goto, TypeInv, ThreadType, Steps
<1>6. Pending(t)'
  BY <1>1, <1>2, <1>5 DEF Pending, Carries
<1>7. ThreadType' /\ \A u \in Thread : Pending(u)'
  BY <1>1, <1>4, <1>5, <1>6, GoOnType
<1> QED
  BY <1>1, <1>7 DEF TypeInv

LEMMA VerifyType ==
    ASSUME TypeInv, NEW t \in Thread, Verify(t) PROVE TypeInv'
<1> DEFINE status == IF state[Canonical] # seen[t] THEN "isolation error"
                     ELSE IF final[t] = None THEN "failed" ELSE "completed"
           ending == [branch |-> req[t].branch, status |-> status, final |-> final[t]]
<1>1. StoreType' /\ UNCHANGED <<state, history, index, snapshots>> /\ Leave(t)
  BY DEF TypeInv, StoreType, Verify
<1>2. req[t] \in Request /\ final[t] \in Projection \cup {None}
  BY DEF TypeInv, ThreadType, Pending, Verify
<1>3. req[t].branch \in Branch
  BY <1>2 DEF Request
<1>4. status \in {"completed", "failed", "isolation error"}
  OBVIOUS
<1>5. outcomes' = outcomes \cup {ending}
  BY DEF Verify, Ended
<1> HIDE DEF status
<1>6. ending \in Ending
  BY <1>2, <1>3, <1>4 DEF Ending
<1>7. AppType'
  BY <1>1, <1>5, <1>6 DEF TypeInv, AppType
<1> QED
  BY <1>1, <1>7, LeaveType DEF TypeInv

LEMMA TypeStep == ASSUME RulesOK, TypeInv, [Next]_vars PROVE TypeInv'
<1>1. CASE UNCHANGED vars
  BY <1>1 DEF vars, TypeInv, StoreType, AppType, ThreadType, Pending, Carries, IsRun
<1>2. ASSUME NEW t \in Client, Serve(t) PROVE TypeInv'
  BY <1>2, ReadBoundaryType, CreateTrialType, SubmitType, PromoteType DEF Serve
<1>3. ASSUME NEW t \in Worker, NEW s \in snapshots, NEW r \in Run, StartRun(t, s, r) PROVE TypeInv'
  BY <1>3, StartRunType
<1>4. ASSUME NEW t \in Thread, Step(t) PROVE TypeInv'
  BY <1>4, WriteSnapshotType, LookUpTrialType, AddTrialType, AddFailsType, IndexEntitiesType,
     DuplicateType, CommitType, RefuseType, LookUpEventType, RecordType, ObserveType, VerifyType
     DEF Step
<1> QED
  BY <1>1, <1>2, <1>3, <1>4 DEF Next

\* Every variable always has its type (the store, the application's index and history,
\* and what each thread holds between the calls of the store).
THEOREM TypeCorrect == ASSUME RulesOK PROVE Spec => []TypeOK
<1>1. TypeInv => TypeOK
  BY TypeInvTypeOK
<1> QED
  BY <1>1, InitType, TypeStep, PTL DEF Spec

(***************************************************************************)
(* What is true of every branch.  Only AddTrial and Commit change the      *)
(* store: the one adds a branch without receipts, the other appends one    *)
(* receipt to one branch.                                                  *)
(***************************************************************************)
Replays(b) ==
    /\ state[b] = StateAfter(b, Len(receipts[b]))
    /\ \A i \in 1..Len(receipts[b]) :
         LET r == receipts[b][i] IN
         /\ r.delta = Outcome(r.op, StateAfter(b, i - 1)) /\ r.delta # Raises
         /\ r.after = Apply(StateAfter(b, i - 1), r.delta)

KeysDiffer(b) ==
    \A i, j \in 1..Len(receipts[b]) : receipts[b][i].key = receipts[b][j].key => i = j

\* A promotion expects the base of its trial; the route has seen to that.
Expects(op) == op \notin Command => op.expected = Origin(op.source)

\* The branch of a run has no other command than the scenario of the run.
IsRunBranch(b) == b # Canonical /\ b.label \in Run

Fits(b, r) ==
    /\ Expects(r.op)
    /\ IsRunBranch(b) => r.key = b.label /\ r.op = Scenario[b.label]

BranchInv(b) ==
    /\ Replays(b) /\ KeysDiffer(b)
    /\ \A i \in 1..Len(receipts[b]) : Fits(b, receipts[b][i])

LEMMA SameBranch ==
    ASSUME NEW b, BranchInv(b), state'[b] = state[b], receipts'[b] = receipts[b]
    PROVE  BranchInv(b)'
  BY DEF BranchInv, Replays, KeysDiffer, Fits, Expects, IsRunBranch, Origin, StateAfter

LEMMA NewBranch ==
    ASSUME NEW b \in Trial, state'[b] = b.snapshot.state, receipts'[b] = <<>>
    PROVE  BranchInv(b)'
<1>1. Len(receipts'[b]) = 0
  OBVIOUS
<1>2. state'[b] = Origin(b)
  BY DEF Origin
<1> QED
  BY <1>1, <1>2 DEF BranchInv, Replays, KeysDiffer, StateAfter, Origin

\* A receipt that is computed from the state of its branch is appended.
LEMMA LongerBranch ==
    ASSUME NEW b, BranchInv(b), receipts[b] \in Seq(Entry), NEW e \in Entry,
           receipts'[b] = Append(receipts[b], e), state'[b] = e.after,
           e.delta = Outcome(e.op, state[b]), e.delta # Raises, e.after = Apply(state[b], e.delta),
           ReceiptsFor(b, e.key) = {}, Fits(b, e)
    PROVE  BranchInv(b)'
<1>0. PICK n \in Nat : n = Len(receipts[b])
  OBVIOUS
<1>1. n \in Nat /\ Len(receipts'[b]) = n + 1 /\ receipts'[b][n + 1] = e
  BY <1>0
<1>2. \A i \in 1..n : receipts'[b][i] = receipts[b][i]
  BY <1>0
<1>3. \A i \in 1..(n + 1) : i \in 1..n \/ i = n + 1
  BY <1>1
<1>4. \A i \in 1..n : receipts[b][i].key # e.key
  BY <1>0 DEF ReceiptsFor
<1>5. \A i \in 0..n : StateAfter(b, i)' = StateAfter(b, i)
  <2> SUFFICES ASSUME NEW i \in 0..n PROVE StateAfter(b, i)' = StateAfter(b, i)
    OBVIOUS
  <2>1. i = 0 \/ i \in 1..n
    BY <1>1
  <2> QED
    BY <2>1, <1>2 DEF StateAfter, Origin
<1>6. state[b] = StateAfter(b, n)
  BY <1>0 DEF BranchInv, Replays
<1>7. \A i \in 1..n : i - 1 \in 0..n
  BY <1>1
<1>8. Replays(b)'
  <2>1. StateAfter(b, n + 1)' = e.after
    BY <1>1 DEF StateAfter
  <2>2. ASSUME NEW i \in 1..n
        PROVE  LET r == receipts'[b][i] IN
               /\ r.delta = Outcome(r.op, StateAfter(b, i - 1)') /\ r.delta # Raises
               /\ r.after = Apply(StateAfter(b, i - 1)', r.delta)
    <3>1. StateAfter(b, i - 1)' = StateAfter(b, i - 1) /\ receipts'[b][i] = receipts[b][i]
      BY <1>2, <1>5, <1>7
    <3> QED
      BY <1>0, <3>1 DEF BranchInv, Replays
  <2>3. StateAfter(b, n)' = state[b] /\ (n + 1) - 1 = n
    BY <1>1, <1>5, <1>6
  <2>4. ASSUME NEW i \in 1..(n + 1)
        PROVE  LET r == receipts'[b][i] IN
               /\ r.delta = Outcome(r.op, StateAfter(b, i - 1)') /\ r.delta # Raises
               /\ r.after = Apply(StateAfter(b, i - 1)', r.delta)
    <3>1. CASE i \in 1..n
      BY <2>2, <3>1
    <3>2. CASE i = n + 1
      BY <1>1, <2>3, <3>2
    <3> QED
      BY <1>3, <3>1, <3>2
  <2> QED
    BY <1>1, <2>1, <2>4 DEF Replays
<1>9. KeysDiffer(b)'
  <2> SUFFICES ASSUME NEW i \in 1..(n + 1), NEW j \in 1..(n + 1),
                      receipts'[b][i].key = receipts'[b][j].key
               PROVE  i = j
    BY <1>1 DEF KeysDiffer
  <2>1. CASE i \in 1..n /\ j \in 1..n
    BY <1>0, <1>2, <2>1 DEF BranchInv, KeysDiffer
  <2>2. CASE i = n + 1 \/ j = n + 1
    BY <1>1, <1>2, <1>3, <1>4, <2>2
  <2> QED
    BY <1>3, <2>1, <2>2
<1>10. \A i \in 1..(n + 1) : Fits(b, receipts[b][i])'
  <2> SUFFICES ASSUME NEW i \in 1..(n + 1) PROVE Fits(b, receipts'[b][i])
    BY DEF Fits, Expects, IsRunBranch, Origin
  <2>1. CASE i \in 1..n
    BY <1>0, <1>2, <2>1 DEF BranchInv
  <2>2. CASE i = n + 1
    BY <1>1, <2>2
  <2> QED
    BY <1>3, <2>1, <2>2
<1> QED
  BY <1>1, <1>8, <1>9, <1>10 DEF BranchInv

(***************************************************************************)
(* What is true of every thread: a run works on its own branch with its    *)
(* own scenario, everybody else stays away from the branches of runs, and  *)
(* a final state that has been observed is the one the scenario makes.     *)
(***************************************************************************)
Ideal(b) == Apply(Origin(b), Handle(Scenario[b.label], Origin(b)))

Legit(t) ==
    /\ pc[t] \notin {"idle", "write snapshot"} /\ IsRun(t) =>
         /\ req[t].branch \in Trial /\ req[t].branch.label = req[t].key
         /\ req[t].op = Scenario[req[t].key]
    /\ pc[t] \in {"execute", "look up event", "record"} =>
         Expects(req[t].op) /\ (~IsRun(t) => ~IsRunBranch(req[t].branch))
    /\ pc[t] \in {"observe", "verify"} => IsRun(t)
    /\ pc[t] \in {"look up event", "record", "observe"} => Len(receipts[req[t].branch]) # 0
    /\ final[t] # None => pc[t] = "verify" /\ final[t] = Ideal(req[t].branch)

SafeInv ==
    /\ \A b \in DOMAIN state : BranchInv(b)
    /\ \A t \in Thread : Legit(t)
    /\ TrialsAreReproducible

\* The branch of a run that has a receipt is as the scenario makes it.
LEMMA RunDone ==
    ASSUME NEW b, receipts[b] \in Seq(Entry), BranchInv(b), IsRunBranch(b), Len(receipts[b]) # 0
    PROVE  state[b] = Ideal(b)
<1>1. PICK n \in Nat : n = Len(receipts[b])
  OBVIOUS
<1>2. 1 \in 1..n /\ n \in 1..n
  BY <1>1
<1>3. receipts[b][1].key = receipts[b][n].key /\ receipts[b][1].op = Scenario[b.label]
  BY <1>1, <1>2 DEF BranchInv, Fits
<1>4. n = 1
  BY <1>1, <1>2, <1>3 DEF BranchInv, KeysDiffer
<1>5. Scenario[b.label] \in Command
  BY DEF IsRunBranch
<1>6. StateAfter(b, 1 - 1) = Origin(b) /\ StateAfter(b, 1) = receipts[b][1].after
  BY DEF StateAfter
<1>7. /\ state[b] = receipts[b][1].after
      /\ receipts[b][1].delta = Outcome(receipts[b][1].op, Origin(b))
      /\ receipts[b][1].after = Apply(Origin(b), receipts[b][1].delta)
  BY <1>1, <1>2, <1>4, <1>6 DEF BranchInv, Replays
<1> QED
  BY <1>3, <1>5, <1>7 DEF Ideal, Outcome

\* Nothing takes receipts away.
ReceiptsStay == \A b \in DOMAIN state : Len(receipts[b]) # 0 => Len(receipts'[b]) # 0

LEMMA OthersLegit ==
    ASSUME TypeInv, \A u \in Thread : Legit(u), NEW t \in Thread, Legit(t)', ReceiptsStay,
           \A u \in Thread \ {t} : pc'[u] = pc[u] /\ req'[u] = req[u] /\ final'[u] = final[u]
    PROVE  \A u \in Thread : Legit(u)'
<1> SUFFICES ASSUME NEW u \in Thread \ {t} PROVE Legit(u)'
  OBVIOUS
<1>1. pc'[u] = pc[u] /\ req'[u] = req[u] /\ final'[u] = final[u] /\ Legit(u) /\ Pending(u)
  BY DEF TypeInv
<1>2. pc[u] \in {"look up event", "record", "observe"} => Len(receipts'[req[u].branch]) # 0
  BY <1>1 DEF Legit, Pending, ReceiptsStay
<1> QED
  BY <1>1, <1>2 DEF Legit, IsRun, Expects, IsRunBranch, Ideal, Origin

\* A thread that leaves its request.
LEMMA LeaveLegit ==
    ASSUME TypeInv, \A u \in Thread : Legit(u), NEW t \in Thread, Leave(t), UNCHANGED store
    PROVE  \A u \in Thread : Legit(u)'
<1>1. pc'[t] = "idle" /\ final'[t] = None
  BY DEF TypeInv, ThreadType, Leave, Goto
<1>2. Legit(t)'
  BY <1>1 DEF Legit
<1>3. \A u \in Thread \ {t} : pc'[u] = pc[u] /\ req'[u] = req[u] /\ final'[u] = final[u]
  BY DEF TypeInv, ThreadType, Leave, Goto
<1>4. ReceiptsStay
  BY DEF ReceiptsStay
<1> QED
  BY <1>2, <1>3, <1>4, OthersLegit

\* A thread that goes on with its request.
LEMMA GoOnLegit ==
    ASSUME TypeInv, \A u \in Thread : Legit(u), NEW t \in Thread, NEW step,
           pc' = [pc EXCEPT ![t] = step], UNCHANGED <<req, final>>, ReceiptsStay, pc[t] # "verify",
           pc[t] \notin {"idle", "write snapshot"},
           step \in {"execute", "look up event", "record"} =>
             Expects(req[t].op) /\ (~IsRun(t) => ~IsRunBranch(req[t].branch)),
           step \in {"observe", "verify"} => IsRun(t),
           step \in {"look up event", "record", "observe"} => Len(receipts'[req[t].branch]) # 0
    PROVE  \A u \in Thread : Legit(u)'
<1>1. pc'[t] = step /\ req'[t] = req[t] /\ final'[t] = final[t] /\ Legit(t)
  BY DEF TypeInv, ThreadType
<1>2. final'[t] = None
  BY <1>1 DEF Legit
<1>3. Legit(t)'
  BY <1>1, <1>2 DEF Legit, IsRun, Expects, IsRunBranch, Origin
<1>4. \A u \in Thread \ {t} : pc'[u] = pc[u] /\ req'[u] = req[u] /\ final'[u] = final[u]
  BY DEF TypeInv, ThreadType
<1> QED
  BY <1>3, <1>4, OthersLegit

\* A thread that has asked for something.
LEMMA AskLegit ==
    ASSUME TypeInv, \A u \in Thread : Legit(u), NEW t \in Thread, NEW q, NEW step,
           pc[t] = "idle", req' = [req EXCEPT ![t] = q], pc' = [pc EXCEPT ![t] = step],
           UNCHANGED <<state, receipts, final>>, step \in {"look up trial", "execute"},
           q.key \in Run => q.branch \in Trial /\ q.branch.label = q.key /\ q.op = Scenario[q.key],
           step = "execute" => Expects(q.op) /\ (q.key \notin Run => ~IsRunBranch(q.branch))
    PROVE  \A u \in Thread : Legit(u)'
<1>1. pc'[t] = step /\ req'[t] = q /\ final'[t] = final[t] /\ Legit(t)
  BY DEF TypeInv, ThreadType
<1>2. final'[t] = None
  BY <1>1 DEF Legit
<1>3. Legit(t)'
  BY <1>1, <1>2 DEF Legit, IsRun, Expects, IsRunBranch, Origin
<1>4. \A u \in Thread \ {t} : pc'[u] = pc[u] /\ req'[u] = req[u] /\ final'[u] = final[u]
  BY DEF TypeInv, ThreadType
<1>5. ReceiptsStay
  BY DEF ReceiptsStay
<1> QED
  BY <1>3, <1>4, <1>5, OthersLegit

LEMMA InitSafe == Init => SafeInv
<1> SUFFICES ASSUME Init PROVE SafeInv
  OBVIOUS
<1>1. ASSUME NEW b \in DOMAIN state PROVE BranchInv(b)
  <2>1. b = Canonical /\ Len(receipts[b]) = 0 /\ state[b] = InitProjection
    BY DEF Init
  <2> QED
    BY <2>1 DEF BranchInv, Replays, KeysDiffer, StateAfter, Origin
<1>2. ASSUME NEW t \in Thread PROVE Legit(t)
  BY DEF Init, Legit
<1>3. TrialsAreReproducible
  BY DEF Init, TrialsAreReproducible
<1> QED
  BY <1>1, <1>2, <1>3 DEF SafeInv

(***************************************************************************)
(* The steps.                                                              *)
(***************************************************************************)
\* A step that leaves the store alone and ends no run.
LEMMA QuietStep ==
    ASSUME SafeInv, UNCHANGED <<store, outcomes>>, \A u \in Thread : Legit(u)'
    PROVE  SafeInv'
<1>1. ASSUME NEW b \in DOMAIN state' PROVE BranchInv(b)'
  BY SameBranch DEF SafeInv
<1>2. TrialsAreReproducible'
  BY DEF SafeInv, TrialsAreReproducible, Origin
<1> QED
  BY <1>1, <1>2 DEF SafeInv

LEMMA ServeSafe == ASSUME TypeInv, SafeInv, NEW t \in Client, Serve(t) PROVE SafeInv'
<1>1. CASE ReadBoundary(t)
  <2>1. pc'[t] = "write snapshot" /\ final'[t] = final[t] /\ pc[t] = "idle"
    BY <1>1 DEF ReadBoundary, Goto, TypeInv, ThreadType
  <2>2. Legit(t)'
    BY <2>1 DEF SafeInv, Legit
  <2>3. \A u \in Thread \ {t} : pc'[u] = pc[u] /\ req'[u] = req[u] /\ final'[u] = final[u]
    BY <1>1 DEF ReadBoundary, Goto, TypeInv, ThreadType
  <2>4. ReceiptsStay /\ UNCHANGED <<store, outcomes>>
    BY <1>1 DEF ReceiptsStay, ReadBoundary
  <2> QED
    BY <2>2, <2>3, <2>4, OthersLegit, QuietStep DEF SafeInv
<1>2. ASSUME NEW s \in snapshots, NEW seed \in Seed, CreateTrial(t, s, seed) PROVE SafeInv'
  <2> DEFINE q == [branch |-> [snapshot |-> s, label |-> seed], op |-> None, key |-> None]
  <2>1. /\ pc[t] = "idle" /\ req' = [req EXCEPT ![t] = q] /\ pc' = [pc EXCEPT ![t] = "look up trial"]
        /\ UNCHANGED <<state, receipts, final>> /\ UNCHANGED <<store, outcomes>>
    BY <1>2 DEF CreateTrial, Ask, Goto
  <2>2. q.key \notin Run
    OBVIOUS
  <2> HIDE DEF q
  <2> QED
    BY <2>1, <2>2, AskLegit, QuietStep DEF SafeInv
<1>3. ASSUME NEW b \in DOMAIN state, NEW c \in Command, NEW key \in Key, Submit(t, b, c, key)
      PROVE  SafeInv'
  <2> DEFINE q == [branch |-> b, op |-> c, key |-> key]
  <2>1. /\ pc[t] = "idle" /\ req' = [req EXCEPT ![t] = q] /\ pc' = [pc EXCEPT ![t] = "execute"]
        /\ UNCHANGED <<state, receipts, final>> /\ UNCHANGED <<store, outcomes>>
    BY <1>3 DEF Submit, Ask, Goto
  <2>2. q.key \notin Run /\ Expects(q.op)
    BY DEF Expects
  <2>3. ~IsRunBranch(q.branch)
    BY <1>3 DEF Submit, RunBranches, IsRunBranch
  <2> HIDE DEF q
  <2> QED
    BY <2>1, <2>2, <2>3, AskLegit, QuietStep DEF SafeInv
<1>4. ASSUME NEW source \in DOMAIN state \ {Canonical}, NEW expected,
             NEW deltas \in Consequences(source), Promote(t, source, expected, deltas)
      PROVE  SafeInv'
  <2> DEFINE package == [source |-> source, expected |-> expected, deltas |-> deltas]
             q == [branch |-> Canonical, op |-> package, key |-> package]
  <2>1. /\ pc[t] = "idle" /\ req' = [req EXCEPT ![t] = q] /\ pc' = [pc EXCEPT ![t] = "execute"]
        /\ UNCHANGED <<state, receipts, final>> /\ UNCHANGED <<store, outcomes>>
    BY <1>4 DEF Promote, Ask, Goto
  <2>2. package.expected = Origin(package.source)
    BY <1>4 DEF Promote
  <2>3. package \in Package
    <3>1. source \in Trial
      BY DEF TypeInv, StoreType
    <3>2. expected \in Projection
      BY <1>4, <3>1, OriginType DEF Promote
    <3>3. deltas \in Delta
      BY ReceiptType DEF TypeInv, Consequences, Entry
    <3> QED
      BY <3>1, <3>2, <3>3 DEF Package
  <2> HIDE DEF package
  <2>4. q.key \notin Run /\ Expects(q.op) /\ ~IsRunBranch(q.branch)
    BY <2>2, <2>3 DEF Expects, IsRunBranch
  <2> HIDE DEF q
  <2> QED
    BY <2>1, <2>4, AskLegit, QuietStep DEF SafeInv
<1> QED
  BY <1>1, <1>2, <1>3, <1>4 DEF Serve

LEMMA StartRunSafe ==
    ASSUME TypeInv, SafeInv, NEW t \in Worker, NEW s \in snapshots, NEW r \in Run, StartRun(t, s, r)
    PROVE  SafeInv'
<1> DEFINE b == [snapshot |-> s, label |-> r]
           q == [branch |-> b, op |-> Scenario[r], key |-> r]
<1>1. /\ pc[t] = "idle" /\ req' = [req EXCEPT ![t] = q] /\ pc' = [pc EXCEPT ![t] = "look up trial"]
      /\ UNCHANGED <<state, receipts, final>> /\ UNCHANGED <<store, outcomes>>
  BY DEF StartRun, Ask, Goto
<1>2. b \in Trial /\ b.label = r
  BY DEF TypeInv, AppType, Trial
<1> HIDE DEF b
<1>3. q.branch \in Trial /\ q.branch.label = q.key /\ q.op = Scenario[q.key]
  BY <1>2
<1> HIDE DEF q
<1> QED
  BY <1>1, <1>3, AskLegit, QuietStep DEF SafeInv

LEMMA AddTrialSafe == ASSUME TypeInv, SafeInv, NEW t \in Thread, AddTrial(t) PROVE SafeInv'
<1>1. PICK b : b = req[t].branch
  OBVIOUS
<1>2. /\ pc[t] = "add trial" /\ b \notin DOMAIN state /\ Pending(t) /\ Legit(t)
      /\ state' = Extended(state, b, b.snapshot.state) /\ receipts' = Extended(receipts, b, <<>>)
      /\ pc' = [pc EXCEPT ![t] = IF IsRun(t) THEN "execute" ELSE "index entities"]
      /\ UNCHANGED <<req, final, outcomes>>
  BY <1>1 DEF AddTrial, LoadedProjection, Goto, TypeInv, SafeInv
<1>3. b \in Trial
  BY <1>1, <1>2 DEF Pending
<1>4. \A c \in DOMAIN state : state'[c] = state[c] /\ receipts'[c] = receipts[c]
  BY <1>2 DEF Extended, TypeInv, StoreType
<1>5. state'[b] = b.snapshot.state /\ receipts'[b] = <<>> /\ DOMAIN state' = DOMAIN state \cup {b}
  BY <1>2 DEF Extended, TypeInv, StoreType
<1>6. ASSUME NEW c \in DOMAIN state' PROVE BranchInv(c)'
  <2>1. CASE c = b
    BY <1>3, <1>5, <2>1, NewBranch
  <2>2. CASE c \in DOMAIN state
    BY <1>4, <2>2, SameBranch DEF SafeInv
  <2> QED
    BY <1>5, <2>1, <2>2
<1>7. ReceiptsStay
  BY <1>4 DEF ReceiptsStay
<1>8. IsRun(t) => Expects(req[t].op)
  BY <1>2 DEF Legit, Expects, IsRun
<1>9. \A u \in Thread : Legit(u)'
  BY <1>2, <1>7, <1>8, GoOnLegit DEF SafeInv
<1>10. TrialsAreReproducible'
  BY <1>2 DEF SafeInv, TrialsAreReproducible, Origin
<1> QED
  BY <1>6, <1>9, <1>10 DEF SafeInv

LEMMA CommitSafe == ASSUME RulesOK, TypeInv, SafeInv, NEW t \in Thread, Commit(t) PROVE SafeInv'
<1>1. PICK b, e : b = req[t].branch /\ e = NewEntry(t)
  OBVIOUS
<1>2. /\ pc[t] = "execute" /\ Carries(t) /\ b \in DOMAIN state /\ Legit(t)
      /\ ReceiptsFor(b, req[t].key) = {} /\ Outcome(req[t].op, state[b]) # Raises
      /\ state' = [state EXCEPT ![b] = e.after]
      /\ receipts' = [receipts EXCEPT ![b] = Append(@, e)]
      /\ pc' = [pc EXCEPT ![t] = "look up event"] /\ UNCHANGED <<req, final, outcomes>>
  BY <1>1, CommitEffect DEF SafeInv
<1>3. e \in Entry
  BY <1>1, <1>2, EntryType
<1>4. /\ e.key = req[t].key /\ e.op = req[t].op /\ e.delta = Outcome(req[t].op, state[b])
      /\ e.after = Apply(state[b], e.delta)
  BY <1>1 DEF NewEntry
<1>5. /\ DOMAIN state' = DOMAIN state /\ state'[b] = e.after /\ receipts'[b] = Append(receipts[b], e)
      /\ \A c \in DOMAIN state \ {b} : state'[c] = state[c] /\ receipts'[c] = receipts[c]
  BY <1>2 DEF TypeInv, StoreType
<1>6. receipts[b] \in Seq(Entry)
  BY <1>2 DEF TypeInv, StoreType
<1>7. Fits(b, e)
  <2>1. Expects(req[t].op) /\ (IsRunBranch(b) => IsRun(t))
    BY <1>1, <1>2 DEF Legit
  <2>2. IsRun(t) => b.label = req[t].key /\ req[t].op = Scenario[req[t].key]
    BY <1>1, <1>2 DEF Legit
  <2> QED
    BY <1>4, <2>1, <2>2 DEF Fits
<1>8. BranchInv(b)'
  BY <1>2, <1>3, <1>4, <1>5, <1>6, <1>7, LongerBranch DEF SafeInv
<1>9. ASSUME NEW c \in DOMAIN state' PROVE BranchInv(c)'
  <2>1. CASE c = b
    BY <1>8, <2>1
  <2>2. CASE c # b
    BY <1>5, <2>2, SameBranch DEF SafeInv
  <2> QED
    BY <2>1, <2>2
<1>10. Len(receipts'[b]) # 0
  BY <1>5, <1>6
<1>11. ReceiptsStay
  BY <1>5, <1>10 DEF ReceiptsStay
<1>12. Expects(req[t].op) /\ (~IsRun(t) => ~IsRunBranch(req[t].branch))
  BY <1>2 DEF Legit
<1>13. \A u \in Thread : Legit(u)'
  BY <1>1, <1>2, <1>10, <1>11, <1>12, GoOnLegit DEF SafeInv
<1>14. TrialsAreReproducible'
  BY <1>2 DEF SafeInv, TrialsAreReproducible, Origin
<1> QED
  BY <1>9, <1>13, <1>14 DEF SafeInv

\* A run that executes has the command of its scenario.
LEMMA RunExpects ==
    ASSUME NEW t \in Thread, Legit(t), pc[t] \notin {"idle", "write snapshot"}, IsRun(t)
    PROVE  Expects(req[t].op)
  BY DEF Legit, Expects, IsRun

LEMMA LookUpTrialSafe == ASSUME TypeInv, SafeInv, NEW t \in Thread, LookUpTrial(t) PROVE SafeInv'
<1>1. PICK step : step = (IF req[t].branch \notin DOMAIN state THEN "add trial"
                          ELSE IF IsRun(t) THEN "execute" ELSE "index entities")
  OBVIOUS
<1>2. /\ pc[t] = "look up trial" /\ pc' = [pc EXCEPT ![t] = step] /\ UNCHANGED <<req, final>>
      /\ UNCHANGED <<store, outcomes>>
  BY <1>1 DEF LookUpTrial, Goto
<1>3. step = "execute" => IsRun(t) /\ Expects(req[t].op)
  BY <1>1, <1>2, RunExpects DEF SafeInv
<1>4. ReceiptsStay
  BY <1>2 DEF ReceiptsStay
<1>5. step \in {"add trial", "execute", "index entities"}
  BY <1>1
<1>6. \A u \in Thread : Legit(u)'
  BY <1>2, <1>3, <1>4, <1>5, GoOnLegit DEF SafeInv
<1> QED
  BY <1>2, <1>6, QuietStep

LEMMA LeavingSafe ==
    ASSUME TypeInv, SafeInv, NEW t \in Thread, Leave(t), UNCHANGED <<store, outcomes>>
    PROVE  SafeInv'
  BY LeaveLegit, QuietStep DEF SafeInv

LEMMA DuplicateSafe == ASSUME TypeInv, SafeInv, NEW t \in Thread, Duplicate(t) PROVE SafeInv'
<1>1. /\ pc[t] = "execute" /\ pc' = [pc EXCEPT ![t] = "look up event"] /\ UNCHANGED <<req, final>>
      /\ UNCHANGED <<store, outcomes>> /\ Legit(t) /\ Pending(t)
  BY DEF Duplicate, Goto, SafeInv, TypeInv
<1>2. ReceiptsFor(req[t].branch, req[t].key) # {}
  BY DEF Duplicate
<1>3. receipts[req[t].branch] \in Seq(Entry)
  BY <1>1 DEF Pending, TypeInv, StoreType
<1>4. Len(receipts'[req[t].branch]) # 0
  <2>1. PICK i : i \in 1..Len(receipts[req[t].branch])
    BY <1>2 DEF ReceiptsFor
  <2>2. Len(receipts[req[t].branch]) \in Nat
    BY <1>3, LenNat
  <2>3. Len(receipts[req[t].branch]) # 0
    BY <2>1, <2>2
  <2> QED
    BY <1>1, <2>3
<1>5. ReceiptsStay
  BY <1>1 DEF ReceiptsStay
<1>6. Expects(req[t].op) /\ (~IsRun(t) => ~IsRunBranch(req[t].branch))
  BY <1>1 DEF Legit
<1>7. \A u \in Thread : Legit(u)'
  BY <1>1, <1>4, <1>5, <1>6, GoOnLegit DEF SafeInv
<1> QED
  BY <1>1, <1>7, QuietStep

LEMMA RefuseSafe == ASSUME TypeInv, SafeInv, NEW t \in Thread, Refuse(t) PROVE SafeInv'
<1>1. pc[t] = "execute" /\ UNCHANGED <<store, outcomes>>
  BY DEF Refuse
<1>2. CASE ~IsRun(t)
  BY <1>1, <1>2, LeavingSafe DEF Refuse
<1>3. CASE IsRun(t)
  <2>1. pc' = [pc EXCEPT ![t] = "verify"] /\ UNCHANGED <<req, final>>
    BY <1>3 DEF Refuse, Goto
  <2>2. ReceiptsStay
    BY <1>1 DEF ReceiptsStay
  <2>3. \A u \in Thread : Legit(u)'
    BY <1>1, <1>3, <2>1, <2>2, GoOnLegit DEF SafeInv
  <2> QED
    BY <1>1, <2>3, QuietStep
<1> QED
  BY <1>2, <1>3

\* submit returns to its caller.
LEMMA SubmittedSafe ==
    ASSUME TypeInv, SafeInv, NEW t \in Thread, pc[t] \in {"look up event", "record"}, Submitted(t),
           UNCHANGED <<store, outcomes>>
    PROVE  SafeInv'
<1>1. CASE ~IsRun(t)
  BY <1>1, LeavingSafe DEF Submitted
<1>2. CASE IsRun(t)
  <2>1. pc' = [pc EXCEPT ![t] = "observe"] /\ UNCHANGED <<req, final>>
    BY <1>2 DEF Submitted, Goto
  <2>2. Len(receipts'[req[t].branch]) # 0
    BY DEF SafeInv, Legit
  <2>3. ReceiptsStay
    BY DEF ReceiptsStay
  <2>4. \A u \in Thread : Legit(u)'
    BY <1>2, <2>1, <2>2, <2>3, GoOnLegit DEF SafeInv
  <2> QED
    BY <2>4, QuietStep
<1> QED
  BY <1>1, <1>2

LEMMA LookUpEventSafe == ASSUME TypeInv, SafeInv, NEW t \in Thread, LookUpEvent(t) PROVE SafeInv'
<1>1. pc[t] = "look up event" /\ UNCHANGED <<store, outcomes>>
  BY DEF LookUpEvent
<1>2. CASE Submitted(t)
  BY <1>1, <1>2, SubmittedSafe
<1>3. CASE Goto(t, "record") /\ UNCHANGED locals
  <2>1. pc' = [pc EXCEPT ![t] = "record"] /\ UNCHANGED <<req, final>>
    BY <1>3 DEF Goto
  <2>2. /\ Len(receipts'[req[t].branch]) # 0 /\ Expects(req[t].op)
        /\ ~IsRun(t) => ~IsRunBranch(req[t].branch)
    BY <1>1 DEF SafeInv, Legit
  <2>3. ReceiptsStay
    BY <1>1 DEF ReceiptsStay
  <2>4. \A u \in Thread : Legit(u)'
    BY <1>1, <2>1, <2>2, <2>3, GoOnLegit DEF SafeInv
  <2> QED
    BY <1>1, <2>4, QuietStep
<1> QED
  BY <1>2, <1>3 DEF LookUpEvent

LEMMA ObserveSafe == ASSUME TypeInv, SafeInv, NEW t \in Thread, Observe(t) PROVE SafeInv'
<1>1. PICK b : b = req[t].branch
  OBVIOUS
<1>2. /\ pc[t] = "observe" /\ pc'[t] = "verify" /\ final'[t] = state[b] /\ req' = req
      /\ Legit(t) /\ Pending(t) /\ UNCHANGED <<store, outcomes>>
      /\ \A u \in Thread \ {t} : pc'[u] = pc[u] /\ req'[u] = req[u] /\ final'[u] = final[u]
  BY <1>1 DEF Observe, Goto, SafeInv, TypeInv, ThreadType
<1>3. /\ IsRun(t) /\ b \in DOMAIN state /\ b \in Trial /\ b.label = req[t].key
      /\ req[t].op = Scenario[req[t].key] /\ Len(receipts[b]) # 0
  BY <1>1, <1>2 DEF Legit, Pending
<1>4. state[b] = Ideal(b)
  <2>1. IsRunBranch(b)
    BY <1>3 DEF IsRunBranch, IsRun
  <2>2. BranchInv(b) /\ receipts[b] \in Seq(Entry)
    BY <1>3 DEF SafeInv, TypeInv, StoreType
  <2> QED
    BY <1>3, <2>1, <2>2, RunDone
<1>5. IsRun(t)'
  BY <1>2, <1>3 DEF IsRun
<1>6. final'[t] = Ideal(req'[t].branch)
  BY <1>1, <1>2, <1>4
<1>7. Legit(t)'
  BY <1>1, <1>2, <1>3, <1>5, <1>6 DEF Legit, Ideal, Origin
<1>8. ReceiptsStay
  BY <1>2 DEF ReceiptsStay
<1>9. \A u \in Thread : Legit(u)'
  BY <1>2, <1>7, <1>8, OthersLegit DEF SafeInv
<1> QED
  BY <1>2, <1>9, QuietStep

LEMMA VerifySafe == ASSUME TypeInv, SafeInv, NEW t \in Thread, Verify(t) PROVE SafeInv'
<1>1. Leave(t) /\ UNCHANGED store
  BY DEF Verify
<1>2. \A b \in DOMAIN state' : BranchInv(b)'
  BY <1>1, SameBranch DEF SafeInv
<1>3. \A u \in Thread : Legit(u)'
  BY <1>1, LeaveLegit DEF SafeInv
<1>4. PICK status : /\ status = "completed" => final[t] # None
                    /\ outcomes' = outcomes \cup
                         {[branch |-> req[t].branch, status |-> status, final |-> final[t]]}
  BY DEF Verify, Ended
<1>5. final[t] # None => final[t] = Ideal(req[t].branch)
  BY DEF SafeInv, Legit
<1>6. TrialsAreReproducible'
  BY <1>4, <1>5 DEF SafeInv, TrialsAreReproducible, Ideal, Origin
<1> QED
  BY <1>2, <1>3, <1>6 DEF SafeInv

LEMMA StepSafe == ASSUME RulesOK, TypeInv, SafeInv, NEW t \in Thread, Step(t) PROVE SafeInv'
<1>1. CASE WriteSnapshot(t) \/ AddFails(t) \/ IndexEntities(t)
  BY <1>1, LeavingSafe DEF WriteSnapshot, AddFails, IndexEntities
<1>2. CASE Record(t)
  BY <1>2, SubmittedSafe DEF Record
<1> QED
  BY <1>1, <1>2, LookUpTrialSafe, AddTrialSafe, DuplicateSafe, CommitSafe, RefuseSafe,
     LookUpEventSafe, ObserveSafe, VerifySafe DEF Step

LEMMA SafeStep == ASSUME RulesOK, TypeInv, SafeInv, [Next]_vars PROVE SafeInv'
<1>1. CASE UNCHANGED vars
  <2>1. \A u \in Thread : Legit(u)'
    BY <1>1 DEF vars, SafeInv, Legit, IsRun, Expects, IsRunBranch, Ideal, Origin
  <2> QED
    BY <1>1, <2>1, QuietStep DEF vars
<1> QED
  BY <1>1, ServeSafe, StartRunSafe, StepSafe DEF Next

LEMMA Safety == ASSUME RulesOK PROVE Spec => [](TypeInv /\ SafeInv)
<1>1. TypeInv /\ SafeInv /\ [Next]_vars => TypeInv' /\ SafeInv'
  BY TypeStep, SafeStep
<1> QED
  BY <1>1, InitType, InitSafe, PTL DEF Spec

(***************************************************************************)
(* The theorems.                                                           *)
(***************************************************************************)
\* On any branch, the canonical one and every trial, execute_atomic has computed each
\* receipt from the state the receipt before left, and the projection is the last one's.
THEOREM EveryBranchReplays == ASSUME RulesOK PROVE Spec => []BranchesReplay
<1>1. SafeInv => BranchesReplay
  BY DEF SafeInv, BranchInv, Replays, BranchesReplay
<1> QED
  BY <1>1, Safety, PTL

\* execute_atomic commits a key once on a branch, whichever threads send it.
THEOREM KeysCommitOncePerBranch == ASSUME RulesOK PROVE Spec => []OneCommitPerKey
<1>1. SafeInv => OneCommitPerKey
  BY DEF SafeInv, BranchInv, KeysDiffer, OneCommitPerKey
<1> QED
  BY <1>1, Safety, PTL

\* The check of the route and the one of promote_consequences together: a promotion is
\* committed on the base its trial was branched from only.
THEOREM PromotionsKeepTheirBase == ASSUME RulesOK PROVE Spec => []PromotionsMeetTheirBase
<1>1. ASSUME TypeInv, SafeInv PROVE PromotionsMeetTheirBase
  <2> SUFFICES ASSUME NEW i \in 1..Len(receipts[Canonical]), receipts[Canonical][i].op \notin Command
               PROVE  StateAfter(Canonical, i - 1) = Origin(receipts[Canonical][i].op.source)
    BY DEF PromotionsMeetTheirBase
  <2>1. PICK r : r = receipts[Canonical][i]
    OBVIOUS
  <2>2. /\ r.delta = Outcome(r.op, StateAfter(Canonical, i - 1)) /\ r.delta # Raises
        /\ Fits(Canonical, r)
    BY <1>1, <2>1 DEF TypeInv, StoreType, SafeInv, BranchInv, Replays
  <2>3. StateAfter(Canonical, i - 1) = r.op.expected
    BY <2>1, <2>2 DEF Outcome
  <2>4. r.op.expected = Origin(r.op.source)
    BY <2>1, <2>2 DEF Fits, Expects
  <2> QED
    BY <2>1, <2>3, <2>4
<1> QED
  BY <1>1, Safety, PTL

\* A run the engine reports completed has the final state its scenario makes of its
\* snapshot, whatever ran beside it and however often it was repeated.
THEOREM RunsReproduce == ASSUME RulesOK PROVE Spec => []TrialsAreReproducible
<1>1. SafeInv => TrialsAreReproducible
  BY DEF SafeInv
<1> QED
  BY <1>1, Safety, PTL

(***************************************************************************)
(* What every branch implements.  Its ledger takes a step when a command   *)
(* is committed to it and when one is recorded in its history.  That only  *)
(* receipts of a branch get into its history is one more invariant: the    *)
(* receipt a thread holds is one of the branch it asked.                   *)
(***************************************************************************)
Committed(b) == {receipts[b][i] : i \in 1..Len(receipts[b])}

Held(t) == pc[t] \in {"look up event", "record"} => receipt[t] \in Committed(req[t].branch)

HeldInv == \A t \in Thread : Held(t)

\* Nothing takes a receipt of a branch away.
NoneLost == \A b \in DOMAIN state : Committed(b) \subseteq Committed(b)'

OthersWait(t) ==
    \A u \in Thread \ {t} : pc'[u] = pc[u] /\ req'[u] = req[u] /\ receipt'[u] = receipt[u]

LEMMA OthersHold ==
    ASSUME TypeInv, HeldInv, NEW t \in Thread, Held(t)', NoneLost, OthersWait(t)
    PROVE  HeldInv'
<1> SUFFICES ASSUME NEW u \in Thread \ {t} PROVE Held(u)'
  BY DEF HeldInv
<1>1. pc'[u] = pc[u] /\ req'[u] = req[u] /\ receipt'[u] = receipt[u] /\ Held(u) /\ Pending(u)
  BY DEF OthersWait, HeldInv, TypeInv
<1>2. CASE pc[u] \in {"look up event", "record"}
  <2>1. PICK b : b = req[u].branch
    OBVIOUS
  <2>2. b \in DOMAIN state /\ receipt[u] \in Committed(b)
    BY <1>1, <1>2, <2>1 DEF Pending, Held
  <2>3. receipt[u] \in {receipts'[b][i] : i \in 1..Len(receipts'[b])}
    BY <2>2 DEF NoneLost, Committed
  <2> QED
    BY <1>1, <2>1, <2>3 DEF Held, Committed
<1>3. CASE pc[u] \notin {"look up event", "record"}
  BY <1>1, <1>3 DEF Held
<1> QED
  BY <1>2, <1>3

\* A step of one thread that leaves the receipts alone and does not go to where they are used.
LEMMA QuietHeld ==
    ASSUME TypeInv, HeldInv, NEW t \in Thread, UNCHANGED receipts,
           pc'[t] \notin {"look up event", "record"}, OthersWait(t)
    PROVE  HeldInv'
<1>1. Held(t)' /\ NoneLost
  BY DEF Held, NoneLost, Committed
<1> QED
  BY <1>1, OthersHold

LEMMA LeaveHeld ==
    ASSUME TypeInv, HeldInv, NEW t \in Thread, Leave(t), UNCHANGED receipts PROVE HeldInv'
<1>1. pc'[t] = "idle" /\ OthersWait(t)
  BY DEF Leave, Goto, TypeInv, ThreadType, OthersWait
<1> QED
  BY <1>1, QuietHeld

LEMMA AskHeld ==
    ASSUME TypeInv, HeldInv, NEW t \in Thread, NEW q, NEW step,
           req' = [req EXCEPT ![t] = q], pc' = [pc EXCEPT ![t] = step],
           UNCHANGED <<receipts, receipt>>, step \in {"look up trial", "execute"}
    PROVE  HeldInv'
<1>1. pc'[t] = step /\ OthersWait(t)
  BY DEF TypeInv, ThreadType, OthersWait
<1> QED
  BY <1>1, QuietHeld

LEMMA GoOnHeld ==
    ASSUME TypeInv, HeldInv, NEW t \in Thread, NEW step, pc' = [pc EXCEPT ![t] = step],
           UNCHANGED <<receipts, req, receipt>>, step \notin {"look up event", "record"}
    PROVE  HeldInv'
<1>1. pc'[t] = step /\ OthersWait(t)
  BY DEF TypeInv, ThreadType, OthersWait
<1> QED
  BY <1>1, QuietHeld

LEMMA SubmittedHeld ==
    ASSUME TypeInv, HeldInv, NEW t \in Thread, Submitted(t), UNCHANGED receipts PROVE HeldInv'
<1>1. CASE IsRun(t)
  <2>1. pc' = [pc EXCEPT ![t] = "observe"] /\ UNCHANGED <<req, receipt>>
    BY <1>1 DEF Submitted, Goto
  <2> QED
    BY <2>1, GoOnHeld
<1>2. CASE ~IsRun(t)
  BY <1>2, LeaveHeld DEF Submitted
<1> QED
  BY <1>1, <1>2

LEMMA ServeHeld == ASSUME TypeInv, HeldInv, NEW t \in Client, Serve(t) PROVE HeldInv'
<1>1. CASE ReadBoundary(t)
  <2>1. pc' = [pc EXCEPT ![t] = "write snapshot"] /\ UNCHANGED <<receipts, req, receipt>>
    BY <1>1 DEF ReadBoundary, Goto
  <2> QED
    BY <2>1, GoOnHeld
<1>2. ASSUME NEW s, NEW seed, CreateTrial(t, s, seed) PROVE HeldInv'
  <2> DEFINE q == [branch |-> [snapshot |-> s, label |-> seed], op |-> None, key |-> None]
  <2>1. /\ req' = [req EXCEPT ![t] = q] /\ pc' = [pc EXCEPT ![t] = "look up trial"]
        /\ UNCHANGED <<receipts, receipt>>
    BY <1>2 DEF CreateTrial, Ask, Goto
  <2> HIDE DEF q
  <2> QED
    BY <2>1, AskHeld
<1>3. ASSUME NEW b, NEW c, NEW key, Submit(t, b, c, key) PROVE HeldInv'
  <2> DEFINE q == [branch |-> b, op |-> c, key |-> key]
  <2>1. /\ req' = [req EXCEPT ![t] = q] /\ pc' = [pc EXCEPT ![t] = "execute"]
        /\ UNCHANGED <<receipts, receipt>>
    BY <1>3 DEF Submit, Ask, Goto
  <2> HIDE DEF q
  <2> QED
    BY <2>1, AskHeld
<1>4. ASSUME NEW source, NEW expected, NEW deltas, Promote(t, source, expected, deltas) PROVE HeldInv'
  <2> DEFINE package == [source |-> source, expected |-> expected, deltas |-> deltas]
             q == [branch |-> Canonical, op |-> package, key |-> package]
  <2>1. /\ req' = [req EXCEPT ![t] = q] /\ pc' = [pc EXCEPT ![t] = "execute"]
        /\ UNCHANGED <<receipts, receipt>>
    BY <1>4 DEF Promote, Ask, Goto
  <2> HIDE DEF q
  <2> QED
    BY <2>1, AskHeld
<1> QED
  BY <1>1, <1>2, <1>3, <1>4 DEF Serve

LEMMA AddTrialHeld == ASSUME TypeInv, HeldInv, NEW t \in Thread, AddTrial(t) PROVE HeldInv'
<1>1. PICK step \in {"execute", "index entities"} :
        pc' = [pc EXCEPT ![t] = step] /\ UNCHANGED <<req, receipt>>
  BY DEF AddTrial, Goto
<1>2. pc'[t] = step /\ OthersWait(t)
  BY <1>1 DEF TypeInv, ThreadType, OthersWait
<1>3. \A b \in DOMAIN state : receipts'[b] = receipts[b]
  BY DEF AddTrial, Extended, TypeInv, StoreType
<1>4. NoneLost
  BY <1>3 DEF NoneLost, Committed
<1>5. Held(t)'
  BY <1>2 DEF Held
<1> QED
  BY <1>2, <1>4, <1>5, OthersHold

LEMMA DuplicateHeld == ASSUME TypeInv, HeldInv, NEW t \in Thread, Duplicate(t) PROVE HeldInv'
<1>1. PICK r \in ReceiptsFor(req[t].branch, req[t].key) : receipt' = [receipt EXCEPT ![t] = r]
  BY DEF Duplicate
<1>2. pc' = [pc EXCEPT ![t] = "look up event"] /\ UNCHANGED <<receipts, req>>
  BY DEF Duplicate, Goto
<1>3. r \in Committed(req[t].branch)
  BY DEF ReceiptsFor, Committed
<1>4. receipt'[t] = r /\ OthersWait(t)
  BY <1>1, <1>2 DEF TypeInv, ThreadType, OthersWait
<1>5. Held(t)' /\ NoneLost
  BY <1>2, <1>3, <1>4 DEF Held, NoneLost, Committed
<1> QED
  BY <1>4, <1>5, OthersHold

LEMMA CommitHeld ==
    ASSUME RulesOK, TypeInv, HeldInv, NEW t \in Thread, Commit(t) PROVE HeldInv'
<1>1. PICK b, e : b = req[t].branch /\ e = NewEntry(t)
  OBVIOUS
<1>2. /\ b \in DOMAIN state /\ e \in Entry
      /\ receipts' = [receipts EXCEPT ![b] = Append(@, e)]
      /\ receipt' = [receipt EXCEPT ![t] = e]
      /\ pc' = [pc EXCEPT ![t] = "look up event"] /\ UNCHANGED req
  BY <1>1, CommitEffect, EntryType
<1>3. receipt'[t] = e /\ req'[t].branch = b /\ OthersWait(t)
  BY <1>1, <1>2 DEF TypeInv, ThreadType, OthersWait
<1>4. /\ receipts[b] \in Seq(Entry) /\ receipts'[b] = Append(receipts[b], e)
      /\ \A c \in DOMAIN state \ {b} : receipts'[c] = receipts[c]
  BY <1>2 DEF TypeInv, StoreType
<1>5. PICK n \in Nat : n = Len(receipts[b])
  BY <1>4
<1>6. /\ Len(receipts'[b]) = n + 1 /\ receipts'[b][n + 1] = e
      /\ \A i \in 1..n : receipts'[b][i] = receipts[b][i]
  BY <1>4, <1>5
<1>7. e \in {receipts'[b][i] : i \in 1..(n + 1)}
  BY <1>6
<1>8. Held(t)'
  BY <1>3, <1>6, <1>7 DEF Held, Committed
<1>9. NoneLost
  <2> SUFFICES ASSUME NEW c \in DOMAIN state PROVE Committed(c) \subseteq Committed(c)'
    BY DEF NoneLost
  <2>1. CASE c = b
    <3>1. {receipts[b][i] : i \in 1..n} \subseteq {receipts'[b][i] : i \in 1..(n + 1)}
      BY <1>6
    <3> QED
      BY <1>5, <1>6, <2>1, <3>1 DEF Committed
  <2>2. CASE c # b
    BY <1>4, <2>2 DEF Committed
  <2> QED
    BY <2>1, <2>2
<1> QED
  BY <1>3, <1>8, <1>9, OthersHold

LEMMA LookUpEventHeld == ASSUME TypeInv, HeldInv, NEW t \in Thread, LookUpEvent(t) PROVE HeldInv'
<1>1. UNCHANGED receipts /\ pc[t] = "look up event"
  BY DEF LookUpEvent
<1>2. CASE Submitted(t)
  BY <1>1, <1>2, SubmittedHeld
<1>3. CASE pc' = [pc EXCEPT ![t] = "record"] /\ UNCHANGED <<req, receipt>>
  <2>1. Held(t)' /\ NoneLost
    BY <1>1, <1>3 DEF HeldInv, Held, NoneLost, Committed
  <2>2. OthersWait(t)
    BY <1>3 DEF TypeInv, ThreadType, OthersWait
  <2> QED
    BY <2>1, <2>2, OthersHold
<1> QED
  BY <1>2, <1>3 DEF LookUpEvent, Goto

LEMMA StepHeld == ASSUME RulesOK, TypeInv, HeldInv, NEW t \in Thread, Step(t) PROVE HeldInv'
<1>1. CASE WriteSnapshot(t) \/ AddFails(t) \/ IndexEntities(t) \/ Verify(t)
  BY <1>1, LeaveHeld DEF WriteSnapshot, AddFails, IndexEntities, Verify
<1>2. CASE LookUpTrial(t)
  <2>1. PICK step \in {"add trial", "execute", "index entities"} :
          pc' = [pc EXCEPT ![t] = step] /\ UNCHANGED <<receipts, req, receipt>>
    BY <1>2 DEF LookUpTrial, Goto
  <2> QED
    BY <2>1, GoOnHeld
<1>3. CASE Refuse(t)
  <2>1. CASE IsRun(t)
    <3>1. pc' = [pc EXCEPT ![t] = "verify"] /\ UNCHANGED <<receipts, req, receipt>>
      BY <1>3, <2>1 DEF Refuse, Goto
    <3> QED
      BY <3>1, GoOnHeld
  <2>2. CASE ~IsRun(t)
    BY <1>3, <2>2, LeaveHeld DEF Refuse
  <2> QED
    BY <2>1, <2>2
<1>4. CASE Record(t)
  BY <1>4, SubmittedHeld DEF Record
<1>5. CASE Observe(t)
  <2>1. pc' = [pc EXCEPT ![t] = "verify"] /\ UNCHANGED <<receipts, req, receipt>>
    BY <1>5 DEF Observe, Goto
  <2> QED
    BY <2>1, GoOnHeld
<1> QED
  BY <1>1, <1>2, <1>3, <1>4, <1>5, AddTrialHeld, DuplicateHeld, CommitHeld, LookUpEventHeld DEF Step

LEMMA HeldStep == ASSUME RulesOK, TypeInv, HeldInv, [Next]_vars PROVE HeldInv'
<1>1. CASE UNCHANGED vars
  BY <1>1 DEF vars, HeldInv, Held, Committed
<1>2. ASSUME NEW t \in Worker, NEW s \in snapshots, NEW r \in Run, StartRun(t, s, r) PROVE HeldInv'
  <2> DEFINE q == [branch |-> [snapshot |-> s, label |-> r], op |-> Scenario[r], key |-> r]
  <2>1. /\ req' = [req EXCEPT ![t] = q] /\ pc' = [pc EXCEPT ![t] = "look up trial"]
        /\ UNCHANGED <<receipts, receipt>>
    BY <1>2 DEF StartRun, Ask, Goto
  <2> HIDE DEF q
  <2> QED
    BY <2>1, AskHeld
<1> QED
  BY <1>1, <1>2, ServeHeld, StepHeld DEF Next

LEMMA InitHeld == Init => HeldInv
  BY DEF Init, HeldInv, Held

\* What the ledger of a branch computes is what the handlers do.
LEMMA LedgerEntry ==
    ASSUME NEW b, NEW key, NEW op \in Command \cup Package, NEW p \in Projection,
           Outcome(op, p) \in Delta
    PROVE  Ledger(b)!Entry(key, op, p)
             = [key |-> key, op |-> op, delta |-> Outcome(op, p), after |-> Apply(p, Outcome(op, p))]
  BY DEF Ledger!Entry

\* The last receipt of a branch left the projection the branch has.
LEMMA LedgerCurrent ==
    ASSUME NEW b \in DOMAIN state, BranchInv(b) PROVE Ledger(b)!Current(Receipts(b)) = state[b]
  BY DEF Ledger!Current, Receipts, BranchInv, Replays, StateAfter

\* A commit to a branch is a commit of its ledger, and no step of another one.
LEMMA CommitLedger ==
    ASSUME RulesOK, TypeInv, SafeInv, NEW t \in Thread, Commit(t), NEW b
    PROVE  LedgerStep(b)
<1>1. PICK d, e, p : d = req[t].branch /\ e = NewEntry(t) /\ p = state[d]
  OBVIOUS
<1>2. /\ Carries(t) /\ d \in DOMAIN state /\ ReceiptsFor(d, req[t].key) = {} /\ e \in Entry
      /\ Outcome(req[t].op, p) # Raises
      /\ state' = [state EXCEPT ![d] = e.after]
      /\ receipts' = [receipts EXCEPT ![d] = Append(@, e)] /\ UNCHANGED history
  BY <1>1, CommitEffect, EntryType
<1>3. e = [key |-> req[t].key, op |-> req[t].op, delta |-> Outcome(req[t].op, p),
           after |-> Apply(p, Outcome(req[t].op, p))]
  BY <1>1 DEF NewEntry
<1>4. DOMAIN state' = DOMAIN state /\ Recorded(b)' = Recorded(b)
  BY <1>2 DEF TypeInv, StoreType, Recorded
<1>5. CASE b # d
  <2>1. Receipts(b)' = Receipts(b)
    BY <1>2, <1>4, <1>5 DEF TypeInv, StoreType, Receipts
  <2> QED
    BY <1>4, <2>1 DEF LedgerStep
<1>6. CASE b = d
  <2>1. Receipts(b) = receipts[b] /\ receipts[b] \in Seq(Entry)
    BY <1>2, <1>6 DEF TypeInv, StoreType, Receipts
  <2>2. Receipts(b)' = Append(Receipts(b), e)
    BY <1>2, <1>4, <1>6, <2>1 DEF TypeInv, StoreType, Receipts
  <2>3. \A i \in 1..Len(Receipts(b)) : Receipts(b)[i].key # req[t].key
    BY <1>2, <1>6, <2>1 DEF ReceiptsFor
  <2>4. p \in Projection /\ req[t].op \in Command \cup Package
    BY <1>1, <1>2 DEF TypeInv, StoreType, Carries
  <2>5. Outcome(req[t].op, p) \in Delta
    BY <1>2, <1>3 DEF Entry
  <2>6. Ledger(b)!Entry(req[t].key, req[t].op, p) = e
    BY <1>3, <2>4, <2>5, LedgerEntry
  <2>7. Ledger(b)!Current(Receipts(b)) = p
    BY <1>1, <1>2, <1>6, LedgerCurrent DEF SafeInv
  <2>8. Ledger(b)!Commit(req[t].key, req[t].op)
    BY <1>2, <1>4, <2>2, <2>3, <2>4, <2>6, <2>7 DEF Ledger!Commit
  <2>9. PICK n \in 1..Len(Receipts(b)') : Receipts(b)'[n] = e
    <3>1. PICK m \in Nat : m = Len(Receipts(b))
      BY <2>1
    <3>2. Len(Receipts(b)') = m + 1 /\ Receipts(b)'[m + 1] = e
      BY <2>1, <2>2, <3>1
    <3> QED
      BY <3>2
  <2>10. Receipts(b)'[n].key = req[t].key /\ Receipts(b)'[n].op = req[t].op
    BY <1>3, <2>9
  <2> QED
    BY <2>8, <2>10 DEF LedgerStep
<1> QED
  BY <1>5, <1>6

\* A branch begins with the ledger of one that is not there yet.
LEMMA AddTrialLedger ==
    ASSUME TypeInv, NEW t \in Thread, AddTrial(t), NEW b PROVE LedgerStep(b)
<1>1. PICK d : d = req[t].branch
  OBVIOUS
<1>2. /\ d \notin DOMAIN state /\ state' = Extended(state, d, LoadedProjection(d))
      /\ receipts' = Extended(receipts, d, <<>>) /\ history' = Extended(history, d, <<>>)
  BY <1>1 DEF AddTrial
<1>3. /\ DOMAIN state' = DOMAIN state \cup {d} /\ receipts'[d] = <<>> /\ history'[d] = <<>>
      /\ \A c \in DOMAIN state : receipts'[c] = receipts[c] /\ history'[c] = history[c]
  BY <1>2 DEF Extended, TypeInv, StoreType, AppType
<1>4. {history'[d][i] : i \in 1..Len(history'[d])} = {}
  BY <1>3
<1>5. Receipts(b)' = Receipts(b)
  BY <1>2, <1>3 DEF Receipts
<1>6. Recorded(b)' = Recorded(b)
  <2>1. CASE b = d
    BY <1>2, <1>3, <1>4, <2>1 DEF Recorded
  <2>2. CASE b # d
    BY <1>3, <2>2 DEF Recorded
  <2> QED
    BY <2>1, <2>2
<1> QED
  BY <1>5, <1>6 DEF LedgerStep

\* What is recorded of a branch is one of its receipts.
LEMMA RecordLedger ==
    ASSUME TypeInv, HeldInv, NEW t \in Thread, Record(t), NEW b PROVE LedgerStep(b)
<1>1. PICK d, r : d = req[t].branch /\ r = receipt[t]
  OBVIOUS
<1>2. /\ d \in DOMAIN state /\ r \in Entry /\ r \in Committed(d)
      /\ history' = [history EXCEPT ![d] = Append(@, r)] /\ UNCHANGED <<state, receipts>>
  BY <1>1 DEF TypeInv, Pending, Record, HeldInv, Held
<1>3. Receipts(b)' = Receipts(b)
  BY <1>2 DEF Receipts
<1>4. CASE b # d
  <2>1. Recorded(b)' = Recorded(b)
    BY <1>2, <1>4 DEF TypeInv, AppType, Recorded
  <2> QED
    BY <1>3, <2>1 DEF LedgerStep
<1>5. CASE b = d
  <2>1. Receipts(b) = receipts[b]
    BY <1>2, <1>5 DEF Receipts
  <2>2. PICK i \in 1..Len(Receipts(b)) : Receipts(b)[i] = r
    BY <1>2, <1>5, <2>1 DEF Committed
  <2>3. history[b] \in Seq(Entry) /\ history'[b] = Append(history[b], r)
    BY <1>2, <1>5 DEF TypeInv, AppType
  <2>4. PICK n \in Nat : n = Len(history[b])
    BY <2>3
  <2>5. /\ Len(history'[b]) = n + 1 /\ history'[b][n + 1] = r
        /\ \A j \in 1..n : history'[b][j] = history[b][j]
    BY <1>2, <2>3, <2>4
  <2>6. {history'[b][j] : j \in 1..(n + 1)} = {history[b][j] : j \in 1..n} \cup {r}
    <3>1. \A j \in 1..(n + 1) : j \in 1..n \/ j = n + 1
      OBVIOUS
    <3>2. \A j \in 1..n : j \in 1..(n + 1)
      OBVIOUS
    <3> QED
      BY <2>5, <3>1, <3>2
  <2>7. Recorded(b)' = Recorded(b) \cup {Receipts(b)[i]}
    BY <1>2, <1>5, <2>2, <2>4, <2>5, <2>6 DEF Recorded
  <2>8. Ledger(b)!Answer(i)
    BY <1>3, <2>7 DEF Ledger!Answer
  <2> QED
    BY <2>8 DEF LedgerStep
<1> QED
  BY <1>4, <1>5

LEMMA QuietLedger ==
    ASSUME UNCHANGED <<state, receipts, history>>, NEW b PROVE LedgerStep(b)
  BY DEF LedgerStep, Receipts, Recorded

LEMMA StepLedger ==
    ASSUME RulesOK, TypeInv, SafeInv, HeldInv, NEW t \in Thread, Step(t), NEW b
    PROVE  LedgerStep(b)
<1>1. CASE WriteSnapshot(t) \/ LookUpTrial(t) \/ AddFails(t) \/ IndexEntities(t)
  BY <1>1, QuietLedger DEF WriteSnapshot, LookUpTrial, AddFails, IndexEntities
<1>2. CASE Duplicate(t) \/ Refuse(t) \/ LookUpEvent(t)
  BY <1>2, QuietLedger DEF Duplicate, Refuse, LookUpEvent
<1>3. CASE Observe(t) \/ Verify(t)
  BY <1>3, QuietLedger DEF Observe, Verify
<1> QED
  BY <1>1, <1>2, <1>3, CommitLedger, AddTrialLedger, RecordLedger DEF Step

LEMMA NextLedger ==
    ASSUME RulesOK, TypeInv, SafeInv, HeldInv, [Next]_vars, NEW b PROVE LedgerStep(b)
<1>1. CASE UNCHANGED vars
  BY <1>1, QuietLedger DEF vars
<1>2. ASSUME NEW t \in Client, Serve(t) PROVE LedgerStep(b)
  BY <1>2, QuietLedger DEF Serve, ReadBoundary, CreateTrial, Submit, Promote
<1>3. ASSUME NEW t \in Worker, NEW s \in snapshots, NEW r \in Run, StartRun(t, s, r)
      PROVE  LedgerStep(b)
  BY <1>3, QuietLedger DEF StartRun
<1> QED
  BY <1>1, <1>2, <1>3, StepLedger DEF Next

LEMMA HeldAlways == ASSUME RulesOK PROVE Spec => [](TypeInv /\ SafeInv /\ HeldInv)
<1>1. TypeInv /\ SafeInv /\ HeldInv /\ [Next]_vars => TypeInv' /\ SafeInv' /\ HeldInv'
  BY TypeStep, SafeStep, HeldStep
<1> QED
  BY <1>1, InitType, InitSafe, InitHeld, PTL DEF Spec

\* No step of any thread does anything to a branch, the canonical one or a trial, that its own
\* ledger would not: commands, promotions and runs are committed or recorded there, or nothing is.
THEOREM BranchesFollowTheirLedgers == ASSUME RulesOK PROVE Spec => BranchesAreLedgers
<1>1. TypeInv /\ SafeInv /\ HeldInv /\ [Next]_vars => \A b \in DOMAIN state' : LedgerStep(b)
  BY NextLedger
<1>2. TypeInv /\ SafeInv /\ HeldInv /\ [Next]_vars => [\A b \in DOMAIN state' : LedgerStep(b)]_vars
  BY <1>1
<1> QED
  BY <1>2, HeldAlways, PTL DEF Spec, BranchesAreLedgers

\* Every branch there can be implements the abstract ledger that also the durable
\* kernel implements: with its own origin, its receipts as the ledger and its history as what
\* clients were told.
THEOREM EveryBranchIsALedger ==
    ASSUME RulesOK, NEW CONSTANT b \in Branch PROVE Spec => Ledger(b)!Spec
<1>1. Init => Ledger(b)!Init
  <2> SUFFICES ASSUME Init PROVE Receipts(b) = <<>> /\ Recorded(b) = {}
    BY DEF Ledger!Init
  <2>1. CASE b = Canonical
    <3>1. receipts[b] = <<>> /\ history[b] = <<>> /\ b \in DOMAIN state
      BY <2>1 DEF Init
    <3> QED
      BY <3>1 DEF Receipts, Recorded
  <2>2. CASE b # Canonical
    BY <2>2 DEF Init, Receipts, Recorded
  <2> QED
    BY <2>1, <2>2
<1>2. ASSUME TypeInv, TypeInv', LedgerStep(b) PROVE [Ledger(b)!Next]_(Ledger(b)!vars)
  <2>1. CASE UNCHANGED <<Receipts(b), Recorded(b)>>
    BY <2>1 DEF Ledger!vars
  <2>2. ASSUME NEW i \in 1..Len(Receipts(b)'), Ledger(b)!Commit(Receipts(b)'[i].key, Receipts(b)'[i].op)
        PROVE  Ledger(b)!Next
    <3>1. Receipts(b)'[i] \in Entry
      <4>1. Receipts(b)' \in Seq(Entry)
        BY <1>2 DEF Receipts, TypeInv, StoreType
      <4> QED
        BY <2>2, <4>1
    <3>2. Receipts(b)'[i].key \in Key \cup Package \cup Run /\ Receipts(b)'[i].op \in Command \cup Package
      BY <3>1 DEF Entry
    <3> QED
      BY <2>2, <3>2 DEF Ledger!Next
  <2>3. ASSUME NEW i \in 1..Len(Receipts(b)), Ledger(b)!Answer(i) PROVE Ledger(b)!Next
    BY <2>3 DEF Ledger!Next
  <2> QED
    BY <1>2, <2>1, <2>2, <2>3 DEF LedgerStep
<1>3. TypeInv /\ SafeInv /\ HeldInv /\ [Next]_vars => [Ledger(b)!Next]_(Ledger(b)!vars)
  BY <1>2, NextLedger, TypeStep
<1> QED
  BY <1>1, <1>3, HeldAlways, PTL DEF Spec, Ledger!Spec

(***************************************************************************)
(* What the rules of a domain keep.  A law is a set of projections that    *)
(* the world starts in and no command leads out of.  Trials begin where a  *)
(* snapshot was taken, so it holds on them too; a promotion brings the     *)
(* deltas of a trial to its base, where it does what a command could have  *)
(* done only if it is in context.                                          *)
(***************************************************************************)
IsLaw(L) ==
    /\ InitProjection \in L
    /\ \A c \in Command, p \in L \cap Projection :
         Handle(c, p) # Raises => Apply(p, Handle(c, p)) \in L

\* What a thread works on: trials come from snapshots, packages go to the canonical branch.
Targets(t) ==
    /\ pc[t] \in {"look up trial", "add trial"} => req[t].branch.snapshot \in snapshots
    /\ pc[t] \in {"look up trial", "add trial"} /\ IsRun(t) => req[t].op \in Command
    /\ pc[t] = "execute" /\ req[t].op \notin Command => req[t].branch = Canonical

TargetsInv == \A t \in Thread : Targets(t)

LawHolds(L) ==
    /\ \A b \in DOMAIN state : state[b] \in L /\ Origin(b) \in L
    /\ \A s \in snapshots : s.state \in L

LawInv(L) == PromotedInContext => LawHolds(L)

\* A thread that does nothing stays where it is while snapshots are only added.
LEMMA OthersTarget ==
    ASSUME TargetsInv, NEW t \in Thread, Targets(t)', snapshots \subseteq snapshots',
           \A u \in Thread \ {t} : pc'[u] = pc[u] /\ req'[u] = req[u]
    PROVE  TargetsInv'
<1> SUFFICES ASSUME NEW u \in Thread \ {t} PROVE Targets(u)'
  BY DEF TargetsInv
<1>1. pc'[u] = pc[u] /\ req'[u] = req[u] /\ Targets(u)
  BY DEF TargetsInv
<1> QED
  BY <1>1 DEF Targets, IsRun

\* A thread that comes to a step where it has no target.
LEMMA StepTargets ==
    ASSUME TypeInv, TargetsInv, NEW t \in Thread, NEW step, pc' = [pc EXCEPT ![t] = step],
           step \notin {"look up trial", "add trial", "execute"}, snapshots \subseteq snapshots',
           req' = req \/ req' = [req EXCEPT ![t] = None]
    PROVE  TargetsInv'
<1>1. pc'[t] = step /\ \A u \in Thread \ {t} : pc'[u] = pc[u] /\ req'[u] = req[u]
  BY DEF TypeInv, ThreadType
<1>2. Targets(t)'
  BY <1>1 DEF Targets
<1> QED
  BY <1>1, <1>2, OthersTarget

\* A thread that asks for something.
LEMMA AskTargets ==
    ASSUME TypeInv, TargetsInv, NEW t \in Thread, NEW q, NEW step \in {"look up trial", "execute"},
           pc' = [pc EXCEPT ![t] = step], req' = [req EXCEPT ![t] = q], snapshots' = snapshots,
           step = "look up trial" => q.branch.snapshot \in snapshots,
           step = "look up trial" /\ q.key \in Run => q.op \in Command,
           step = "execute" /\ q.op \notin Command => q.branch = Canonical
    PROVE  TargetsInv'
<1>1. /\ pc'[t] = step /\ req'[t] = q
      /\ \A u \in Thread \ {t} : pc'[u] = pc[u] /\ req'[u] = req[u]
  BY DEF TypeInv, ThreadType
<1>2. Targets(t)'
  <2>1. CASE step = "look up trial"
    <3>1. q.branch.snapshot \in snapshots /\ (q.key \in Run => q.op \in Command)
      BY <2>1
    <3>2. pc'[t] # "execute" /\ snapshots' = snapshots
      BY <1>1, <2>1
    <3>3. req'[t].branch.snapshot \in snapshots'
      BY <1>1, <3>1, <3>2, Zenon
    <3>4. req'[t].key \in Run => req'[t].op \in Command
      BY <1>1, <3>1, Zenon
    <3> QED
      BY <3>2, <3>3, <3>4, Zenon DEF Targets, IsRun
  <2>2. CASE step = "execute"
    BY <1>1, <2>2 DEF Targets, IsRun
  <2> QED
    BY <2>1, <2>2
<1> QED
  BY <1>1, <1>2, OthersTarget

LEMMA ServeTargets == ASSUME TypeInv, TargetsInv, NEW t \in Client, Serve(t) PROVE TargetsInv'
<1>1. CASE ReadBoundary(t)
  <2>1. pc' = [pc EXCEPT ![t] = "write snapshot"] /\ req' = req /\ snapshots' = snapshots
    BY <1>1 DEF ReadBoundary, Goto
  <2> QED
    BY <2>1, StepTargets
<1>2. ASSUME NEW s \in snapshots, NEW seed \in Seed, CreateTrial(t, s, seed) PROVE TargetsInv'
  <2> DEFINE q == [branch |-> [snapshot |-> s, label |-> seed], op |-> None, key |-> None]
  <2>1. /\ pc' = [pc EXCEPT ![t] = "look up trial"] /\ req' = [req EXCEPT ![t] = q]
        /\ snapshots' = snapshots
    BY <1>2 DEF CreateTrial, Ask, Goto
  <2>2. q.branch.snapshot = s /\ q.key \notin Run
    OBVIOUS
  <2> HIDE DEF q
  <2> QED
    BY <2>1, <2>2, AskTargets
<1>3. ASSUME NEW b \in DOMAIN state, NEW c \in Command, NEW key \in Key, Submit(t, b, c, key)
      PROVE  TargetsInv'
  <2> DEFINE q == [branch |-> b, op |-> c, key |-> key]
  <2>1. /\ pc' = [pc EXCEPT ![t] = "execute"] /\ req' = [req EXCEPT ![t] = q]
        /\ snapshots' = snapshots
    BY <1>3 DEF Submit, Ask, Goto
  <2>2. q.op \in Command
    OBVIOUS
  <2> HIDE DEF q
  <2> QED
    BY <2>1, <2>2, AskTargets
<1>4. ASSUME NEW source, NEW expected, NEW deltas, Promote(t, source, expected, deltas)
      PROVE  TargetsInv'
  <2> DEFINE package == [source |-> source, expected |-> expected, deltas |-> deltas]
             q == [branch |-> Canonical, op |-> package, key |-> package]
  <2>1. /\ pc' = [pc EXCEPT ![t] = "execute"] /\ req' = [req EXCEPT ![t] = q]
        /\ snapshots' = snapshots
    BY <1>4 DEF Promote, Ask, Goto
  <2>2. q.branch = Canonical
    OBVIOUS
  <2> HIDE DEF q
  <2> QED
    BY <2>1, <2>2, AskTargets
<1> QED
  BY <1>1, <1>2, <1>3, <1>4 DEF Serve

LEMMA StartRunTargets ==
    ASSUME TypeInv, TargetsInv, NEW t \in Worker, NEW s \in snapshots, NEW r \in Run,
           StartRun(t, s, r)
    PROVE  TargetsInv'
<1> DEFINE q == [branch |-> [snapshot |-> s, label |-> r], op |-> Scenario[r], key |-> r]
<1>1. /\ pc' = [pc EXCEPT ![t] = "look up trial"] /\ req' = [req EXCEPT ![t] = q]
      /\ snapshots' = snapshots
  BY DEF StartRun, Ask, Goto
<1>2. q.branch.snapshot = s /\ q.op \in Command
  OBVIOUS
<1> HIDE DEF q
<1> QED
  BY <1>1, <1>2, AskTargets

\* A thread that goes on with a trial.
LEMMA TrialTargets ==
    ASSUME TypeInv, TargetsInv, NEW t \in Thread, LookUpTrial(t) \/ AddTrial(t)
    PROVE  TargetsInv'
<1>1. PICK step \in {"add trial", "execute", "index entities"} :
        /\ pc' = [pc EXCEPT ![t] = step] /\ req' = req /\ snapshots' = snapshots
        /\ step = "execute" => IsRun(t)
  BY DEF LookUpTrial, AddTrial, Goto
<1>2. pc[t] \in {"look up trial", "add trial"} /\ Targets(t)
  BY DEF LookUpTrial, AddTrial, TargetsInv
<1>3. /\ pc'[t] = step /\ req'[t] = req[t]
      /\ \A u \in Thread \ {t} : pc'[u] = pc[u] /\ req'[u] = req[u]
  BY <1>1 DEF TypeInv, ThreadType
<1>4. Targets(t)'
  BY <1>1, <1>2, <1>3 DEF Targets, IsRun
<1> QED
  BY <1>1, <1>3, <1>4, OthersTarget

LEMMA StepKeepsTargets == ASSUME TypeInv, TargetsInv, NEW t \in Thread, Step(t) PROVE TargetsInv'
<1>1. ASSUME Leave(t), snapshots \subseteq snapshots' PROVE TargetsInv'
  <2>1. pc' = [pc EXCEPT ![t] = "idle"] /\ req' = [req EXCEPT ![t] = None]
    BY <1>1 DEF Leave, Goto
  <2> QED
    BY <1>1, <2>1, StepTargets
<1>2. CASE WriteSnapshot(t) \/ AddFails(t) \/ IndexEntities(t) \/ Verify(t)
  <2>1. Leave(t) /\ snapshots \subseteq snapshots'
    BY <1>2 DEF WriteSnapshot, AddFails, IndexEntities, Verify
  <2> QED
    BY <1>1, <2>1
<1>3. ASSUME Submitted(t), snapshots' = snapshots PROVE TargetsInv'
  <2>1. CASE IsRun(t)
    <3>1. pc' = [pc EXCEPT ![t] = "observe"] /\ req' = req
      BY <1>3, <2>1 DEF Submitted, Goto
    <3> QED
      BY <1>3, <3>1, StepTargets
  <2>2. CASE ~IsRun(t)
    BY <1>1, <1>3, <2>2 DEF Submitted
  <2> QED
    BY <2>1, <2>2
<1>4. CASE Record(t)
  BY <1>3, <1>4 DEF Record
<1>5. CASE LookUpEvent(t)
  <2>1. Submitted(t) \/ (pc' = [pc EXCEPT ![t] = "record"] /\ req' = req)
    BY <1>5 DEF LookUpEvent, Goto
  <2>2. snapshots' = snapshots
    BY <1>5 DEF LookUpEvent
  <2> QED
    BY <1>3, <2>1, <2>2, StepTargets
<1>6. CASE Refuse(t)
  <2>1. Leave(t) \/ (pc' = [pc EXCEPT ![t] = "verify"] /\ req' = req)
    BY <1>6 DEF Refuse, Goto
  <2>2. snapshots' = snapshots
    BY <1>6 DEF Refuse
  <2> QED
    BY <1>1, <2>1, <2>2, StepTargets
<1>7. CASE Duplicate(t) \/ Commit(t) \/ Observe(t)
  <2>1. PICK step \in {"look up event", "verify"} :
          pc' = [pc EXCEPT ![t] = step] /\ req' = req /\ snapshots' = snapshots
    BY <1>7 DEF Duplicate, Commit, Observe, Goto
  <2> QED
    BY <2>1, StepTargets
<1> QED
  BY <1>2, <1>4, <1>5, <1>6, <1>7, TrialTargets DEF Step

\* Promotions are only added.
LEMMA ContextBefore ==
    ASSUME TypeInv, NEW t \in Thread, Commit(t), PromotedInContext'
    PROVE  /\ PromotedInContext
           /\ req[t].branch = Canonical /\ req[t].op \notin Command =>
                \E c \in Command : req[t].op.deltas = Handle(c, req[t].op.expected)
<1>1. PICK b, e : b = req[t].branch /\ e = NewEntry(t)
  OBVIOUS
<1>2. b \in DOMAIN state /\ receipts' = [receipts EXCEPT ![b] = Append(@, e)] /\ e.op = req[t].op
  BY <1>1, CommitEffect DEF NewEntry
<1>3. receipts \in [DOMAIN state -> Seq(Entry)] /\ Canonical \in DOMAIN state
  BY DEF TypeInv, StoreType
<1>4. PICK n \in Nat : n = Len(receipts[Canonical])
  BY <1>3
<1>5. /\ \A i \in 1..n : receipts'[Canonical][i] = receipts[Canonical][i]
      /\ \A i \in 1..n : i \in 1..Len(receipts'[Canonical])
      /\ b = Canonical => /\ n + 1 \in 1..Len(receipts'[Canonical])
                          /\ receipts'[Canonical][n + 1] = e
  <2>1. CASE b = Canonical
    <3>1. receipts'[Canonical] = Append(receipts[Canonical], e)
      BY <1>2, <1>3, <2>1
    <3>2. receipts[Canonical] \in Seq(Entry)
      BY <1>3
    <3> QED
      BY <1>4, <3>1, <3>2
  <2>2. CASE b # Canonical
    <3>1. receipts'[Canonical] = receipts[Canonical]
      BY <1>2, <1>3, <2>2
    <3> QED
      BY <1>4, <2>2, <3>1
  <2> QED
    BY <2>1, <2>2
<1>6. PromotedInContext
  BY <1>4, <1>5 DEF PromotedInContext
<1> QED
  BY <1>1, <1>2, <1>5, <1>6 DEF PromotedInContext

\* A step that leaves the store and the snapshots alone.
LEMMA QuietLaw ==
    ASSUME NEW L, LawInv(L), UNCHANGED <<state, receipts, snapshots>>
    PROVE  LawInv(L)'
  BY DEF LawInv, LawHolds, PromotedInContext, Origin

LEMMA CommitLaw ==
    ASSUME NEW L, IsLaw(L), TypeInv, TargetsInv, LawInv(L), NEW t \in Thread, Commit(t)
    PROVE  LawInv(L)'
<1> SUFFICES ASSUME PromotedInContext' PROVE LawHolds(L)'
  BY DEF LawInv
<1>1. PICK b, e : b = req[t].branch /\ e = NewEntry(t)
  OBVIOUS
<1>2. /\ pc[t] = "execute" /\ Carries(t) /\ b \in DOMAIN state
      /\ Outcome(req[t].op, state[b]) # Raises
      /\ state' = [state EXCEPT ![b] = e.after] /\ snapshots' = snapshots
  BY <1>1, CommitEffect
<1>3. LawHolds(L)
  BY ContextBefore DEF LawInv
<1>4. state \in [DOMAIN state -> Projection] /\ state[b] \in L \cap Projection
  BY <1>2, <1>3 DEF LawHolds, TypeInv, StoreType
<1>5. e.after = Apply(state[b], Outcome(req[t].op, state[b]))
  BY <1>1 DEF NewEntry
<1>6. \E c \in Command : Outcome(req[t].op, state[b]) = Handle(c, state[b])
  <2>1. CASE req[t].op \in Command
    BY <2>1 DEF Outcome
  <2>2. CASE req[t].op \notin Command
    <3>1. b = Canonical
      BY <1>1, <1>2, <2>2 DEF TargetsInv, Targets
    <3>2. PICK c \in Command : req[t].op.deltas = Handle(c, req[t].op.expected)
      BY <1>1, <2>2, <3>1, ContextBefore
    <3>3. state[b] = req[t].op.expected /\ Outcome(req[t].op, state[b]) = req[t].op.deltas
      BY <1>2, <2>2 DEF Outcome
    <3> QED
      BY <3>2, <3>3
  <2> QED
    BY <2>1, <2>2
<1>7. e.after \in L
  BY <1>2, <1>4, <1>5, <1>6 DEF IsLaw
<1> QED
  BY <1>2, <1>3, <1>4, <1>7 DEF LawHolds, Origin

LEMMA AddTrialLaw ==
    ASSUME NEW L, TypeInv, TargetsInv, LawInv(L), NEW t \in Thread, AddTrial(t)
    PROVE  LawInv(L)'
<1>1. PICK b : b = req[t].branch
  OBVIOUS
<1>2. /\ pc[t] = "add trial" /\ b \notin DOMAIN state /\ snapshots' = snapshots
      /\ state' = Extended(state, b, b.snapshot.state) /\ receipts' = Extended(receipts, b, <<>>)
  BY <1>1 DEF AddTrial, LoadedProjection
<1>3. b.snapshot \in snapshots
  BY <1>1, <1>2 DEF TargetsInv, Targets
<1>4. receipts'[Canonical] = receipts[Canonical]
  BY <1>2 DEF Extended, TypeInv, StoreType
<1>5. /\ DOMAIN state' = DOMAIN state \cup {b} /\ state'[b] = b.snapshot.state
      /\ \A c \in DOMAIN state : state'[c] = state[c]
  BY <1>2 DEF Extended, TypeInv, StoreType
<1>6. Origin(b) = b.snapshot.state
  BY <1>2 DEF Origin, TypeInv, StoreType
<1> QED
  BY <1>2, <1>3, <1>4, <1>5, <1>6, ZenonT(40) DEF LawInv, LawHolds, PromotedInContext, Origin

LEMMA WriteSnapshotLaw ==
    ASSUME NEW L, TypeInv, LawInv(L), NEW t \in Thread, WriteSnapshot(t)
    PROVE  LawInv(L)'
<1> DEFINE s == [through |-> mark[t], state |-> state[Canonical]]
<1>1. snapshots' = snapshots \cup {s} /\ UNCHANGED <<state, receipts>>
  BY DEF WriteSnapshot
<1>2. s.state = state[Canonical]
  OBVIOUS
<1> HIDE DEF s
<1>3. Canonical \in DOMAIN state
  BY DEF TypeInv, StoreType
<1> QED
  BY <1>1, <1>2, <1>3 DEF LawInv, LawHolds, PromotedInContext, Origin

LEMMA LawStep ==
    ASSUME NEW L, IsLaw(L), TypeInv, TargetsInv, LawInv(L), [Next]_vars
    PROVE  LawInv(L)' /\ TargetsInv'
<1>1. CASE UNCHANGED vars
  BY <1>1, QuietLaw DEF vars, TargetsInv, Targets, IsRun
<1>2. ASSUME NEW t \in Client, Serve(t) PROVE LawInv(L)' /\ TargetsInv'
  <2>1. UNCHANGED <<state, receipts, snapshots>>
    BY <1>2 DEF Serve, ReadBoundary, CreateTrial, Submit, Promote
  <2> QED
    BY <1>2, <2>1, QuietLaw, ServeTargets
<1>3. ASSUME NEW t \in Worker, NEW s \in snapshots, NEW r \in Run, StartRun(t, s, r)
      PROVE  LawInv(L)' /\ TargetsInv'
  <2>1. UNCHANGED <<state, receipts, snapshots>>
    BY <1>3 DEF StartRun
  <2> QED
    BY <1>3, <2>1, QuietLaw, StartRunTargets
<1>4. ASSUME NEW t \in Thread, Step(t) PROVE LawInv(L)' /\ TargetsInv'
  <2>1. ASSUME \/ LookUpTrial(t) \/ AddFails(t) \/ IndexEntities(t) \/ Duplicate(t) \/ Refuse(t)
               \/ LookUpEvent(t) \/ Record(t) \/ Observe(t) \/ Verify(t)
        PROVE  state' = state /\ receipts' = receipts /\ snapshots' = snapshots
    <3>1. CASE LookUpTrial(t) \/ Duplicate(t) \/ LookUpEvent(t) \/ Observe(t)
      BY <3>1 DEF LookUpTrial, Duplicate, LookUpEvent, Observe
    <3>2. CASE AddFails(t) \/ IndexEntities(t) \/ Refuse(t)
      BY <3>2 DEF AddFails, IndexEntities, Refuse
    <3>3. CASE Record(t) \/ Verify(t)
      BY <3>3 DEF Record, Verify
    <3> QED
      BY <2>1, <3>1, <3>2, <3>3
  <2> QED
    BY <1>4, <2>1, QuietLaw, StepKeepsTargets, CommitLaw, AddTrialLaw, WriteSnapshotLaw DEF Step
<1> QED
  BY <1>1, <1>2, <1>3, <1>4 DEF Next

LEMMA LawInit == ASSUME NEW L, IsLaw(L), Init PROVE LawInv(L) /\ TargetsInv
  BY DEF Init, LawInv, LawHolds, IsLaw, TargetsInv, Targets, Origin

\* What no command of a domain ever breaks holds of every branch: of the canonical one and of
\* all trials, whatever runs beside them, as long as reviewers promote in context.
THEOREM LawsHoldOnEveryBranch ==
    ASSUME RulesOK, NEW CONSTANT L, IsLaw(L)
    PROVE  Spec => [](PromotedInContext =>
                        \A b \in DOMAIN state : state[b] \in L /\ Origin(b) \in L)
<1>1. Init => LawInv(L) /\ TargetsInv
  BY LawInit
<1>2. TypeInv /\ TargetsInv /\ LawInv(L) /\ [Next]_vars => LawInv(L)' /\ TargetsInv'
  BY LawStep
<1>3. LawInv(L) => (PromotedInContext => \A b \in DOMAIN state : state[b] \in L /\ Origin(b) \in L)
  BY DEF LawInv, LawHolds
<1>4. TypeInv /\ [Next]_vars => TypeInv'
  BY TypeStep
<1> QED
  BY <1>1, <1>2, <1>3, <1>4, InitType, PTL DEF Spec
\* Projections in which every entity has its place.
Placed == {p \in Projection : PlacesFit(p)}

\* A command of the tabletop commits what its handler has computed.
LEMMA TabletopCommits ==
    ASSUME RulesOK, Tabletop, NEW c \in Command, NEW p \in Projection, Handle(c, p) # Raises
    PROVE  /\ HandleCommand(c, p) # Raises
           /\ Apply(p, Handle(c, p)) = ApplyDeltas(p, HandleCommand(c, p))
           /\ Apply(p, Handle(c, p)) \in Projection
<1>1. Handle(c, p) = HandleCommand(c, p)
  BY DEF Tabletop
<1>2. Handle(c, p) \in Delta
  BY DEF RulesOK
<1>3. Apply(p, Handle(c, p)) = ApplyDeltas(p, Handle(c, p))
  BY <1>2 DEF Tabletop
<1> QED
  BY <1>1, <1>2, <1>3 DEF RulesOK

\* Moves, spawns and promotions leave an entity in the same place in both of its rows, on
\* every branch.
THEOREM PositionsAlwaysAgree ==
    ASSUME RulesOK, Tabletop, PlacesFit(InitProjection), ScenariosKeep(Placed)
    PROVE  Spec => []PositionsAgree
<1>1. ASSUME NEW c \in Command, NEW p \in Placed, Handle(c, p) # Raises
      PROVE  Apply(p, Handle(c, p)) \in Placed
  <2>1. p \in Projection /\ PlacesFit(p)
    BY DEF Placed
  <2>2. c.type = "scenario" => PlacesFit(ApplyDeltas(p, c.deltas))
    BY <2>1 DEF ScenariosKeep, Placed
  <2> QED
    BY <1>1, <2>1, <2>2, TabletopCommits, HandlersKeepPlaces DEF Placed
<1>2. IsLaw(Placed)
  BY <1>1 DEF IsLaw, Placed
<1>3. Init => LawInv(Placed) /\ TargetsInv
  BY <1>2, LawInit
<1>4. TypeInv /\ TargetsInv /\ LawInv(Placed) /\ [Next]_vars => LawInv(Placed)' /\ TargetsInv'
  BY <1>2, LawStep
<1>5. TypeInv /\ [Next]_vars => TypeInv'
  BY TypeStep
<1>6. LawInv(Placed) => PositionsAgree
  BY DEF LawInv, LawHolds, PositionsAgree, Placed, PlacesFit
<1> QED
  BY <1>3, <1>4, <1>5, <1>6, InitType, PTL DEF Spec

(***************************************************************************)
(* What honest commands keep.  That everything stays counted is a law of   *)
(* all commands.  Given that, a commit to a branch that has been traded    *)
(* honestly, and still is, leaves it as rich as it was.                    *)
(***************************************************************************)
Steady == {p \in Placed : Counted(p)}

\* The deltas scenarios come with neither make nor lose anything.
ScenariosConserve ==
    \A c \in Command, p \in Steady : c.type = "scenario" =>
        ApplyDeltas(p, c.deltas) \in Placed /\ AsRich(ApplyDeltas(p, c.deltas), p)

LEMMA SteadyCommits ==
    ASSUME RulesOK, Tabletop, ScenariosConserve, NEW c \in Command, NEW p \in Steady,
           Handle(c, p) # Raises
    PROVE  /\ Apply(p, Handle(c, p)) \in Steady
           /\ Honest(c) => AsRich(Apply(p, Handle(c, p)), p)
<1>1. p \in Projection /\ PlacesFit(p) /\ Counted(p)
  BY DEF Steady, Placed
<1>2. c.type = "scenario" => /\ PlacesFit(ApplyDeltas(p, c.deltas))
                             /\ AsRich(ApplyDeltas(p, c.deltas), p)
  BY DEF ScenariosConserve, Placed
<1>3. PICK q : q = ApplyDeltas(p, HandleCommand(c, p))
  OBVIOUS
<1>4. HandleCommand(c, p) # Raises /\ Apply(p, Handle(c, p)) = q /\ q \in Projection
  BY <1>1, <1>3, TabletopCommits
<1>5. PlacesFit(q)
  BY <1>1, <1>2, <1>3, <1>4, HandlersKeepPlaces
<1>6. Counted(q)
  BY <1>1, <1>2, <1>3, <1>4, HandlersCounted
<1>7. Honest(c) => AsRich(q, p)
  BY <1>1, <1>2, <1>3, <1>4, HandlersAsRich
<1> QED
  BY <1>4, <1>5, <1>6, <1>7 DEF Steady, Placed

Conserved(b) ==
    HonestlyTraded(b) => \A a \in Goods : Total(state[b], a) = Total(Origin(b), a)

Conserves == PromotedInContext => \A b \in DOMAIN state : Conserved(b)

\* A step that leaves a branch alone.
LEMMA SameConserved ==
    ASSUME NEW b, Conserved(b), state'[b] = state[b], receipts'[b] = receipts[b]
    PROVE  Conserved(b)'
  BY DEF Conserved, HonestlyTraded, Origin

\* What an honest receipt is.
HonestOp(op) ==
    IF op \in Command THEN Honest(op)
    ELSE \E c \in Command : Honest(c) /\ op.deltas = Handle(c, op.expected)

LEMMA HonestBefore ==
    ASSUME NEW b, receipts[b] \in Seq(Entry), NEW e \in Entry,
           receipts'[b] = Append(receipts[b], e), HonestlyTraded(b)'
    PROVE  HonestlyTraded(b) /\ HonestOp(e.op)
<1>1. PICK n \in Nat : n = Len(receipts[b])
  OBVIOUS
<1>2. /\ \A i \in 1..n : receipts'[b][i] = receipts[b][i]
      /\ \A i \in 1..n : i \in 1..Len(receipts'[b])
      /\ n + 1 \in 1..Len(receipts'[b]) /\ receipts'[b][n + 1] = e
  BY <1>1
<1>3. \A i \in 1..Len(receipts'[b]) : HonestOp(receipts'[b][i].op)
  BY DEF HonestlyTraded, HonestOp
<1>4. \A i \in 1..n : HonestOp(receipts[b][i].op)
  BY <1>2, <1>3
<1>5. HonestOp(e.op)
  BY <1>2, <1>3
<1> QED
  BY <1>1, <1>4, <1>5 DEF HonestlyTraded, HonestOp

LEMMA CommitConserves ==
    ASSUME RulesOK, Tabletop, ScenariosConserve, TypeInv, LawInv(Steady), Conserves,
           NEW t \in Thread, Commit(t)
    PROVE  Conserves'
<1> SUFFICES ASSUME PromotedInContext', NEW c \in DOMAIN state' PROVE Conserved(c)'
  BY DEF Conserves
<1>1. PICK b, e : b = req[t].branch /\ e = NewEntry(t)
  OBVIOUS
<1>2. /\ b \in DOMAIN state /\ Outcome(req[t].op, state[b]) # Raises
      /\ state' = [state EXCEPT ![b] = e.after]
      /\ receipts' = [receipts EXCEPT ![b] = Append(@, e)] /\ e.op = req[t].op
  BY <1>1, CommitEffect DEF NewEntry
<1>3. /\ state \in [DOMAIN state -> Projection] /\ receipts \in [DOMAIN state -> Seq(Entry)]
      /\ DOMAIN state' = DOMAIN state
  BY <1>2 DEF TypeInv, StoreType
<1>4. PromotedInContext
  BY ContextBefore
<1>5. Conserved(c) /\ state[c] \in Steady
  BY <1>3, <1>4 DEF Conserves, LawInv, LawHolds
<1>6. CASE c # b
  <2>1. state'[c] = state[c] /\ receipts'[c] = receipts[c]
    BY <1>2, <1>3, <1>6
  <2> QED
    BY <1>5, <2>1, SameConserved
<1>7. CASE c = b
  <2> SUFFICES ASSUME HonestlyTraded(c)'
               PROVE  \A a \in Goods : Total(state'[c], a) = Total(Origin(c), a)
    BY DEF Conserved, Origin
  <2>1. state'[c] = e.after /\ receipts'[c] = Append(receipts[c], e) /\ receipts[c] \in Seq(Entry)
    BY <1>2, <1>3, <1>7
  <2>2. e \in Entry
    BY <1>1, <1>2, CommitEffect, EntryType
  <2>3. HonestlyTraded(c) /\ HonestOp(req[t].op)
    BY <1>2, <2>1, <2>2, HonestBefore
  <2>4. \E h \in Command : Honest(h) /\ Outcome(req[t].op, state[c]) = Handle(h, state[c])
    <3>1. CASE req[t].op \in Command
      BY <2>3, <3>1 DEF HonestOp, Outcome
    <3>2. CASE req[t].op \notin Command
      BY <1>2, <1>7, <2>3, <3>2 DEF HonestOp, Outcome
    <3> QED
      BY <3>1, <3>2
  <2>5. PICK h \in Command : Honest(h) /\ Outcome(req[t].op, state[c]) = Handle(h, state[c])
    BY <2>4
  <2>6. e.after = Apply(state[c], Handle(h, state[c])) /\ Handle(h, state[c]) # Raises
    BY <1>1, <1>2, <1>7, <2>5 DEF NewEntry
  <2>7. AsRich(e.after, state[c])
    BY <1>5, <2>5, <2>6, SteadyCommits
  <2> QED
    BY <1>5, <2>1, <2>3, <2>7 DEF AsRich, Conserved
<1> QED
  BY <1>6, <1>7

LEMMA AddTrialConserves ==
    ASSUME TypeInv, Conserves, NEW t \in Thread, AddTrial(t)
    PROVE  Conserves'
<1>1. PICK b : b = req[t].branch
  OBVIOUS
<1>2. /\ b \notin DOMAIN state
      /\ state' = Extended(state, b, b.snapshot.state) /\ receipts' = Extended(receipts, b, <<>>)
  BY <1>1 DEF AddTrial, LoadedProjection
<1>3. Canonical \in DOMAIN state /\ DOMAIN receipts = DOMAIN state
  BY DEF TypeInv, StoreType
<1>4. /\ DOMAIN state' = DOMAIN state \cup {b} /\ state'[b] = b.snapshot.state
      /\ \A c \in DOMAIN state : state'[c] = state[c] /\ receipts'[c] = receipts[c]
  BY <1>2, <1>3 DEF Extended
<1>5. Origin(b) = b.snapshot.state
  BY <1>2, <1>3 DEF Origin
<1>6. Conserved(b)'
  BY <1>4, <1>5 DEF Conserved, Origin
<1>7. PromotedInContext' => PromotedInContext
  BY <1>3, <1>4 DEF PromotedInContext
<1> QED
  BY <1>4, <1>6, <1>7, SameConserved DEF Conserves

LEMMA ConserveStep ==
    ASSUME RulesOK, Tabletop, ScenariosConserve, TypeInv, LawInv(Steady), Conserves, [Next]_vars
    PROVE  Conserves'
<1>1. CASE UNCHANGED <<state, receipts>>
  BY <1>1 DEF Conserves, Conserved, HonestlyTraded, PromotedInContext, Origin
<1>2. ASSUME NEW t \in Client, Serve(t) PROVE UNCHANGED <<state, receipts>>
  BY <1>2 DEF Serve, ReadBoundary, CreateTrial, Submit, Promote
<1>3. ASSUME NEW t \in Worker, NEW s \in snapshots, NEW r \in Run, StartRun(t, s, r)
      PROVE  UNCHANGED <<state, receipts>>
  BY <1>3 DEF StartRun
<1>4. ASSUME NEW t \in Thread, Step(t), ~ Commit(t), ~ AddTrial(t)
      PROVE  UNCHANGED <<state, receipts>>
  <2>1. CASE LookUpTrial(t) \/ Duplicate(t) \/ LookUpEvent(t) \/ Observe(t)
    BY <2>1 DEF LookUpTrial, Duplicate, LookUpEvent, Observe
  <2>2. CASE AddFails(t) \/ IndexEntities(t) \/ Refuse(t)
    BY <2>2 DEF AddFails, IndexEntities, Refuse
  <2>3. CASE Record(t) \/ Verify(t) \/ WriteSnapshot(t)
    BY <2>3 DEF Record, Verify, WriteSnapshot
  <2> QED
    BY <1>4, <2>1, <2>2, <2>3 DEF Step
<1>5. CASE UNCHANGED vars
  BY <1>1, <1>5 DEF vars
<1> QED
  BY <1>1, <1>2, <1>3, <1>4, <1>5, CommitConserves, AddTrialConserves DEF Next

\* No branch gains or loses gold or goods by honest commands and the promotion of what they
\* did, whatever dishonest ones are sent to the other branches.
THEOREM HonestTradesConserve ==
    ASSUME RulesOK, Tabletop, PlacesFit(InitProjection), Counted(InitProjection),
           ScenariosConserve
    PROVE  Spec => []TradesConserve
<1>1. IsLaw(Steady)
  BY SteadyCommits DEF IsLaw, Steady, Placed
<1>2. Init => LawInv(Steady) /\ TargetsInv
  BY <1>1, LawInit
<1>3. TypeInv /\ TargetsInv /\ LawInv(Steady) /\ [Next]_vars => LawInv(Steady)' /\ TargetsInv'
  BY <1>1, LawStep
<1>4. Init => Conserves
  BY DEF Init, Conserves, Conserved, Origin
<1>5. TypeInv /\ LawInv(Steady) /\ Conserves /\ [Next]_vars => Conserves'
  BY ConserveStep
<1>6. TypeInv /\ [Next]_vars => TypeInv'
  BY TypeStep
<1>7. Conserves => TradesConserve
  BY DEF Conserves, Conserved, TradesConserve
<1> QED
  BY <1>2, <1>3, <1>4, <1>5, <1>6, <1>7, InitType, PTL DEF Spec
==============================================================================
