----------------------------- MODULE EventLogProofs -----------------------------
(***************************************************************************)
(* The safety of the event log for any aggregates, identifiers, owners,    *)
(* publishers and tails, and any bound on sequences.                       *)
(***************************************************************************)
EXTENDS EventLog, FiniteSetTheorems, TLAPS

IInv == /\ TypeOK /\ LogContiguous /\ IdsUnique /\ ProjectedOnce
        /\ TailGapFree /\ TailInformed

\* What concatenation yields, position by position.
LEMMA Concatenation ==
  ASSUME NEW S, NEW s \in Seq(S), NEW t \in Seq(S)
  PROVE  /\ s \o t \in Seq(S)
         /\ Len(s \o t) = Len(s) + Len(t)
         /\ \A i \in 1..Len(s) : (s \o t)[i] = s[i]
         /\ \A i \in 1..Len(t) : (s \o t)[Len(s) + i] = t[i]
OBVIOUS

\* What appending one element yields: a projector applying one more event.
LEMMA ElementAppended ==
  ASSUME NEW S, NEW s \in Seq(S), NEW x \in S
  PROVE  /\ Len(s \o <<x>>) = Len(s) + 1
         /\ (s \o <<x>>)[Len(s) + 1] = x
         /\ \A i \in 1..Len(s) : (s \o <<x>>)[i] = s[i]
OBVIOUS

\* An interval of sequences extended by the interval that follows it.
LEMMA IntervalExtended ==
  ASSUME NEW S, NEW got \in Seq(S), NEW read \in Seq(S), NEW after \in Int,
         \A i \in 1..Len(got) : got[i] = after + i,
         \A i \in 1..Len(read) : read[i] = after + Len(got) + i
  PROVE  \A i \in 1..Len(got \o read) : (got \o read)[i] = after + i
<1>1. Len(got) \in Nat /\ Len(read) \in Nat /\ Len(got \o read) = Len(got) + Len(read)
  BY Concatenation
<1>2. SUFFICES ASSUME NEW i \in 1..Len(got \o read), i > Len(got)
               PROVE  (got \o read)[i] = after + i
  BY <1>1, Concatenation
<1>3. PICK j \in 1..Len(read) : i = Len(got) + j
  <2>1. i - Len(got) \in 1..Len(read) /\ i = Len(got) + (i - Len(got))
    BY <1>1, <1>2
  <2> QED BY <2>1
<1>4. (got \o read)[Len(got) + j] = read[j]
  BY Concatenation
<1> QED BY <1>1, <1>3, <1>4

\* The store starts empty and every tail is closed.
LEMMA InitIInv == Init => IInv
BY BoundAssumption DEF Init, IInv, TypeOK, LogContiguous, IdsUnique, ProjectedOnce, TailGapFree,
   TailInformed, Closed, TailState

-----------------------------------------------------------------------------
(* The log.                                                                *)

\* Appending the next event of an aggregate keeps the log contiguous, its
\* identifiers unique and its projections in step.
LEMMA CommitStep ==
  ASSUME TypeOK, LogContiguous, IdsUnique, ProjectedOnce,
         NEW e \in Event, e.seq = latest[e.agg] + 1,
         NEW o \in Owners \cup {None}, Commit(e, o)
  PROVE  /\ latest' \in [Aggregates -> -1..MaxSeq]
         /\ owner' \in [Aggregates -> Owners \cup {None}]
         /\ rows' \subseteq Event
         /\ projected' \in [Aggregates -> Seq(Ids)]
         /\ LogContiguous' /\ IdsUnique' /\ ProjectedOnce'
<1> DEFINE a == e.agg
<1>1. a \in Aggregates /\ e.seq \in 0..MaxSeq /\ e.id \in Ids /\ MaxSeq \in Nat
  BY BoundAssumption DEF Event
<1>2. /\ latest' \in [Aggregates -> -1..MaxSeq]
      /\ owner' \in [Aggregates -> Owners \cup {None}]
      /\ rows' \subseteq Event
      /\ projected' \in [Aggregates -> Seq(Ids)]
  BY <1>1 DEF Commit, TypeOK
<1>3. latest'[a] = e.seq /\ \A b \in Aggregates \ {a} : latest'[b] = latest[b]
  BY <1>1 DEF Commit, TypeOK
<1>4. LogContiguous'
  <2>1. \A r \in rows' : r.seq <= latest'[r.agg]
    BY <1>1, <1>3 DEF Commit, TypeOK, LogContiguous, Event
  <2>2. ASSUME NEW b \in Aggregates, NEW n \in 0..latest'[b]
        PROVE  \E r \in rows' : r.agg = b /\ r.seq = n
    <3>1. CASE b = a /\ n = e.seq
      BY <3>1 DEF Commit
    <3>2. CASE b # a \/ n # e.seq
      <4>1. n \in 0..latest[b]
        BY <1>1, <1>3, <3>2 DEF TypeOK
      <4> QED BY <4>1 DEF LogContiguous, Commit
    <3> QED BY <3>1, <3>2
  <2>3. ASSUME NEW r \in rows', NEW s \in rows', r.agg = s.agg, r.seq = s.seq
        PROVE  r = s
    <3>1. \A q \in rows : q.agg = a => q.seq # e.seq
      BY <1>1 DEF LogContiguous, TypeOK, Event
    <3> QED BY <2>3, <3>1 DEF Commit, LogContiguous
  <2> QED BY <2>1, <2>2, <2>3 DEF LogContiguous
<1>5. IdsUnique'
  BY DEF Commit, IdsUnique, IdUnused
<1>6. ProjectedOnce'
  <2>1. /\ projected'[a] = projected[a] \o <<e.id>>
        /\ \A b \in Aggregates \ {a} : projected'[b] = projected[b]
    BY <1>1 DEF Commit, TypeOK
  <2>2. projected[a] \in Seq(Ids) /\ Len(projected[a]) = e.seq /\ e.seq \in Nat
    BY <1>1 DEF TypeOK, ProjectedOnce
  <2>4. /\ Len(projected'[a]) = e.seq + 1 /\ projected'[a][e.seq + 1] = e.id
        /\ \A n \in 1..e.seq : projected'[a][n] = projected[a][n]
    <3> DEFINE before == projected[a]
               after == projected'[a]
               id == e.id
               n == e.seq
    <3>1. before \in Seq(Ids) /\ id \in Ids /\ n \in Nat /\ Len(before) = n /\ after = before \o <<id>>
      BY <1>1, <2>1, <2>2
    <3> HIDE DEF before, after, id, n
    <3>2. Len(after) = n + 1 /\ after[n + 1] = id /\ \A i \in 1..n : after[i] = before[i]
      BY <3>1, ElementAppended
    <3> QED BY <3>2 DEF before, after, id, n
  <2>5. ASSUME NEW b \in Aggregates
        PROVE  /\ Len(projected'[b]) = latest'[b] + 1
               /\ \A r \in rows' : r.agg = b => projected'[b][r.seq + 1] = r.id
    <3>1. CASE b # a
      BY <1>3, <2>1, <3>1 DEF ProjectedOnce, Commit
    <3>2. CASE b = a
      <4>1. ASSUME NEW r \in rows, r.agg = a PROVE projected'[a][r.seq + 1] = r.id
        <5>1. r.seq + 1 \in 1..e.seq
          BY <1>1, <4>1 DEF LogContiguous, TypeOK, Event
        <5>2. projected[a][r.seq + 1] = r.id
          BY <1>1, <4>1 DEF ProjectedOnce
        <5> QED BY <2>4, <5>1, <5>2
      <4> QED BY <1>3, <2>4, <3>2, <4>1 DEF Commit
    <3> QED BY <3>1, <3>2
  <2> QED BY <2>5 DEF ProjectedOnce
<1> QED BY <1>2, <1>4, <1>5, <1>6

\* Where a publisher appends, the tails of that aggregate have a wake on its way.
LEMMA PublishedStep ==
  ASSUME IInv, NEW p \in Publishers, NEW e \in Event, NEW o \in Owners \cup {None},
         Ready(p), e.seq = latest[e.agg] + 1, Commit(e, o),
         publisher' = [publisher EXCEPT ![p] = e.agg], UNCHANGED tail
  PROVE  IInv'
<1>1. TypeOK /\ e.agg \in Aggregates
  BY DEF IInv, Event
<1>2. /\ latest' \in [Aggregates -> -1..MaxSeq]
      /\ owner' \in [Aggregates -> Owners \cup {None}]
      /\ rows' \subseteq Event
      /\ projected' \in [Aggregates -> Seq(Ids)]
      /\ LogContiguous' /\ IdsUnique' /\ ProjectedOnce'
  BY CommitStep DEF IInv
<1>3. TypeOK'
  BY <1>1, <1>2 DEF TypeOK
<1>4. TailGapFree'
  BY DEF IInv, TailGapFree
<1>5. TailInformed'
  <2>1. publisher'[p] = e.agg /\ \A q \in Publishers \ {p} : publisher'[q] = publisher[q]
    BY <1>1 DEF TypeOK
  <2>2. \A b \in Aggregates \ {e.agg} : latest'[b] = latest[b]
    BY <1>1 DEF Commit, TypeOK
  <2>3. SUFFICES ASSUME NEW t \in Tails, tail[t].pc # "closed", latest'[tail[t].agg] > tail[t].cursor,
                        ~(tail[t].pc \in {"subscribed", "woken"} \/ tail[t].wake)
                 PROVE  \E q \in Publishers : publisher'[q] = tail[t].agg
    BY DEF TailInformed
  <2>4. CASE tail[t].agg = e.agg
    BY <2>1, <2>4
  <2>5. CASE tail[t].agg # e.agg
    <3>1. latest'[tail[t].agg] = latest[tail[t].agg]
      BY <1>1, <2>5 DEF Commit, TypeOK
    <3>2. PICK q \in Publishers : publisher[q] = tail[t].agg
      BY <2>3, <3>1 DEF IInv, TailInformed
    <3>3. q # p
      <4>1. tail[t].agg \in Aggregates
        BY <1>1, <2>3 DEF TypeOK, TailState, Open, Closed
      <4> QED BY <3>2, <4>1, NoneAssumption DEF Ready
    <3> QED BY <2>1, <3>2, <3>3
  <2> QED BY <2>4, <2>5
<1> QED BY <1>2, <1>3, <1>4, <1>5 DEF IInv

\* Claims, removals and exact replays write no event.
LEMMA RemoveStep ==
  ASSUME IInv, NEW a \in Aggregates, Remove(a)
  PROVE  IInv'
<1>1. TypeOK
  BY DEF IInv
<1>2. /\ latest'[a] = -1 /\ \A b \in Aggregates \ {a} : latest'[b] = latest[b]
      /\ projected'[a] = << >> /\ \A b \in Aggregates \ {a} : projected'[b] = projected[b]
  BY <1>1 DEF Remove, TypeOK
<1>3. TypeOK'
  BY <1>1, BoundAssumption DEF Remove, TypeOK
<1>4. LogContiguous'
  <2>1. \A r \in rows' : r.seq <= latest'[r.agg]
    BY <1>1, <1>2 DEF Remove, IInv, LogContiguous, TypeOK, Event
  <2>2. ASSUME NEW b \in Aggregates, NEW n \in 0..latest'[b]
        PROVE  \E r \in rows' : r.agg = b /\ r.seq = n
    <3>1. b # a /\ n \in 0..latest[b]
      BY <1>2
    <3> QED BY <3>1 DEF Remove, IInv, LogContiguous
  <2>3. \A r, s \in rows' : r.agg = s.agg /\ r.seq = s.seq => r = s
    BY DEF Remove, IInv, LogContiguous
  <2> QED BY <2>1, <2>2, <2>3 DEF LogContiguous
<1>5. IdsUnique'
  BY DEF Remove, IInv, IdsUnique
<1>6. ProjectedOnce'
  BY <1>2 DEF Remove, IInv, ProjectedOnce
<1>7. TailGapFree'
  BY DEF Remove, IInv, TailGapFree
<1>8. TailInformed'
  <2> SUFFICES ASSUME NEW t \in Tails, tail[t].pc # "closed", latest'[tail[t].agg] > tail[t].cursor
               PROVE  latest[tail[t].agg] > tail[t].cursor
    BY DEF Remove, IInv, TailInformed
  <2>1. tail[t].agg \in Aggregates /\ tail[t].cursor \in -1..MaxSeq
    BY <1>1 DEF TypeOK, TailState, Open, Closed
  <2> QED BY <1>2, <2>1, BoundAssumption
<1> QED BY <1>3, <1>4, <1>5, <1>6, <1>7, <1>8 DEF IInv

\* A step that changes only the owner of an aggregate.
LEMMA OwnerStep ==
  ASSUME IInv, owner' \in [Aggregates -> Owners \cup {None}],
         UNCHANGED <<latest, rows, projected, publisher, tail>>
  PROVE  IInv'
BY DEF IInv, TypeOK, LogContiguous, IdsUnique, ProjectedOnce, TailGapFree, TailInformed

-----------------------------------------------------------------------------
(* The tails.                                                              *)

\* A step of one tail keeps the invariant if the tail keeps its shape.
LEMMA TailStep ==
  ASSUME IInv, NEW t \in Tails, NEW new \in TailState,
         tail' = [tail EXCEPT ![t] = new],
         UNCHANGED <<latest, owner, rows, projected, publisher>>,
         new.pc # "closed" =>
           /\ new.cursor = new.after + Len(new.got)
           /\ \A i \in 1..Len(new.got) : new.got[i] = new.after + i
           /\ latest[new.agg] > new.cursor =>
                \/ new.pc \in {"subscribed", "woken"} \/ new.wake
                \/ \E p \in Publishers : publisher[p] = new.agg
  PROVE  IInv'
<1>1. TypeOK /\ TypeOK'
  BY DEF IInv, TypeOK
<1>2. LogContiguous' /\ IdsUnique' /\ ProjectedOnce'
  BY DEF IInv, LogContiguous, IdsUnique, ProjectedOnce
<1>3. tail'[t] = new /\ \A u \in Tails \ {t} : tail'[u] = tail[u]
  BY <1>1 DEF TypeOK
<1>4. TailGapFree' /\ TailInformed'
  BY <1>3 DEF IInv, TailGapFree, TailInformed
<1> QED BY <1>1, <1>2, <1>4 DEF IInv

\* The size of an interval of sequences, and the rank of each of them in it.
LEMMA IntervalRank ==
  ASSUME NEW cursor \in Int, NEW last \in Int, NEW unread, unread = (cursor + 1)..last
  PROVE  /\ Cardinality(unread) = IF last > cursor THEN last - cursor ELSE 0
         /\ \A k \in unread : Cardinality({m \in unread : m <= k}) = k - cursor
<1> DEFINE first == cursor + 1
<1>1. first \in Int /\ unread = first..last
  OBVIOUS
<1>2. ASSUME NEW k \in Int PROVE Cardinality(first..k) = IF first > k THEN 0 ELSE k - first + 1
  <2> HIDE DEF first
  <2> QED BY <1>1, FS_Interval
<1>3. Cardinality(unread) = IF last > cursor THEN last - cursor ELSE 0
  <2>1. Cardinality(unread) = IF first > last THEN 0 ELSE last - first + 1
    <3> HIDE DEF first
    <3> QED BY <1>1, <1>2
  <2> QED BY <2>1
<1>4. ASSUME NEW k \in unread PROVE Cardinality({m \in unread : m <= k}) = k - cursor
  <2>1. k \in Int /\ ~(first > k) /\ k <= last
    BY <1>1
  <2>2. {m \in unread : m <= k} = first..k
    BY <1>1, <2>1
  <2>3. Cardinality(first..k) = k - first + 1
    <3> HIDE DEF first
    <3> QED BY <1>2, <2>1
  <2>4. k - first + 1 = k - cursor
    BY <2>1
  <2> HIDE DEF first
  <2> QED BY <2>2, <2>3, <2>4
<1> QED BY <1>3, <1>4

\* What a read returns: the sequences from the cursor to the latest, so the
\* cursor ends at whichever is larger.
LEMMA ReadInterval ==
  ASSUME TypeOK, LogContiguous, NEW a \in Aggregates, NEW cursor \in -1..MaxSeq
  PROVE  LET read == SeqsAfter(a, cursor) IN
         /\ read \in Seq(0..MaxSeq)
         /\ Len(read) = IF latest[a] > cursor THEN latest[a] - cursor ELSE 0
         /\ \A i \in 1..Len(read) : read[i] = cursor + i
<1> DEFINE unread == {r.seq : r \in {q \in rows : q.agg = a /\ q.seq > cursor}}
           n == IF latest[a] > cursor THEN latest[a] - cursor ELSE 0
<1>1. n \in Nat /\ latest[a] \in -1..MaxSeq /\ MaxSeq \in Nat
  BY BoundAssumption DEF TypeOK
<1>2. unread = (cursor + 1)..latest[a]
  <2>1. ASSUME NEW k \in unread PROVE k \in (cursor + 1)..latest[a]
    BY <1>1 DEF LogContiguous, TypeOK, Event
  <2>2. ASSUME NEW k \in (cursor + 1)..latest[a] PROVE k \in unread
    <3>1. k \in 0..latest[a] /\ k > cursor
      BY <1>1
    <3> QED BY <3>1 DEF LogContiguous
  <2> QED BY <2>1, <2>2
<1> DEFINE last == latest[a]
           rank(k) == Cardinality({m \in unread : m <= k})
<1>3. /\ Cardinality(unread) = n
      /\ \A k \in unread : rank(k) = k - cursor
  <2>1. cursor \in Int /\ last \in Int /\ unread = (cursor + 1)..last
    BY <1>1, <1>2
  <2> HIDE DEF unread, last
  <2>2. Cardinality(unread) = IF last > cursor THEN last - cursor ELSE 0
    BY <2>1, IntervalRank
  <2>3. \A k \in unread : Cardinality({m \in unread : m <= k}) = k - cursor
    BY <2>1, IntervalRank
  <2> QED BY <2>2, <2>3 DEF last
<1>4. ASSUME NEW i \in 1..n
      PROVE  (CHOOSE k \in unread : rank(k) = i) = cursor + i
  <2> HIDE DEF unread, rank
  <2>1. cursor + i \in unread /\ unread \subseteq Int
    <3>1. i <= latest[a] - cursor /\ i \in Nat
      BY <1>1
    <3>2. cursor + i \in (cursor + 1)..latest[a]
      BY <1>1, <3>1
    <3> QED BY <1>2, <3>2
  <2>2. \A k \in unread : rank(k) = i <=> k = cursor + i
    BY <1>1, <1>3, <2>1
  <2> QED BY <2>1, <2>2
<1>5. SeqsAfter(a, cursor) = [i \in 1..n |-> cursor + i]
  <2>1. SeqsAfter(a, cursor)
          = [i \in 1..n |-> CHOOSE k \in unread : rank(k) = i]
    BY <1>3, Zenon DEF SeqsAfter
  <2> HIDE DEF unread, n, rank
  <2> QED BY <1>4, <2>1
<1> HIDE DEF n
<1>6. \A i \in 1..n : cursor + i \in 0..MaxSeq
  BY <1>1 DEF n
<1>7. [i \in 1..n |-> cursor + i] \in Seq(0..MaxSeq) /\ Len([i \in 1..n |-> cursor + i]) = n
  BY <1>1, <1>6
<1> QED BY <1>5, <1>7 DEF n

\* A tail reads the rows behind its cursor.
LEMMA ReadStep ==
  ASSUME IInv, NEW t \in Tails, Read(t)
  PROVE  IInv'
<1> DEFINE a == tail[t].agg
           cursor == tail[t].cursor
           read == SeqsAfter(a, cursor)
           new == AfterRead(t)
<1>1. TypeOK /\ tail[t] \in Open /\ MaxSeq \in Nat
  BY BoundAssumption DEF IInv, TypeOK, Read, TailState, Closed
<1>2. /\ a \in Aggregates /\ cursor \in -1..MaxSeq /\ tail[t].got \in Seq(0..MaxSeq)
      /\ tail[t].after \in -1..MaxSeq /\ latest[a] \in -1..MaxSeq
  BY <1>1 DEF Open, TypeOK
<1>3. /\ read \in Seq(0..MaxSeq)
      /\ Len(read) = IF latest[a] > cursor THEN latest[a] - cursor ELSE 0
      /\ \A i \in 1..Len(read) : read[i] = cursor + i
  BY <1>1, <1>2, ReadInterval DEF IInv
<1>4. /\ tail[t].cursor = tail[t].after + Len(tail[t].got)
      /\ \A i \in 1..Len(tail[t].got) : tail[t].got[i] = tail[t].after + i
  BY <1>1 DEF IInv, TailGapFree, Open
<1> DEFINE moved == IF read = << >> THEN cursor ELSE read[Len(read)]
<1>5. moved \in -1..MaxSeq /\ moved = cursor + Len(read) /\ moved >= latest[a]
  <2>1. CASE read = << >>
    BY <1>2, <1>3, <2>1
  <2>2. CASE read # << >>
    <3>1. Len(read) \in Nat \ {0}
      BY <1>3, <2>2
    <3> QED BY <1>2, <1>3, <2>2, <3>1
  <2> QED BY <2>1, <2>2
<1>6. /\ new.pc = "live" /\ new.agg = a /\ new.after = tail[t].after
      /\ new.got = tail[t].got \o read /\ new.cursor = moved
      /\ new.wake = tail[t].wake /\ new \in Open
  <2>1. new = [tail[t] EXCEPT !.pc = "live", !.got = tail[t].got \o read, !.cursor = moved]
    BY <1>1 DEF AfterRead, Open
  <2>2. tail[t].got \o read \in Seq(0..MaxSeq)
    BY <1>2, <1>3, Concatenation
  <2> HIDE DEF new, moved, read, cursor
  <2> QED BY <1>1, <1>5, <2>1, <2>2 DEF Open
<1> HIDE DEF new, moved
<1>7. \A i \in 1..Len(new.got) : new.got[i] = new.after + i
  <2> DEFINE got == tail[t].got
             after == tail[t].after
  <2>1. /\ got \in Seq(0..MaxSeq) /\ after \in Int
        /\ \A i \in 1..Len(got) : got[i] = after + i
        /\ \A i \in 1..Len(read) : read[i] = after + Len(got) + i
    BY <1>2, <1>3, <1>4
  <2>2. new.got = got \o read /\ new.after = after
    BY <1>6
  <2> HIDE DEF got, after, read
  <2> QED BY <1>3, <2>1, <2>2, IntervalExtended
<1>8. new.cursor = new.after + Len(new.got) /\ ~(latest[new.agg] > new.cursor)
  <2>1. /\ Len(tail[t].got) \in Nat /\ Len(read) \in Nat
        /\ Len(new.got) = Len(tail[t].got) + Len(read)
    <3> DEFINE got == tail[t].got
    <3>1. new.got = got \o read /\ got \in Seq(0..MaxSeq) /\ read \in Seq(0..MaxSeq)
      BY <1>2, <1>3, <1>6
    <3> HIDE DEF got, read
    <3>2. Len(got) \in Nat /\ Len(read) \in Nat /\ Len(got \o read) = Len(got) + Len(read)
      BY <3>1, Concatenation
    <3> QED BY <3>1, <3>2 DEF got
  <2>2. new.cursor = tail[t].after + Len(tail[t].got) + Len(read) /\ new.after = tail[t].after
    BY <1>4, <1>5, <1>6
  <2> HIDE DEF read
  <2>3. new.cursor = new.after + Len(new.got)
    <3> DEFINE m == Len(tail[t].got)
               n == Len(read)
    <3>1. m \in Nat /\ n \in Nat /\ tail[t].after \in Int
      BY <1>2, <2>1
    <3>2. new.cursor = tail[t].after + m + n /\ Len(new.got) = m + n
      BY <2>1, <2>2
    <3> HIDE DEF m, n
    <3> QED BY <2>2, <3>1, <3>2
  <2>4. ~(latest[new.agg] > new.cursor)
    BY <1>2, <1>5, <1>6
  <2> QED BY <2>3, <2>4
<1>9. new \in TailState /\ tail' = [tail EXCEPT ![t] = new]
      /\ UNCHANGED <<latest, owner, rows, projected, publisher>>
  BY <1>6 DEF Read, new, TailState
<1> QED BY <1>7, <1>8, <1>9, TailStep

\* A tail registers for wakes, before its first read.
LEMMA SubscribeStep ==
  ASSUME IInv, NEW t \in Tails, NEW a \in Aggregates, NEW after \in -1..MaxSeq, Subscribe(t, a, after)
  PROVE  IInv'
<1> DEFINE new == Started(a, after)
<1>1. new = [pc |-> "subscribed", agg |-> a, wake |-> FALSE, after |-> after, cursor |-> after, got |-> << >>]
  BY DEF Started
<1>2. /\ new \in TailState /\ new.pc = "subscribed" /\ Len(new.got) = 0
      /\ new.cursor = new.after + Len(new.got)
  <2>1. << >> \in Seq(0..MaxSeq) /\ Len(<< >>) = 0
    OBVIOUS
  <2> HIDE DEF new
  <2> QED BY <1>1, <2>1 DEF TailState, Open
<1>3. tail' = [tail EXCEPT ![t] = new] /\ UNCHANGED <<latest, owner, rows, projected, publisher>>
  BY DEF Subscribe
<1> HIDE DEF new
<1>4. \A i \in 1..Len(new.got) : new.got[i] = new.after + i
  BY <1>2
<1> QED BY <1>2, <1>3, <1>4, TailStep

\* A tail takes the wake that waits for it.
LEMMA TakeWakeStep ==
  ASSUME IInv, NEW t \in Tails, TakeWake(t)
  PROVE  IInv'
<1> DEFINE new == [tail[t] EXCEPT !.pc = "woken", !.wake = FALSE]
<1>1. tail[t] \in Open
  BY DEF IInv, TypeOK, TakeWake, TailState, Closed
<1>2. /\ new \in TailState /\ new.pc = "woken" /\ new.got = tail[t].got
      /\ new.cursor = tail[t].cursor /\ new.after = tail[t].after
  BY <1>1 DEF TailState, Open
<1>3. tail' = [tail EXCEPT ![t] = new] /\ UNCHANGED <<latest, owner, rows, projected, publisher>>
  BY <1>1 DEF TakeWake, IInv, TypeOK, Open
<1>4. /\ tail[t].cursor = tail[t].after + Len(tail[t].got)
      /\ \A i \in 1..Len(tail[t].got) : tail[t].got[i] = tail[t].after + i
  BY <1>1 DEF IInv, TailGapFree, Open
<1> HIDE DEF new
<1> QED BY <1>2, <1>3, <1>4, TailStep

\* A tail closes.
LEMMA CloseStep ==
  ASSUME IInv, NEW t \in Tails, Close(t)
  PROVE  IInv'
BY TailStep DEF Close, Closed, TailState

\* The wakes of a publisher reach every tail registered for its aggregate.
LEMMA WakeStep ==
  ASSUME IInv, NEW p \in Publishers, Wake(p)
  PROVE  IInv'
<1>1. TypeOK /\ publisher[p] \in Aggregates
  BY DEF IInv, TypeOK, Wake, Ready
<1>2. ASSUME NEW t \in Tails
      PROVE  /\ tail[t].agg = publisher[p] => tail'[t] = [tail[t] EXCEPT !.wake = TRUE] /\ tail[t] \in Open
             /\ tail[t].agg # publisher[p] => tail'[t] = tail[t]
  BY <1>1, NoneAssumption DEF Wake, Woken, TypeOK, TailState, Closed
<1>3. ASSUME NEW t \in Tails
      PROVE  /\ tail'[t].pc = tail[t].pc /\ tail'[t].agg = tail[t].agg /\ tail'[t].after = tail[t].after
             /\ tail'[t].cursor = tail[t].cursor /\ tail'[t].got = tail[t].got
             /\ tail[t].agg = publisher[p] => tail'[t].wake
             /\ tail[t].wake => tail'[t].wake
             /\ tail'[t] \in TailState
  BY <1>1, <1>2 DEF TypeOK, TailState, Open
<1>4. TypeOK'
  BY <1>1, <1>3 DEF TypeOK, Wake
<1>5. LogContiguous' /\ IdsUnique' /\ ProjectedOnce'
  BY DEF IInv, LogContiguous, IdsUnique, ProjectedOnce, Wake
<1>6. TailGapFree'
  BY <1>3 DEF IInv, TailGapFree
<1>7. TailInformed'
  <2>1. \A q \in Publishers \ {p} : publisher'[q] = publisher[q]
    BY <1>1 DEF Wake, TypeOK
  <2> QED BY <1>3, <2>1 DEF IInv, TailInformed, Wake
<1> QED BY <1>4, <1>5, <1>6, <1>7 DEF IInv

-----------------------------------------------------------------------------
(* The theorems.                                                           *)

\* Every step, stuttering included, keeps the invariant.
LEMMA NextIInv == IInv /\ [Next]_vars => IInv'
<1> SUFFICES ASSUME IInv, [Next]_vars PROVE IInv'
  OBVIOUS
<1>1. ASSUME NEW p \in Publishers, NEW a \in Aggregates, NEW id \in Ids, NEW content \in Contents,
             Publish(p, a, id, content)
      PROVE  IInv'
  <2> DEFINE e == [id |-> id, agg |-> a, seq |-> latest[a] + 1, content |-> content]
  <2>1. e \in Event /\ e.agg = a /\ e.seq = latest[a] + 1 /\ owner[a] \in Owners \cup {None}
    BY <1>1, BoundAssumption DEF Publish, Event, IInv, TypeOK
  <2>2. Ready(p) /\ Commit(e, owner[a]) /\ publisher' = [publisher EXCEPT ![p] = a] /\ UNCHANGED tail
    BY <1>1 DEF Publish
  <2> HIDE DEF e
  <2> QED BY <2>1, <2>2, PublishedStep
<1>2. ASSUME NEW p \in Publishers, NEW e \in Event, NEW o \in Owners \cup {None}, Replay(p, e, o)
      PROVE  IInv'
  <2>1. CASE ReplayNext(p, e, o)
    <3>1. ClaimedBy(e.agg, o) \in Owners \cup {None}
      BY DEF ClaimedBy, IInv, TypeOK, Event
    <3> QED BY <2>1, <3>1, PublishedStep DEF ReplayNext
  <2>2. CASE ReplayStored(e, o)
    BY <2>2, OwnerStep DEF ReplayStored, IInv, TypeOK
  <2> QED BY <1>2, <2>1, <2>2 DEF Replay
<1>3. ASSUME NEW p \in Publishers, Wake(p) PROVE IInv'
  BY <1>3, WakeStep
<1>4. ASSUME NEW a \in Aggregates, NEW o \in Owners, Claim(a, o) PROVE IInv'
  BY <1>4, OwnerStep DEF Claim, IInv, TypeOK
<1>5. ASSUME NEW a \in Aggregates, Remove(a) PROVE IInv'
  BY <1>5, RemoveStep
<1>6. ASSUME NEW t \in Tails, NEW a \in Aggregates, NEW after \in -1..MaxSeq, Subscribe(t, a, after)
      PROVE  IInv'
  BY <1>6, SubscribeStep
<1>7. ASSUME NEW t \in Tails, Read(t) \/ TakeWake(t) \/ Close(t) PROVE IInv'
  BY <1>7, ReadStep, TakeWakeStep, CloseStep
<1>8. CASE UNCHANGED vars
  BY <1>8 DEF vars, IInv, TypeOK, LogContiguous, IdsUnique, ProjectedOnce, TailGapFree, TailInformed
<1> QED BY <1>1, <1>2, <1>3, <1>4, <1>5, <1>6, <1>7, <1>8 DEF Next

\* The invariant holds in every reachable state.
THEOREM Invariance == Spec => []IInv
<1>1. IInv /\ [Next]_vars => IInv'
  BY NextIInv
<1> QED BY InitIInv, <1>1, PTL DEF Spec

\* Every variable keeps its type.
THEOREM TypeCorrect == Spec => []TypeOK
BY Invariance, PTL DEF IInv

\* The log of every aggregate is contiguous from 0, one event per sequence.
THEOREM Contiguity == Spec => []LogContiguous
BY Invariance, PTL DEF IInv

\* Projections and log agree, event by event: nothing is projected twice.
THEOREM ProjectionExact == Spec => []ProjectedOnce
BY Invariance, PTL DEF IInv

\* A durable stream never skips or repeats an event.
THEOREM TailsGapFree == Spec => []TailGapFree
BY Invariance, PTL DEF IInv

\* No event a tail lacks is without a wake, a read or a publisher on its way.
THEOREM TailsInformed == Spec => []TailInformed
BY Invariance, PTL DEF IInv

\* An identifier names one event of the store.
THEOREM IdentifiersUnique == Spec => []IdsUnique
BY Invariance, PTL DEF IInv

\* No step but a removal takes an event out of the log or changes it.
THEOREM LogAppendOnly == Spec => AppendOnly
<1> DEFINE Kept == \A r \in rows : r \in rows' \/ latest'[r.agg] = -1
<1>1. IInv /\ [Next]_vars => [Kept]_vars
  <2> SUFFICES ASSUME IInv, Next PROVE Kept
    BY DEF vars
  <2>1. rows' = rows \/ (\E e \in Event, o \in Owners \cup {None} : Commit(e, o))
                    \/ \E a \in Aggregates : Remove(a)
    <3>1. ASSUME NEW p \in Publishers, NEW a \in Aggregates, NEW id \in Ids, NEW content \in Contents,
                 Publish(p, a, id, content)
          PROVE  \E e \in Event, o \in Owners \cup {None} : Commit(e, o)
      <4> DEFINE e == [id |-> id, agg |-> a, seq |-> latest[a] + 1, content |-> content]
      <4>1. e \in Event /\ owner[a] \in Owners \cup {None} /\ Commit(e, owner[a])
        BY <3>1, BoundAssumption DEF Publish, Event, IInv, TypeOK
      <4> HIDE DEF e
      <4> QED BY <4>1
    <3>2. ASSUME NEW p \in Publishers, NEW e \in Event, NEW o \in Owners \cup {None}, Replay(p, e, o)
          PROVE  rows' = rows \/ \E o2 \in Owners \cup {None} : Commit(e, o2)
      <4>1. ClaimedBy(e.agg, o) \in Owners \cup {None}
        BY DEF ClaimedBy, IInv, TypeOK, Event
      <4> QED BY <3>2, <4>1 DEF Replay, ReplayNext, ReplayStored
    <3> QED BY <3>1, <3>2 DEF Next, Wake, Claim, Subscribe, Read, TakeWake, Close
  <2>2. ASSUME NEW a \in Aggregates, Remove(a) PROVE Kept
    BY <2>2 DEF Remove, IInv, TypeOK
  <2> QED BY <2>1, <2>2 DEF Commit
<1> QED BY Invariance, <1>1, PTL DEF Spec, AppendOnly

-----------------------------------------------------------------------------
(* The store is a journal per aggregate.                                   *)

Told(r) == [id |-> r.id, content |-> r.content]

Entries == [id : Ids, content : Contents]

\* The journal of an aggregate is made of its rows, the one with sequence n at position n.
JournalsSound ==
  \A a \in Aggregates :
    /\ journals[a] \in Seq(Entries)
    /\ Len(journals[a]) = latest[a] + 1
    /\ \A r \in rows : r.agg = a => r.seq + 1 \in 1..latest[a] + 1 /\ journals[a][r.seq + 1] = Told(r)
    /\ \A i \in 1..latest[a] + 1 : \E r \in rows : r.agg = a /\ r.seq + 1 = i

\* Sequences with the same elements are the same.
LEMMA SameSequence ==
  ASSUME NEW S, NEW s \in Seq(S), NEW t \in Seq(S), Len(s) = Len(t), \A i \in 1..Len(s) : s[i] = t[i]
  PROVE  s = t
OBVIOUS

LEMMA JournalsHold == IInv => JournalsSound
<1> SUFFICES ASSUME IInv, NEW a \in Aggregates
             PROVE  /\ journals[a] \in Seq(Entries)
                    /\ Len(journals[a]) = latest[a] + 1
                    /\ \A r \in rows : r.agg = a => r.seq + 1 \in 1..latest[a] + 1 /\ journals[a][r.seq + 1] = Told(r)
                    /\ \A i \in 1..latest[a] + 1 : \E r \in rows : r.agg = a /\ r.seq + 1 = i
  BY DEF JournalsSound
<1>0. TypeOK /\ LogContiguous /\ latest[a] \in Int /\ latest[a] + 1 \in Nat
  BY BoundAssumption DEF IInv, TypeOK
<1>1. journals[a] = [i \in 1..latest[a] + 1 |-> Told(RowAt(a, i - 1))]
  BY DEF journals, Told
<1>2. ASSUME NEW r \in rows, r.agg = a
      PROVE  r.seq + 1 \in 1..latest[a] + 1 /\ RowAt(a, r.seq) = r
  <2>1. r.seq \in Nat /\ r.seq <= latest[a]
    BY <1>0, <1>2, BoundAssumption DEF TypeOK, LogContiguous, Event
  <2>2. \A q \in rows : q.agg = a /\ q.seq = r.seq => q = r
    BY <1>0, <1>2 DEF LogContiguous
  <2> QED BY <1>0, <1>2, <2>1, <2>2 DEF RowAt
<1>3. ASSUME NEW i \in 1..latest[a] + 1 PROVE \E r \in rows : r.agg = a /\ r.seq + 1 = i
  <2>1. i - 1 \in 0..latest[a]
    BY <1>0
  <2>2. PICK r \in rows : r.agg = a /\ r.seq = i - 1
    BY <1>0, <2>1 DEF LogContiguous
  <2> QED BY <1>0, <2>2
<1>4. ASSUME NEW r \in rows, r.agg = a PROVE journals[a][r.seq + 1] = Told(r)
  <2>1. r.seq + 1 \in 1..latest[a] + 1 /\ RowAt(a, r.seq) = r /\ r.seq \in Int
    BY <1>0, <1>2, <1>4 DEF TypeOK, Event
  <2>2. (r.seq + 1) - 1 = r.seq
    BY <2>1
  <2> QED BY <1>1, <2>1, <2>2
<1>5. ASSUME NEW i \in 1..latest[a] + 1 PROVE Told(RowAt(a, i - 1)) \in Entries
  <2>1. PICK r \in rows : r.agg = a /\ r.seq + 1 = i
    BY <1>3
  <2>2. r \in Event /\ i - 1 = r.seq
    BY <1>0, <2>1 DEF TypeOK, Event
  <2>3. RowAt(a, i - 1) = r
    BY <1>2, <2>1, <2>2
  <2> QED BY <2>2, <2>3 DEF Told, Entries, Event
<1> QED BY <1>0, <1>1, <1>2, <1>3, <1>4, <1>5

\* A commit adds an entry at the end of one journal.
LEMMA CommitTold ==
  ASSUME IInv, IInv', NEW e \in Event, NEW o, e.seq = latest[e.agg] + 1, Commit(e, o), UNCHANGED tail
  PROVE  Abstract!Add(e.agg)
<1> DEFINE a == e.agg
<1>1. JournalsSound /\ JournalsSound'
  BY JournalsHold, PTL
<1>2. a \in Aggregates /\ e.id \in Ids /\ e.content \in Contents /\ Told(e) \in Entries
  BY DEF Event, Told, Entries
<1>3. /\ latest \in [Aggregates -> Int] /\ rows \subseteq Event /\ rows' = rows \cup {e}
      /\ latest'[a] = latest[a] + 1 /\ \A b \in Aggregates \ {a} : latest'[b] = latest[b]
      /\ latest[a] + 1 \in Nat
  BY <1>2, BoundAssumption DEF IInv, TypeOK, Commit
<1>4. ASSUME NEW b \in Aggregates \ {a} PROVE journals'[b] = journals[b]
  <2>1. /\ journals[b] \in Seq(Entries) /\ journals'[b] \in Seq(Entries)
        /\ Len(journals[b]) = latest[b] + 1 /\ Len(journals'[b]) = latest[b] + 1
    BY <1>1, <1>3, <1>4 DEF JournalsSound
  <2>2. ASSUME NEW i \in 1..latest[b] + 1 PROVE journals[b][i] = journals'[b][i]
    <3>1. PICK r \in rows : r.agg = b /\ r.seq + 1 = i
      BY <1>1 DEF JournalsSound
    <3> QED BY <1>1, <1>3, <3>1 DEF JournalsSound
  <2> QED BY <2>1, <2>2, SameSequence
<1>5. journals'[a] = journals[a] \o <<Told(e)>>
  <2>1. /\ journals[a] \in Seq(Entries) /\ journals'[a] \in Seq(Entries)
        /\ Len(journals[a]) = latest[a] + 1 /\ Len(journals'[a]) = latest[a] + 2
    BY <1>1, <1>2, <1>3 DEF JournalsSound
  <2>2. ASSUME NEW i \in 1..latest[a] + 1 PROVE journals'[a][i] = journals[a][i]
    <3>1. PICK r \in rows : r.agg = a /\ r.seq + 1 = i
      BY <1>1, <1>2 DEF JournalsSound
    <3> QED BY <1>1, <1>2, <1>3, <3>1 DEF JournalsSound
  <2>3. journals'[a][latest[a] + 2] = Told(e)
    <3>1. journals'[a][e.seq + 1] = Told(e)
      BY <1>1, <1>2, <1>3 DEF JournalsSound
    <3>2. e.seq + 1 = latest[a] + 2
      BY <1>2, <1>3
    <3> QED BY <3>1, <3>2
  <2> DEFINE before == journals[a]
             after == journals'[a]
             n == latest[a] + 1
             x == Told(e)
  <2>4. /\ before \in Seq(Entries) /\ after \in Seq(Entries) /\ x \in Entries /\ n \in Nat
        /\ Len(before) = n /\ Len(after) = n + 1
        /\ \A i \in 1..n : after[i] = before[i]
        /\ after[n + 1] = x
    BY <1>2, <1>3, <2>1, <2>2, <2>3
  <2> HIDE DEF before, after, n, x
  <2>5. /\ before \o <<x>> \in Seq(Entries) /\ Len(before \o <<x>>) = n + 1
        /\ (before \o <<x>>)[n + 1] = x
        /\ \A i \in 1..n : (before \o <<x>>)[i] = before[i]
    <3>1. <<x>> \in Seq(Entries)
      BY <2>4
    <3>2. before \o <<x>> \in Seq(Entries)
      BY <2>4, <3>1, Concatenation
    <3>3. /\ Len(before \o <<x>>) = Len(before) + 1 /\ (before \o <<x>>)[Len(before) + 1] = x
          /\ \A i \in 1..Len(before) : (before \o <<x>>)[i] = before[i]
      BY <2>4, ElementAppended
    <3> QED BY <2>4, <3>2, <3>3
  <2>6. \A i \in 1..Len(after) : after[i] = (before \o <<x>>)[i]
    BY <2>4, <2>5
  <2>7. after = before \o <<x>>
    BY <2>4, <2>5, <2>6, SameSequence
  <2> QED BY <2>7 DEF before, after, x
<1>6. Abstract!Unused(e.id)
  <2> SUFFICES ASSUME NEW b \in Aggregates, NEW i \in 1..Len(journals[b]) PROVE journals[b][i].id # e.id
    BY DEF Abstract!Unused
  <2>1. PICK r \in rows : r.agg = b /\ r.seq + 1 = i
    BY <1>1 DEF JournalsSound
  <2>2. journals[b][i] = Told(r) /\ r.id # e.id
    BY <1>1, <2>1 DEF JournalsSound, Commit, IdUnused
  <2> QED BY <2>2 DEF Told
<1>7. journals' = [journals EXCEPT ![a] = @ \o <<[id |-> e.id, content |-> e.content]>>]
  <2>1. journals' = [b \in Aggregates |-> journals'[b]] /\ journals = [b \in Aggregates |-> journals[b]]
    BY DEF journals
  <2>2. Told(e) = [id |-> e.id, content |-> e.content]
    BY DEF Told
  <2> QED BY <1>2, <1>4, <1>5, <2>1, <2>2
<1>8. readers' = readers
  BY DEF readers
<1> QED BY <1>2, <1>6, <1>7, <1>8 DEF Abstract!Add

\* A removal drops a journal.
LEMMA RemoveTold ==
  ASSUME IInv, IInv', NEW a \in Aggregates, Remove(a)
  PROVE  Abstract!Drop(a)
<1>1. JournalsSound /\ JournalsSound'
  BY JournalsHold, PTL
<1>2. /\ latest \in [Aggregates -> Int] /\ rows' = {r \in rows : r.agg # a}
      /\ latest'[a] = -1 /\ \A b \in Aggregates \ {a} : latest'[b] = latest[b]
  BY BoundAssumption DEF IInv, TypeOK, Remove
<1>3. ASSUME NEW b \in Aggregates \ {a} PROVE journals'[b] = journals[b]
  <2>1. /\ journals[b] \in Seq(Entries) /\ journals'[b] \in Seq(Entries)
        /\ Len(journals[b]) = latest[b] + 1 /\ Len(journals'[b]) = latest[b] + 1
    BY <1>1, <1>2 DEF JournalsSound
  <2>2. ASSUME NEW i \in 1..latest[b] + 1 PROVE journals[b][i] = journals'[b][i]
    <3>1. PICK r \in rows : r.agg = b /\ r.seq + 1 = i
      BY <1>1 DEF JournalsSound
    <3> QED BY <1>1, <1>2, <3>1 DEF JournalsSound
  <2> QED BY <2>1, <2>2, SameSequence
<1>4. journals'[a] = << >>
  <2>1. journals'[a] \in Seq(Entries) /\ Len(journals'[a]) = 0
    BY <1>1, <1>2 DEF JournalsSound
  <2> QED BY <2>1
<1>5. journals' = [b \in Aggregates |-> journals'[b]] /\ journals = [b \in Aggregates |-> journals[b]]
  BY DEF journals
<1>6. readers' = readers
  BY DEF Remove, readers
<1> QED BY <1>3, <1>4, <1>5, <1>6 DEF Abstract!Drop

\* Without a new row or a removal the journals stay.
LEMMA JournalsStand ==
  ASSUME UNCHANGED <<latest, rows>>
  PROVE  journals' = journals
BY DEF journals, RowAt

\* A step of one tail that reads nothing changes what a reader has got only by closing it.
LEMMA TailTold ==
  ASSUME IInv, NEW t \in Tails,
         \/ \E a \in Aggregates, after \in -1..MaxSeq : Subscribe(t, a, after)
         \/ TakeWake(t) \/ Close(t)
  PROVE  Abstract!Open(t) \/ Abstract!Close(t) \/ UNCHANGED <<journals, readers>>
<1>1. journals' = journals /\ tail \in [Tails -> TailState]
  BY JournalsStand DEF Subscribe, TakeWake, Close, IInv, TypeOK
<1>2. readers = [u \in Tails |-> readers[u]] /\ readers' = [u \in Tails |-> readers'[u]]
  BY DEF readers
<1>3. ASSUME NEW a \in Aggregates, NEW after \in -1..MaxSeq, Subscribe(t, a, after) PROVE Abstract!Open(t)
  <2>1. tail[t] = Closed
    BY <1>1, <1>3 DEF Subscribe, TailState, Open
  <2>2. readers[t] = Abstract!Closed
    BY <2>1 DEF readers, Closed, Abstract!Closed
  <2>3. readers' = [readers EXCEPT ![t] = [agg |-> a, from |-> after, got |-> << >>]]
    BY <1>1, <1>3 DEF Subscribe, readers, Started
  <2> QED BY <1>1, <2>2, <2>3 DEF Abstract!Open
<1>4. CASE TakeWake(t)
  <2>1. tail[t] \in Open
    BY <1>1, <1>4 DEF TakeWake, TailState, Closed
  <2>2. tail'[t].agg = tail[t].agg /\ tail'[t].after = tail[t].after /\ tail'[t].got = tail[t].got
    BY <1>1, <1>4, <2>1 DEF TakeWake, Open
  <2>3. \A u \in Tails \ {t} : tail'[u] = tail[u]
    BY <1>1, <1>4 DEF TakeWake
  <2> QED BY <1>1, <2>2, <2>3 DEF readers
<1>5. CASE Close(t)
  <2>1. readers' = [readers EXCEPT ![t] = Abstract!Closed]
    BY <1>1, <1>5 DEF Close, readers, Closed, Abstract!Closed
  <2> QED BY <1>1, <2>1 DEF Abstract!Close
<1> QED BY <1>3, <1>4, <1>5

\* A read delivers the positions up to the end of the journal, or there are none.
LEMMA ReadTold ==
  ASSUME IInv, NEW t \in Tails, Read(t)
  PROVE  Abstract!Deliver(t) \/ UNCHANGED <<journals, readers>>
<1> DEFINE a == tail[t].agg
           cursor == tail[t].cursor
           read == SeqsAfter(a, cursor)
<1>1. TypeOK /\ LogContiguous /\ tail[t] \in Open /\ tail \in [Tails -> TailState]
  BY DEF IInv, TypeOK, Read, TailState, Closed
<1>2. /\ a \in Aggregates /\ cursor \in -1..MaxSeq /\ tail[t].got \in Seq(0..MaxSeq)
      /\ tail[t].after \in Int /\ latest[a] \in -1..MaxSeq /\ MaxSeq \in Nat
  BY <1>1, BoundAssumption DEF Open, TypeOK
<1>3. /\ read \in Seq(0..MaxSeq)
      /\ Len(read) = IF latest[a] > cursor THEN latest[a] - cursor ELSE 0
      /\ \A i \in 1..Len(read) : read[i] = cursor + i
  BY <1>1, <1>2, ReadInterval
<1>4. cursor = tail[t].after + Len(tail[t].got)
  BY <1>1 DEF IInv, TailGapFree, Open
<1>5. journals' = journals /\ \A u \in Tails \ {t} : tail'[u] = tail[u]
  BY <1>1, JournalsStand DEF Read
<1>6. /\ tail'[t].agg = a /\ tail'[t].after = tail[t].after /\ tail'[t].got = tail[t].got \o read
  <2>1. tail'[t] = AfterRead(t)
    BY <1>1 DEF Read
  <2> QED BY <1>1, <2>1 DEF AfterRead, Open
<1> HIDE DEF read, a, cursor
<1>7. /\ readers[t].agg = a /\ readers[t].got = tail[t].got /\ Abstract!Reached(t) = cursor
      /\ readers' = [readers EXCEPT ![t].got = @ \o read]
  <2>1. readers[t].agg = a /\ readers[t].got = tail[t].got /\ Abstract!Reached(t) = cursor
    BY <1>4 DEF readers, Abstract!Reached, a
  <2>2. \A u \in Tails : readers'[u] = IF u = t THEN [readers[u] EXCEPT !.got = @ \o read] ELSE readers[u]
    BY <1>5, <1>6 DEF readers, a
  <2>3. readers = [u \in Tails |-> readers[u]] /\ readers' = [u \in Tails |-> readers'[u]]
    BY DEF readers
  <2> QED BY <2>1, <2>2, <2>3
<1>8. Len(journals[a]) - 1 = latest[a]
  <2>1. Len(journals[a]) = latest[a] + 1
    BY <1>2, JournalsHold DEF JournalsSound
  <2> QED BY <1>2, <2>1
<1>9. CASE latest[a] > cursor
  <2>1. Len(read) = latest[a] - cursor
    BY <1>3, <1>9
  <2>2. read = [i \in 1..latest[a] - cursor |-> cursor + i]
    BY <1>2, <1>3, <2>1
  <2> QED BY <1>2, <1>5, <1>7, <1>8, <1>9, <2>2 DEF Abstract!Deliver
<1>10. CASE ~(latest[a] > cursor)
  <2>1. read = << >>
    BY <1>3, <1>10
  <2>2. tail[t].got \o read = tail[t].got
    BY <1>2, <2>1
  <2>3. tail'[t].agg = tail[t].agg /\ tail'[t].after = tail[t].after /\ tail'[t].got = tail[t].got
    BY <1>6, <2>2 DEF a
  <2> QED BY <1>5, <2>3 DEF readers
<1> QED BY <1>9, <1>10

\* The wakes of a publisher bring no reader anything yet.
LEMMA WakeTold ==
  ASSUME IInv, NEW p \in Publishers, Wake(p)
  PROVE  UNCHANGED <<journals, readers>>
<1>1. ASSUME NEW t \in Tails
      PROVE  /\ tail'[t].agg = tail[t].agg /\ tail'[t].after = tail[t].after /\ tail'[t].got = tail[t].got
  <2>1. tail[t] \in TailState /\ tail'[t] \in {tail[t], Woken(t)}
    BY DEF IInv, TypeOK, Wake
  <2> QED BY <2>1 DEF Woken, TailState, Open, Closed
<1> QED BY <1>1, JournalsStand DEF Wake, readers

\* The event store is one journal per aggregate, for any numbers of aggregates,
\* publishers and tails: whatever publishers, replicas and claims race, an entry
\* with a new identifier is added at the end or the whole journal is dropped,
\* and a durable stream delivers the positions after its start one by one, up
\* to the end of the journal whenever it reads.
THEOREM ImplementsJournal == Spec => Abstract!Spec
<1>1. Init => Abstract!Init
  <2> SUFFICES ASSUME Init PROVE Abstract!Init
    OBVIOUS
  <2>1. IInv
    BY InitIInv
  <2>2. ASSUME NEW a \in Aggregates PROVE journals[a] = << >>
    <3>1. journals[a] \in Seq(Entries) /\ Len(journals[a]) = 0
      BY <2>1, JournalsHold DEF JournalsSound, Init
    <3> QED BY <3>1
  <2> QED BY <2>2 DEF Init, Abstract!Init, journals, readers, Closed, Abstract!Closed
<1>2. ASSUME IInv, IInv', [Next]_vars PROVE [Abstract!Next]_(Abstract!vars)
  <2>1. ASSUME NEW p \in Publishers, NEW a \in Aggregates, NEW id \in Ids, NEW content \in Contents,
               Publish(p, a, id, content)
        PROVE  \E b \in Aggregates : Abstract!Add(b)
    <3> DEFINE e == [id |-> id, agg |-> a, seq |-> latest[a] + 1, content |-> content]
    <3>1. e \in Event /\ e.agg = a /\ e.seq = latest[a] + 1
      BY <1>2, <2>1, BoundAssumption DEF Publish, Event, IInv, TypeOK
    <3>2. Commit(e, owner[a]) /\ UNCHANGED tail
      BY <2>1 DEF Publish
    <3> HIDE DEF e
    <3> QED BY <1>2, <3>1, <3>2, CommitTold
  <2>2. ASSUME NEW p \in Publishers, NEW e \in Event, NEW o \in Owners \cup {None}, Replay(p, e, o)
        PROVE  (\E b \in Aggregates : Abstract!Add(b)) \/ UNCHANGED <<journals, readers>>
    <3>1. CASE ReplayNext(p, e, o)
      <4>1. e.agg \in Aggregates
        BY DEF Event
      <4> QED BY <1>2, <3>1, <4>1, CommitTold DEF ReplayNext
    <3>2. CASE ReplayStored(e, o)
      BY <3>2, JournalsStand DEF ReplayStored, readers
    <3> QED BY <2>2, <3>1, <3>2 DEF Replay
  <2>3. ASSUME NEW a \in Aggregates, NEW o \in Owners, Claim(a, o) PROVE UNCHANGED <<journals, readers>>
    BY <2>3, JournalsStand DEF Claim, readers
  <2>4. UNCHANGED vars => UNCHANGED <<journals, readers>>
    BY JournalsStand DEF vars, readers
  <2> QED BY <1>2, <2>1, <2>2, <2>3, <2>4, RemoveTold, TailTold, ReadTold, WakeTold
          DEF Next, Abstract!Next, Abstract!vars
<1> QED BY Invariance, <1>1, <1>2, PTL DEF Spec, Abstract!Spec

=============================================================================
