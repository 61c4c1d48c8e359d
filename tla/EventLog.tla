------------------------------- MODULE EventLog -------------------------------
(***************************************************************************)
(* packages/core/src/event.ts: the durable side of EventV2.  One store     *)
(* keeps, per aggregate, a row of event_sequence (latest seq and owner)    *)
(* and the rows of event; publish and replay append to it and run the      *)
(* projectors in one immediate transaction; claim and remove edit it;      *)
(* `durable` streams tail it through wakes and a cursor.                   *)
(*                                                                         *)
(* A transaction is one step (SQLite runs one writer at a time).  A replay *)
(* or publish that dies (owner, divergence, sequence or identifier check,  *)
(* or a failing projector) rolls back and is a stuttering step.  An event  *)
(* is its identifier and its content: Contents stands for (type, data).    *)
(***************************************************************************)
EXTENDS Integers, Sequences, FiniteSets

CONSTANTS Aggregates, Ids, Contents, Owners, Publishers, Tails,
          None,       \* SQL null, JavaScript undefined
          MaxSeq      \* bound: sequences 0..MaxSeq

ASSUME NoneAssumption == None \notin Owners \cup Aggregates
ASSUME BoundAssumption == MaxSeq \in Nat

VARIABLES latest,     \* aggregate -> event_sequence.seq, -1 without a row
          owner,      \* aggregate -> event_sequence.owner_id
          rows,       \* the rows of event
          projected,  \* aggregate -> identifiers the projectors applied, in order
          publisher,  \* fiber in commitDurableEvent -> aggregate it must still wake
          tail        \* subscriber of `durable` -> its state

vars == <<latest, owner, rows, projected, publisher, tail>>

-----------------------------------------------------------------------------
(* State.                                                                  *)

Event == [id : Ids, agg : Aggregates, seq : 0..MaxSeq, content : Contents]

\* "subscribed": registered for wakes, history not read yet;
\* "live": waiting for a wake; "woken": took a wake, about to read.
\* `wake` is the sliding PubSub of capacity one, `cursor` is `sequence`,
\* `after` and `got` remember where the stream started and what it emitted.
Closed == [pc |-> "closed", agg |-> None, wake |-> FALSE, after |-> -1, cursor |-> -1, got |-> << >>]
Started(a, from) == [pc |-> "subscribed", agg |-> a, wake |-> FALSE, after |-> from, cursor |-> from, got |-> << >>]
Open == [pc : {"subscribed", "live", "woken"}, agg : Aggregates, wake : BOOLEAN,
         after : -1..MaxSeq, cursor : -1..MaxSeq, got : Seq(0..MaxSeq)]
TailState == Open \cup {Closed}

TypeOK == /\ latest \in [Aggregates -> -1..MaxSeq]
          /\ owner \in [Aggregates -> Owners \cup {None}]
          /\ rows \subseteq Event
          /\ projected \in [Aggregates -> Seq(Ids)]
          /\ publisher \in [Publishers -> Aggregates \cup {None}]
          /\ tail \in [Tails -> TailState]

Init == /\ latest = [a \in Aggregates |-> -1]
        /\ owner = [a \in Aggregates |-> None]
        /\ rows = {}
        /\ projected = [a \in Aggregates |-> << >>]
        /\ publisher = [p \in Publishers |-> None]
        /\ tail = [t \in Tails |-> Closed]

-----------------------------------------------------------------------------
(* commitDurableEvent.                                                     *)

IdUnused(id) == \A r \in rows : r.id # id
Stored(e) == e \in rows
Unowned(a) == owner[a] = None

\* The two inserts, the projectors and the commit hook, all or nothing.
Commit(e, newOwner) ==
  /\ IdUnused(e.id)
  /\ latest' = [latest EXCEPT ![e.agg] = e.seq]
  /\ owner' = [owner EXCEPT ![e.agg] = newOwner]
  /\ rows' = rows \cup {e}
  /\ projected' = [projected EXCEPT ![e.agg] = projected[e.agg] \o <<e.id>>]

Ready(p) == publisher[p] = None

\* Mutant: off by one, the event reuses the latest sequence.
PublishAtLatest(p, a, id, content) ==
  /\ Ready(p)
  /\ Commit([id |-> id, agg |-> a, seq |-> latest[a], content |-> content], owner[a])
  /\ publisher' = [publisher EXCEPT ![p] = a]
  /\ UNCHANGED tail

\* publish: a local event takes the next sequence whoever owns the aggregate.
Publish(p, a, id, content) ==
  /\ Ready(p)
  /\ latest[a] < MaxSeq
  /\ Commit([id |-> id, agg |-> a, seq |-> latest[a] + 1, content |-> content], owner[a])
  /\ publisher' = [publisher EXCEPT ![p] = a]
  /\ UNCHANGED tail

\* The owner the upsert leaves: the first owner that replays claims.
ClaimedBy(a, o) == IF Unowned(a) THEN o ELSE owner[a]

\* Mutant: a replay may leave a gap behind it.
ReplayAhead(p, e, o) ==
  /\ Ready(p)
  /\ Unowned(e.agg) \/ owner[e.agg] = o
  /\ e.seq > latest[e.agg]
  /\ Commit(e, ClaimedBy(e.agg, o))
  /\ publisher' = [publisher EXCEPT ![p] = e.agg]
  /\ UNCHANGED tail

\* Mutant: only a local publish wakes the tails.
ReplayQuietly(p, e, o) ==
  /\ Ready(p)
  /\ Unowned(e.agg) \/ owner[e.agg] = o
  /\ e.seq = latest[e.agg] + 1
  /\ Commit(e, ClaimedBy(e.agg, o))
  /\ UNCHANGED <<publisher, tail>>

\* replay of the next event, from the owner of the aggregate or while it has
\* none.  From another owner it is skipped, or dies if strictOwner.
ReplayNext(p, e, o) ==
  /\ Ready(p)
  /\ Unowned(e.agg) \/ owner[e.agg] = o
  /\ e.seq = latest[e.agg] + 1
  /\ Commit(e, ClaimedBy(e.agg, o))
  /\ publisher' = [publisher EXCEPT ![p] = e.agg]
  /\ UNCHANGED tail

\* Mutant: a stored event goes to the projectors again.
ReplayProjecting(e, o) ==
  /\ Stored(e)
  /\ projected' = [projected EXCEPT ![e.agg] = projected[e.agg] \o <<e.id>>]
  /\ UNCHANGED <<latest, owner, rows, publisher, tail>>

\* Mutant: a divergent event replaces the stored one.
ReplayOverwriting(e, o) ==
  /\ e.seq <= latest[e.agg]
  /\ IdUnused(e.id)
  /\ rows' = {r \in rows : r.agg # e.agg \/ r.seq # e.seq} \cup {e}
  /\ UNCHANGED <<latest, owner, projected, publisher, tail>>

\* replay of an event the store has: claims an unowned aggregate, else
\* nothing.  A different event at that position dies as diverged.
ReplayStored(e, o) ==
  /\ e.seq <= latest[e.agg]
  /\ Stored(e)
  /\ o # None /\ Unowned(e.agg)
  /\ owner' = [owner EXCEPT ![e.agg] = o]
  /\ UNCHANGED <<latest, rows, projected, publisher, tail>>

Replay(p, e, o) == ReplayNext(p, e, o) \/ ReplayStored(e, o)

\* After the transaction, in the same uninterruptible region.
Woken(t) == [tail[t] EXCEPT !.wake = TRUE]

Wake(p) ==
  /\ ~Ready(p)
  /\ tail' = [t \in Tails |-> IF tail[t].agg = publisher[p] THEN Woken(t) ELSE tail[t]]
  /\ publisher' = [publisher EXCEPT ![p] = None]
  /\ UNCHANGED <<latest, owner, rows, projected>>

\* claim updates the row there is.
Claim(a, o) ==
  /\ latest[a] >= 0
  /\ owner' = [owner EXCEPT ![a] = o]
  /\ UNCHANGED <<latest, rows, projected, publisher, tail>>

\* remove deletes the sequence and its events; tails are not told.  The
\* projections stay where they are: `projected` restarts with the log.
Remove(a) ==
  /\ latest[a] >= 0
  /\ latest' = [latest EXCEPT ![a] = -1]
  /\ owner' = [owner EXCEPT ![a] = None]
  /\ rows' = {r \in rows : r.agg # a}
  /\ projected' = [projected EXCEPT ![a] = << >>]
  /\ UNCHANGED <<publisher, tail>>

-----------------------------------------------------------------------------
(* durable: subscribe to wakes first, then read history, then tail.        *)

Subscribe(t, a, after) ==
  /\ tail[t].pc = "closed"
  /\ tail' = [tail EXCEPT ![t] = Started(a, after)]
  /\ UNCHANGED <<latest, owner, rows, projected, publisher>>

\* readAfter: the sequences stored after the cursor, in ascending order (the
\* i-th has i of them at or before it).
SeqsAfter(a, cursor) ==
  LET unread == {r.seq : r \in {q \in rows : q.agg = a /\ q.seq > cursor}} IN
  [i \in 1..Cardinality(unread) |-> CHOOSE n \in unread : Cardinality({m \in unread : m <= n}) = i]

\* Mutant: the cursor advances by one per read, not to the last event read.
AfterReadByOne(t) ==
  LET read == SeqsAfter(tail[t].agg, tail[t].cursor) IN
  [tail[t] EXCEPT !.pc = "live", !.got = @ \o read,
                  !.cursor = IF read = << >> THEN @ ELSE @ + 1]

\* The cursor moves to the last event read.
AfterRead(t) ==
  LET read == SeqsAfter(tail[t].agg, tail[t].cursor) IN
  [tail[t] EXCEPT !.pc = "live", !.got = @ \o read,
                  !.cursor = IF read = << >> THEN @ ELSE read[Len(read)]]

\* The historical read, or the read a wake asked for.
Read(t) == /\ tail[t].pc \in {"subscribed", "woken"}
           /\ tail' = [tail EXCEPT ![t] = AfterRead(t)]
           /\ UNCHANGED <<latest, owner, rows, projected, publisher>>

\* The wake is consumed before the read it causes.
TakeWake(t) == /\ tail[t].pc = "live" /\ tail[t].wake
               /\ tail' = [tail EXCEPT ![t].pc = "woken", ![t].wake = FALSE]
               /\ UNCHANGED <<latest, owner, rows, projected, publisher>>

Close(t) == /\ tail[t].pc # "closed"
            /\ tail' = [tail EXCEPT ![t] = Closed]
            /\ UNCHANGED <<latest, owner, rows, projected, publisher>>

Next == \/ \E p \in Publishers, a \in Aggregates, id \in Ids, content \in Contents : Publish(p, a, id, content)
        \/ \E p \in Publishers, e \in Event, o \in Owners \cup {None} : Replay(p, e, o)
        \/ \E p \in Publishers : Wake(p)
        \/ \E a \in Aggregates, o \in Owners : Claim(a, o)
        \/ \E a \in Aggregates : Remove(a)
        \/ \E t \in Tails, a \in Aggregates, after \in -1..MaxSeq : Subscribe(t, a, after)
        \/ \E t \in Tails : Read(t) \/ TakeWake(t) \/ Close(t)

Spec == Init /\ [][Next]_vars

\* A committed publisher runs on (its region is uninterruptible) and a stream
\* that is consumed keeps pulling.
Fairness == /\ \A p \in Publishers : WF_vars(Wake(p))
            /\ \A t \in Tails : WF_vars(Read(t)) /\ WF_vars(TakeWake(t))

FairSpec == Spec /\ Fairness

-----------------------------------------------------------------------------
(* Safety.                                                                 *)

\* The rows of an aggregate are exactly sequences 0..latest, one event each.
LogContiguous ==
  /\ \A r \in rows : r.seq <= latest[r.agg]
  /\ \A a \in Aggregates : \A n \in 0..latest[a] : \E r \in rows : r.agg = a /\ r.seq = n
  /\ \A r, s \in rows : r.agg = s.agg /\ r.seq = s.seq => r = s

\* An identifier names one event of the whole store.
IdsUnique == \A r, s \in rows : r.id = s.id => r = s

\* Projections saw every event of the log once, in sequence order: replays
\* of stored events, skipped and refused ones never reach the projectors.
ProjectedOnce ==
  \A a \in Aggregates :
    /\ Len(projected[a]) = latest[a] + 1
    /\ \A r \in rows : r.agg = a => projected[a][r.seq + 1] = r.id

\* A committed event is never changed; it only goes with its whole aggregate.
AppendOnly == [][\A r \in rows : r \in rows' \/ latest'[r.agg] = -1]_vars

\* What a tail emits is the interval of sequences from its start to its
\* cursor, in order, without a gap or a repetition, whatever commits while
\* it reads.
TailGapFree ==
  \A t \in Tails : tail[t].pc # "closed" =>
    /\ tail[t].cursor = tail[t].after + Len(tail[t].got)
    /\ \A i \in 1..Len(tail[t].got) : tail[t].got[i] = tail[t].after + i

\* An event a tail lacks is never forgotten: a wake is queued, or on its way,
\* or a read is due.
TailInformed ==
  \A t \in Tails :
    tail[t].pc # "closed" /\ latest[tail[t].agg] > tail[t].cursor
      => \/ tail[t].pc \in {"subscribed", "woken"}
         \/ tail[t].wake
         \/ \E p \in Publishers : publisher[p] = tail[t].agg

-----------------------------------------------------------------------------
(* The store as a journal per aggregate, see Journal.                      *)

RowAt(a, n) == CHOOSE r \in rows : r.agg = a /\ r.seq = n

journals ==
  [a \in Aggregates |->
    [i \in 1..latest[a] + 1 |-> [id |-> RowAt(a, i - 1).id, content |-> RowAt(a, i - 1).content]]]

readers == [t \in Tails |-> [agg |-> tail[t].agg, from |-> tail[t].after, got |-> tail[t].got]]

Abstract == INSTANCE Journal WITH journal <- journals, reader <- readers, Readers <- Tails, Starts <- -1..MaxSeq

-----------------------------------------------------------------------------
(* Liveness.                                                               *)

\* An open tail eventually emits every committed event (unless the stream is
\* closed or the aggregate is removed first).
TailCatchesUp ==
  \A t \in Tails, a \in Aggregates, n \in 0..MaxSeq :
    (tail[t].pc # "closed" /\ tail[t].agg = a /\ latest[a] >= n)
      ~> (tail[t].cursor >= n \/ tail[t].agg # a \/ latest[a] < n)

=============================================================================
