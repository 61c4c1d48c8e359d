-------------------------- MODULE SessionDrainProofs --------------------------
(***************************************************************************)
(* What a drain promises to whoever prompted its Session, for every number *)
(* of Sessions, inputs, clients and reverts, with and without a step        *)
(* allowance.                                                              *)
(***************************************************************************)
EXTENDS SessionDrain, WellFoundedInduction, TLAPS

(* What a drain knows, as a predicate of its Session s, the latest sequence n, *)
(* the rows of the inbox, the locals d of the drain and its history p.         *)

\* The inputs of s that wait to be promoted.
Waiting(s, rows, kind) ==
  {i \in Ids : rows[i] # NoRow /\ rows[i].promoted = 0 /\ rows[i].session = s /\ rows[i].delivery = kind}

\* The steers a turn with this cutoff must promote before it asks the provider.
Early(s, rows, cutoff) == {i \in Waiting(s, rows, "steer") : rows[i].admitted <= cutoff}

\* A provider request may follow as things are, without promoting anything.
Entitled(s, d, p) ==
  p.reverted \/ ((d.force \/ p.served) /\ d.step = p.turns + 1 /\ Within(s, d.step))

BatchRow(s, n, rows, p, e) ==
  /\ e.row.session = s
  /\ e.row.promoted = 0
  /\ e.row.admitted \in 1 .. n
  /\ p.reverted \/ rows[e.id] = e.row

QueueBatch(s, rows, d, p) ==
  /\ p.rested
  /\ \A e \in d.batch : e.row.delivery = "queue"
  /\ \A e, f \in d.batch : e = f
  /\ \A e \in d.batch, i \in Waiting(s, rows, "queue") : rows[i].admitted >= e.row.admitted

SteerBatch(s, rows, d) ==
  /\ \A e \in d.batch : e.row.delivery = "steer" /\ e.row.admitted <= d.cutoff
  /\ \A i \in Early(s, rows, d.cutoff) : [id |-> i, row |-> rows[i]] \in d.batch

BatchSound(s, n, rows, d, p) ==
  /\ d.batch # {}
  /\ d.fresh
  /\ \A e \in d.batch : BatchRow(s, n, rows, p, e)
  /\ d.next \in {"steers", "request"}
  /\ d.next = "steers" => QueueBatch(s, rows, d, p)
  /\ d.next = "request" => SteerBatch(s, rows, d)

TurnSound(s, rows, d, p) ==
  \/ d.promotion = "queue" /\ p.rested /\ (p.reverted \/ Waiting(s, rows, "queue") # {})
  \/ d.promotion = "steer" /\ (Entitled(s, d, p) \/ Waiting(s, rows, "steer") # {})
  \/ d.promotion = None /\ Entitled(s, d, p) /\ Early(s, rows, d.cutoff) = {}

\* The turn has looked for queued inputs, or did not have to.
SteersSound(s, rows, d, p) ==
  \/ p.reverted
  \/ d.fresh /\ p.served /\ p.turns = 0
  \/ ~d.fresh /\ (Entitled(s, d, p) \/ Early(s, rows, d.cutoff) # {})

Sound(s, n, rows, d, p) ==
  /\ d.cutoff <= n
  /\ p.reverted \/ Within(s, p.turns)
  /\ d.pc = "idle" => Within(s, p.turns)
  /\ d.pc \in {"steer?", "queue?"} => p.turns = 0 /\ p.rested
  /\ d.pc = "turn" => TurnSound(s, rows, d, p) /\ ~d.fresh
  /\ d.pc = "queued" => p.rested /\ ~d.fresh /\ (p.reverted \/ Waiting(s, rows, "queue") # {})
  /\ d.pc = "steers" => SteersSound(s, rows, d, p)
  /\ d.pc = "promoting" => BatchSound(s, n, rows, d, p)
  /\ d.pc \in {"request", "stream"} => d.promotion = None /\ ~d.fresh /\ Entitled(s, d, p) /\ Early(s, rows, d.cutoff) = {}
  /\ d.pc \in {"steer again?", "queue again?"} => p.rested

DrainsSound == \A s \in Sessions : Sound(s, seq[s], input, runner[s], past[s])

BusyExact == \A s \in Sessions : busy[s] <=> runner[s].pc # "idle"

InboxSound ==
  /\ \A i \in Ids : Stored(i) => /\ input[i].admitted \in 1 .. seq[input[i].session]
                                 /\ input[i].promoted <= seq[input[i].session]
  /\ \A i, j \in Ids : /\ Stored(i) /\ Stored(j)
                       /\ input[i].session = input[j].session /\ input[i].admitted = input[j].admitted
                       => i = j


Inbox == InboxTypeOK /\ InboxSound /\ PromotionOrder

Drains == /\ busy \in [Sessions -> BOOLEAN] /\ owed \in [Sessions -> BOOLEAN]
          /\ runner \in [Sessions -> Drain \cup {NoDrain}]
          /\ past \in [Sessions -> Past]
          /\ BusyExact
          /\ DrainsSound

Wakes == asked \subseteq Ids /\ WakesServed

Receipts == receipts \subseteq Receipt /\ ReceiptsAgree

CallsTyped == client \in [Clients -> ClientState]

IInv == Inbox /\ Drains /\ Wakes /\ Receipts /\ CallsTyped /\ reverts \in 0 .. MaxReverts

-----------------------------------------------------------------------------
(* The allowance of an agent, if it has one.                               *)

\* The first step is within every allowance.
LEMMA WithinStart == \A s \in Sessions : Within(s, 0) /\ Within(s, 1)
BY StepsAssumption DEF Within

\* Steps and turns are counted, and stay within the allowance as long as tools
\* are offered.
LEMMA StepsCounted ==
  ASSUME NEW s \in Sessions, NEW step \in Nat \ {0}, NEW turns \in Nat
  PROVE  /\ NextStep(s, step) \in Nat \ {0} /\ NextStep(s, turns) \in Nat
         /\ step = runner[s].step /\ OffersTools(s) => Within(s, NextStep(s, step))
BY StepsAssumption DEF NextStep, OffersTools, Within

-----------------------------------------------------------------------------
(* The first row of a batch.                                               *)

\* Every nonempty set of naturals has a least element.
LEMMA LeastNatural ==
  ASSUME NEW T, T \subseteq Nat, T # {}
  PROVE  \E x \in T : \A y \in T : x <= y
<1> DEFINE R == {ss \in Nat \X Nat : ss[1] < ss[2]}
<1>1. IsWellFoundedOn(R, Nat)
  BY NatLessThanWellFounded DEF OpToRel
<1>2. \E x \in T : \A y \in T : ~ (<<y, x>> \in R)
  <2> HIDE DEF R
  <2> QED BY <1>1, WFMin
<1>3. PICK x \in T : \A y \in T : ~ (<<y, x>> \in R)
  BY <1>2
<1>4. ASSUME NEW y \in T PROVE x <= y
  <2>1. ~ (<<y, x>> \in R)
    BY <1>3
  <2>2. <<y, x>> \in Nat \X Nat
    OBVIOUS
  <2>3. ~ (y < x)
    BY <2>1, <2>2
  <2> QED BY <2>3
<1> QED BY <1>4

\* A batch has a row that was admitted first, and publish takes one.
LEMMA FirstOfBatch ==
  ASSUME NEW batch, batch \subseteq Selected, batch # {}
  PROVE  /\ FirstOf(batch) \in batch
         /\ \A f \in batch : FirstOf(batch).row.admitted <= f.row.admitted
<1> DEFINE T == {e.row.admitted : e \in batch}
<1>1. \A e \in batch : e.row.admitted \in Nat
  BY DEF Selected, Row
<1>2. T \subseteq Nat /\ T # {}
  BY <1>1
<1>3. PICK x \in T : \A y \in T : x <= y
  <2> HIDE DEF T
  <2> QED BY <1>2, LeastNatural
<1>4. \E e \in batch : \A f \in batch : e.row.admitted <= f.row.admitted
  BY <1>3
<1> QED BY <1>4 DEF FirstOf

\* The queue has a first input whenever it has one.
LEMMA NextQueuedFound ==
  ASSUME NEW s \in Sessions, InboxTypeOK, Pending(s, "queue") # {}
  PROVE  NextQueued(s) # {}
<1> DEFINE T == {input[i].admitted : i \in Pending(s, "queue")}
<1>1. \A i \in Pending(s, "queue") : input[i].admitted \in Nat
  BY DEF Pending, Stored, InboxTypeOK, Row
<1>2. T \subseteq Nat /\ T # {}
  BY <1>1
<1>3. PICK x \in T : \A y \in T : x <= y
  <2> HIDE DEF T
  <2> QED BY <1>2, LeastNatural
<1>4. PICK i \in Pending(s, "queue") : x = input[i].admitted
  BY <1>3
<1>5. \A j \in Pending(s, "queue") : input[i].admitted <= input[j].admitted
  BY <1>3, <1>4
<1>6. [id |-> i, row |-> input[i]] \in NextQueued(s)
  BY <1>5 DEF NextQueued, Snapshot
<1> QED BY <1>6

-----------------------------------------------------------------------------
(* What a drain knows survives what others do to the inbox.                *)

\* No row of s the drain has not seen gets below n, and none of those it has
\* seen changes but in a revert.
Harmless(s, n, rows, m, rows2, p) ==
  /\ n <= m
  /\ \A kind \in Deliveries : \A i \in Waiting(s, rows2, kind) :
       (i \in Waiting(s, rows, kind) /\ rows2[i] = rows[i]) \/ rows2[i].admitted > n
  /\ \/ p.reverted
     \/ \A kind \in Deliveries : \A i \in Waiting(s, rows, kind) :
          i \in Waiting(s, rows2, kind) /\ rows2[i] = rows[i]

\* What a drain knows stays true when the inbox changes by harmless means.
LEMMA SoundKept ==
  ASSUME NEW s \in Sessions, NEW n \in Nat, NEW m \in Nat,
         NEW rows \in [Ids -> Row \cup {NoRow}], NEW rows2 \in [Ids -> Row \cup {NoRow}],
         NEW d \in Drain, NEW p \in Past,
         Harmless(s, n, rows, m, rows2, p), Sound(s, n, rows, d, p)
  PROVE  Sound(s, m, rows2, d, p)
<1>0. n <= m /\ d.cutoff \in Nat /\ d.cutoff <= n /\ d.batch \subseteq Selected /\ d.promotion \in Deliveries \cup {None}
  BY DEF Harmless, Sound, Drain, Promotions
<1>1. \A kind \in Deliveries : p.reverted \/ Waiting(s, rows, kind) \subseteq Waiting(s, rows2, kind)
  BY DEF Harmless
<1>2. Early(s, rows2, d.cutoff) \subseteq Early(s, rows, d.cutoff)
      /\ \A i \in Early(s, rows2, d.cutoff) : rows2[i] = rows[i]
  <2> SUFFICES ASSUME NEW i \in Early(s, rows2, d.cutoff)
               PROVE  i \in Early(s, rows, d.cutoff) /\ rows2[i] = rows[i]
    OBVIOUS
  <2>1. i \in Waiting(s, rows2, "steer") /\ rows2[i].admitted <= d.cutoff /\ rows2[i] \in Row
    BY DEF Early, Waiting
  <2>2. ~ (rows2[i].admitted > n)
    BY <2>1, <1>0 DEF Row
  <2>3. i \in Waiting(s, rows, "steer") /\ rows2[i] = rows[i]
    BY <2>1, <2>2 DEF Harmless, Deliveries
  <2> QED BY <2>1, <2>3 DEF Early
<1>3. p.reverted \/ Early(s, rows, d.cutoff) \subseteq Early(s, rows2, d.cutoff)
  BY DEF Harmless, Early, Deliveries
<1>4. d.pc = "promoting" => BatchSound(s, m, rows2, d, p)
  <2> SUFFICES ASSUME d.pc = "promoting" PROVE BatchSound(s, m, rows2, d, p)
    OBVIOUS
  <2>0. BatchSound(s, n, rows, d, p)
    BY DEF Sound
  <2>1. \A e \in d.batch : BatchRow(s, m, rows2, p, e)
    <3> SUFFICES ASSUME NEW e \in d.batch PROVE BatchRow(s, m, rows2, p, e)
      OBVIOUS
    <3>1. BatchRow(s, n, rows, p, e) /\ e.id \in Ids /\ e.row \in Row
      BY <2>0, <1>0 DEF BatchSound, Selected
    <3>2. e.row.admitted \in 1 .. m /\ e.row.delivery \in Deliveries
      BY <3>1, <1>0 DEF BatchRow, Row
    <3>3. e.row # NoRow
      BY <3>2 DEF NoRow
    <3>4. rows[e.id] = e.row => e.id \in Waiting(s, rows, e.row.delivery)
      BY <3>1, <3>3 DEF BatchRow, Waiting
    <3>5. p.reverted \/ rows2[e.id] = e.row
      BY <3>1, <3>2, <3>4 DEF BatchRow, Harmless
    <3> QED BY <3>1, <3>2, <3>5 DEF BatchRow
  <2>2. d.next = "steers" => QueueBatch(s, rows2, d, p)
    <3> SUFFICES ASSUME d.next = "steers" PROVE QueueBatch(s, rows2, d, p)
      OBVIOUS
    <3>1. QueueBatch(s, rows, d, p)
      BY <2>0 DEF BatchSound
    <3>2. ASSUME NEW e \in d.batch, NEW i \in Waiting(s, rows2, "queue")
          PROVE  rows2[i].admitted >= e.row.admitted
      <4>1. e.row.admitted \in 1 .. n
        BY <2>0 DEF BatchSound, BatchRow
      <4>2. rows2[i] \in Row
        BY DEF Waiting
      <4>3. CASE rows2[i].admitted > n
        BY <4>1, <4>2, <4>3 DEF Row
      <4>4. CASE i \in Waiting(s, rows, "queue") /\ rows2[i] = rows[i]
        BY <4>4, <3>1 DEF QueueBatch
      <4> QED BY <4>3, <4>4 DEF Harmless, Deliveries
    <3> QED BY <3>1, <3>2 DEF QueueBatch
  <2>3. d.next = "request" => SteerBatch(s, rows2, d)
    BY <2>0, <1>2 DEF BatchSound, SteerBatch
  <2> QED BY <2>0, <2>1, <2>2, <2>3 DEF BatchSound
<1>5. TurnSound(s, rows, d, p) => TurnSound(s, rows2, d, p)
  BY <1>1, <1>2 DEF TurnSound, Deliveries, Entitled
<1>6. SteersSound(s, rows, d, p) => SteersSound(s, rows2, d, p)
  BY <1>3 DEF SteersSound
<1>7. (p.reverted \/ Waiting(s, rows, "queue") # {}) => (p.reverted \/ Waiting(s, rows2, "queue") # {})
  BY <1>1 DEF Deliveries
<1>8. d.cutoff <= m
  BY <1>0
<1>9. Early(s, rows, d.cutoff) = {} => Early(s, rows2, d.cutoff) = {}
  BY <1>2
<1> QED BY <1>4, <1>5, <1>6, <1>7, <1>8, <1>9 DEF Sound

\* A revert during the drain excuses what the drain can no longer promise.
LEMMA SoundReverted ==
  ASSUME NEW s \in Sessions, NEW n \in Nat, NEW rows \in [Ids -> Row \cup {NoRow}],
         NEW d \in Drain, NEW p \in Past, NEW q \in Past,
         q.reverted, q.rested = p.rested, q.turns = p.turns, q.served = p.served,
         Sound(s, n, rows, d, p)
  PROVE  Sound(s, n, rows, d, q)
<1>1. TurnSound(s, rows, d, p) => TurnSound(s, rows, d, q)
  BY DEF TurnSound, Entitled
<1>2. SteersSound(s, rows, d, q)
  BY DEF SteersSound
<1>3. BatchSound(s, n, rows, d, p) => BatchSound(s, n, rows, d, q)
  BY DEF BatchSound, BatchRow, QueueBatch
<1> QED BY <1>1, <1>2, <1>3 DEF Sound, Entitled

-----------------------------------------------------------------------------
(* Steps that leave the inbox alone.                                       *)

\* The inbox stands while its variables do.
LEMMA InboxStands ==
  ASSUME Inbox, UNCHANGED <<seq, input>> PROVE Inbox'
BY DEF Inbox, InboxTypeOK, InboxSound, PromotionOrder, Stored, Visible

\* The receipts stand while their variables do.
LEMMA ReceiptsStand ==
  ASSUME Receipts, UNCHANGED <<input, receipts>> PROVE Receipts'
BY DEF Receipts, ReceiptsAgree, Stored

\* What the drains know stands while no variable of theirs changes.
LEMMA DrainsStand ==
  ASSUME Drains, UNCHANGED <<seq, input, runner, busy, owed, past>> PROVE Drains'
<1>1. DrainsSound'
  BY DEF Drains, DrainsSound
<1> QED BY <1>1 DEF Drains, BusyExact

\* The wakes stand while no variable of theirs changes.
LEMMA WakesStand ==
  ASSUME Wakes, UNCHANGED <<input, runner, busy, owed, asked>> PROVE Wakes'
BY DEF Wakes, WakesServed, Stored, Visible

\* WakesServed for one input, its row and the drains.
WakeKept(row, o, b, r) ==
  /\ row # NoRow /\ row.promoted = 0
  /\ \/ o[row.session]
     \/ /\ b[row.session]
        /\ r[row.session].pc \notin
             (IF row.delivery = "steer" THEN {"stopping", "queue?", "queue again?"} ELSE {"stopping"})

\* A drain that knows what it needs in its next state keeps the invariant.
LEMMA DrainGoes ==
  ASSUME IInv, NEW s \in Sessions, NEW d \in Drain, NEW p \in Past, Reads(s),
         Goes(s, d), past' = [past EXCEPT ![s] = p],
         Sound(s, seq[s], input, d, p),
         d.pc # "stopping",
         d.pc \in {"queue?", "queue again?"} => Pending(s, "steer") = {}
  PROVE  IInv'
<1>0. UNCHANGED <<seq, input, client, busy, owed, asked, receipts, reverts>> /\ busy[s]
  BY DEF Reads
<1>1. Inbox'
  BY <1>0, InboxStands DEF IInv
<1>2. Receipts'
  BY <1>0, ReceiptsStand DEF IInv
<1>3. Drains'
  <2>1. runner' \in [Sessions -> Drain \cup {NoDrain}] /\ past' \in [Sessions -> Past]
    BY DEF IInv, Drains, Goes
  <2>2. BusyExact'
    <3>1. d.pc # "idle"
      BY DEF Drain, PCs
    <3> QED BY <1>0, <3>1 DEF IInv, Drains, Goes, BusyExact
  <2>3. DrainsSound'
    <3> SUFFICES ASSUME NEW t \in Sessions PROVE Sound(t, seq'[t], input', runner'[t], past'[t])
      BY DEF DrainsSound
    <3>1. CASE t = s
      <4>1. runner'[t] = d /\ past'[t] = p
        BY <3>1 DEF IInv, Drains, Goes
      <4> QED BY <3>1, <4>1, <1>0
    <3>2. CASE t # s
      <4>1. runner'[t] = runner[t] /\ past'[t] = past[t]
        BY <3>2 DEF IInv, Drains, Goes
      <4> QED BY <3>2, <4>1, <1>0 DEF IInv, Drains, DrainsSound
    <3> QED BY <3>1, <3>2
  <2> QED BY <1>0, <2>1, <2>2, <2>3 DEF IInv, Drains
<1>4. Wakes'
  <2> SUFFICES ASSUME NEW id \in asked
               PROVE  WakeKept(input[id], owed', busy', runner')
    BY <1>0 DEF IInv, Wakes, WakesServed, WakeKept, Stored, Visible
  <2>1. WakeKept(input[id], owed, busy, runner) /\ id \in Ids
    BY DEF IInv, Wakes, WakesServed, WakeKept, Stored, Visible
  <2>0. input[id].session \in Sessions
    BY <2>1 DEF WakeKept, IInv, Inbox, InboxTypeOK, Row
  <2>2. CASE input[id].session = s /\ ~owed[s]
    <3>1. runner'[s] = d
      BY DEF IInv, Drains, Goes
    <3>2. input[id].delivery = "steer" => id \in Pending(s, "steer")
      BY <2>1, <2>2 DEF WakeKept, Pending, Stored, Visible
    <3> QED BY <2>1, <2>2, <3>1, <3>2, <1>0 DEF WakeKept
  <2>3. CASE input[id].session # s \/ owed[s]
    <3>1. input[id].session # s => runner'[input[id].session] = runner[input[id].session]
      BY <2>0 DEF IInv, Drains, Goes
    <3> QED BY <2>1, <2>3, <3>1, <1>0 DEF WakeKept
  <2> QED BY <2>2, <2>3
<1>5. CallsTyped' /\ (reverts \in 0 .. MaxReverts)'
  BY <1>0 DEF IInv, CallsTyped
<1> QED BY <1>1, <1>2, <1>3, <1>4, <1>5 DEF IInv

\* The drain of s ends, and whoever still counts on it has another one owed.
LEMMA DrainEnds ==
  ASSUME IInv, NEW s \in Sessions, NEW failed \in BOOLEAN, Ends(s, failed),
         UNCHANGED <<seq, input, client, receipts, reverts>>,
         asked' \subseteq asked,
         \A id \in asked' : input[id].session = s => owed[s]
  PROVE  IInv'
<1>0. /\ busy[s] /\ busy' = [busy EXCEPT ![s] = FALSE] /\ owed' = owed
      /\ runner' = [runner EXCEPT ![s] = NoDrain]
      /\ past' = [past EXCEPT ![s] = [NewPast EXCEPT !.failed = failed]]
  BY DEF Ends, Coordinator!Finish, Goes
<1>1. Inbox'
  BY InboxStands DEF IInv
<1>2. Receipts'
  BY ReceiptsStand DEF IInv
<1>3. Drains'
  <2> DEFINE p == [NewPast EXCEPT !.failed = failed]
  <2>0. p \in Past /\ p.turns = 0 /\ NoDrain.pc = "idle" /\ NoDrain.cutoff = 0
    BY DEF NewPast, Past, NoDrain, Before
  <2>a. seq[s] \in Nat
    BY DEF IInv, Inbox, InboxTypeOK
  <2>1. Sound(s, seq[s], input, NoDrain, p)
    BY <2>0, <2>a, WithinStart DEF Sound
  <2> HIDE DEF p
  <2>2. DrainsSound'
    <3> SUFFICES ASSUME NEW t \in Sessions PROVE Sound(t, seq'[t], input', runner'[t], past'[t])
      BY DEF DrainsSound
    <3>1. CASE t = s
      BY <1>0, <2>1, <3>1 DEF IInv, Drains, p
    <3>2. CASE t # s
      <4>1. runner'[t] = runner[t] /\ past'[t] = past[t]
        BY <1>0, <3>2 DEF IInv, Drains
      <4> QED BY <4>1 DEF IInv, Drains, DrainsSound
    <3> QED BY <3>1, <3>2
  <2>3. BusyExact'
    BY <1>0, <2>0 DEF IInv, Drains, BusyExact
  <2> QED BY <1>0, <2>0, <2>2, <2>3 DEF IInv, Drains, p
<1>4. Wakes'
  <2> SUFFICES ASSUME NEW id \in asked'
               PROVE  WakeKept(input[id], owed, busy', runner')
    BY <1>0 DEF IInv, Wakes, WakesServed, WakeKept, Stored, Visible
  <2>1. WakeKept(input[id], owed, busy, runner)
    BY DEF IInv, Wakes, WakesServed, WakeKept, Stored, Visible
  <2>0. input[id].session \in Sessions
    BY <2>1 DEF WakeKept, IInv, Wakes, Inbox, InboxTypeOK, Row
  <2> QED BY <1>0, <2>0, <2>1 DEF WakeKept, IInv, Drains
<1>5. CallsTyped' /\ (reverts \in 0 .. MaxReverts)'
  BY DEF IInv, CallsTyped
<1> QED BY <1>1, <1>2, <1>3, <1>4, <1>5 DEF IInv

\* A new drain of s begins with nothing done and nothing owed by it.
LEMMA DrainBegins ==
  ASSUME Inbox, Drains, NEW s \in Sessions, NEW force \in BOOLEAN, Begin(s, force),
         UNCHANGED <<seq, input>>, asked' \subseteq Ids,
         \A id \in asked' : \/ WakeKept(input[id], owed, busy, runner)
                            \/ Stored(id) /\ ~Visible(id) /\ input[id].session = s
  PROVE  Drains' /\ Wakes'
<1>0. /\ ~busy[s] /\ busy' = [busy EXCEPT ![s] = TRUE]
      /\ owed' = owed \/ owed' = [owed EXCEPT ![s] = FALSE]
      /\ runner' = [runner EXCEPT ![s] = Begun(force)]
      /\ past' = [past EXCEPT ![s] = NewPast]
  BY DEF Begin, Coordinator!Start
<1>1. Begun(force) \in Drain /\ Begun(force).pc = "steer?" /\ Begun(force).cutoff = 0
  BY DEF Begun, Before, Drain, PCs, Promotions
<1>2. NewPast \in Past /\ NewPast.turns = 0 /\ NewPast.rested
  BY DEF NewPast, Past
<1>3. Sound(s, seq[s], input, Begun(force), NewPast)
  <2>1. seq[s] \in Nat
    BY DEF Inbox, InboxTypeOK
  <2> QED BY <1>1, <1>2, <2>1, WithinStart DEF Sound
<1>4. DrainsSound'
  <2> SUFFICES ASSUME NEW t \in Sessions PROVE Sound(t, seq'[t], input', runner'[t], past'[t])
    BY DEF DrainsSound
  <2>1. CASE t = s
    BY <1>0, <1>3, <2>1 DEF Drains
  <2>2. CASE t # s
    <3>1. runner'[t] = runner[t] /\ past'[t] = past[t]
      BY <1>0, <2>2 DEF Drains
    <3> QED BY <3>1 DEF Drains, DrainsSound
  <2> QED BY <2>1, <2>2
<1>5. BusyExact'
  BY <1>0, <1>1 DEF Drains, BusyExact
<1>6. Drains'
  <2>1. busy' \in [Sessions -> BOOLEAN] /\ owed' \in [Sessions -> BOOLEAN]
    BY <1>0 DEF Drains
  <2>2. runner' \in [Sessions -> Drain \cup {NoDrain}] /\ past' \in [Sessions -> Past]
    BY <1>0, <1>1, <1>2 DEF Drains
  <2> QED BY <1>4, <1>5, <2>1, <2>2 DEF Drains
<1>7. Wakes'
  <2> SUFFICES ASSUME NEW id \in asked'
               PROVE  WakeKept(input[id], owed', busy', runner')
    BY DEF Wakes, WakesServed, WakeKept, Stored, Visible
  <2>1. input[id] # NoRow /\ input[id].promoted = 0
    BY DEF WakeKept, Stored, Visible
  <2>2. input[id].session \in Sessions
    BY <2>1 DEF Inbox, InboxTypeOK, Row
  <2>3. CASE input[id].session = s
    <3>1. runner'[s].pc = "steer?" /\ busy'[s]
      BY <1>0, <1>1 DEF Drains
    <3> QED BY <2>1, <2>3, <3>1 DEF WakeKept
  <2>4. CASE input[id].session # s
    <3>1. WakeKept(input[id], owed, busy, runner)
      BY <2>4
    <3>2. /\ runner'[input[id].session] = runner[input[id].session]
          /\ busy'[input[id].session] = busy[input[id].session]
          /\ owed'[input[id].session] = owed[input[id].session]
      BY <1>0, <2>2, <2>4 DEF Drains
    <3> QED BY <3>1, <3>2 DEF WakeKept
  <2> QED BY <2>3, <2>4
<1> QED BY <1>6, <1>7

-----------------------------------------------------------------------------
(* The steps of a drain that only read.                                    *)

\* What holds of a drain that is under way.
LEMMA UnderWay ==
  ASSUME IInv, NEW s \in Sessions, runner[s].pc # "idle"
  PROVE  /\ runner[s] \in Drain /\ busy[s] /\ past[s] \in Past
         /\ seq[s] \in Nat /\ input \in [Ids -> Row \cup {NoRow}]
         /\ Sound(s, seq[s], input, runner[s], past[s])
         /\ past' = past => past' = [past EXCEPT ![s] = past[s]]
         /\ \A kind : Waiting(s, input, kind) = Pending(s, kind)
<1>1. NoDrain.pc = "idle"
  BY DEF NoDrain, Before
<1>2. runner[s] \in Drain /\ busy[s] /\ past[s] \in Past
  BY <1>1 DEF IInv, Drains, BusyExact
<1>3. Sound(s, seq[s], input, runner[s], past[s])
  BY DEF IInv, Drains, DrainsSound
<1>4. seq[s] \in Nat /\ input \in [Ids -> Row \cup {NoRow}]
  BY DEF IInv, Inbox, InboxTypeOK
<1>5. past' = past => past' = [past EXCEPT ![s] = past[s]]
  BY DEF IInv, Drains
<1>6. \A kind : Waiting(s, input, kind) = Pending(s, kind)
  BY DEF Waiting, Pending, Stored, Visible
<1> QED BY <1>2, <1>3, <1>4, <1>5, <1>6

\* A drain that goes on to a turn.
LEMMA TurnGoes ==
  ASSUME IInv, NEW s \in Sessions, runner[s].pc # "idle", Reads(s),
         NEW promotion \in Promotions, NEW step \in Nat \ {0}, NEW p \in Past,
         Goes(s, Turn(s, promotion, step)), past' = [past EXCEPT ![s] = p],
         p.reverted \/ Within(s, p.turns),
         TurnSound(s, input, Turn(s, promotion, step), p)
  PROVE  IInv'
<1> DEFINE d == Turn(s, promotion, step)
<1>1. d \in Drain
  BY UnderWay DEF Turn, Before, Drain, PCs
<1>2. d.pc = "turn" /\ d.cutoff = 0 /\ ~d.fresh
  BY DEF Turn, Before
<1>3. seq[s] \in Nat
  BY UnderWay
<1> HIDE DEF d
<1>4. Sound(s, seq[s], input, d, p)
  BY <1>1, <1>2, <1>3 DEF Sound, d
<1> QED BY <1>1, <1>2, <1>4, DrainGoes DEF d

\* The fields of a turn's locals.
LEMMA TurnFields ==
  ASSUME NEW s, NEW promotion, NEW step
  PROVE  LET d == Turn(s, promotion, step) IN
         d.promotion = promotion /\ d.step = step /\ d.force = runner[s].force /\ d.cutoff = 0
BY DEF Turn, Before

\* No steer was admitted before the Session.
LEMMA NoneEarly ==
  ASSUME IInv, NEW s \in Sessions
  PROVE  Early(s, input, 0) = {}
<1> SUFFICES ASSUME NEW i \in Early(s, input, 0) PROVE FALSE
  OBVIOUS
<1>1. i \in Ids /\ Stored(i) /\ input[i].session = s /\ input[i].admitted <= 0
  BY DEF Early, Waiting, Stored
<1>2. input[i].admitted \in 1 .. seq[s] /\ seq[s] \in Nat
  BY <1>1 DEF IInv, Inbox, InboxSound, InboxTypeOK
<1> QED BY <1>1, <1>2

\* runner.run looks for pending steers.
LEMMA HasSteerStep ==
  ASSUME IInv, NEW s \in Sessions, HasSteer(s) PROVE IInv'
<1>0. runner[s].pc = "steer?" /\ Reads(s) /\ past' = past
  BY DEF HasSteer, At
<1>1. /\ runner[s] \in Drain /\ past[s] \in Past /\ seq[s] \in Nat
      /\ Sound(s, seq[s], input, runner[s], past[s])
      /\ past' = [past EXCEPT ![s] = past[s]]
      /\ Waiting(s, input, "steer") = Pending(s, "steer")
  BY <1>0, UnderWay
<1>2. past[s].turns = 0 /\ past[s].rested /\ runner[s].cutoff <= seq[s]
  BY <1>0, <1>1 DEF Sound
<1>3. CASE Pending(s, "steer") # {}
  <2>1. Goes(s, Turn(s, "steer", 1))
    BY <1>3 DEF HasSteer
  <2>2. TurnSound(s, input, Turn(s, "steer", 1), past[s])
    BY <1>1, <1>3, TurnFields DEF TurnSound
  <2>3. Within(s, past[s].turns) /\ 1 \in Nat \ {0} /\ "steer" \in Promotions /\ runner[s].pc # "idle"
    BY <1>0, <1>2, WithinStart DEF Promotions, Deliveries
  <2> QED BY <1>0, <1>1, <2>1, <2>2, <2>3, TurnGoes
<1>4. CASE Pending(s, "steer") = {}
  <2> DEFINE d == [runner[s] EXCEPT !.pc = "queue?"]
  <2>1. Goes(s, d)
    BY <1>4 DEF HasSteer
  <2>2. d \in Drain /\ d.pc = "queue?" /\ d.cutoff = runner[s].cutoff
    BY <1>1 DEF Drain, PCs
  <2> HIDE DEF d
  <2>3. Sound(s, seq[s], input, d, past[s])
    BY <1>1, <1>2, <2>2, WithinStart DEF Sound
  <2> QED BY <1>0, <1>1, <1>4, <2>1, <2>2, <2>3, DrainGoes
<1> QED BY <1>3, <1>4

\* runner.run looks for queued inputs, and may find nothing to do.
LEMMA HasQueueStep ==
  ASSUME IInv, NEW s \in Sessions, HasQueue(s) PROVE IInv'
<1>0. runner[s].pc = "queue?" /\ UNCHANGED <<seq, input, client, asked, receipts, reverts>>
  BY DEF HasQueue, At
<1>1. /\ runner[s] \in Drain /\ busy[s] /\ past[s] \in Past /\ seq[s] \in Nat
      /\ Sound(s, seq[s], input, runner[s], past[s])
      /\ past' = past => past' = [past EXCEPT ![s] = past[s]]
      /\ \A kind : Waiting(s, input, kind) = Pending(s, kind)
  BY <1>0, UnderWay
<1>2. past[s].turns = 0 /\ past[s].rested
  BY <1>0, <1>1 DEF Sound
<1>3. CASE Pending(s, "queue") # {} /\ Goes(s, Turn(s, "queue", 1)) /\ UNCHANGED <<busy, owed, past>>
  <2>1. TurnSound(s, input, Turn(s, "queue", 1), past[s])
    BY <1>1, <1>2, <1>3, TurnFields DEF TurnSound
  <2>2. Reads(s)
    BY <1>0, <1>1, <1>3 DEF Reads
  <2> QED BY <1>0, <1>1, <1>2, <1>3, <2>1, <2>2, WithinStart, TurnGoes DEF Promotions, Deliveries
<1>4. CASE runner[s].force /\ Goes(s, Turn(s, None, 1)) /\ UNCHANGED <<busy, owed, past>>
  <2>1. Entitled(s, Turn(s, None, 1), past[s])
    BY <1>2, <1>4, TurnFields, WithinStart DEF Entitled
  <2>2. TurnSound(s, input, Turn(s, None, 1), past[s])
    BY <2>1, TurnFields, NoneEarly DEF TurnSound
  <2>3. Reads(s)
    BY <1>0, <1>1, <1>4 DEF Reads
  <2> QED BY <1>0, <1>1, <1>2, <1>4, <2>2, <2>3, WithinStart, TurnGoes DEF Promotions
<1>5. CASE Pending(s, "queue") = {} /\ Ends(s, FALSE)
  <2> SUFFICES ASSUME NEW id \in asked, input[id].session = s PROVE owed[s]
    BY <1>0, <1>5, DrainEnds
  <2>1. WakeKept(input[id], owed, busy, runner) /\ id \in Ids
    BY DEF IInv, Wakes, WakesServed, WakeKept, Stored, Visible
  <2>2. input[id].delivery # "queue"
    BY <1>5, <2>1 DEF WakeKept, Pending, Stored, Visible
  <2>3. input[id].delivery = "steer"
    BY <2>1, <2>2 DEF WakeKept, IInv, Inbox, InboxTypeOK, Row, Deliveries
  <2> QED BY <1>0, <2>1, <2>3 DEF WakeKept
<1> QED BY <1>3, <1>4, <1>5 DEF HasQueue

\* A turn begins: its cutoff is the latest sequence if it may promote.
LEMMA BeginTurnStep ==
  ASSUME IInv, NEW s \in Sessions, BeginTurn(s) PROVE IInv'
<1>0. runner[s].pc = "turn" /\ Reads(s) /\ past' = past
  BY DEF BeginTurn, At
<1> DEFINE promotion == runner[s].promotion
           cutoff == IF promotion = None THEN runner[s].cutoff ELSE seq[s]
           pc == CASE promotion = "queue" -> "queued"
                   [] promotion = "steer" -> "steers"
                   [] promotion = None -> "request"
           d == [runner[s] EXCEPT !.cutoff = cutoff, !.pc = pc]
<1>1. /\ runner[s] \in Drain /\ past[s] \in Past /\ seq[s] \in Nat
      /\ input \in [Ids -> Row \cup {NoRow}]
      /\ Sound(s, seq[s], input, runner[s], past[s])
      /\ past' = [past EXCEPT ![s] = past[s]]
  BY <1>0, UnderWay
<1>2. TurnSound(s, input, runner[s], past[s]) /\ ~runner[s].fresh /\ runner[s].cutoff <= seq[s]
      /\ (past[s].reverted \/ Within(s, past[s].turns))
  BY <1>0, <1>1 DEF Sound
<1>3. promotion \in Deliveries \cup {None} /\ cutoff \in Nat /\ cutoff <= seq[s]
  BY <1>1, <1>2 DEF Drain, Promotions
<1>4. pc = CASE promotion = "queue" -> "queued" [] promotion = "steer" -> "steers" [] promotion = None -> "request"
  OBVIOUS
<1>5. /\ promotion = "queue" => pc = "queued"
      /\ promotion = "steer" => pc = "steers"
      /\ promotion = None => pc = "request"
  BY <1>3, NoneAssumption DEF Deliveries
<1>6. Goes(s, d)
  BY DEF BeginTurn
<1>7. pc \in {"queued", "steers", "request"}
  BY <1>3, <1>5 DEF Deliveries
<1>8. cutoff = (IF promotion = None THEN runner[s].cutoff ELSE seq[s])
  OBVIOUS
<1> HIDE DEF cutoff, pc
<1>9. d \in Drain
  BY <1>1, <1>3, <1>7 DEF Drain, PCs
<1>10. /\ d.pc = pc /\ d.cutoff = cutoff /\ d.fresh = runner[s].fresh /\ d.promotion = promotion
       /\ d.step = runner[s].step /\ d.force = runner[s].force
  BY <1>1 DEF Drain
<1> HIDE DEF d
<1>11. Sound(s, seq[s], input, d, past[s])
  <2>1. CASE promotion = "queue"
    BY <1>1, <1>2, <1>3, <1>5, <1>10, <2>1, NoneAssumption DEF Sound, TurnSound
  <2>2. CASE promotion = "steer"
    <3>1. Entitled(s, runner[s], past[s]) \/ Waiting(s, input, "steer") # {}
      BY <1>2, <2>2, NoneAssumption DEF TurnSound
    <3>2. cutoff = seq[s]
      BY <1>8, <2>2, NoneAssumption
    <3>3. Waiting(s, input, "steer") \subseteq Early(s, input, seq[s])
      BY DEF IInv, Inbox, InboxSound, InboxTypeOK, Waiting, Early, Stored
    <3>4. Entitled(s, d, past[s]) \/ Early(s, input, d.cutoff) # {}
      BY <1>10, <3>1, <3>2, <3>3 DEF Entitled
    <3>5. SteersSound(s, input, d, past[s])
      BY <1>2, <1>10, <3>4 DEF SteersSound
    <3> QED BY <1>2, <1>3, <1>5, <1>10, <2>2, <3>5 DEF Sound
  <2>3. CASE promotion = None
    <3>1. Entitled(s, runner[s], past[s]) /\ Early(s, input, runner[s].cutoff) = {}
      BY <1>2, <2>3, NoneAssumption DEF TurnSound
    <3>2. Entitled(s, d, past[s]) /\ Early(s, input, d.cutoff) = {}
      BY <1>8, <1>10, <2>3, <3>1 DEF Entitled
    <3> QED BY <1>2, <1>3, <1>5, <1>10, <2>3, <3>2 DEF Sound
  <2> QED BY <1>3, <2>1, <2>2, <2>3 DEF Deliveries
<1>12. d.pc \notin {"stopping", "queue?", "queue again?"}
  BY <1>7, <1>10
<1> QED BY <1>0, <1>1, <1>6, <1>9, <1>11, <1>12, DrainGoes

\* What a promoter selects are rows of the inbox, each with its identifier.
LEMMA SnapshotRows ==
  ASSUME InboxTypeOK, NEW s \in Sessions, NEW kind \in Deliveries, NEW ids \in SUBSET Waiting(s, input, kind)
  PROVE  /\ Snapshot(ids) \subseteq Selected
         /\ \A e \in Snapshot(ids) : /\ e.id \in ids /\ e.row = input[e.id] /\ e.row \in Row
                                     /\ e.row.session = s /\ e.row.delivery = kind /\ e.row.promoted = 0
         /\ \A i \in ids : [id |-> i, row |-> input[i]] \in Snapshot(ids)
<1>1. \A i \in ids : /\ i \in Ids /\ input[i] \in Row
                     /\ input[i].session = s /\ input[i].delivery = kind /\ input[i].promoted = 0
  BY DEF Waiting, InboxTypeOK
<1>2. \A e \in Snapshot(ids) : \E i \in ids : e = [id |-> i, row |-> input[i]]
  BY DEF Snapshot
<1>3. \A e \in Snapshot(ids) : e.id \in ids /\ e.row = input[e.id] /\ e = [id |-> e.id, row |-> input[e.id]]
  BY <1>2
<1>4. Snapshot(ids) \subseteq Selected
  BY <1>1, <1>3 DEF Selected
<1> QED BY <1>1, <1>3, <1>4 DEF Snapshot

\* Both promoters make such a batch; here is what the drain knows of it.
LEMMA BatchRows ==
  ASSUME IInv, NEW s \in Sessions, NEW kind \in Deliveries, NEW ids \in SUBSET Waiting(s, input, kind), NEW p \in Past
  PROVE  /\ Snapshot(ids) \subseteq Selected
         /\ \A e \in Snapshot(ids) : BatchRow(s, seq[s], input, p, e) /\ e.row.delivery = kind
<1>1. /\ Snapshot(ids) \subseteq Selected
      /\ \A e \in Snapshot(ids) : /\ e.id \in ids /\ e.row = input[e.id] /\ e.row \in Row
                                  /\ e.row.session = s /\ e.row.delivery = kind /\ e.row.promoted = 0
  BY SnapshotRows DEF IInv, Inbox
<1>2. \A i \in ids : input[i].admitted \in 1 .. seq[s]
  BY DEF IInv, Inbox, InboxSound, Waiting, Stored
<1>3. \A e \in Snapshot(ids) : e.row.admitted \in 1 .. seq[s]
  BY <1>1, <1>2
<1> QED BY <1>1, <1>3 DEF BatchRow

\* promoteNextQueued selects.
LEMMA SelectQueuedStep ==
  ASSUME IInv, NEW s \in Sessions, SelectQueued(s) PROVE IInv'
<1>0. runner[s].pc = "queued" /\ Reads(s) /\ past' = past
  BY DEF SelectQueued, At
<1>1. /\ runner[s] \in Drain /\ past[s] \in Past /\ seq[s] \in Nat
      /\ input \in [Ids -> Row \cup {NoRow}]
      /\ Sound(s, seq[s], input, runner[s], past[s])
      /\ past' = [past EXCEPT ![s] = past[s]]
      /\ Waiting(s, input, "queue") = Pending(s, "queue")
  BY <1>0, UnderWay
<1>2. /\ past[s].rested /\ ~runner[s].fresh /\ runner[s].cutoff <= seq[s]
      /\ past[s].reverted \/ Within(s, past[s].turns)
      /\ past[s].reverted \/ Waiting(s, input, "queue") # {}
  BY <1>0, <1>1 DEF Sound
<1>3. CASE NextQueued(s) = {}
  <2> DEFINE d == [runner[s] EXCEPT !.pc = "steers"]
  <2>1. Goes(s, d)
    BY <1>3 DEF SelectQueued
  <2>2. d \in Drain /\ d.pc = "steers" /\ d.cutoff = runner[s].cutoff
    BY <1>1 DEF Drain, PCs
  <2> HIDE DEF d
  <2>3. past[s].reverted
    BY <1>1, <1>2, <1>3, NextQueuedFound DEF IInv, Inbox
  <2>4. Sound(s, seq[s], input, d, past[s])
    BY <1>2, <2>2, <2>3 DEF Sound, SteersSound
  <2> QED BY <1>0, <1>1, <2>1, <2>2, <2>4, DrainGoes
<1>4. CASE NextQueued(s) # {}
  <2> DEFINE batch == NextQueued(s)
             first == {id \in Pending(s, "queue") : \A j \in Pending(s, "queue") : input[id].admitted <= input[j].admitted}
             d == [runner[s] EXCEPT !.pc = "promoting", !.batch = batch, !.next = "steers", !.fresh = TRUE]
  <2>1. Goes(s, d)
    BY <1>4 DEF SelectQueued
  <2>2. batch = Snapshot(first) /\ first \in SUBSET Waiting(s, input, "queue")
    BY <1>1 DEF NextQueued
  <2>3. \A i \in first, j \in Waiting(s, input, "queue") : input[i].admitted <= input[j].admitted
    BY <1>1
  <2>4. batch \subseteq Selected /\ \A e \in batch : BatchRow(s, seq[s], input, past[s], e) /\ e.row.delivery = "queue"
    BY <1>1, <2>2, BatchRows DEF Deliveries
  <2>5. \A e \in batch : e.id \in first /\ e.row = input[e.id]
    BY <2>2, SnapshotRows DEF IInv, Inbox, Deliveries
  <2> HIDE DEF batch, first
  <2>6. d \in Drain
    BY <1>1, <2>4 DEF Drain, PCs
  <2>7. d.pc = "promoting" /\ d.batch = batch /\ d.next = "steers" /\ d.fresh /\ d.cutoff = runner[s].cutoff
    BY <1>1 DEF Drain
  <2> HIDE DEF d
  <2>8. \A e, f \in batch : e = f
    <3> SUFFICES ASSUME NEW e \in batch, NEW f \in batch PROVE e = f
      OBVIOUS
    <3>1. /\ e.id \in first /\ f.id \in first /\ e.row = input[e.id] /\ f.row = input[f.id]
          /\ e = [id |-> e.id, row |-> e.row] /\ f = [id |-> f.id, row |-> f.row]
      BY <2>4, <2>5 DEF Selected
    <3>2. /\ input[e.id] \in Row /\ input[f.id] \in Row /\ e.id \in Ids /\ f.id \in Ids
          /\ Stored(e.id) /\ Stored(f.id) /\ input[e.id].session = s /\ input[f.id].session = s
          /\ e.id \in Waiting(s, input, "queue") /\ f.id \in Waiting(s, input, "queue")
      BY <1>1, <2>2, <3>1 DEF Waiting, Stored
    <3>3. input[e.id].admitted <= input[f.id].admitted /\ input[f.id].admitted <= input[e.id].admitted
      BY <2>3, <3>1, <3>2
    <3>4. input[e.id].admitted = input[f.id].admitted
      BY <3>2, <3>3 DEF Row
    <3>5. e.id = f.id
      BY <3>2, <3>4 DEF IInv, Inbox, InboxSound
    <3> QED BY <3>1, <3>5
  <2>9. \A e \in batch, i \in Waiting(s, input, "queue") : input[i].admitted >= e.row.admitted
    BY <2>3, <2>5
  <2>10. QueueBatch(s, input, d, past[s])
    BY <1>2, <2>4, <2>7, <2>8, <2>9 DEF QueueBatch
  <2>11. BatchSound(s, seq[s], input, d, past[s])
    BY <1>4, <2>4, <2>7, <2>10 DEF BatchSound, batch
  <2>12. Sound(s, seq[s], input, d, past[s])
    BY <1>2, <2>7, <2>11 DEF Sound
  <2>13. d.pc \notin {"stopping", "queue?", "queue again?"}
    BY <2>7
  <2> QED BY <1>0, <1>1, <2>1, <2>6, <2>12, <2>13, DrainGoes
<1> QED BY <1>3, <1>4

\* The fields of the locals after `if (promoted > 0) currentStep = 1`.
LEMMA ResetFields ==
  ASSUME NEW d \in Drain
  PROVE  /\ ResetStep(d) \in Drain
         /\ ResetStep(d).pc = "request" /\ ResetStep(d).promotion = None /\ ~ResetStep(d).fresh
         /\ ResetStep(d).step = (IF d.fresh THEN 1 ELSE d.step)
         /\ ResetStep(d).force = d.force /\ ResetStep(d).cutoff = d.cutoff
<1> DEFINE k == IF d.fresh THEN 1 ELSE d.step
           r == [d EXCEPT !.pc = "request", !.promotion = None, !.step = k, !.fresh = FALSE]
<1>1. k \in Nat \ {0}
  BY DEF Drain
<1>2. ResetStep(d) = r
  BY DEF ResetStep
<1> HIDE DEF k
<1>3. r \in Drain
  BY <1>1 DEF Drain, PCs, Promotions
<1>4. /\ r.pc = "request" /\ r.promotion = None /\ ~r.fresh /\ r.step = k
      /\ r.force = d.force /\ r.cutoff = d.cutoff
  BY DEF Drain
<1> QED BY <1>2, <1>3, <1>4 DEF k

\* A turn that has promoted all it must goes on to its request.
LEMMA ResetSound ==
  ASSUME NEW s \in Sessions, NEW n \in Nat, NEW rows, NEW d \in Drain, NEW p \in Past,
         d.cutoff <= n, p.reverted \/ Within(s, p.turns),
         SteersSound(s, rows, d, p), Early(s, rows, d.cutoff) = {}
  PROVE  Sound(s, n, rows, ResetStep(d), p)
<1> DEFINE r == ResetStep(d)
<1>1. /\ r \in Drain /\ r.pc = "request" /\ r.promotion = None /\ ~r.fresh
      /\ r.step = (IF d.fresh THEN 1 ELSE d.step) /\ r.force = d.force /\ r.cutoff = d.cutoff
  BY ResetFields
<1> HIDE DEF r
<1>2. Entitled(s, r, p)
  <2>1. CASE p.reverted
    BY <2>1 DEF Entitled
  <2>2. CASE d.fresh /\ p.served /\ p.turns = 0
    BY <1>1, <2>2, WithinStart DEF Entitled
  <2>3. CASE ~d.fresh /\ Entitled(s, d, p)
    BY <1>1, <2>3 DEF Entitled
  <2> QED BY <2>1, <2>2, <2>3 DEF SteersSound
<1>3. Sound(s, n, rows, r, p)
  BY <1>1, <1>2 DEF Sound
<1> QED BY <1>3 DEF r

\* promoteSteers selects.
LEMMA SelectSteersStep ==
  ASSUME IInv, NEW s \in Sessions, SelectSteers(s) PROVE IInv'
<1>0. runner[s].pc = "steers" /\ Reads(s) /\ past' = past
  BY DEF SelectSteers, At
<1>1. /\ runner[s] \in Drain /\ past[s] \in Past /\ seq[s] \in Nat
      /\ Sound(s, seq[s], input, runner[s], past[s])
      /\ past' = [past EXCEPT ![s] = past[s]]
      /\ Waiting(s, input, "steer") = Pending(s, "steer")
  BY <1>0, UnderWay
<1>2. /\ SteersSound(s, input, runner[s], past[s]) /\ runner[s].cutoff <= seq[s]
      /\ past[s].reverted \/ Within(s, past[s].turns)
  BY <1>0, <1>1 DEF Sound
<1> DEFINE early == Early(s, input, runner[s].cutoff)
           batch == Snapshot(early)
<1>3. SteersUpTo(s, runner[s].cutoff) = batch
  BY <1>1 DEF SteersUpTo, Early
<1>4. early \in SUBSET Waiting(s, input, "steer")
  BY DEF Early
<1>5. batch \subseteq Selected /\ \A e \in batch : BatchRow(s, seq[s], input, past[s], e) /\ e.row.delivery = "steer"
  BY <1>1, <1>4, BatchRows DEF Deliveries
<1>6. /\ \A e \in batch : e.id \in early /\ e.row = input[e.id]
      /\ \A i \in early : [id |-> i, row |-> input[i]] \in batch
  BY <1>4, SnapshotRows DEF IInv, Inbox, Deliveries
<1>7. CASE batch = {}
  <2>1. Goes(s, ResetStep(runner[s]))
    BY <1>3, <1>7 DEF SelectSteers
  <2>2. Early(s, input, runner[s].cutoff) = {}
    BY <1>6, <1>7
  <2>3. Sound(s, seq[s], input, ResetStep(runner[s]), past[s])
    BY <1>1, <1>2, <2>2, ResetSound
  <2>4. ResetStep(runner[s]) \in Drain /\ ResetStep(runner[s]).pc = "request"
    BY <1>1, ResetFields
  <2> QED BY <1>0, <1>1, <2>1, <2>3, <2>4, DrainGoes
<1>8. CASE batch # {}
  <2> DEFINE d == [runner[s] EXCEPT !.pc = "promoting", !.batch = batch, !.next = "request", !.fresh = TRUE]
  <2>1. Goes(s, d)
    BY <1>3, <1>8 DEF SelectSteers
  <2> HIDE DEF batch
  <2>2. d \in Drain
    BY <1>1, <1>5 DEF Drain, PCs
  <2>3. d.pc = "promoting" /\ d.batch = batch /\ d.next = "request" /\ d.fresh /\ d.cutoff = runner[s].cutoff
    BY <1>1 DEF Drain
  <2> HIDE DEF d
  <2>4. SteerBatch(s, input, d)
    <3>1. \A e \in batch : e.row.admitted <= d.cutoff
      BY <1>6, <2>3 DEF Early
    <3> QED BY <1>5, <1>6, <2>3, <3>1 DEF SteerBatch
  <2>5. BatchSound(s, seq[s], input, d, past[s])
    BY <1>5, <1>8, <2>3, <2>4 DEF BatchSound
  <2>6. Sound(s, seq[s], input, d, past[s])
    BY <1>2, <2>3, <2>5 DEF Sound
  <2>7. d.pc \notin {"stopping", "queue?", "queue again?"}
    BY <2>3
  <2> QED BY <1>0, <1>1, <2>1, <2>2, <2>6, <2>7, DrainGoes
<1> QED BY <1>7, <1>8

\* A drain whose request may follow as things are, moved to another point of
\* its turn, still may.
LEMMA RequestMoves ==
  ASSUME IInv, NEW s \in Sessions, Reads(s), UNCHANGED past,
         runner[s].pc \in {"request", "stream"},
         NEW d \in Drain, Goes(s, d), d.pc \in {"turn", "stream"},
         d.cutoff = runner[s].cutoff, d.promotion = runner[s].promotion, d.fresh = runner[s].fresh,
         d.step = runner[s].step, d.force = runner[s].force
  PROVE  IInv'
<1>1. /\ runner[s] \in Drain /\ past[s] \in Past /\ seq[s] \in Nat
      /\ Sound(s, seq[s], input, runner[s], past[s])
      /\ past' = [past EXCEPT ![s] = past[s]]
  BY UnderWay
<1>2. /\ runner[s].promotion = None /\ ~runner[s].fresh /\ Entitled(s, runner[s], past[s])
      /\ Early(s, input, runner[s].cutoff) = {} /\ runner[s].cutoff <= seq[s]
      /\ past[s].reverted \/ Within(s, past[s].turns)
  BY <1>1 DEF Sound
<1>3. Entitled(s, d, past[s])
  BY <1>2 DEF Entitled
<1>4. d.pc = "turn" => TurnSound(s, input, d, past[s])
  BY <1>2, <1>3 DEF TurnSound
<1>5. Sound(s, seq[s], input, d, past[s])
  BY <1>2, <1>3, <1>4 DEF Sound
<1>6. d.pc # "stopping" /\ d.pc \notin {"queue?", "queue again?"}
  OBVIOUS
<1> QED BY <1>1, <1>5, <1>6, DrainGoes

\* A request that is rebuilt after compaction.
LEMMA CompactStep ==
  ASSUME IInv, NEW s \in Sessions, Compact(s) PROVE IInv'
<1> DEFINE d == [runner[s] EXCEPT !.pc = "turn", !.compacted = TRUE]
<1>1. runner[s].pc = "request" /\ Reads(s) /\ UNCHANGED past /\ Goes(s, d)
  BY DEF Compact, At
<1>2. runner[s] \in Drain
  BY <1>1, UnderWay
<1>3. d \in Drain
  BY <1>2 DEF Drain, PCs
<1>4. /\ d.pc = "turn" /\ d.cutoff = runner[s].cutoff /\ d.promotion = runner[s].promotion
      /\ d.fresh = runner[s].fresh /\ d.step = runner[s].step /\ d.force = runner[s].force
  BY <1>2 DEF Drain
<1> HIDE DEF d
<1> QED BY <1>1, <1>3, <1>4, RequestMoves

\* The provider is called.
LEMMA StreamStep ==
  ASSUME IInv, NEW s \in Sessions, Stream(s) PROVE IInv'
<1> DEFINE d == [runner[s] EXCEPT !.pc = "stream"]
<1>1. runner[s].pc = "request" /\ Reads(s) /\ UNCHANGED past /\ Goes(s, d)
  BY DEF Stream, At
<1>2. runner[s] \in Drain
  BY <1>1, UnderWay
<1>3. d \in Drain
  BY <1>2 DEF Drain, PCs
<1>4. /\ d.pc = "stream" /\ d.cutoff = runner[s].cutoff /\ d.promotion = runner[s].promotion
      /\ d.fresh = runner[s].fresh /\ d.step = runner[s].step /\ d.force = runner[s].force
  BY <1>2 DEF Drain
<1> HIDE DEF d
<1> QED BY <1>1, <1>3, <1>4, RequestMoves

\* The turn is tried again after an overflow.
LEMMA RecoverOverflowStep ==
  ASSUME IInv, NEW s \in Sessions, RecoverOverflow(s) PROVE IInv'
<1> DEFINE d == [runner[s] EXCEPT !.pc = "turn", !.recover = FALSE, !.compacted = TRUE]
<1>1. runner[s].pc = "stream" /\ Reads(s) /\ UNCHANGED past /\ Goes(s, d)
  BY DEF RecoverOverflow, At
<1>2. runner[s] \in Drain
  BY <1>1, UnderWay
<1>3. d \in Drain
  BY <1>2 DEF Drain, PCs
<1>4. /\ d.pc = "turn" /\ d.cutoff = runner[s].cutoff /\ d.promotion = runner[s].promotion
      /\ d.fresh = runner[s].fresh /\ d.step = runner[s].step /\ d.force = runner[s].force
  BY <1>2 DEF Drain
<1> HIDE DEF d
<1> QED BY <1>1, <1>3, <1>4, RequestMoves

\* The model asked for tools and the loop goes on.
LEMMA ContinueStep ==
  ASSUME IInv, NEW s \in Sessions, Continue(s) PROVE IInv'
<1> DEFINE p == [past[s] EXCEPT !.turns = NextStep(s, @), !.rested = FALSE]
<1>0. runner[s].pc = "stream" /\ Reads(s) /\ OffersTools(s) /\ Goes(s, Turn(s, "steer", NextStep(s, runner[s].step)))
  BY DEF Continue, At
<1>1. /\ runner[s] \in Drain /\ past[s] \in Past /\ Sound(s, seq[s], input, runner[s], past[s])
      /\ past \in [Sessions -> Past]
  BY <1>0, UnderWay DEF IInv, Drains
<1>2. Entitled(s, runner[s], past[s]) /\ (past[s].reverted \/ Within(s, past[s].turns))
  BY <1>0, <1>1 DEF Sound
<1>3. past' = [past EXCEPT ![s] = p]
  BY <1>1 DEF Continue, Past
<1>4. p \in Past /\ p.turns = NextStep(s, past[s].turns) /\ p.reverted = past[s].reverted /\ p.served = past[s].served
  <2> DEFINE t == NextStep(s, past[s].turns)
  <2>1. t \in Nat
    BY <1>1, StepsCounted DEF Past, Drain
  <2>2. p = [past[s] EXCEPT !.turns = t, !.rested = FALSE]
    OBVIOUS
  <2> HIDE DEF t
  <2> QED BY <1>1, <2>1, <2>2 DEF Past, t
<1>5. runner[s].step \in Nat \ {0} /\ past[s].turns \in Nat
  BY <1>1 DEF Drain, Past
<1>a. Within(s, NextStep(s, runner[s].step))
  BY <1>0, <1>5, StepsCounted
<1>b. runner[s].step = past[s].turns + 1 =>
        /\ NextStep(s, runner[s].step) = NextStep(s, past[s].turns) + 1
        /\ Within(s, runner[s].step) => Within(s, NextStep(s, past[s].turns))
  BY <1>5, StepsAssumption DEF NextStep, Within
<1> HIDE DEF p
<1>6. Entitled(s, Turn(s, "steer", NextStep(s, runner[s].step)), p)
  <2> DEFINE k == NextStep(s, runner[s].step)
             u == NextStep(s, past[s].turns)
             d == Turn(s, "steer", k)
  <2>1. d.step = k /\ d.force = runner[s].force
    BY TurnFields
  <2>2. past[s].reverted \/ ((runner[s].force \/ past[s].served) /\ runner[s].step = past[s].turns + 1)
    BY <1>2 DEF Entitled
  <2>3. past[s].reverted \/ ((runner[s].force \/ past[s].served) /\ k = u + 1)
    BY <1>b, <2>2
  <2>4. Within(s, k)
    BY <1>a
  <2> HIDE DEF k, u, d
  <2>5. p.turns = u
    BY <1>4 DEF u
  <2>6. Entitled(s, d, p)
    BY <1>4, <2>1, <2>3, <2>4, <2>5 DEF Entitled
  <2> QED BY <2>6 DEF d, k
<1>7. TurnSound(s, input, Turn(s, "steer", NextStep(s, runner[s].step)), p)
  BY <1>6, TurnFields DEF TurnSound
<1>8. p.reverted \/ Within(s, p.turns)
  BY <1>2, <1>4, <1>b DEF Entitled
<1>9. "steer" \in Promotions /\ NextStep(s, runner[s].step) \in Nat \ {0} /\ runner[s].pc # "idle"
  BY <1>0, <1>5, StepsCounted DEF Promotions, Deliveries
<1> QED BY <1>0, <1>3, <1>4, <1>7, <1>8, <1>9, TurnGoes

\* The model rests.
LEMMA SettleStep ==
  ASSUME IInv, NEW s \in Sessions, Settle(s) PROVE IInv'
<1> DEFINE p == [past[s] EXCEPT !.turns = NextStep(s, @), !.rested = TRUE]
           d == Before("steer again?", runner[s].force, None, runner[s].step, FALSE)
<1>0. runner[s].pc = "stream" /\ Reads(s) /\ Goes(s, d)
  BY DEF Settle, At
<1>1. /\ runner[s] \in Drain /\ past[s] \in Past /\ Sound(s, seq[s], input, runner[s], past[s])
      /\ past \in [Sessions -> Past] /\ seq[s] \in Nat
  BY <1>0, UnderWay DEF IInv, Drains
<1>2. Entitled(s, runner[s], past[s])
  BY <1>0, <1>1 DEF Sound
<1>3. past' = [past EXCEPT ![s] = p]
  BY <1>1 DEF Settle, Past
<1>4. p \in Past /\ p.turns = NextStep(s, past[s].turns) /\ p.reverted = past[s].reverted /\ p.rested
  <2> DEFINE t == NextStep(s, past[s].turns)
  <2>1. t \in Nat
    BY <1>1, StepsCounted DEF Past, Drain
  <2>2. p = [past[s] EXCEPT !.turns = t, !.rested = TRUE]
    OBVIOUS
  <2> HIDE DEF t
  <2> QED BY <1>1, <2>1, <2>2 DEF Past, t
<1>5. d \in Drain /\ d.pc = "steer again?" /\ d.cutoff = 0
  BY <1>1 DEF Drain, Before, PCs, Promotions
<1> HIDE DEF p, d
<1>6. p.reverted \/ Within(s, p.turns)
  <2>1. runner[s].step \in Nat \ {0} /\ past[s].turns \in Nat
    BY <1>1 DEF Drain, Past
  <2>2. runner[s].step = past[s].turns + 1 /\ Within(s, runner[s].step) => Within(s, NextStep(s, past[s].turns))
    BY <2>1, StepsAssumption DEF NextStep, Within
  <2>3. past[s].reverted \/ (runner[s].step = past[s].turns + 1 /\ Within(s, runner[s].step))
    BY <1>2 DEF Entitled
  <2>4. past[s].reverted \/ Within(s, NextStep(s, past[s].turns))
    BY <2>2, <2>3
  <2> QED BY <1>4, <2>4
<1>7. Sound(s, seq[s], input, d, p)
  <2>0. seq[s] \in Nat /\ d.cutoff = 0
    BY <1>1, <1>5
  <2>1. d.cutoff <= seq[s]
    BY <2>0
  <2> QED BY <1>4, <1>5, <1>6, <2>1 DEF Sound
<1> QED BY <1>0, <1>3, <1>4, <1>5, <1>7, DrainGoes

\* The inner loop looks for steers that came during the turn.
LEMMA HasSteerAgainStep ==
  ASSUME IInv, NEW s \in Sessions, HasSteerAgain(s) PROVE IInv'
<1>0. runner[s].pc = "steer again?" /\ Reads(s) /\ past' = past
  BY DEF HasSteerAgain, At
<1>1. /\ runner[s] \in Drain /\ past[s] \in Past /\ seq[s] \in Nat
      /\ Sound(s, seq[s], input, runner[s], past[s])
      /\ past' = [past EXCEPT ![s] = past[s]]
      /\ Waiting(s, input, "steer") = Pending(s, "steer")
  BY <1>0, UnderWay
<1>2. past[s].rested /\ runner[s].cutoff <= seq[s] /\ (past[s].reverted \/ Within(s, past[s].turns))
  BY <1>0, <1>1 DEF Sound
<1>3. CASE Pending(s, "steer") # {}
  <2>1. Goes(s, Turn(s, "steer", NextStep(s, runner[s].step)))
    BY <1>3 DEF HasSteerAgain
  <2>2. TurnSound(s, input, Turn(s, "steer", NextStep(s, runner[s].step)), past[s])
    BY <1>1, <1>3, TurnFields DEF TurnSound
  <2>3. NextStep(s, runner[s].step) \in Nat \ {0}
    BY <1>1, StepsCounted DEF Drain, Past
  <2>4. "steer" \in Promotions /\ runner[s].pc # "idle"
    BY <1>0 DEF Promotions, Deliveries
  <2> QED BY <1>0, <1>1, <1>2, <2>1, <2>2, <2>3, <2>4, TurnGoes
<1>4. CASE Pending(s, "steer") = {}
  <2> DEFINE d == [runner[s] EXCEPT !.pc = "queue again?"]
  <2>1. Goes(s, d)
    BY <1>4 DEF HasSteerAgain
  <2>2. d \in Drain /\ d.pc = "queue again?" /\ d.cutoff = runner[s].cutoff
    BY <1>1 DEF Drain, PCs
  <2> HIDE DEF d
  <2>3. Sound(s, seq[s], input, d, past[s])
    BY <1>1, <1>2, <2>2 DEF Sound
  <2> QED BY <1>0, <1>1, <1>4, <2>1, <2>2, <2>3, DrainGoes
<1> QED BY <1>3, <1>4

\* The outer loop looks for the next queued input, and ends without one.
LEMMA HasQueueAgainStep ==
  ASSUME IInv, NEW s \in Sessions, HasQueueAgain(s) PROVE IInv'
<1>0. runner[s].pc = "queue again?" /\ UNCHANGED <<seq, input, client, asked, receipts, reverts>>
  BY DEF HasQueueAgain, At
<1>1. /\ runner[s] \in Drain /\ busy[s] /\ past[s] \in Past /\ seq[s] \in Nat
      /\ Sound(s, seq[s], input, runner[s], past[s])
      /\ past' = past => past' = [past EXCEPT ![s] = past[s]]
      /\ \A kind : Waiting(s, input, kind) = Pending(s, kind)
  BY <1>0, UnderWay
<1>2. past[s].rested /\ (past[s].reverted \/ Within(s, past[s].turns))
  BY <1>0, <1>1 DEF Sound
<1>3. CASE Pending(s, "queue") # {} /\ Goes(s, Turn(s, "queue", 1)) /\ UNCHANGED <<busy, owed, past>>
  <2>1. TurnSound(s, input, Turn(s, "queue", 1), past[s])
    BY <1>1, <1>2, <1>3, TurnFields DEF TurnSound
  <2>2. Reads(s)
    BY <1>0, <1>1, <1>3 DEF Reads
  <2>3. 1 \in Nat \ {0}
    OBVIOUS
  <2>4. "queue" \in Promotions /\ runner[s].pc # "idle"
    BY <1>0 DEF Promotions, Deliveries
  <2> QED BY <1>1, <1>2, <1>3, <2>1, <2>2, <2>3, <2>4, TurnGoes
<1>4. CASE Pending(s, "queue") = {} /\ Ends(s, FALSE)
  <2> SUFFICES ASSUME NEW id \in asked, input[id].session = s PROVE owed[s]
    BY <1>0, <1>4, DrainEnds
  <2>1. WakeKept(input[id], owed, busy, runner) /\ id \in Ids
    BY DEF IInv, Wakes, WakesServed, WakeKept, Stored, Visible
  <2>2. input[id].delivery # "queue"
    BY <1>4, <2>1 DEF WakeKept, Pending, Stored, Visible
  <2>3. input[id].delivery = "steer"
    BY <2>1, <2>2 DEF WakeKept, IInv, Inbox, InboxTypeOK, Row, Deliveries
  <2> QED BY <1>0, <2>1, <2>3 DEF WakeKept
<1> QED BY <1>3, <1>4 DEF HasQueueAgain

\* A drain that gives up takes the wakes of its Session with it, unless
\* another drain is owed.
LEMMA GivesUpStep ==
  ASSUME IInv, NEW s \in Sessions, GivesUp(s) PROVE IInv'
<1>1. asked' \subseteq asked /\ \A id \in asked' : input[id].session = s => owed[s]
  BY DEF GivesUp, Of, IInv, Wakes, WakesServed
<1> QED BY <1>1, DrainEnds DEF GivesUp

-----------------------------------------------------------------------------
(* The transactions on the inbox.                                          *)

\* A transaction that keeps a drain's rows keeps what the drain knows.
LEMMA DrainsKept ==
  ASSUME Inbox, Inbox', Drains, UNCHANGED <<runner, busy, owed, past>>,
         \A t \in Sessions : \A p \in Past : Harmless(t, seq[t], input, seq'[t], input', p)
  PROVE  Drains'
<1>1. DrainsSound'
  <2> SUFFICES ASSUME NEW t \in Sessions PROVE Sound(t, seq'[t], input', runner[t], past[t])
    BY DEF DrainsSound
  <2>1. Sound(t, seq[t], input, runner[t], past[t]) /\ past[t] \in Past
    BY DEF Drains, DrainsSound
  <2>2. /\ seq[t] \in Nat /\ seq'[t] \in Nat
        /\ input \in [Ids -> Row \cup {NoRow}] /\ input' \in [Ids -> Row \cup {NoRow}]
    BY DEF Inbox, InboxTypeOK
  <2>3. CASE runner[t] \in Drain
    BY <2>1, <2>2, <2>3, SoundKept
  <2>4. CASE runner[t] = NoDrain
    <3>1. runner[t].pc = "idle" /\ runner[t].cutoff = 0
      BY <2>4 DEF NoDrain, Before
    <3>2. runner[t].cutoff <= seq'[t]
      BY <2>2, <3>1
    <3> QED BY <2>1, <3>1, <3>2 DEF Sound
  <2> QED BY <2>3, <2>4 DEF Drains
<1> QED BY <1>1 DEF Drains, BusyExact

\* PromptAdmitted: a new row above all others.
LEMMA AdmitKeeps ==
  ASSUME Inbox, NEW id \in Ids, NEW s \in Sessions, NEW d \in Deliveries, NEW prompt \in Prompts,
         Admit(id, s, d, prompt)
  PROVE  /\ Inbox'
         /\ \A t \in Sessions : \A p \in Past : Harmless(t, seq[t], input, seq'[t], input', p)
         /\ \A i \in Ids : Stored(i) => input'[i] = input[i]
<1> DEFINE row == [session |-> s, delivery |-> d, prompt |-> prompt, admitted |-> seq[s] + 1, promoted |-> 0]
<1>0. seq \in [Sessions -> Nat] /\ input \in [Ids -> Row \cup {NoRow}]
  BY DEF Inbox, InboxTypeOK
<1>1. input[id] = NoRow /\ seq' = [seq EXCEPT ![s] = @ + 1] /\ input' = [input EXCEPT ![id] = row]
  BY DEF Admit, Stored
<1>2. row \in Row /\ row.session = s /\ row.admitted = seq[s] + 1 /\ row.promoted = 0
  BY <1>0 DEF Row
<1>3. row # NoRow
  BY <1>0, <1>2 DEF NoRow
<1> HIDE DEF row
<1>4. /\ seq' \in [Sessions -> Nat] /\ input' \in [Ids -> Row \cup {NoRow}]
      /\ seq'[s] = seq[s] + 1 /\ input'[id] = row
      /\ \A t \in Sessions : t # s => seq'[t] = seq[t]
      /\ \A i \in Ids : i # id => input'[i] = input[i]
  BY <1>0, <1>1, <1>2
<1>5. InboxTypeOK'
  BY <1>4 DEF InboxTypeOK
<1>6. \A i \in Ids : input[i] # NoRow => input[i] \in Row /\ input[i].session \in Sessions /\ input[i].admitted \in 1 .. seq[input[i].session]
                                         /\ input[i].promoted <= seq[input[i].session] /\ input[i].promoted \in Nat
  BY <1>0 DEF Inbox, InboxSound, Stored, Row
<1>7. \A i \in Ids : input'[i] # NoRow => input'[i].admitted \in 1 .. seq'[input'[i].session]
                                          /\ input'[i].promoted <= seq'[input'[i].session]
  <2> SUFFICES ASSUME NEW i \in Ids, input'[i] # NoRow
               PROVE  input'[i].admitted \in 1 .. seq'[input'[i].session] /\ input'[i].promoted <= seq'[input'[i].session]
    OBVIOUS
  <2>1. CASE i = id
    BY <1>0, <1>2, <1>4, <2>1
  <2>2. CASE i # id
    <3>1. input'[i] = input[i]
      BY <1>4, <2>2
    <3>2. /\ input[i].session \in Sessions /\ input[i].admitted \in 1 .. seq[input[i].session]
          /\ input[i].promoted <= seq[input[i].session] /\ input[i].promoted \in Nat
      BY <1>6, <3>1
    <3>3. seq[input[i].session] \in Nat /\ seq'[input[i].session] \in Nat /\ seq[input[i].session] <= seq'[input[i].session]
      BY <1>0, <1>4, <3>2
    <3> QED BY <3>1, <3>2, <3>3
  <2> QED BY <2>1, <2>2
<1>8. \A i, j \in Ids : /\ input'[i] # NoRow /\ input'[j] # NoRow
                        /\ input'[i].session = input'[j].session /\ input'[i].admitted = input'[j].admitted
                        => i = j
  <2>1. \A i \in Ids : input[i] # NoRow /\ input[i].session = s => input[i].admitted # seq[s] + 1
    BY <1>0, <1>6
  <2>2. \A i, j \in Ids : /\ input[i] # NoRow /\ input[j] # NoRow
                          /\ input[i].session = input[j].session /\ input[i].admitted = input[j].admitted
                          => i = j
    BY DEF Inbox, InboxSound, Stored
  <2> QED BY <1>2, <1>4, <2>1, <2>2
<1>9. InboxSound'
  BY <1>7, <1>8 DEF InboxSound, Stored
<1>10. PromotionOrder'
  <2> SUFFICES ASSUME NEW i \in Ids, NEW j \in Ids,
                      input'[i] # NoRow, input'[j] # NoRow,
                      input'[i].session = input'[j].session, input'[i].delivery = input'[j].delivery,
                      input'[i].admitted < input'[j].admitted,
                      input'[j].promoted # 0, input'[j].admitted # input'[j].promoted
               PROVE  input'[i].promoted # 0 /\ input'[i].promoted < input'[j].promoted
    BY DEF PromotionOrder, Stored, Visible
  <2>1. j # id /\ input'[j] = input[j]
    BY <1>2, <1>4
  <2>2. CASE i = id
    <3>1. input[j].session = s /\ input[j].admitted \in 1 .. seq[s] /\ seq[s] + 1 < input[j].admitted
      BY <1>2, <1>4, <1>6, <2>1, <2>2
    <3> QED BY <1>0, <3>1
  <2>3. CASE i # id
    <3>1. input'[i] = input[i]
      BY <1>4, <2>3
    <3> QED BY <2>1, <3>1 DEF Inbox, PromotionOrder, Stored, Visible
  <2> QED BY <2>2, <2>3
<1>11. \A t \in Sessions : \A p \in Past : Harmless(t, seq[t], input, seq'[t], input', p)
  <2> SUFFICES ASSUME NEW t \in Sessions, NEW p \in Past PROVE Harmless(t, seq[t], input, seq'[t], input', p)
    OBVIOUS
  <2>1. seq[t] <= seq'[t]
    BY <1>0, <1>4
  <2>2. ASSUME NEW kind \in Deliveries, NEW i \in Waiting(t, input', kind)
        PROVE  (i \in Waiting(t, input, kind) /\ input'[i] = input[i]) \/ input'[i].admitted > seq[t]
    <3>1. CASE i = id
      <4>1. t = s
        BY <1>2, <1>4, <3>1 DEF Waiting
      <4> QED BY <1>0, <1>2, <1>4, <3>1, <4>1
    <3>2. CASE i # id
      BY <1>4, <3>2 DEF Waiting
    <3> QED BY <3>1, <3>2
  <2>3. ASSUME NEW kind \in Deliveries, NEW i \in Waiting(t, input, kind)
        PROVE  i \in Waiting(t, input', kind) /\ input'[i] = input[i]
    BY <1>1, <1>4 DEF Waiting
  <2> QED BY <2>1, <2>2, <2>3 DEF Harmless
<1> QED BY <1>1, <1>4, <1>5, <1>9, <1>10, <1>11 DEF Inbox, Stored

\* The row a promotion writes keeps the input and gets the next sequence.
LEMMA PromoteRow ==
  ASSUME Inbox, NEW e \in Selected, Promote(e)
  PROVE  LET s == e.row.session
             row == input'[e.id]
         IN  /\ s \in Sessions /\ e.id \in Ids /\ e.row.admitted \in Nat
             /\ seq' = [seq EXCEPT ![s] = seq[s] + 1]
             /\ \A i \in Ids : i # e.id => input'[i] = input[i]
             /\ input' \in [Ids -> Row \cup {NoRow}]
             /\ row \in Row /\ row # NoRow
             /\ row.session = s /\ row.delivery = e.row.delivery /\ row.prompt = e.row.prompt
             /\ row.promoted = seq[s] + 1
             /\ Stored(e.id) => row.admitted = e.row.admitted
             /\ ~Stored(e.id) => row.admitted = seq[s] + 1
<1> DEFINE s == e.row.session
           k == IF Stored(e.id) THEN e.row.admitted ELSE seq[s] + 1
           m == seq[s] + 1
           row == [e.row EXCEPT !.admitted = k, !.promoted = m]
<1>0. seq \in [Sessions -> Nat] /\ input \in [Ids -> Row \cup {NoRow}]
  BY DEF Inbox, InboxTypeOK
<1>1. e.row \in Row /\ e.id \in Ids /\ s \in Sessions /\ e.row.admitted \in Nat
  BY DEF Selected, Row
<1>2. k \in Nat /\ m \in Nat /\ m # 0
  BY <1>0, <1>1
<1>3. seq' = [seq EXCEPT ![s] = m] /\ input' = [input EXCEPT ![e.id] = row]
  BY DEF Promote
<1>4. k = (IF Stored(e.id) THEN e.row.admitted ELSE seq[s] + 1)
  OBVIOUS
<1>5. m = seq[s] + 1
  OBVIOUS
<1> HIDE DEF k, m
<1>6. row \in Row
  BY <1>1, <1>2 DEF Row
<1>7. /\ row.session = s /\ row.delivery = e.row.delivery /\ row.prompt = e.row.prompt
      /\ row.promoted = m /\ row.admitted = k
  BY <1>1 DEF Row
<1>8. row # NoRow
  BY <1>2, <1>7 DEF NoRow
<1> HIDE DEF row
<1>9. input'[e.id] = row /\ \A i \in Ids : i # e.id => input'[i] = input[i]
  BY <1>0, <1>1, <1>3
<1>10. input' \in [Ids -> Row \cup {NoRow}]
  BY <1>0, <1>3, <1>6
<1> QED BY <1>1, <1>3, <1>4, <1>5, <1>6, <1>7, <1>8, <1>9, <1>10

\* The input goes before every input of its kind that still waits.
Turns(e) ==
  \A i \in Ids : /\ Stored(i) /\ ~Visible(i) /\ i # e.id
                 /\ input[i].session = e.row.session /\ input[i].delivery = e.row.delivery
                 => ~ (input[i].admitted < e.row.admitted)

\* Prompted: the row becomes visible above all others.
LEMMA PromoteKeeps ==
  ASSUME Inbox, NEW e \in Selected, Promote(e), Turns(e)
  PROVE  /\ Inbox'
         /\ \A t \in Sessions : t # e.row.session => \A p \in Past : Harmless(t, seq[t], input, seq'[t], input', p)
<1> DEFINE s == e.row.session
           id == e.id
           row == input'[e.id]
<1>0. seq \in [Sessions -> Nat] /\ input \in [Ids -> Row \cup {NoRow}]
  BY DEF Inbox, InboxTypeOK
<1>1. /\ s \in Sessions /\ id \in Ids /\ e.row.admitted \in Nat
      /\ seq' = [seq EXCEPT ![s] = seq[s] + 1]
      /\ \A i \in Ids : i # id => input'[i] = input[i]
      /\ input' \in [Ids -> Row \cup {NoRow}]
  BY PromoteRow
<1>2. /\ row \in Row /\ row # NoRow
      /\ row.session = s /\ row.delivery = e.row.delivery
      /\ row.promoted = seq[s] + 1
      /\ Stored(id) => row.admitted = e.row.admitted
      /\ ~Stored(id) => row.admitted = seq[s] + 1
  BY PromoteRow
<1>3. seq' \in [Sessions -> Nat] /\ seq'[s] = seq[s] + 1 /\ \A t \in Sessions : t # s => seq'[t] = seq[t]
  BY <1>0, <1>1
<1>4. Stored(id) => /\ input[id] \in Row /\ input[id].session = s /\ input[id].delivery = e.row.delivery
                    /\ input[id].admitted = e.row.admitted /\ input[id].promoted = 0
  <2> SUFFICES ASSUME Stored(id)
               PROVE  /\ input[id] \in Row /\ input[id].session = s /\ input[id].delivery = e.row.delivery
                      /\ input[id].admitted = e.row.admitted /\ input[id].promoted = 0
    OBVIOUS
  <2>1. [input[id] EXCEPT !.promoted = 0] = e.row /\ ~Visible(id)
    BY DEF Promote, Current
  <2>2. input[id] \in Row
    BY <1>0, <1>1 DEF Stored
  <2> QED BY <2>1, <2>2 DEF Row, Visible
<1> HIDE DEF s, id, row
<1>5. InboxTypeOK'
  BY <1>1, <1>3 DEF InboxTypeOK
<1>6. \A i \in Ids : input[i] # NoRow => input[i] \in Row /\ input[i].session \in Sessions /\ input[i].admitted \in 1 .. seq[input[i].session]
                                         /\ input[i].promoted <= seq[input[i].session] /\ input[i].promoted \in Nat
  BY <1>0 DEF Inbox, InboxSound, Stored, Row
<1>7. row.admitted \in 1 .. seq'[s] /\ row.promoted <= seq'[s]
  <2>1. CASE Stored(id)
    <3>1. input[id].admitted \in 1 .. seq[s]
      BY <1>1, <1>4, <1>6, <2>1 DEF Stored
    <3> QED BY <1>0, <1>1, <1>2, <1>3, <1>4, <2>1, <3>1
  <2>2. CASE ~Stored(id)
    BY <1>0, <1>1, <1>2, <1>3, <2>2
  <2> QED BY <2>1, <2>2
<1>8. \A i \in Ids : input'[i] # NoRow => input'[i].admitted \in 1 .. seq'[input'[i].session]
                                          /\ input'[i].promoted <= seq'[input'[i].session]
  <2> SUFFICES ASSUME NEW i \in Ids, input'[i] # NoRow
               PROVE  input'[i].admitted \in 1 .. seq'[input'[i].session] /\ input'[i].promoted <= seq'[input'[i].session]
    OBVIOUS
  <2>1. CASE i = id
    BY <1>2, <1>7, <2>1 DEF row, id
  <2>2. CASE i # id
    <3>1. input'[i] = input[i]
      BY <1>1, <2>2
    <3>2. /\ input[i].session \in Sessions /\ input[i].admitted \in 1 .. seq[input[i].session]
          /\ input[i].promoted <= seq[input[i].session] /\ input[i].promoted \in Nat
      BY <1>6, <3>1
    <3>3. seq[input[i].session] \in Nat /\ seq'[input[i].session] \in Nat /\ seq[input[i].session] <= seq'[input[i].session]
      BY <1>0, <1>3, <3>2
    <3> QED BY <3>1, <3>2, <3>3
  <2> QED BY <2>1, <2>2
<1>9. \A i, j \in Ids : /\ input[i] # NoRow /\ input[j] # NoRow
                        /\ input[i].session = input[j].session /\ input[i].admitted = input[j].admitted
                        => i = j
  BY DEF Inbox, InboxSound, Stored
<1>10. \A i \in Ids : input'[i] # NoRow /\ i # id /\ input'[i].session = s => input'[i].admitted # row.admitted
  <2> SUFFICES ASSUME NEW i \in Ids, input'[i] # NoRow, i # id, input'[i].session = s, input'[i].admitted = row.admitted
               PROVE  FALSE
    OBVIOUS
  <2>1. input'[i] = input[i] /\ input[i] # NoRow /\ input[i].session = s /\ input[i].admitted \in 1 .. seq[s]
    BY <1>1, <1>6
  <2>2. CASE Stored(id)
    BY <1>1, <1>2, <1>4, <1>9, <2>1, <2>2 DEF Stored
  <2>3. CASE ~Stored(id)
    BY <1>0, <1>1, <1>2, <2>1, <2>3
  <2> QED BY <2>2, <2>3
<1>11. \A i, j \in Ids : /\ input'[i] # NoRow /\ input'[j] # NoRow
                         /\ input'[i].session = input'[j].session /\ input'[i].admitted = input'[j].admitted
                         => i = j
  <2> SUFFICES ASSUME NEW i \in Ids, NEW j \in Ids, input'[i] # NoRow, input'[j] # NoRow,
                      input'[i].session = input'[j].session, input'[i].admitted = input'[j].admitted, i # j
               PROVE  FALSE
    OBVIOUS
  <2>1. CASE i = id
    BY <1>2, <1>10, <2>1 DEF row, id
  <2>2. CASE j = id
    BY <1>2, <1>10, <2>2 DEF row, id
  <2>3. CASE i # id /\ j # id
    BY <1>1, <1>9, <2>3
  <2> QED BY <2>1, <2>2, <2>3
<1>12. InboxSound'
  BY <1>8, <1>11 DEF InboxSound, Stored
<1>13. PromotionOrder'
  <2> SUFFICES ASSUME NEW i \in Ids, NEW j \in Ids,
                      input'[i] # NoRow, input'[j] # NoRow,
                      input'[i].session = input'[j].session, input'[i].delivery = input'[j].delivery,
                      input'[i].admitted < input'[j].admitted,
                      input'[j].promoted # 0, input'[j].admitted # input'[j].promoted
               PROVE  input'[i].promoted # 0 /\ input'[i].promoted < input'[j].promoted
    BY DEF PromotionOrder, Stored, Visible
  <2>0. \A a, b \in Ids : /\ input[a] # NoRow /\ input[b] # NoRow
                          /\ input[a].session = input[b].session /\ input[a].delivery = input[b].delivery
                          /\ input[a].admitted < input[b].admitted
                          /\ input[b].promoted # 0 /\ input[b].admitted # input[b].promoted
                          => input[a].promoted # 0 /\ input[a].promoted < input[b].promoted
    BY DEF Inbox, PromotionOrder, Stored, Visible
  <2>1. CASE i # id /\ j # id
    BY <1>1, <2>0, <2>1
  <2>2. CASE j = id
    <3>1. i # id /\ input'[i] = input[i] /\ input'[j] = row
      BY <1>1, <1>2, <2>2 DEF row, id, Row
    <3>2. Stored(id)
      BY <1>2, <3>1
    <3>3. /\ input[i] # NoRow /\ input[i].session = s /\ input[i].delivery = e.row.delivery
          /\ input[i].admitted < e.row.admitted
      BY <1>2, <3>1, <3>2
    <3>4. input[i].promoted # 0
      BY <3>1, <3>3 DEF Turns, Stored, Visible, s, id
    <3>5. input[i].promoted \in Nat /\ input[i].promoted <= seq[s] /\ seq[s] \in Nat
      BY <1>0, <1>1, <1>6, <3>3
    <3> QED BY <1>2, <3>1, <3>4, <3>5
  <2>3. CASE i = id /\ j # id
    <3>1. input'[j] = input[j] /\ input'[i] = row /\ input[j].session = s /\ input[j].admitted \in 1 .. seq[s]
      BY <1>1, <1>2, <1>6, <2>3 DEF row, id
    <3>2. CASE Stored(id)
      <4>1. input[id] # NoRow /\ input[id].admitted < input[j].admitted /\ input[id].delivery = input[j].delivery
        BY <1>2, <1>4, <3>1, <3>2 DEF Stored
      <4>2. input[id].promoted # 0
        BY <1>1, <1>4, <2>0, <3>1, <3>2, <4>1
      <4> QED BY <1>4, <3>2, <4>2
    <3>3. CASE ~Stored(id)
      BY <1>0, <1>1, <1>2, <3>1, <3>3
    <3> QED BY <3>2, <3>3
  <2> QED BY <2>1, <2>2, <2>3
<1>14. \A t \in Sessions : t # s => \A p \in Past : Harmless(t, seq[t], input, seq'[t], input', p)
  <2> SUFFICES ASSUME NEW t \in Sessions, t # s, NEW p \in Past PROVE Harmless(t, seq[t], input, seq'[t], input', p)
    OBVIOUS
  <2>1. seq[t] <= seq'[t]
    BY <1>0, <1>3
  <2>2. ASSUME NEW kind \in Deliveries, NEW i \in Waiting(t, input', kind)
        PROVE  i \in Waiting(t, input, kind) /\ input'[i] = input[i]
    <3>1. i # id
      BY <1>2 DEF Waiting, row, id
    <3> QED BY <1>1, <3>1 DEF Waiting
  <2>3. ASSUME NEW kind \in Deliveries, NEW i \in Waiting(t, input, kind)
        PROVE  i \in Waiting(t, input', kind) /\ input'[i] = input[i]
    <3>1. i # id
      BY <1>4 DEF Waiting, Stored
    <3> QED BY <1>1, <3>1 DEF Waiting
  <2> QED BY <2>1, <2>2, <2>3 DEF Harmless
<1> QED BY <1>5, <1>12, <1>13, <1>14 DEF Inbox, s

\* RevertEvent.Committed: rows disappear, and nothing else changes.
LEMMA DeleteKeeps ==
  ASSUME Inbox, NEW s \in Sessions, NEW n \in Nat, DeleteAfter(s, n)
  PROVE  /\ Inbox'
         /\ \A i \in Ids : i \notin RevertedBy(s, n) => input'[i] = input[i]
         /\ \A t \in Sessions : \A p \in Past :
              t # s \/ p.reverted => Harmless(t, seq[t], input, seq'[t], input', p)
<1>0. seq \in [Sessions -> Nat] /\ input \in [Ids -> Row \cup {NoRow}]
  BY DEF Inbox, InboxTypeOK
<1>1. /\ seq' = [seq EXCEPT ![s] = seq[s] + 1]
      /\ input' = [id \in Ids |-> IF id \in RevertedBy(s, n) THEN NoRow ELSE input[id]]
  BY DEF DeleteAfter
<1>2. /\ seq' \in [Sessions -> Nat] /\ seq'[s] = seq[s] + 1
      /\ \A t \in Sessions : t # s => seq'[t] = seq[t]
      /\ input' \in [Ids -> Row \cup {NoRow}]
      /\ \A i \in Ids : input'[i] = input[i] \/ (i \in RevertedBy(s, n) /\ input'[i] = NoRow)
      /\ \A i \in Ids : i \notin RevertedBy(s, n) => input'[i] = input[i]
  BY <1>0, <1>1
<1>3. \A i \in Ids : input'[i] # NoRow => input'[i] = input[i]
  BY <1>2
<1>4. InboxTypeOK'
  BY <1>2 DEF InboxTypeOK
<1>5. InboxSound'
  <2>1. \A i \in Ids : input'[i] # NoRow => /\ input'[i].admitted \in 1 .. seq'[input'[i].session]
                                            /\ input'[i].promoted <= seq'[input'[i].session]
    <3> SUFFICES ASSUME NEW i \in Ids, input'[i] # NoRow
                 PROVE  input'[i].admitted \in 1 .. seq'[input'[i].session] /\ input'[i].promoted <= seq'[input'[i].session]
      OBVIOUS
    <3>1. /\ input'[i] = input[i] /\ input[i] \in Row
          /\ input[i].admitted \in 1 .. seq[input[i].session] /\ input[i].promoted <= seq[input[i].session]
      BY <1>0, <1>3 DEF Inbox, InboxSound, Stored
    <3>2. input[i].session \in Sessions /\ input[i].promoted \in Nat
      BY <3>1 DEF Row
    <3>3. seq[input[i].session] \in Nat /\ seq'[input[i].session] \in Nat /\ seq[input[i].session] <= seq'[input[i].session]
      BY <1>0, <1>2, <3>2
    <3> QED BY <3>1, <3>2, <3>3
  <2>2. \A i, j \in Ids : /\ input'[i] # NoRow /\ input'[j] # NoRow
                          /\ input'[i].session = input'[j].session /\ input'[i].admitted = input'[j].admitted
                          => i = j
    BY <1>3 DEF Inbox, InboxSound, Stored
  <2> QED BY <2>1, <2>2 DEF InboxSound, Stored
<1>6. PromotionOrder'
  BY <1>3 DEF Inbox, PromotionOrder, Stored, Visible
<1>7. ASSUME NEW t \in Sessions, NEW p \in Past, t # s \/ p.reverted
      PROVE  Harmless(t, seq[t], input, seq'[t], input', p)
  <2>1. seq[t] <= seq'[t]
    BY <1>0, <1>2
  <2>2. ASSUME NEW kind \in Deliveries, NEW i \in Waiting(t, input', kind)
        PROVE  i \in Waiting(t, input, kind) /\ input'[i] = input[i]
    BY <1>3 DEF Waiting
  <2>3. ASSUME NEW kind \in Deliveries, NEW i \in Waiting(t, input, kind), t # s
        PROVE  i \in Waiting(t, input', kind) /\ input'[i] = input[i]
    <3>1. i \notin RevertedBy(s, n)
      BY <2>3 DEF Waiting, RevertedBy
    <3> QED BY <1>2, <3>1 DEF Waiting
  <2> QED BY <1>7, <2>1, <2>2, <2>3 DEF Harmless
<1> QED BY <1>2, <1>4, <1>5, <1>6, <1>7 DEF Inbox

-----------------------------------------------------------------------------
(* Publishing the rows of a batch.                                         *)

\* One row of the batch is visible now, and the drain goes on from there.
LEMMA PublishedSound ==
  ASSUME NEW s \in Sessions, NEW n \in Nat, NEW m \in Nat, n <= m,
         NEW rows \in [Ids -> Row \cup {NoRow}], NEW rows2 \in [Ids -> Row \cup {NoRow}],
         runner[s] \in Drain, NEW p \in Past, NEW q \in Past,
         runner[s].pc = "promoting", Sound(s, n, rows, runner[s], p),
         NEW e \in runner[s].batch,
         rows2[e.id].promoted # 0,
         \A i \in Ids : i # e.id => rows2[i] = rows[i],
         q.reverted = p.reverted,
         p.reverted \/ (q.served /\ q.turns = 0),
         p.reverted \/ Within(s, q.turns)
  PROVE  /\ Published(s, e) \in Drain
         /\ Sound(s, m, rows2, Published(s, e), q)
         /\ Published(s, e).pc \in {"promoting", "steers", "request"}
<1> DEFINE d == runner[s]
           rest == d.batch \ {e}
           left == [d EXCEPT !.batch = rest]
<1>0. d \in Drain /\ d.pc = "promoting" /\ d.batch \subseteq Selected /\ d.cutoff \in Nat /\ d.cutoff <= m
      /\ e \in d.batch
  BY DEF Sound, Drain
<1>1. BatchSound(s, n, rows, d, p)
  BY DEF Sound
<1>2. Published(s, e) =
        CASE left.batch # {} -> left
          [] left.batch = {} /\ left.next = "steers" -> [left EXCEPT !.pc = "steers", !.next = None]
          [] left.batch = {} /\ left.next # "steers" -> ResetStep([left EXCEPT !.next = None])
  BY DEF Published
<1>3. left \in Drain
  BY <1>0 DEF Drain
<1>4. /\ left.pc = "promoting" /\ left.batch = rest /\ left.next = d.next /\ left.fresh = d.fresh
      /\ left.cutoff = d.cutoff /\ left.step = d.step /\ left.force = d.force
  BY <1>0 DEF Drain
<1>5. d.fresh /\ d.next \in {"steers", "request"}
  BY <1>1 DEF BatchSound
<1> HIDE DEF left, rest, d
<1>6. d.next = "request" => \A i \in Early(s, rows2, d.cutoff) : [id |-> i, row |-> rows2[i]] \in rest
  <2> SUFFICES ASSUME d.next = "request", NEW i \in Early(s, rows2, d.cutoff)
               PROVE  [id |-> i, row |-> rows2[i]] \in rest
    OBVIOUS
  <2>1. i # e.id /\ i \in Ids
    BY DEF Early, Waiting
  <2>2. rows2[i] = rows[i]
    BY <2>1
  <2>3. i \in Early(s, rows, d.cutoff)
    BY <2>2 DEF Early, Waiting
  <2>4. [id |-> i, row |-> rows[i]] \in d.batch
    BY <1>1, <2>3 DEF BatchSound, SteerBatch
  <2>5. [id |-> i, row |-> rows[i]] # e
    BY <2>1
  <2> QED BY <2>2, <2>4, <2>5 DEF rest
<1>7. CASE rest # {}
  <2>1. Published(s, e) = left
    BY <1>2, <1>4, <1>7
  <2>2. d.next = "request"
    BY <1>0, <1>1, <1>5, <1>7 DEF BatchSound, QueueBatch, rest
  <2>3. \A f \in rest : BatchRow(s, m, rows2, q, f)
    <3> SUFFICES ASSUME NEW f \in rest PROVE BatchRow(s, m, rows2, q, f)
      OBVIOUS
    <3>1. f \in d.batch /\ f # e /\ f \in Selected /\ e \in Selected
      BY <1>0 DEF rest
    <3>2. BatchRow(s, n, rows, p, f) /\ BatchRow(s, n, rows, p, e)
      BY <1>0, <1>1, <3>1 DEF BatchSound
    <3>3. f.row.admitted \in 1 .. m
      BY <3>2 DEF BatchRow
    <3>4. p.reverted \/ f.id # e.id
      BY <3>1, <3>2 DEF BatchRow, Selected
    <3>5. f.id \in Ids
      BY <3>1 DEF Selected
    <3> QED BY <3>2, <3>3, <3>4, <3>5 DEF BatchRow
  <2>4. SteerBatch(s, rows2, left)
    <3>1. \A f \in rest : f.row.delivery = "steer" /\ f.row.admitted <= d.cutoff
      BY <1>1, <2>2 DEF BatchSound, SteerBatch, rest
    <3> QED BY <1>4, <1>6, <2>2, <3>1 DEF SteerBatch
  <2>5. BatchSound(s, m, rows2, left, q)
    BY <1>4, <1>5, <1>7, <2>2, <2>3, <2>4 DEF BatchSound
  <2>6. Sound(s, m, rows2, left, q)
    BY <1>0, <1>4, <2>5 DEF Sound
  <2> QED BY <1>3, <1>4, <2>1, <2>6
<1>8. CASE rest = {} /\ d.next = "steers"
  <2> DEFINE r == [left EXCEPT !.pc = "steers", !.next = None]
  <2>1. Published(s, e) = r
    BY <1>2, <1>4, <1>8
  <2>2. r \in Drain
    BY <1>3 DEF Drain, PCs
  <2>3. r.pc = "steers" /\ r.fresh = d.fresh /\ r.cutoff = d.cutoff
    BY <1>3, <1>4 DEF Drain
  <2> HIDE DEF r
  <2>4. SteersSound(s, rows2, r, q)
    BY <1>5, <2>3 DEF SteersSound
  <2>5. Sound(s, m, rows2, r, q)
    BY <1>0, <2>3, <2>4 DEF Sound
  <2> QED BY <2>1, <2>2, <2>3, <2>5
<1>9. CASE rest = {} /\ d.next # "steers"
  <2> DEFINE r == [left EXCEPT !.next = None]
  <2>1. Published(s, e) = ResetStep(r)
    BY <1>2, <1>4, <1>9
  <2>2. r \in Drain
    BY <1>3 DEF Drain
  <2>3. r.fresh = d.fresh /\ r.cutoff = d.cutoff
    BY <1>3, <1>4 DEF Drain
  <2> HIDE DEF r
  <2>4. SteersSound(s, rows2, r, q)
    BY <1>5, <2>3 DEF SteersSound
  <2>5. Early(s, rows2, r.cutoff) = {}
    BY <1>5, <1>6, <1>9, <2>3
  <2>6. r.cutoff <= m /\ (q.reverted \/ Within(s, q.turns))
    BY <1>0, <2>3
  <2>7. Sound(s, m, rows2, ResetStep(r), q)
    BY <2>2, <2>4, <2>5, <2>6, ResetSound
  <2>8. ResetStep(r) \in Drain /\ ResetStep(r).pc = "request"
    BY <2>2, ResetFields
  <2> QED BY <2>1, <2>7, <2>8
<1> QED BY <1>5, <1>7, <1>8, <1>9

\* A promoter never overtakes an input of the kind it promotes.
LEMMA BatchTurns ==
  ASSUME IInv, NEW s \in Sessions, runner[s].pc = "promoting"
  PROVE  LET e == FirstOf(runner[s].batch)
         IN  /\ e \in runner[s].batch /\ e \in Selected /\ e.row.session = s /\ BatchRow(s, seq[s], input, past[s], e)
             /\ Turns(e)
<1> DEFINE d == runner[s]
           e == FirstOf(d.batch)
<1>0. d \in Drain /\ seq[s] \in Nat /\ Sound(s, seq[s], input, d, past[s]) /\ input \in [Ids -> Row \cup {NoRow}]
  BY UnderWay
<1>1. BatchSound(s, seq[s], input, d, past[s]) /\ d.batch \subseteq Selected
  BY <1>0 DEF Sound, Drain
<1>2. d.batch # {} /\ d.next \in {"steers", "request"}
  BY <1>1 DEF BatchSound
<1>3. e \in d.batch /\ \A f \in d.batch : e.row.admitted <= f.row.admitted
  BY <1>1, <1>2, FirstOfBatch
<1>4. e \in Selected /\ BatchRow(s, seq[s], input, past[s], e)
  BY <1>1, <1>3 DEF BatchSound
<1>5. e.row.session = s /\ e.row.admitted \in Nat
  BY <1>4 DEF BatchRow, Selected, Row
<1> HIDE DEF e, d
<1>6. Turns(e)
  <2> SUFFICES ASSUME NEW i \in Ids, Stored(i), ~Visible(i), i # e.id,
                      input[i].session = s, input[i].delivery = e.row.delivery,
                      input[i].admitted < e.row.admitted
               PROVE  FALSE
    BY <1>5 DEF Turns
  <2>0. input[i] \in Row
    BY <1>0 DEF Stored
  <2>1. CASE d.next = "steers"
    <3>1. i \in Waiting(s, input, "queue")
      BY <1>1, <1>3, <2>1 DEF BatchSound, QueueBatch, Waiting, Stored, Visible
    <3>2. input[i].admitted >= e.row.admitted
      BY <1>1, <1>3, <2>1, <3>1 DEF BatchSound, QueueBatch
    <3> QED BY <1>5, <2>0, <3>2 DEF Row
  <2>2. CASE d.next = "request"
    <3>1. e.row.delivery = "steer" /\ e.row.admitted <= d.cutoff
      BY <1>1, <1>3, <2>2 DEF BatchSound, SteerBatch
    <3>2. i \in Waiting(s, input, "steer")
      BY <3>1 DEF Waiting, Stored, Visible
    <3>3. input[i].admitted <= d.cutoff
      BY <1>0, <1>5, <2>0, <3>1 DEF Row, Drain
    <3>4. [id |-> i, row |-> input[i]] \in d.batch
      BY <1>1, <2>2, <3>2, <3>3 DEF BatchSound, SteerBatch, Early
    <3>5. e.row.admitted <= input[i].admitted
      BY <1>3, <3>4
    <3> QED BY <1>5, <2>0, <3>5 DEF Row
  <2> QED BY <1>2, <2>1, <2>2
<1> QED BY <1>3, <1>4, <1>5, <1>6 DEF e, d

\* `publish` with one row: the input becomes visible, or was made visible by
\* somebody else.
LEMMA PublishNextStep ==
  ASSUME IInv, NEW s \in Sessions, PublishNext(s) PROVE IInv'
<1> DEFINE e == FirstOf(runner[s].batch)
           d == Published(s, e)
<1>0. /\ runner[s].pc = "promoting" /\ runner' = [runner EXCEPT ![s] = d]
      /\ UNCHANGED <<client, busy, owed, receipts, reverts>>
  BY DEF PublishNext, At, Goes
<1>1. /\ runner[s] \in Drain /\ busy[s] /\ past[s] \in Past /\ seq[s] \in Nat
      /\ input \in [Ids -> Row \cup {NoRow}]
      /\ Sound(s, seq[s], input, runner[s], past[s])
      /\ past' = past => past' = [past EXCEPT ![s] = past[s]]
  BY <1>0, UnderWay
<1>2. /\ e \in runner[s].batch /\ e \in Selected /\ e.row.session = s /\ BatchRow(s, seq[s], input, past[s], e)
      /\ Turns(e)
  BY <1>0, BatchTurns
<1>3. \/ Promote(e) /\ asked' = asked \ {e.id} /\ past' = [past EXCEPT ![s].turns = 0, ![s].served = TRUE,
                                                       ![s].rested = @ /\ e.row.delivery # "queue"]
      \/ AlreadyPromoted(e) /\ UNCHANGED <<seq, input, asked, past>>
  BY DEF PublishNext
<1> HIDE DEF d, e
<1>4. e.id \in Ids /\ e.row \in Row
  BY <1>2 DEF Selected
<1>5. past[s].reverted \/ Within(s, past[s].turns)
  BY <1>1 DEF Sound
<1>6. \E q \in Past : /\ past' = [past EXCEPT ![s] = q]
                      /\ q.reverted = past[s].reverted
                      /\ past[s].reverted \/ (q.served /\ q.turns = 0)
                      /\ past[s].reverted \/ Within(s, q.turns)
  <2>1. CASE Promote(e) /\ past' = [past EXCEPT ![s].turns = 0, ![s].served = TRUE,
                                                ![s].rested = @ /\ e.row.delivery # "queue"]
    <3> DEFINE q == [past[s] EXCEPT !.turns = 0, !.served = TRUE, !.rested = past[s].rested /\ e.row.delivery # "queue"]
    <3>1. past' = [past EXCEPT ![s] = q]
      BY <2>1 DEF IInv, Drains, Past
    <3>2. q \in Past /\ q.turns = 0 /\ q.served /\ q.reverted = past[s].reverted
      BY <1>1 DEF Past
    <3> HIDE DEF q
    <3>3. Within(s, q.turns)
      BY <3>2, WithinStart
    <3> QED BY <3>1, <3>2, <3>3
  <2>2. CASE AlreadyPromoted(e) /\ UNCHANGED <<seq, input, asked, past>>
    <3>1. past[s].reverted
      BY <1>2, <2>2 DEF AlreadyPromoted, BatchRow, Visible
    <3> QED BY <1>1, <2>2, <3>1
  <2> QED BY <1>3, <2>1, <2>2
<1>7. PICK q \in Past : /\ past' = [past EXCEPT ![s] = q]
                        /\ q.reverted = past[s].reverted
                        /\ past[s].reverted \/ (q.served /\ q.turns = 0)
                        /\ past[s].reverted \/ Within(s, q.turns)
  BY <1>6
<1>8. /\ Inbox' /\ asked' \subseteq asked
      /\ \A t \in Sessions : t # s => \A p \in Past : Harmless(t, seq[t], input, seq'[t], input', p)
      /\ seq[s] <= seq'[s] /\ seq' \in [Sessions -> Nat]
      /\ input' \in [Ids -> Row \cup {NoRow}]
      /\ input'[e.id].promoted # 0 /\ \A i \in Ids : i # e.id => input'[i] = input[i]
      /\ Receipts' /\ e.id \notin asked'
  <2>1. CASE Promote(e) /\ asked' = asked \ {e.id}
    <3>1. /\ seq' = [seq EXCEPT ![s] = seq[s] + 1]
          /\ \A i \in Ids : i # e.id => input'[i] = input[i]
          /\ input' \in [Ids -> Row \cup {NoRow}]
          /\ input'[e.id] # NoRow /\ input'[e.id].session = s /\ input'[e.id].delivery = e.row.delivery
          /\ input'[e.id].prompt = e.row.prompt /\ input'[e.id].promoted = seq[s] + 1
      BY <1>2, <2>1, PromoteRow DEF IInv
    <3>2. Inbox' /\ \A t \in Sessions : t # s => \A p \in Past : Harmless(t, seq[t], input, seq'[t], input', p)
      BY <1>2, <2>1, PromoteKeeps DEF IInv
    <3>3. seq[s] <= seq'[s] /\ seq' \in [Sessions -> Nat] /\ input'[e.id].promoted # 0
      BY <1>1, <3>1 DEF IInv, Inbox, InboxTypeOK
    <3>4. Receipts'
      <4>1. \A r \in receipts : r.id \in Ids
        BY DEF IInv, Receipts, Receipt
      <4>2. Stored(e.id) => /\ input[e.id].session = e.row.session /\ input[e.id].delivery = e.row.delivery
                            /\ input[e.id].prompt = e.row.prompt
        <5>1. Stored(e.id) => [input[e.id] EXCEPT !.promoted = 0] = e.row /\ input[e.id] \in Row
          BY <1>1, <1>4, <2>1 DEF Promote, Current, Stored
        <5> QED BY <5>1 DEF Row
      <4> QED BY <1>0, <1>2, <3>1, <4>1, <4>2 DEF IInv, Receipts, ReceiptsAgree, Stored
    <3> QED BY <2>1, <3>1, <3>2, <3>3, <3>4
  <2>2. CASE AlreadyPromoted(e) /\ UNCHANGED <<seq, input, asked, past>>
    <3>1. Inbox' /\ Receipts'
      BY <1>0, <2>2, InboxStands, ReceiptsStand DEF IInv
    <3>2. ASSUME NEW t \in Sessions, NEW p \in Past PROVE Harmless(t, seq[t], input, seq'[t], input', p)
      BY <2>2 DEF Harmless, IInv, Inbox, InboxTypeOK
    <3>3. e.id \notin asked'
      BY <2>2 DEF AlreadyPromoted, IInv, Wakes, WakesServed
    <3>4. input'[e.id].promoted # 0
      BY <2>2 DEF AlreadyPromoted, Visible
    <3>5. seq[s] <= seq'[s] /\ seq' \in [Sessions -> Nat] /\ input' \in [Ids -> Row \cup {NoRow}]
      BY <1>1, <2>2 DEF IInv, Inbox, InboxTypeOK
    <3> QED BY <2>2, <3>1, <3>2, <3>3, <3>4, <3>5
  <2> QED BY <1>3, <2>1, <2>2
<1>9. seq'[s] \in Nat
  BY <1>8
<1>10. /\ d \in Drain /\ Sound(s, seq'[s], input', d, q)
       /\ d.pc \in {"promoting", "steers", "request"}
  <2>1. /\ Published(s, e) \in Drain
        /\ Sound(s, seq'[s], input', Published(s, e), q)
        /\ Published(s, e).pc \in {"promoting", "steers", "request"}
    BY <1>0, <1>1, <1>2, <1>7, <1>8, <1>9, PublishedSound
  <2> QED BY <2>1 DEF d
<1>11. Drains'
  <2>1. DrainsSound'
    <3> SUFFICES ASSUME NEW t \in Sessions PROVE Sound(t, seq'[t], input', runner'[t], past'[t])
      BY DEF DrainsSound
    <3>1. CASE t = s
      <4>1. runner'[s] = d /\ past'[s] = q
        BY <1>0, <1>7 DEF IInv, Drains
      <4> QED BY <1>10, <3>1, <4>1
    <3>2. CASE t # s
      <4>1. runner'[t] = runner[t] /\ past'[t] = past[t] /\ past[t] \in Past
        BY <1>0, <1>7, <3>2 DEF IInv, Drains
      <4>2. Sound(t, seq[t], input, runner[t], past[t]) /\ seq[t] \in Nat /\ seq'[t] \in Nat
        BY <1>8 DEF IInv, Drains, DrainsSound, Inbox, InboxTypeOK
      <4>3. Harmless(t, seq[t], input, seq'[t], input', past[t])
        BY <1>8, <3>2, <4>1
      <4>4. CASE runner[t] \in Drain
        BY <1>1, <1>8, <4>1, <4>2, <4>3, <4>4, SoundKept
      <4>5. CASE runner[t] = NoDrain
        <5>1. runner[t].pc = "idle" /\ runner[t].cutoff = 0
          BY <4>5 DEF NoDrain, Before
        <5>2. runner[t].cutoff <= seq'[t]
          BY <4>2, <5>1
        <5> QED BY <4>1, <4>2, <5>1, <5>2 DEF Sound
      <4> QED BY <4>4, <4>5 DEF IInv, Drains
    <3> QED BY <3>1, <3>2
  <2>2. BusyExact'
    <3>1. d.pc # "idle"
      BY <1>10
    <3> QED BY <1>0, <1>1, <3>1 DEF IInv, Drains, BusyExact
  <2>3. runner' \in [Sessions -> Drain \cup {NoDrain}] /\ past' \in [Sessions -> Past]
    BY <1>0, <1>7, <1>10 DEF IInv, Drains
  <2> QED BY <1>0, <2>1, <2>2, <2>3 DEF IInv, Drains
<1>12. Wakes'
  <2> SUFFICES ASSUME NEW id \in asked'
               PROVE  WakeKept(input'[id], owed, busy, runner')
    BY <1>0, <1>8 DEF IInv, Wakes, WakesServed, WakeKept, Stored, Visible
  <2>1. WakeKept(input[id], owed, busy, runner) /\ id \in Ids /\ input'[id] = input[id]
    BY <1>8 DEF IInv, Wakes, WakesServed, WakeKept, Stored, Visible
  <2>2. input[id].session \in Sessions
    BY <1>1, <2>1 DEF WakeKept, Row
  <2>3. CASE input[id].session = s
    <3>1. runner'[s] = d
      BY <1>0 DEF IInv, Drains
    <3> QED BY <1>1, <1>10, <2>1, <2>3, <3>1 DEF WakeKept
  <2>4. CASE input[id].session # s
    <3>1. runner'[input[id].session] = runner[input[id].session]
      BY <1>0, <2>2, <2>4 DEF IInv, Drains
    <3> QED BY <2>1, <3>1 DEF WakeKept
  <2> QED BY <2>3, <2>4
<1>13. CallsTyped' /\ (reverts \in 0 .. MaxReverts)'
  BY <1>0 DEF IInv, CallsTyped
<1> QED BY <1>8, <1>11, <1>12, <1>13 DEF IInv

-----------------------------------------------------------------------------
(* Prompt calls.                                                           *)

\* What WakesServed says of each input.
LEMMA WakesKept ==
  ASSUME Wakes PROVE \A id \in asked : WakeKept(input[id], owed, busy, runner) /\ id \in Ids
BY DEF Wakes, WakesServed, WakeKept, Stored, Visible

\* execution.wake: the admitted input has a drain owed, or one begun.
LEMMA WakeKeeps ==
  ASSUME Inbox, Drains, Wakes, NEW s \in Sessions, NEW id \in Ids, Wake(s, id), UNCHANGED <<seq, input>>
  PROVE  Drains' /\ Wakes'
<1>1. asked' \subseteq asked \cup {id} /\ (id \in asked' => id \in asked \/ (id \in Of(s) /\ ~Visible(id)))
  BY DEF Wake
<1>2. asked' \subseteq Ids
  BY <1>1 DEF Wakes
<1>3. \A i \in asked' : \/ WakeKept(input[i], owed, busy, runner)
                        \/ Stored(i) /\ ~Visible(i) /\ input[i].session = s
  BY <1>1, WakesKept DEF Of
<1>4. CASE Begin(s, FALSE)
  BY <1>2, <1>3, <1>4, DrainBegins
<1>5. CASE Coordinator!Request(s) /\ UNCHANGED <<runner, past>>
  <2>1. owed' = [owed EXCEPT ![s] = TRUE] /\ UNCHANGED <<busy, runner, past>>
    BY <1>5 DEF Coordinator!Request
  <2>2. owed' \in [Sessions -> BOOLEAN] /\ owed'[s] /\ \A t \in Sessions : owed[t] => owed'[t]
    BY <2>1 DEF Drains
  <2>3. DrainsSound' /\ BusyExact'
    BY <2>1 DEF Drains, DrainsSound, BusyExact
  <2>4. Drains'
    BY <2>1, <2>2, <2>3 DEF Drains
  <2>5. \A i \in asked' : WakeKept(input[i], owed', busy, runner)
    <3> SUFFICES ASSUME NEW i \in asked' PROVE WakeKept(input[i], owed', busy, runner)
      OBVIOUS
    <3>1. input[i] # NoRow /\ input[i].promoted = 0 /\ i \in Ids
      BY <1>2, <1>3 DEF WakeKept, Stored, Visible
    <3>2. input[i].session \in Sessions
      BY <3>1 DEF Inbox, InboxTypeOK, Row
    <3>3. CASE input[i].session = s
      BY <2>2, <3>1, <3>3 DEF WakeKept
    <3>4. CASE input[i].session # s
      BY <1>3, <2>2, <3>2, <3>4 DEF WakeKept
    <3> QED BY <3>3, <3>4
  <2>6. Wakes'
    BY <1>2, <2>1, <2>5 DEF Wakes, WakesServed, WakeKept, Stored, Visible
  <2> QED BY <2>4, <2>6
<1> QED BY <1>4, <1>5 DEF Wake

\* The end of a call that did not admit the input itself.
LEMMA ConfirmKeeps ==
  ASSUME IInv, NEW call \in Calls, Confirm(call), UNCHANGED <<seq, input>>
  PROVE  Drains' /\ Wakes' /\ Receipts'
<1>0. /\ call.id \in Ids /\ call.session \in Sessions /\ call.delivery \in Deliveries /\ call.prompt \in Prompts
      /\ call.resume \in BOOLEAN
  BY DEF Calls
<1> DEFINE r == [id |-> call.id, session |-> call.session, delivery |-> call.delivery, prompt |-> call.prompt]
<1>1. CASE Equivalent(call.id, call.session, call.delivery, call.prompt)
  <2>1. receipts' = receipts \cup {r}
    BY <1>1 DEF Confirm
  <2>2. r \in Receipt /\ r.id = call.id /\ r.session = call.session /\ r.delivery = call.delivery /\ r.prompt = call.prompt
    BY <1>0 DEF Receipt
  <2> HIDE DEF r
  <2>3. Receipts'
    BY <1>1, <2>1, <2>2 DEF IInv, Receipts, ReceiptsAgree, Equivalent, Stored
  <2>4. CASE call.resume /\ Wake(call.session, call.id)
    BY <1>0, <2>3, <2>4, WakeKeeps DEF IInv
  <2>5. CASE UNCHANGED <<busy, owed, runner, past, asked>>
    BY <2>3, <2>5, DrainsStand, WakesStand DEF IInv
  <2> QED BY <1>1, <2>4, <2>5 DEF Confirm
<1>2. CASE ~Equivalent(call.id, call.session, call.delivery, call.prompt)
  <2>1. UNCHANGED <<busy, owed, runner, past, asked, receipts>>
    BY <1>2 DEF Confirm
  <2> QED BY <2>1, DrainsStand, WakesStand, ReceiptsStand DEF IInv
<1> QED BY <1>1, <1>2

\* A call under way has its arguments.
LEMMA CallUnderWay ==
  ASSUME CallsTyped, NEW c \in Clients, client[c].pc \in {"publish", "refind", "wake"}
  PROVE  client[c].call \in Calls
BY DEF CallsTyped, ClientState

\* `find` in admit finds the input.
LEMMA PromptFindsStep ==
  ASSUME IInv, NEW c \in Clients, NEW call \in Calls, PromptFinds(c, call) PROVE IInv'
<1>1. Confirm(call) /\ UNCHANGED <<seq, input, client, reverts>>
  BY DEF PromptFinds
<1>2. Drains' /\ Wakes' /\ Receipts'
  BY <1>1, ConfirmKeeps
<1> QED BY <1>1, <1>2, InboxStands DEF IInv, CallsTyped

\* `find` in admit misses it.
LEMMA PromptMissesStep ==
  ASSUME IInv, NEW c \in Clients, NEW call \in Calls, PromptMisses(c, call) PROVE IInv'
<1>1. /\ client' = [client EXCEPT ![c] = [pc |-> "publish", call |-> call]]
      /\ UNCHANGED <<seq, input, runner, busy, owed, asked, receipts, past, reverts>>
  BY DEF PromptMisses
<1>2. CallsTyped'
  BY <1>1 DEF IInv, CallsTyped, ClientState
<1> QED BY <1>1, <1>2, InboxStands, DrainsStand, WakesStand, ReceiptsStand DEF IInv

\* PromptAdmitted commits, or dies of a conflict.
LEMMA PromptPublishesStep ==
  ASSUME IInv, NEW c \in Clients, PromptPublishes(c) PROVE IInv'
<1> DEFINE call == client[c].call
<1>0. client[c].pc = "publish" /\ UNCHANGED <<runner, busy, owed, asked, receipts, past, reverts>>
  BY DEF PromptPublishes
<1>1. call \in Calls
  BY <1>0, CallUnderWay DEF IInv
<1>2. call.id \in Ids /\ call.session \in Sessions /\ call.delivery \in Deliveries /\ call.prompt \in Prompts
  BY <1>1 DEF Calls
<1>3. ASSUME NEW pc \in {"wake", "refind"}, client' = [client EXCEPT ![c].pc = pc]
      PROVE  CallsTyped'
  <2>1. client[c] \in [pc : {"publish", "refind", "wake"}, call : Calls]
    BY <1>0 DEF IInv, CallsTyped, ClientState
  <2>2. [client[c] EXCEPT !.pc = pc] \in ClientState
    BY <2>1 DEF ClientState
  <2>3. client' = [client EXCEPT ![c] = [client[c] EXCEPT !.pc = pc]]
    BY <1>3
  <2> QED BY <2>2, <2>3 DEF IInv, CallsTyped
<1>4. CASE /\ Admit(call.id, call.session, call.delivery, call.prompt)
           /\ client' = [client EXCEPT ![c].pc = "wake"]
  <2>1. CallsTyped'
    BY <1>3, <1>4
  <2>2. /\ Inbox'
        /\ \A t \in Sessions : \A p \in Past : Harmless(t, seq[t], input, seq'[t], input', p)
        /\ \A i \in Ids : Stored(i) => input'[i] = input[i]
    BY <1>2, <1>4, AdmitKeeps DEF IInv
  <2>3. Drains'
    BY <1>0, <2>2, DrainsKept DEF IInv
  <2>4. Receipts'
    BY <1>0, <2>2 DEF IInv, Receipts, Receipt, ReceiptsAgree, Stored
  <2>5. Wakes'
    BY <1>0, <2>2 DEF IInv, Wakes, WakesServed, Stored, Visible
  <2> QED BY <1>0, <2>1, <2>2, <2>3, <2>4, <2>5 DEF IInv
<1>5. CASE client' = [client EXCEPT ![c].pc = "refind"] /\ UNCHANGED <<seq, input>>
  <2>1. CallsTyped'
    BY <1>3, <1>5
  <2> QED BY <1>0, <1>5, <2>1, InboxStands, DrainsStand, WakesStand, ReceiptsStand DEF IInv
<1> QED BY <1>4, <1>5 DEF PromptPublishes

\* catchDefect looks again.
LEMMA PromptRefindsStep ==
  ASSUME IInv, NEW c \in Clients, PromptRefinds(c) PROVE IInv'
<1>1. /\ client[c].pc = "refind" /\ Confirm(client[c].call)
      /\ client' = [client EXCEPT ![c] = NotCalling] /\ UNCHANGED <<seq, input, reverts>>
  BY DEF PromptRefinds
<1>2. client[c].call \in Calls
  BY <1>1, CallUnderWay DEF IInv
<1>3. Drains' /\ Wakes' /\ Receipts'
  BY <1>1, <1>2, ConfirmKeeps
<1>4. CallsTyped'
  BY <1>1 DEF IInv, CallsTyped, ClientState, NotCalling
<1> QED BY <1>1, <1>3, <1>4, InboxStands DEF IInv

\* The call that admitted the input wakes its Session.
LEMMA PromptWakesStep ==
  ASSUME IInv, NEW c \in Clients, PromptWakes(c) PROVE IInv'
<1> DEFINE call == client[c].call
           r == [id |-> call.id, session |-> call.session, delivery |-> call.delivery, prompt |-> call.prompt]
<1>1. /\ client[c].pc = "wake"
      /\ client' = [client EXCEPT ![c] = NotCalling] /\ UNCHANGED <<seq, input, reverts>>
      /\ receipts' = IF Equivalent(call.id, call.session, call.delivery, call.prompt)
                     THEN receipts \cup {r} ELSE receipts
      /\ (call.resume /\ Wake(call.session, call.id)) \/ UNCHANGED <<busy, owed, runner, past, asked>>
  BY DEF PromptWakes
<1>2. call \in Calls
  BY <1>1, CallUnderWay DEF IInv
<1>3. call.id \in Ids /\ call.session \in Sessions /\ call.delivery \in Deliveries /\ call.prompt \in Prompts
  BY <1>2 DEF Calls
<1> HIDE DEF call
<1>4. r \in Receipt /\ r.id = call.id /\ r.session = call.session /\ r.delivery = call.delivery /\ r.prompt = call.prompt
  BY <1>3 DEF Receipt
<1> HIDE DEF r
<1>5. Receipts'
  <2>1. CASE Equivalent(call.id, call.session, call.delivery, call.prompt)
    BY <1>1, <1>4, <2>1 DEF IInv, Receipts, ReceiptsAgree, Equivalent, Stored
  <2>2. CASE ~Equivalent(call.id, call.session, call.delivery, call.prompt)
    BY <1>1, <2>2, ReceiptsStand DEF IInv
  <2> QED BY <2>1, <2>2
<1>6. Drains' /\ Wakes'
  <2>1. CASE Wake(call.session, call.id)
    BY <1>1, <1>3, <2>1, WakeKeeps DEF IInv
  <2>2. CASE UNCHANGED <<busy, owed, runner, past, asked>>
    BY <1>1, <2>2, DrainsStand, WakesStand DEF IInv
  <2> QED BY <1>1, <2>1, <2>2
<1>7. CallsTyped'
  BY <1>1 DEF IInv, CallsTyped, ClientState, NotCalling
<1> QED BY <1>1, <1>5, <1>6, <1>7, InboxStands DEF IInv

-----------------------------------------------------------------------------
(* Resume, interrupt, revert, the loss of the process.                     *)

\* A drain begins at the wish of a client or because it is owed.
LEMMA BeginStep ==
  ASSUME IInv, NEW s \in Sessions, NEW force \in BOOLEAN, Begin(s, force),
         UNCHANGED <<seq, input, client, asked, receipts, reverts>>
  PROVE  IInv'
<1>1. Drains' /\ Wakes'
  <2>1. asked' \subseteq Ids /\ \A id \in asked' : WakeKept(input[id], owed, busy, runner)
    BY WakesKept DEF IInv
  <2> QED BY <2>1, DrainBegins DEF IInv
<1> QED BY <1>1, InboxStands, ReceiptsStand DEF IInv, CallsTyped

\* An interrupt cancels what the Session was asked for.
LEMMA InterruptStep ==
  ASSUME IInv, NEW s \in Sessions, Interrupt(s) PROVE IInv'
<1> DEFINE d == IF busy[s] THEN Before("stopping", FALSE, None, 1, FALSE) ELSE runner[s]
<1>1. /\ owed' = [owed EXCEPT ![s] = FALSE] /\ busy' = busy
      /\ runner' = [runner EXCEPT ![s] = d]
      /\ past' = [past EXCEPT ![s] = NewPast]
      /\ asked' = asked \ Of(s)
      /\ UNCHANGED <<seq, input, client, receipts, reverts>>
  BY DEF Interrupt, Coordinator!Cancel
<1>2. /\ d \in Drain \cup {NoDrain} /\ (busy[s] <=> d.pc # "idle")
      /\ d.cutoff = 0 /\ d.pc \in {"idle", "stopping"}
  <2>1. CASE busy[s]
    <3>1. d = Before("stopping", FALSE, None, 1, FALSE)
      BY <2>1
    <3>2. 1 \in Nat \ {0} /\ 0 \in Nat /\ {} \in SUBSET Selected
      OBVIOUS
    <3>3. Before("stopping", FALSE, None, 1, FALSE) \in Drain
      BY <3>2 DEF Before, Drain, PCs, Promotions
    <3>4. Before("stopping", FALSE, None, 1, FALSE).pc = "stopping" /\ Before("stopping", FALSE, None, 1, FALSE).cutoff = 0
      BY DEF Before
    <3> QED BY <2>1, <3>1, <3>3, <3>4
  <2>2. CASE ~busy[s]
    <3>1. d = runner[s] /\ d.pc = "idle" /\ d \in Drain \cup {NoDrain}
      BY <2>2 DEF IInv, Drains, BusyExact
    <3>2. d \notin Drain
      BY <3>1 DEF Drain, PCs
    <3>3. d.cutoff = 0
      BY <3>1, <3>2 DEF NoDrain, Before
    <3> QED BY <2>2, <3>1, <3>3
  <2> QED BY <2>1, <2>2
<1> HIDE DEF d
<1>3. NewPast \in Past /\ NewPast.turns = 0
  BY DEF NewPast, Past
<1>4. Sound(s, seq[s], input, d, NewPast)
  <2>1. d.cutoff <= seq[s]
    BY <1>2 DEF IInv, Inbox, InboxTypeOK
  <2>2. Within(s, NewPast.turns)
    BY <1>3, WithinStart
  <2> QED BY <1>2, <2>1, <2>2 DEF Sound
<1>5. DrainsSound'
  <2> SUFFICES ASSUME NEW t \in Sessions PROVE Sound(t, seq'[t], input', runner'[t], past'[t])
    BY DEF DrainsSound
  <2>1. CASE t = s
    BY <1>1, <1>4, <2>1 DEF IInv, Drains
  <2>2. CASE t # s
    <3>1. runner'[t] = runner[t] /\ past'[t] = past[t]
      BY <1>1, <2>2 DEF IInv, Drains
    <3> QED BY <1>1, <3>1 DEF IInv, Drains, DrainsSound
  <2> QED BY <2>1, <2>2
<1>6. Drains'
  <2>1. BusyExact'
    BY <1>1, <1>2 DEF IInv, Drains, BusyExact
  <2> QED BY <1>1, <1>2, <1>3, <1>5, <2>1 DEF IInv, Drains
<1>7. Wakes'
  <2> SUFFICES ASSUME NEW id \in asked'
               PROVE  WakeKept(input[id], owed', busy, runner')
    BY <1>1 DEF IInv, Wakes, WakesServed, WakeKept, Stored, Visible
  <2>1. WakeKept(input[id], owed, busy, runner) /\ id \in Ids /\ id \notin Of(s)
    BY <1>1, WakesKept DEF IInv
  <2>2. input[id].session \in Sessions /\ input[id].session # s
    BY <2>1 DEF WakeKept, IInv, Inbox, InboxTypeOK, Row, Of, Stored
  <2>3. owed'[input[id].session] = owed[input[id].session] /\ runner'[input[id].session] = runner[input[id].session]
    BY <1>1, <2>2 DEF IInv, Drains
  <2> QED BY <2>1, <2>3 DEF WakeKept
<1> QED BY <1>1, <1>6, <1>7, InboxStands, ReceiptsStand DEF IInv, CallsTyped

\* A revert of a Session takes inputs away and says so to its drain.
LEMMA RevertStep ==
  ASSUME IInv, NEW s \in Sessions, NEW n \in 0 .. seq[s], Revert(s, n) PROVE IInv'
<1> DEFINE p == [past[s] EXCEPT !.reverted = busy[s]]
<1>0. seq[s] \in Nat /\ n \in Nat
  BY DEF IInv, Inbox, InboxTypeOK
<1>1. /\ reverts < MaxReverts /\ DeleteAfter(s, n)
      /\ asked' = asked \ RevertedBy(s, n)
      /\ receipts' = {r \in receipts : r.id \notin RevertedBy(s, n)}
      /\ reverts' = reverts + 1 /\ UNCHANGED <<client, runner, busy, owed>>
  BY DEF Revert
<1>2. past' = [past EXCEPT ![s] = p]
  BY DEF Revert, IInv, Drains, Past
<1>3. /\ Inbox'
      /\ \A i \in Ids : i \notin RevertedBy(s, n) => input'[i] = input[i]
      /\ \A t \in Sessions : \A q \in Past :
           t # s \/ q.reverted => Harmless(t, seq[t], input, seq'[t], input', q)
  BY <1>0, <1>1, DeleteKeeps DEF IInv
<1>4. /\ p \in Past /\ p.reverted = busy[s]
      /\ p.rested = past[s].rested /\ p.turns = past[s].turns /\ p.served = past[s].served
  BY DEF IInv, Drains, Past
<1> HIDE DEF p
<1>5. DrainsSound'
  <2> SUFFICES ASSUME NEW t \in Sessions PROVE Sound(t, seq'[t], input', runner[t], past'[t])
    BY <1>1 DEF DrainsSound
  <2>1. /\ seq[t] \in Nat /\ seq'[t] \in Nat /\ past[t] \in Past
        /\ input \in [Ids -> Row \cup {NoRow}] /\ input' \in [Ids -> Row \cup {NoRow}]
        /\ Sound(t, seq[t], input, runner[t], past[t])
    BY <1>3 DEF IInv, Inbox, InboxTypeOK, Drains, DrainsSound
  <2>2. CASE t = s /\ busy[s]
    <3>1. runner[t] \in Drain
      BY <2>2 DEF IInv, Drains, BusyExact, NoDrain, Before
    <3>2. Sound(t, seq[t], input, runner[t], p)
      BY <1>4, <2>1, <2>2, <3>1, SoundReverted
    <3>3. Harmless(t, seq[t], input, seq'[t], input', p)
      BY <1>3, <1>4, <2>2
    <3>4. Sound(t, seq'[t], input', runner[t], p)
      BY <1>4, <2>1, <3>1, <3>2, <3>3, SoundKept
    <3>5. past'[t] = p
      BY <1>2, <2>2 DEF IInv, Drains
    <3> QED BY <3>4, <3>5
  <2>3. CASE runner[t] \in Drain /\ t # s
    <3>1. Harmless(t, seq[t], input, seq'[t], input', past[t])
      BY <1>3, <2>1, <2>3
    <3>2. past'[t] = past[t]
      BY <1>2, <2>3 DEF IInv, Drains
    <3>3. Sound(t, seq'[t], input', runner[t], past[t])
      BY <2>1, <2>3, <3>1, SoundKept
    <3> QED BY <3>2, <3>3
  <2>4. CASE runner[t] = NoDrain
    <3>1. runner[t].pc = "idle" /\ runner[t].cutoff = 0 /\ ~busy[t]
      BY <2>4 DEF IInv, Drains, BusyExact, NoDrain, Before
    <3>2. past'[t] = past[t] \/ (t = s /\ past'[t] = p)
      BY <1>2 DEF IInv, Drains
    <3>3. past'[t].turns = past[t].turns
      BY <1>4, <3>2
    <3>4. runner[t].cutoff <= seq'[t]
      BY <2>1, <3>1
    <3>5. Within(t, past[t].turns)
      BY <2>1, <3>1 DEF Sound
    <3>6. Within(t, past'[t].turns)
      BY <3>3, <3>5
    <3> QED BY <3>1, <3>4, <3>6 DEF Sound
  <2>5. runner[t] \in Drain => busy[t]
    BY DEF IInv, Drains, BusyExact, Drain, PCs
  <2> QED BY <2>2, <2>3, <2>4, <2>5 DEF IInv, Drains
<1>6. Drains'
  BY <1>1, <1>2, <1>4, <1>5 DEF IInv, Drains, BusyExact
<1>7. Wakes'
  BY <1>1, <1>3 DEF IInv, Wakes, WakesServed, Stored, Visible
<1>8. Receipts'
  BY <1>1, <1>3 DEF IInv, Receipts, Receipt, ReceiptsAgree, Stored
<1>9. (reverts \in 0 .. MaxReverts)'
  BY <1>1, RevertsAssumption DEF IInv
<1> QED BY <1>1, <1>3, <1>6, <1>7, <1>8, <1>9 DEF IInv, CallsTyped

\* The loss of the process leaves the rows and nothing else.
LEMMA CrashStep ==
  ASSUME IInv, Crash PROVE IInv'
<1>1. Drains'
  <2>1. NewPast \in Past /\ NewPast.turns = 0 /\ NoDrain.pc = "idle" /\ NoDrain.cutoff = 0
    BY DEF NewPast, Past, NoDrain, Before
  <2>2. DrainsSound'
    <3> SUFFICES ASSUME NEW t \in Sessions PROVE Sound(t, seq'[t], input', runner'[t], past'[t])
      BY DEF DrainsSound
    <3>1. runner'[t] = NoDrain /\ past'[t] = NewPast /\ seq'[t] = seq[t] /\ seq[t] \in Nat
      BY DEF Crash, IInv, Inbox, InboxTypeOK
    <3>2. NoDrain.cutoff <= seq'[t] /\ Within(t, NewPast.turns)
      BY <2>1, <3>1, WithinStart
    <3> QED BY <2>1, <3>1, <3>2 DEF Sound
  <2>3. BusyExact'
    BY <2>1 DEF Crash, BusyExact
  <2> QED BY <2>1, <2>2, <2>3 DEF Crash, Drains
<1>2. Wakes'
  BY DEF Crash, Wakes, WakesServed
<1>3. CallsTyped'
  BY DEF Crash, CallsTyped, ClientState, NotCalling
<1> QED BY <1>1, <1>2, <1>3, InboxStands, ReceiptsStand DEF IInv, Crash

-----------------------------------------------------------------------------
(* The invariant.                                                          *)

\* The initial states satisfy the strengthening.
LEMMA InitIInv == ASSUME Init PROVE IInv
<1>1. Inbox
  BY DEF Init, InboxInit, Inbox, InboxTypeOK, InboxSound, PromotionOrder, Stored
<1>2. Drains
  <2>1. NewPast \in Past /\ NewPast.turns = 0 /\ NoDrain.pc = "idle" /\ NoDrain.cutoff = 0
    BY DEF NewPast, Past, NoDrain, Before
  <2>2. DrainsSound
    <3> SUFFICES ASSUME NEW t \in Sessions PROVE Sound(t, seq[t], input, runner[t], past[t])
      BY DEF DrainsSound
    <3>1. runner[t] = NoDrain /\ past[t] = NewPast /\ seq[t] = 0
      BY DEF Init, InboxInit
    <3>2. NoDrain.cutoff <= seq[t] /\ Within(t, NewPast.turns)
      BY <2>1, <3>1, WithinStart
    <3> QED BY <2>1, <3>1, <3>2 DEF Sound
  <2>3. BusyExact
    BY <2>1 DEF Init, Coordinator!Init, BusyExact
  <2> QED BY <2>1, <2>2, <2>3 DEF Init, Coordinator!Init, Drains
<1>3. Wakes /\ Receipts
  BY DEF Init, Wakes, WakesServed, Receipts, ReceiptsAgree
<1>4. CallsTyped
  BY DEF Init, CallsTyped, ClientState, NotCalling
<1>5. reverts \in 0 .. MaxReverts
  BY RevertsAssumption DEF Init
<1> QED BY <1>1, <1>2, <1>3, <1>4, <1>5 DEF IInv

\* Every step of every actor keeps it.
LEMMA NextIInv == ASSUME IInv, [Next]_vars PROVE IInv'
<1>1. ASSUME NEW c \in Clients, NEW call \in Calls, PromptFinds(c, call) \/ PromptMisses(c, call) PROVE IInv'
  BY <1>1, PromptFindsStep, PromptMissesStep
<1>2. ASSUME NEW c \in Clients, Prompting(c) PROVE IInv'
  BY <1>2, PromptPublishesStep, PromptRefindsStep, PromptWakesStep DEF Prompting
<1>3. ASSUME NEW s \in Sessions, Resume(s) \/ StartOwed(s) PROVE IInv'
  <2>1. CASE Resume(s)
    BY <2>1, BeginStep DEF Resume
  <2>2. CASE StartOwed(s)
    BY <2>2, BeginStep DEF StartOwed
  <2> QED BY <1>3, <2>1, <2>2
<1>4. ASSUME NEW s \in Sessions, Interrupt(s) PROVE IInv'
  BY <1>4, InterruptStep
<1>5. ASSUME NEW s \in Sessions, Advance(s) PROVE IInv'
  <2>1. CASE HasSteer(s) \/ HasQueue(s) \/ BeginTurn(s) \/ SelectQueued(s) \/ SelectSteers(s) \/ PublishNext(s)
    BY <2>1, HasSteerStep, HasQueueStep, BeginTurnStep, SelectQueuedStep, SelectSteersStep, PublishNextStep
  <2>2. CASE Compact(s) \/ Stream(s) \/ RecoverOverflow(s) \/ Continue(s) \/ Settle(s)
    BY <2>2, CompactStep, StreamStep, RecoverOverflowStep, ContinueStep, SettleStep
  <2>3. CASE HasSteerAgain(s) \/ HasQueueAgain(s)
    BY <2>3, HasSteerAgainStep, HasQueueAgainStep
  <2>4. CASE PublishDies(s) \/ Stop(s)
    BY <2>4, GivesUpStep DEF PublishDies, Stop
  <2> QED BY <1>5, <2>1, <2>2, <2>3, <2>4 DEF Advance
<1>6. ASSUME NEW s \in Sessions, Fail(s) PROVE IInv'
  BY <1>6, GivesUpStep DEF Fail
<1>7. ASSUME NEW s \in Sessions, NEW n \in 0 .. seq[s], Revert(s, n) PROVE IInv'
  BY <1>7, RevertStep
<1>8. CASE Crash
  BY <1>8, CrashStep
<1>9. CASE UNCHANGED vars
  <2>1. UNCHANGED <<seq, input, client, runner, busy, owed, asked, receipts, past, reverts>>
    BY <1>9 DEF vars
  <2> QED BY <2>1, InboxStands, DrainsStand, WakesStand, ReceiptsStand DEF IInv, CallsTyped
<1> QED BY <1>1, <1>2, <1>3, <1>4, <1>5, <1>6, <1>7, <1>8, <1>9 DEF Next

\* The strengthening holds in every reachable state.
LEMMA Invariant == Spec => []IInv
BY InitIInv, NextIInv, PTL DEF Spec

\* The inbox, the drains and the calls stay in the states the model declares.
THEOREM TypeCorrect == Spec => []TypeOK
<1>1. IInv => TypeOK
  BY DEF IInv, Inbox, Drains, Wakes, Receipts, CallsTyped, TypeOK, Coordinator!TypeOK
<1> QED BY <1>1, Invariant, PTL

\* Two prompt calls with one identifier never both succeed with different
\* inputs, however they race.
THEOREM ReceiptsHonest == Spec => []ReceiptsAgree
<1>1. IInv => ReceiptsAgree
  BY DEF IInv, Receipts
<1> QED BY <1>1, Invariant, PTL

\* Inputs of one delivery become visible in the order of their admission.
THEOREM AdmissionOrder == Spec => []PromotionOrder
<1>1. IInv => PromotionOrder
  BY DEF IInv, Inbox
<1> QED BY <1>1, Invariant, PTL

\* An input whose wake was accepted has a drain owed or one that will read it.
THEOREM NoWakeStranded == Spec => []WakesServed
<1>1. IInv => WakesServed
  BY DEF IInv, Wakes
<1> QED BY <1>1, Invariant, PTL

\* A provider request never misses a steer admitted before its cutoff.
THEOREM SteersArrive == Spec => []SteersReachTurn
<1>1. ASSUME IInv PROVE SteersReachTurn
  <2> SUFFICES ASSUME NEW s \in Sessions, runner[s].pc \in {"request", "stream"},
                      NEW id \in Pending(s, "steer")
               PROVE  input[id].admitted > runner[s].cutoff
    BY DEF SteersReachTurn
  <2>1. /\ Sound(s, seq[s], input, runner[s], past[s]) /\ runner[s] \in Drain
        /\ Waiting(s, input, "steer") = Pending(s, "steer") /\ input \in [Ids -> Row \cup {NoRow}]
    BY <1>1, UnderWay
  <2>2. id \notin Early(s, input, runner[s].cutoff)
    BY <2>1 DEF Sound
  <2>3. input[id].admitted \in Nat /\ runner[s].cutoff \in Nat
    BY <2>1 DEF Pending, Stored, Row, Drain
  <2>4. ~ (input[id].admitted <= runner[s].cutoff)
    BY <2>1, <2>2 DEF Early
  <2> QED BY <2>3, <2>4
<1> QED BY <1>1, Invariant, PTL

\* The step of a request counts the turns since the last promotion, and a
\* drain takes no more of them than the agent's allowance.
THEOREM AllowanceKept == Spec => []AllowanceExact
<1>1. ASSUME IInv PROVE AllowanceExact
  <2> SUFFICES ASSUME NEW s \in Sessions, ~past[s].reverted
               PROVE  Within(s, past[s].turns) /\ (runner[s].pc = "stream" => runner[s].step = past[s].turns + 1)
    BY DEF AllowanceExact, At
  <2>1. Sound(s, seq[s], input, runner[s], past[s])
    BY <1>1 DEF IInv, Drains, DrainsSound
  <2> QED BY <2>1 DEF Sound, Entitled
<1> QED BY <1>1, Invariant, PTL

\* A drain that was not forced calls the provider only after it promoted an
\* input, unless a revert took that input away.
THEOREM WakesBringInput == Spec => []WakeBringsInput
<1>1. ASSUME IInv PROVE WakeBringsInput
  <2>1. \A s \in Sessions : Sound(s, seq[s], input, runner[s], past[s])
    BY <1>1 DEF IInv, Drains, DrainsSound
  <2> QED BY <2>1 DEF Sound, Entitled, WakeBringsInput, At
<1> QED BY <1>1, Invariant, PTL

-----------------------------------------------------------------------------
(* What happens to the rows of the inbox.                                  *)

\* Only an admission, a promotion and a revert change a row.
LEMMA InputChanges ==
  ASSUME IInv, [Next]_vars
  PROVE  \/ UNCHANGED input
         \/ \E id \in Ids, s \in Sessions, d \in Deliveries, prompt \in Prompts : Admit(id, s, d, prompt)
         \/ \E s \in Sessions : At(s, "promoting") /\ Promote(FirstOf(runner[s].batch))
         \/ \E s \in Sessions : \E n \in 0 .. seq[s] : DeleteAfter(s, n)
<1>1. ASSUME NEW c \in Clients, Prompting(c), ~UNCHANGED input
      PROVE  \E id \in Ids, s \in Sessions, d \in Deliveries, prompt \in Prompts : Admit(id, s, d, prompt)
  <2>1. PromptPublishes(c)
    BY <1>1 DEF Prompting, PromptRefinds, PromptWakes
  <2>2. client[c].call \in Calls
    BY <2>1, CallUnderWay DEF IInv, PromptPublishes
  <2> QED BY <1>1, <2>1, <2>2 DEF PromptPublishes, Calls
<1>2. ASSUME NEW s \in Sessions, Advance(s), ~UNCHANGED input
      PROVE  At(s, "promoting") /\ Promote(FirstOf(runner[s].batch))
  <2>1. PublishNext(s)
    BY <1>2 DEF Advance, HasSteer, HasQueue, BeginTurn, SelectQueued, SelectSteers, PublishDies, Compact, Stream,
                RecoverOverflow, Continue, Settle, HasSteerAgain, HasQueueAgain, Stop, Reads, GivesUp
  <2> QED BY <1>2, <2>1 DEF PublishNext
<1>3. CASE \E c \in Clients, call \in Calls : PromptFinds(c, call) \/ PromptMisses(c, call)
  BY <1>3 DEF PromptFinds, PromptMisses
<1>4. CASE \E s \in Sessions : Resume(s) \/ StartOwed(s) \/ Interrupt(s) \/ Fail(s)
  BY <1>4 DEF Resume, StartOwed, Interrupt, Fail, GivesUp
<1>5. CASE \E s \in Sessions : \E n \in 0 .. seq[s] : Revert(s, n)
  BY <1>5 DEF Revert
<1>6. CASE Crash \/ UNCHANGED vars
  BY <1>6 DEF Crash, vars
<1> QED BY <1>1, <1>2, <1>3, <1>4, <1>5, <1>6 DEF Next

-----------------------------------------------------------------------------
(* The queue, one input at a time.                                         *)

QueuedBefore(id) == Stored(id) /\ ~Visible(id) /\ input[id].delivery = "queue"

\* No step but a promotion makes an input visible.
LEMMA OnlyPromotionShows ==
  ASSUME IInv, [Next]_vars, NEW id \in Ids, QueuedBefore(id), input'[id].promoted # 0
  PROVE  past[input[id].session].rested
<1>0. input \in [Ids -> Row \cup {NoRow}] /\ input[id] # NoRow /\ input[id].promoted = 0
  BY DEF IInv, Inbox, InboxTypeOK, QueuedBefore, Stored, Visible
<1>1. CASE UNCHANGED input
  BY <1>0, <1>1
<1>2. ASSUME NEW i \in Ids, NEW s \in Sessions, NEW d \in Deliveries, NEW prompt \in Prompts, Admit(i, s, d, prompt)
      PROVE  FALSE
  <2>1. input'[id] = input[id]
    BY <1>0, <1>2, AdmitKeeps DEF IInv, Stored
  <2> QED BY <1>0, <2>1
<1>3. ASSUME NEW s \in Sessions, NEW n \in 0 .. seq[s], DeleteAfter(s, n) PROVE FALSE
  BY <1>0, <1>3 DEF DeleteAfter, NoRow
<1>4. ASSUME NEW s \in Sessions, At(s, "promoting"), Promote(FirstOf(runner[s].batch))
      PROVE  past[input[id].session].rested
  <2> DEFINE e == FirstOf(runner[s].batch)
  <2>1. runner[s].pc = "promoting" /\ Promote(e)
    BY <1>4 DEF At
  <2>2. e \in runner[s].batch /\ e \in Selected /\ e.row.session = s
    BY <2>1, BatchTurns
  <2> HIDE DEF e
  <2>3. id = e.id
    BY <1>0, <2>1, <2>2, PromoteRow DEF IInv
  <2>4. [input[id] EXCEPT !.promoted = 0] = e.row /\ input[id] \in Row
    BY <1>0, <2>1, <2>3 DEF Promote, Current, Stored
  <2>5. e.row.delivery = "queue" /\ input[id].session = s
    BY <2>2, <2>4 DEF QueuedBefore, Row
  <2>6. BatchSound(s, seq[s], input, runner[s], past[s])
    BY <2>1, UnderWay DEF Sound
  <2>7. past[s].rested
    BY <2>2, <2>5, <2>6 DEF BatchSound, QueueBatch, SteerBatch
  <2> QED BY <2>5, <2>7
<1> QED BY <1>1, <1>2, <1>3, <1>4, InputChanges

\* A queued input is promoted only when the model rests.
THEOREM QueueServedOneByOne == Spec => QueueOneByOne
<1> DEFINE Rests == \A id \in Ids : Stored(id) /\ ~Visible(id) /\ input[id].delivery = "queue" /\ input'[id].promoted # 0
                                      => past[input[id].session].rested
<1>1. ASSUME IInv, [Next]_vars PROVE [Rests]_vars
  BY <1>1, OnlyPromotionShows DEF QueuedBefore
<1>2. QueueOneByOne <=> [][Rests]_vars
  BY DEF QueueOneByOne
<1> HIDE DEF Rests
<1>3. Spec => [][Rests]_vars
  BY <1>1, Invariant, PTL DEF Spec
<1> QED BY <1>2, <1>3

-----------------------------------------------------------------------------
(* The inbox, as whoever prompts knows it.                                 *)

\* What an entry tells of a row that is stored.
LEMMA EntryFields ==
  ASSUME NEW row \in Row \cup {NoRow}
  PROVE  /\ row = NoRow => EntryOf(row) = Promised!NoEntry
         /\ row # NoRow => EntryOf(row) = Promised!Entry(IF row.promoted = 0 THEN "waiting" ELSE "visible",
                                            row.session, row.delivery, row.prompt, row.admitted)
         /\ EntryOf(row).status = "absent" <=> row = NoRow
         /\ EntryOf(row).status = "waiting" <=> row # NoRow /\ row.promoted = 0
         /\ EntryOf(row).session = row.session /\ EntryOf(row).delivery = row.delivery
         /\ EntryOf(row).prompt = row.prompt /\ EntryOf(row).ticket = row.admitted
BY DEF EntryOf, NoRow, Promised!NoEntry, Promised!Entry

\* A lane is what waits of one delivery.
LEMMA LaneWaits ==
  ASSUME Inbox, NEW s, NEW d
  PROVE  Promised!Lane(s, d) = Waiting(s, input, d)
<1>1. \A id \in Ids : input[id] \in Row \cup {NoRow} /\ entries[id] = EntryOf(input[id])
  BY DEF Inbox, InboxTypeOK, entries
<1> QED BY <1>1, EntryFields DEF Promised!Lane, Waiting

\* One row changes, and its entry.
LEMMA OneEntry ==
  ASSUME Inbox, NEW id \in Ids, NEW row, input' = [input EXCEPT ![id] = row]
  PROVE  entries' = [entries EXCEPT ![id] = EntryOf(row)]
BY DEF Inbox, InboxTypeOK, entries

LEMMA AdmitTold ==
  ASSUME IInv, NEW id \in Ids, NEW s \in Sessions, NEW d \in Deliveries, NEW prompt \in Prompts,
         Admit(id, s, d, prompt)
  PROVE  Promised!Admit(id)
<1> DEFINE row == [session |-> s, delivery |-> d, prompt |-> prompt, admitted |-> seq[s] + 1, promoted |-> 0]
<1>1. input' = [input EXCEPT ![id] = row] /\ input[id] = NoRow
  BY DEF Admit, Stored
<1>2. seq[s] + 1 \in Nat /\ row \in Row /\ row # NoRow /\ seq[s] \in Nat
  BY DEF IInv, Inbox, InboxTypeOK, Row, NoRow
<1>3. entries' = [entries EXCEPT ![id] = Promised!Entry("waiting", s, d, prompt, seq[s] + 1)]
  <2>1. row.session = s /\ row.delivery = d /\ row.prompt = prompt /\ row.admitted = seq[s] + 1 /\ row.promoted = 0
    OBVIOUS
  <2> HIDE DEF row
  <2>2. EntryOf(row) = Promised!Entry("waiting", s, d, prompt, seq[s] + 1)
    BY <1>2, <2>1, EntryFields
  <2> QED BY <1>1, <2>2, OneEntry DEF IInv
<1>4. ASSUME NEW j \in Promised!Lane(s, d) PROVE entries[j].ticket < seq[s] + 1
  <2>1. j \in Ids /\ input[j] \in Row /\ Stored(j) /\ input[j].session = s
    BY <1>4, LaneWaits DEF IInv, Inbox, InboxTypeOK, Waiting, Stored
  <2>2. entries[j].ticket = input[j].admitted
    BY <2>1 DEF entries, EntryOf
  <2>3. input[j].admitted \in 1 .. seq[s]
    BY <2>1 DEF IInv, Inbox, InboxSound
  <2> QED BY <1>2, <2>2, <2>3
<1>5. entries[id].status = "absent"
  BY <1>1 DEF entries, EntryOf
<1> QED BY <1>2, <1>3, <1>4, <1>5 DEF Promised!Admit

\* A promoter shows the first of a lane, or what a revert has just taken away.
LEMMA PromoteTold ==
  ASSUME IInv, NEW s \in Sessions, At(s, "promoting"), Promote(FirstOf(runner[s].batch))
  PROVE  \E id \in Ids : Promised!Show(id) \/ Promised!ShowRetracted(id)
<1> DEFINE e == FirstOf(runner[s].batch)
           row == input'[e.id]
<1>1. Promote(e) /\ e \in Selected /\ e.row.session = s /\ Turns(e)
  BY BatchTurns DEF At
<1> HIDE DEF e
<1>2. /\ e.id \in Ids /\ row \in Row /\ row # NoRow /\ row.session = s
      /\ row.delivery = e.row.delivery /\ row.prompt = e.row.prompt /\ row.promoted = seq[s] + 1
      /\ Stored(e.id) => row.admitted = e.row.admitted
      /\ ~Stored(e.id) => row.admitted = seq[s] + 1
  BY <1>1, PromoteRow DEF IInv
<1>3. /\ seq[s] \in Nat /\ input \in [Ids -> Row \cup {NoRow}] /\ e.row \in Row
  BY <1>1 DEF IInv, Inbox, InboxTypeOK, Selected
<1>4. input' = [input EXCEPT ![e.id] = row]
  BY <1>2, <1>3 , <1>1 DEF Promote
<1> HIDE DEF row
<1>5. entries' = [entries EXCEPT ![e.id] = Promised!Entry("visible", s, row.delivery, row.prompt, row.admitted)]
  <2>1. row.promoted # 0
    BY <1>2, <1>3
  <2>2. EntryOf(row) = Promised!Entry("visible", s, row.delivery, row.prompt, row.admitted)
    BY <1>2, <2>1, EntryFields
  <2> QED BY <1>2, <1>4, <2>2, OneEntry DEF IInv
<1>6. CASE Stored(e.id)
  <2>1. /\ input[e.id] \in Row /\ input[e.id] # NoRow /\ input[e.id].promoted = 0
        /\ [input[e.id] EXCEPT !.promoted = 0] = e.row
    BY <1>1, <1>2, <1>3, <1>6 DEF Promote, Current, Stored, Visible
  <2>2. /\ e.row.delivery = input[e.id].delivery /\ e.row.prompt = input[e.id].prompt
        /\ e.row.admitted = input[e.id].admitted /\ input[e.id].session = s
    BY <1>1, <2>1 DEF Row
  <2>3. entries[e.id] = Promised!Entry("waiting", s, row.delivery, row.prompt, row.admitted)
    BY <1>2, <1>6, <2>1, <2>2, EntryFields DEF entries
  <2>4. ASSUME NEW j \in Promised!Lane(s, row.delivery) PROVE entries[e.id].ticket <= entries[j].ticket
    <3>1. /\ j \in Ids /\ input[j] \in Row /\ Stored(j) /\ ~Visible(j)
          /\ input[j].session = s /\ input[j].delivery = e.row.delivery
      BY <1>2, <2>4, LaneWaits, <1>3 DEF IInv, Waiting, Stored, Visible
    <3>2. ~(input[j].admitted < e.row.admitted)
      <4>1. CASE j = e.id
        BY <2>2, <3>1, <4>1 DEF Row
      <4>2. CASE j # e.id
        BY <1>1, <3>1, <4>2 DEF Turns
      <4> QED BY <4>1, <4>2
    <3>3. entries[e.id].ticket = e.row.admitted /\ entries[j].ticket = input[j].admitted
      BY <1>2, <1>6, <2>3, <3>1 DEF entries, EntryOf, Promised!Entry
    <3>4. input[j].admitted \in Nat /\ e.row.admitted \in Nat
      BY <1>3, <3>1 DEF Row
    <3> QED BY <3>2, <3>3, <3>4
  <2>5. /\ entries[e.id].status = "waiting" /\ entries[e.id].session = s /\ entries[e.id].delivery = row.delivery
        /\ [entries[e.id] EXCEPT !.status = "visible"] = Promised!Entry("visible", s, row.delivery, row.prompt, row.admitted)
    BY <2>3 DEF Promised!Entry
  <2>6. entries' = [entries EXCEPT ![e.id].status = "visible"]
    BY <1>2, <1>5, <2>5
  <2>7. Promised!Show(e.id)
    BY <2>4, <2>5, <2>6 DEF Promised!Show
  <2> QED BY <1>2, <2>7
<1>7. CASE ~Stored(e.id)
  <2>1. entries[e.id].status = "absent"
    BY <1>2, <1>7 DEF entries, EntryOf, Stored
  <2>2. row.delivery \in Deliveries /\ row.prompt \in Prompts /\ row.admitted \in Nat
    BY <1>2 DEF Row
  <2> QED BY <1>2, <1>5, <2>1, <2>2 DEF Promised!ShowRetracted
<1> QED BY <1>6, <1>7

LEMMA DeleteTold ==
  ASSUME IInv, NEW s \in Sessions, NEW n, DeleteAfter(s, n)
  PROVE  Promised!Retract(s)
<1> DEFINE gone == RevertedBy(s, n)
<1>1. input' = [id \in Ids |-> IF id \in gone THEN NoRow ELSE input[id]]
  BY DEF DeleteAfter
<1>2. EntryOf(NoRow) = Promised!NoEntry
  BY EntryFields
<1>3. \A id \in gone : id \in Ids /\ entries[id].session = s
  BY DEF RevertedBy, entries, EntryOf
<1> HIDE DEF gone
<1>4. entries' = [id \in Ids |-> IF id \in gone THEN Promised!NoEntry ELSE entries[id]]
  BY <1>1, <1>2 DEF entries
<1>5. gone \in SUBSET {id \in Ids : entries[id].session = s}
  BY <1>3
<1> QED BY <1>4, <1>5 DEF Promised!Retract

\* The durable inbox keeps its promises to whoever prompts, for any number of
\* Sessions, clients and reverts: an input is admitted behind all that wait in
\* its lane, becomes visible when it is the first of them and with the content
\* it was admitted with, and nothing but a revert of its Session takes it away,
\* whatever drains, interrupts and crashes come in between.
THEOREM ImplementsInbox == Spec => Promised!Spec
<1>1. Init => Promised!Init
  BY EntryFields DEF Init, InboxInit, Promised!Init, entries
<1>2. ASSUME IInv, [Next]_vars PROVE [Promised!Next]_entries
  <2>1. CASE UNCHANGED input
    BY <2>1 DEF entries
  <2> QED BY <1>2, <2>1, InputChanges, AdmitTold, PromoteTold, DeleteTold DEF Promised!Next
<1> QED BY <1>1, <1>2, Invariant, PTL DEF Spec, Promised!Spec

=============================================================================
