--------------------------- MODULE PermissionProofs ---------------------------
(***************************************************************************)
(* The safety of the permission service, for any sets of requests,         *)
(* sessions, resources, rulesets and calls of reply: the list of requests, *)
(* the order of answers and their events, the loops of a reject and of an  *)
(* always, and that the service implements Prompts.                        *)
(***************************************************************************)
EXTENDS Permission, TLAPS

\* A call of reply knows only requests that were listed once; what a tool call
\* resumed with is what completed its Deferred.
Unlisted == {"idle", "ruled", "blocked", "allowed", "missing"}
Knows(f, q) == replier[f].target = q \/ replier[f].at = q \/ q \in replier[f].visited
KnowsListed ==
  \A q \in Requests :
    /\ asker[q] \in Unlisted => verdict[q] = "open" /\ \A f \in Repliers : ~Knows(f, q)
    /\ asker[q] \in Verdicts => verdict[q] = asker[q]

\* A call that is about to complete a Deferred has published its Replied.
AnnouncedFor(q, reply) == verdict[q] # "open" \/ Shows(reply) \in replied[q]
AnnouncesFirst ==
  \A f \in Repliers :
    /\ replier[f].step \in {"saving", "settling"} => AnnouncedFor(replier[f].target, replier[f].reply)
    /\ replier[f].step = "sweeping" => AnnouncedFor(replier[f].at, IF Rejects(f) THEN "reject" ELSE "always")
    /\ replier[f].step \in {"consulting", "publishing", "sweeping"} => replier[f].at # None

\* What the loop of a reject has passed stays out of the list; before the loop
\* nothing is passed.  Only an always saves, recalls and consults.
SweptStaysOut ==
  \A f \in Repliers :
    /\ replier[f].step \in {"saving", "recalling", "consulting"} => ~Rejects(f)
    /\ replier[f].step \in {"announcing", "saving", "settling"} => replier[f].visited = {}
    /\ replier[f].step \in {"publishing", "sweeping"} /\ Rejects(f) =>
         /\ replier[f].target \notin pending
         /\ pending \cap replier[f].visited \subseteq {replier[f].at}

IInv == TypeOK /\ ListedIffOpen /\ SettledWasAnnounced /\ KnowsListed /\ AnnouncesFirst /\ SweptStaysOut

\* The service starts with nothing asked, nothing listed and no call of reply.
LEMMA InitIInv == Init => IInv
<1> SUFFICES ASSUME Init PROVE IInv
  OBVIOUS
<1>1. TypeOK
  <2>1. configured \in [Sessions -> Rulesets \cup {None}]
    <3>1. configured \in [Sessions -> Rulesets]
      BY RulesetAssumption DEF Init
    <3> QED BY <3>1
  <2>2. failures \in 0..MaxFailures /\ changes \in 0..MaxChanges
    BY PermissionBounds DEF Init
  <2> QED BY <2>1, <2>2 DEF Init, TypeOK, Stages, Verdicts
<1>2. ListedIffOpen /\ SettledWasAnnounced
  BY DEF Init, ListedIffOpen, SettledWasAnnounced
<1>3. KnowsListed /\ AnnouncesFirst /\ SweptStaysOut
  BY PermissionNone DEF Init, KnowsListed, Knows, AnnouncesFirst, SweptStaysOut, NoCall, Verdicts
<1> QED BY <1>1, <1>2, <1>3 DEF IInv

\* A step of a call of assert or ask: one request moves on, and is listed or
\* not according to its stage.
LEMMA AskerMoves ==
  ASSUME IInv, NEW q \in Requests, NEW stage \in Stages,
         asker' = [asker EXCEPT ![q] = stage],
         stage \in Unlisted => asker[q] \in Unlisted,
         stage \in Verdicts => verdict[q] = stage,
         pending' \in SUBSET Requests,
         \A p \in Requests \ {q} : p \in pending' <=> p \in pending,
         q \in pending' <=> stage \in {"announcing", "waiting", "posted"} /\ verdict[q] = "open",
         q \in pending' => q \in pending \/ asker[q] \in Unlisted,
         lacking' \in [Requests -> SUBSET Resources],
         failures' \in 0..MaxFailures,
         UNCHANGED <<rules, verdict, replier, replied, openTo, closed>>
  PROVE  IInv'
<1> USE DEF IInv, rules
<1>1. TypeOK'
  BY DEF TypeOK
<1>2. /\ asker'[q] = stage
      /\ \A p \in Requests \ {q} : asker'[p] = asker[p]
  BY DEF TypeOK
<1>3. ListedIffOpen'
  BY <1>2 DEF ListedIffOpen
<1>4. SettledWasAnnounced'
  BY DEF SettledWasAnnounced
<1>5. KnowsListed'
  BY <1>2 DEF KnowsListed, Knows
<1>6. AnnouncesFirst'
  BY DEF AnnouncesFirst, AnnouncedFor, Rejects
<1>7. SweptStaysOut'
  <2> SUFFICES ASSUME NEW f \in Repliers, replier[f].step \in {"publishing", "sweeping"}, Rejects(f)
               PROVE  /\ replier[f].target \notin pending'
                      /\ pending' \cap replier[f].visited \subseteq {replier[f].at}
    BY DEF SweptStaysOut, Rejects
  <2>1. /\ replier[f].target \notin pending
        /\ pending \cap replier[f].visited \subseteq {replier[f].at}
    BY DEF SweptStaysOut
  <2>2. ASSUME NEW p \in pending', Knows(f, p)
        PROVE  p \in pending
    BY <2>2 DEF KnowsListed
  <2> QED BY <2>1, <2>2 DEF Knows
<1> QED BY <1>1, <1>3, <1>4, <1>5, <1>6, <1>7

\* assert or ask begins: the rules decide, or the saved rules are to be read.
LEMMA EvaluateStep == ASSUME IInv, NEW q \in Requests, Evaluate(q) PROVE IInv'
<1> USE DEF Unlisted, Stages, Results, Verdicts, rules
<1>1. PICK stage \in {"missing", "blocked", "ruled"} :
        asker' = [asker EXCEPT ![q] = stage]
  BY DEF Evaluate
<1>2. lacking' \in [Requests -> SUBSET Resources]
  BY RequestAssumption DEF Evaluate, IInv, TypeOK, Lacking
<1>3. asker[q] = "idle" /\ q \notin pending
  BY DEF Evaluate, IInv, ListedIffOpen
<1> QED BY <1>1, <1>2, <1>3, AskerMoves DEF Evaluate, IInv, TypeOK

\* The saved rules are read: the request is allowed, or enters the list.
LEMMA RecallStep == ASSUME IInv, NEW q \in Requests, Recall(q) PROVE IInv'
<1> USE DEF Unlisted, Stages, Results, Verdicts, rules
<1>1. asker[q] = "ruled" /\ q \notin pending /\ verdict[q] = "open"
  BY DEF Recall, IInv, ListedIffOpen, KnowsListed
<1>2. lacking' \in [Requests -> SUBSET Resources]
  BY DEF Recall, IInv, TypeOK
<1>3. CASE asker' = [asker EXCEPT ![q] = "allowed"] /\ pending' = pending
  BY <1>1, <1>2, <1>3, AskerMoves DEF Recall, IInv, TypeOK
<1>4. CASE asker' = [asker EXCEPT ![q] = "announcing"] /\ pending' = pending \cup {q}
  BY <1>1, <1>2, <1>4, AskerMoves DEF Recall, IInv, TypeOK
<1> QED BY <1>3, <1>4 DEF Recall

\* Asked was published: the fiber goes on to await its Deferred.
LEMMA AnnounceStep == ASSUME IInv, NEW q \in Requests, Announce(q) PROVE IInv'
<1> USE DEF Unlisted, Stages, Results, Verdicts, rules
<1>1. PICK stage \in {"posted", "waiting"} : asker' = [asker EXCEPT ![q] = stage]
  BY DEF Announce
<1>2. q \in pending <=> verdict[q] = "open"
  BY DEF Announce, IInv, ListedIffOpen
<1> QED BY <1>1, <1>2, AskerMoves DEF Announce, IInv, TypeOK

\* A fiber leaves assert or ask, and its request the list.
LEMMA LeaveStep ==
  ASSUME IInv, NEW q \in Requests, AnnounceFails(q) \/ Resume(q) \/ Interrupt(q)
  PROVE  IInv'
<1> USE DEF Unlisted, Stages, Results, Verdicts, rules
<1>1. PICK stage \in {"failed", "interrupted"} \cup Verdicts :
        asker' = [asker EXCEPT ![q] = stage] /\ (stage \in Verdicts => stage = verdict[q])
  BY DEF AnnounceFails, Resume, Interrupt, IInv, TypeOK
<1>2. pending' = pending \ {q}
  BY DEF AnnounceFails, Resume, Interrupt
<1>3. failures' \in 0..MaxFailures
  BY PermissionBounds DEF AnnounceFails, Resume, Interrupt, IInv, TypeOK
<1>4. stage \in Stages /\ stage \notin Unlisted /\ stage \notin {"announcing", "waiting", "posted"}
  BY DEF Verdicts
<1>5. UNCHANGED <<rules, lacking, verdict, replier, replied, openTo, closed>>
  BY DEF AnnounceFails, Resume, Interrupt
<1> QED BY <1>1, <1>2, <1>3, <1>4, <1>5, AskerMoves DEF IInv, TypeOK

\* What the step of a reply owes for its own record `call`.
KnowsWell(call) ==
  \A q \in Requests : call.target = q \/ call.at = q \/ q \in call.visited => asker[q] \notin Unlisted
Rejecting(call) == call.reply \in {"reject", "correct"}
OwnAnnounced(call) ==
  /\ call.step \in {"saving", "settling"} => AnnouncedFor(call.target, call.reply)
  /\ call.step = "sweeping" => AnnouncedFor(call.at, IF Rejecting(call) THEN "reject" ELSE "always")
  /\ call.step \in {"consulting", "publishing", "sweeping"} => call.at # None
OwnSwept(call) ==
  /\ call.step \in {"saving", "recalling", "consulting"} => ~Rejecting(call)
  /\ call.step \in {"announcing", "saving", "settling"} => call.visited = {}
  /\ call.step \in {"publishing", "sweeping"} /\ Rejecting(call) =>
       call.target \notin pending /\ pending \cap call.visited \subseteq {call.at}

\* A step of a call of reply: its record moves on, some Deferreds are completed
\* and what they answer leaves the list, some replies are published.
LEMMA ReplierMoves ==
  ASSUME IInv, NEW f \in Repliers, NEW call \in Call \cup {NoCall},
         replier' = [replier EXCEPT ![f] = call],
         verdict' \in [Requests -> Verdicts \cup {"open"}],
         \A q \in Requests : verdict'[q] # verdict[q] => verdict[q] = "open" /\ asker[q] \notin Unlisted,
         pending' = {q \in pending : verdict'[q] = "open"},
         replied' \in [Requests -> SUBSET {"once", "always", "reject"}],
         \A q \in Requests : replied[q] \subseteq replied'[q],
         SettledWasAnnounced', KnowsWell(call), OwnAnnounced(call)', OwnSwept(call)',
         saved' \in SUBSET Resources,
         openTo' \in [Repliers -> SUBSET Requests],
         failures' \in 0..MaxFailures,
         UNCHANGED <<configured, changes, asker, lacking, closed>>
  PROVE  IInv'
<1> USE DEF IInv
<1>1. TypeOK'
  BY DEF TypeOK
<1>2. /\ replier'[f] = call
      /\ \A g \in Repliers \ {f} : replier'[g] = replier[g]
  BY DEF TypeOK
<1>3. ListedIffOpen'
  BY DEF ListedIffOpen, TypeOK
<1>4. KnowsListed'
  <2>0. \A q \in Requests : asker[q] \in Verdicts => verdict'[q] = asker'[q]
    BY DEF KnowsListed, Verdicts
  <2> SUFFICES ASSUME NEW q \in Requests, asker[q] \in Unlisted
               PROVE  verdict'[q] = "open" /\ \A g \in Repliers : ~Knows(g, q)'
    BY <2>0 DEF KnowsListed
  <2>1. verdict'[q] = "open"
    BY DEF KnowsListed
  <2>2. ~Knows(f, q)'
    BY <1>2 DEF Knows, KnowsWell
  <2>3. \A g \in Repliers \ {f} : ~Knows(g, q)'
    BY <1>2 DEF Knows, KnowsListed
  <2> QED BY <2>1, <2>2, <2>3
<1>5. AnnouncesFirst'
  <2> SUFFICES ASSUME NEW g \in Repliers, NEW c, c = replier'[g]
               PROVE  OwnAnnounced(c)'
    BY DEF AnnouncesFirst, OwnAnnounced, Rejects, Rejecting
  <2>1. CASE g = f
    BY <1>2, <2>1
  <2>2. CASE g # f
    <3>1. OwnAnnounced(replier[g])
      BY DEF AnnouncesFirst, OwnAnnounced, Rejects, Rejecting
    <3>2. ASSUME NEW q \in Requests, NEW reply, AnnouncedFor(q, reply)
          PROVE  AnnouncedFor(q, reply)'
      BY <3>2 DEF AnnouncedFor
    <3>3. replier[g].step # "idle" => replier[g].target \in Requests /\ replier[g].at \in Requests \cup {None}
      BY DEF TypeOK, Call, NoCall
    <3> QED BY <1>2, <2>2, <3>1, <3>2, <3>3 DEF OwnAnnounced
  <2> QED BY <2>1, <2>2
<1>6. SweptStaysOut'
  <2> SUFFICES ASSUME NEW g \in Repliers, NEW c, c = replier'[g]
               PROVE  OwnSwept(c)'
    BY DEF SweptStaysOut, OwnSwept, Rejects, Rejecting
  <2>1. CASE g = f
    BY <1>2, <2>1
  <2>2. CASE g # f
    BY <1>2, <2>2 DEF SweptStaysOut, OwnSwept, Rejects, Rejecting
  <2> QED BY <2>1, <2>2
<1> QED BY <1>1, <1>3, <1>4, <1>5, <1>6

\* A call of reply that is not idle.
LEMMA InCall ==
  ASSUME IInv, NEW f \in Repliers, replier[f].step # "idle"
  PROVE  /\ replier[f] \in Call
         /\ replier[f].target \in Requests /\ asker[replier[f].target] \notin Unlisted
         /\ KnowsWell(replier[f])
<1>1. replier[f] \in Call
  BY DEF IInv, TypeOK, NoCall
<1>2. replier[f].target \in Requests
  BY <1>1 DEF Call
<1>3. KnowsWell(replier[f])
  BY DEF IInv, KnowsListed, Knows, KnowsWell
<1> QED BY <1>1, <1>2, <1>3 DEF KnowsWell

\* Where the loop of a reply goes from a list that it has not passed.
LEMMA AdvanceCall ==
  ASSUME IInv, NEW f \in Repliers, replier[f].step # "idle",
         NEW listed \in SUBSET pending, Advance(f, listed),
         Rejects(f) => replier[f].target \notin listed /\ listed \cap replier[f].visited = {}
  PROVE  \E call \in Call \cup {NoCall} :
           /\ replier' = [replier EXCEPT ![f] = call]
           /\ call.step \in {"idle", "publishing", "consulting"}
           /\ call.step # "idle" => call.at # None /\ (call.step = "consulting" => ~Rejecting(call))
           /\ KnowsWell(call)
           /\ call.step # "idle" /\ Rejecting(call) =>
                   call.target \notin listed /\ listed \cap call.visited \subseteq {call.at}
           /\ openTo' \in [Repliers -> SUBSET Requests]
<1>1. CASE Returns(f)
  <2>1. KnowsWell(NoCall) /\ NoCall.step = "idle"
    BY PermissionNone DEF KnowsWell, NoCall, Rejecting
  <2> QED BY <1>1, <2>1 DEF Returns, IInv, TypeOK
<1>2. ASSUME NEW q \in Remaining(f, listed),
             replier' = Moved(f, IF Rejects(f) THEN "publishing" ELSE "consulting", q,
                              replier[f].visited \cup {q}, replier[f].recalled),
             UNCHANGED openTo
      PROVE  \E call \in Call \cup {NoCall} :
               /\ replier' = [replier EXCEPT ![f] = call]
               /\ call.step \in {"idle", "publishing", "consulting"}
               /\ call.step # "idle" => call.at # None /\ (call.step = "consulting" => ~Rejecting(call))
               /\ KnowsWell(call)
               /\ call.step # "idle" /\ Rejecting(call) =>
                   call.target \notin listed /\ listed \cap call.visited \subseteq {call.at}
               /\ openTo' \in [Repliers -> SUBSET Requests]
  <2> DEFINE call == [step |-> IF Rejects(f) THEN "publishing" ELSE "consulting",
                      target |-> replier[f].target, reply |-> replier[f].reply, at |-> q,
                      visited |-> replier[f].visited \cup {q}, recalled |-> replier[f].recalled]
  <2>1. q \in listed /\ q \in Requests /\ q # None /\ asker[q] \notin Unlisted
    BY PermissionNone DEF Remaining, IInv, TypeOK, ListedIffOpen, Unlisted
  <2>2. call \in Call
    BY <2>1, InCall DEF Call
  <2>3. replier' = [replier EXCEPT ![f] = call]
    BY <1>2 DEF Moved
  <2>4. KnowsWell(call)
    BY <2>1, InCall DEF KnowsWell
  <2>5. Rejecting(call) => call.target \notin listed /\ listed \cap call.visited \subseteq {call.at}
    BY DEF Rejecting, Rejects
  <2>6. openTo' \in [Repliers -> SUBSET Requests]
    BY <1>2 DEF IInv, TypeOK
  <2>7. call.at # None /\ (call.step = "consulting" => ~Rejecting(call)) /\ call.step \in {"publishing", "consulting"}
    BY <2>1 DEF Rejecting, Rejects
  <2> HIDE DEF call
  <2> QED BY <2>1, <2>2, <2>3, <2>4, <2>5, <2>6, <2>7
<1> QED BY <1>1, <1>2 DEF Advance

\* A step that leaves the Deferreds and the list as they are.
LEMMA QuietMove ==
  ASSUME IInv, NEW f \in Repliers, NEW call \in Call \cup {NoCall},
         replier' = [replier EXCEPT ![f] = call],
         replied' \in [Requests -> SUBSET {"once", "always", "reject"}],
         \A q \in Requests : replied[q] \subseteq replied'[q],
         KnowsWell(call), OwnAnnounced(call)', OwnSwept(call),
         saved' \in SUBSET Resources,
         openTo' \in [Repliers -> SUBSET Requests],
         failures' \in 0..MaxFailures,
         UNCHANGED <<configured, changes, asker, lacking, verdict, pending, closed>>
  PROVE  IInv'
<1>1. pending' = {q \in pending : verdict'[q] = "open"}
  BY DEF IInv, ListedIffOpen, TypeOK
<1>2. SettledWasAnnounced'
  <2>1. SettledWasAnnounced
    BY DEF IInv
  <2> QED BY <2>1 DEF SettledWasAnnounced
<1>3. OwnSwept(call)'
  BY DEF OwnSwept
<1> QED BY <1>1, <1>2, <1>3, ReplierMoves DEF IInv, TypeOK

\* reply finds its request in the list, or fails.
LEMMA ReplyStep ==
  ASSUME IInv, NEW f \in Repliers, NEW q \in Requests, NEW reply \in Replies, Reply(f, q, reply)
  PROVE  IInv'
<1> DEFINE call == [step |-> "announcing", target |-> q, reply |-> reply,
                    at |-> None, visited |-> {}, recalled |-> {}]
<1>1. call \in Call
  BY DEF Call
<1>2. asker[q] \notin Unlisted
  BY DEF Reply, IInv, ListedIffOpen, Unlisted
<1>3. KnowsWell(call)
  BY <1>2, PermissionNone DEF KnowsWell
<1>4. OwnAnnounced(call)' /\ OwnSwept(call)
  BY DEF OwnAnnounced, OwnSwept
<1>5. openTo' \in [Repliers -> SUBSET Requests]
  BY DEF Reply, IInv, TypeOK
<1>6. replier' = [replier EXCEPT ![f] = call]
  BY DEF Reply
<1> HIDE DEF call
<1> QED BY <1>1, <1>3, <1>4, <1>5, <1>6, QuietMove DEF Reply, rules, IInv, TypeOK

\* A reply is published for a request that the call knows.
LEMMA PublishedFor ==
  ASSUME IInv, NEW q \in Requests, NEW reply \in Replies, Published(q, reply)
  PROVE  /\ replied' \in [Requests -> SUBSET {"once", "always", "reject"}]
         /\ \A p \in Requests : replied[p] \subseteq replied'[p]
         /\ verdict[q] # "open" \/ Shows(reply) \in replied'[q]
<1>1. Shows(reply) \in {"once", "always", "reject"}
  BY DEF Shows, Replies
<1> QED BY <1>1 DEF Published, IInv, TypeOK

\* The reply to the target itself is published.
LEMMA AnsweredStep == ASSUME IInv, NEW f \in Repliers, Answered(f) PROVE IInv'
<1>0. PICK call : call = [step |-> IF Saving(f) THEN "saving" ELSE "settling", target |-> replier[f].target,
                    reply |-> replier[f].reply, at |-> replier[f].at,
                    visited |-> replier[f].visited, recalled |-> replier[f].recalled]
  OBVIOUS
<1>1. /\ replier[f] \in Call /\ KnowsWell(replier[f])
      /\ replier[f].target \in Requests /\ replier[f].reply \in Replies
  BY InCall DEF Answered, Call
<1>2. call \in Call /\ call.step \in {"saving", "settling"}
  BY <1>0, <1>1 DEF Call
<1>3. replier' = [replier EXCEPT ![f] = call]
  BY <1>0 DEF Answered, Goes, Moved
<1>4. KnowsWell(call)
  BY <1>0, <1>1 DEF KnowsWell
<1>5. /\ replied' \in [Requests -> SUBSET {"once", "always", "reject"}]
      /\ \A p \in Requests : replied[p] \subseteq replied'[p]
      /\ verdict[call.target] # "open" \/ Shows(call.reply) \in replied'[call.target]
  BY <1>0, <1>1, PublishedFor DEF Answered
<1>6. OwnAnnounced(call)' /\ OwnSwept(call)
  BY <1>0, <1>2, <1>5 DEF OwnAnnounced, OwnSwept, AnnouncedFor, Answered, IInv, SweptStaysOut, Saving, Rejecting
<1> QED BY <1>2, <1>3, <1>4, <1>5, <1>6, QuietMove DEF Answered, rules, IInv, TypeOK

\* The resources of an always become saved rules.
LEMMA SaveStep == ASSUME IInv, NEW f \in Repliers, Save(f) PROVE IInv'
<1>0. PICK call : call = [step |-> "settling", target |-> replier[f].target,
                    reply |-> replier[f].reply, at |-> replier[f].at,
                    visited |-> replier[f].visited, recalled |-> replier[f].recalled]
  OBVIOUS
<1>1. replier[f] \in Call /\ KnowsWell(replier[f]) /\ replier[f].target \in Requests
  BY InCall DEF Save
<1>2. call \in Call /\ call.step = "settling"
  BY <1>0, <1>1 DEF Call
<1>3. replier' = [replier EXCEPT ![f] = call]
  BY <1>0 DEF Save, Goes, Moved
<1>4. KnowsWell(call)
  BY <1>0, <1>1 DEF KnowsWell
<1>5. AnnouncedFor(call.target, call.reply)
  BY <1>0 DEF Save, IInv, AnnouncesFirst
<1>6. saved' \in SUBSET Resources
  BY <1>1, RequestAssumption DEF Save, IInv, TypeOK
<1>7. OwnAnnounced(call)' /\ OwnSwept(call)
  BY <1>0, <1>2, <1>5 DEF OwnAnnounced, OwnSwept, AnnouncedFor, Save, IInv, SweptStaysOut
<1> QED BY <1>2, <1>3, <1>4, <1>6, <1>7, QuietMove DEF Save, IInv, TypeOK

\* The Deferred of a request that the call knows is completed, and the request
\* leaves the list.
LEMMA CompletedFor ==
  ASSUME IInv, NEW q \in Requests, asker[q] \notin Unlisted, NEW v \in Verdicts,
         Complete(q, v), pending' = pending \ {q}, UNCHANGED <<replied, closed>>,
         verdict[q] = "open" => \/ v = "granted" /\ replied[q] \cap {"once", "always"} # {}
                                \/ v # "granted" /\ "reject" \in replied[q]
  PROVE  /\ verdict' \in [Requests -> Verdicts \cup {"open"}]
         /\ \A p \in Requests : verdict'[p] # verdict[p] => verdict[p] = "open" /\ asker[p] \notin Unlisted
         /\ pending' = {p \in pending : verdict'[p] = "open"}
         /\ SettledWasAnnounced'
         /\ \A p \in Requests : verdict[p] # "open" => verdict'[p] # "open"
<1> USE DEF IInv
<1>1. /\ verdict' \in [Requests -> Verdicts \cup {"open"}]
      /\ verdict'[q] = IF verdict[q] = "open" THEN v ELSE verdict[q]
      /\ \A p \in Requests \ {q} : verdict'[p] = verdict[p]
  BY DEF Complete, TypeOK
<1>2. v # "open"
  BY DEF Verdicts
<1>3. \A p \in pending : verdict[p] = "open" /\ p \in Requests
  BY DEF ListedIffOpen, TypeOK
<1>4. pending' = {p \in pending : verdict'[p] = "open"}
  BY <1>1, <1>2, <1>3
<1>5. SettledWasAnnounced'
  <2>1. ASSUME NEW p \in Requests
        PROVE  (/\ verdict[p] = "granted" => replied[p] \cap {"once", "always"} # {}
                /\ verdict[p] = "corrected" => "reject" \in replied[p]
                /\ verdict[p] = "declined" => "reject" \in replied[p] \/ closed)'
    <3>1. CASE verdict'[p] = verdict[p]
      BY <3>1 DEF SettledWasAnnounced
    <3>2. CASE verdict'[p] # verdict[p]
      BY <1>1, <3>2 DEF Verdicts
    <3> QED BY <3>1, <3>2
  <2> QED BY <2>1 DEF SettledWasAnnounced
<1> QED BY <1>1, <1>2, <1>4, <1>5

\* What the loop of a reject, or of an always, goes on to.
LEMMA LoopMove ==
  ASSUME IInv, NEW f \in Repliers, replier[f].step # "idle",
         verdict' \in [Requests -> Verdicts \cup {"open"}],
         \A q \in Requests : verdict'[q] # verdict[q] => verdict[q] = "open" /\ asker[q] \notin Unlisted,
         pending' = {q \in pending : verdict'[q] = "open"},
         SettledWasAnnounced', Advance(f, pending'),
         Rejects(f) => replier[f].target \notin pending' /\ pending' \cap replier[f].visited = {},
         UNCHANGED <<configured, saved, changes, asker, lacking, replied, closed, failures>>
  PROVE  IInv'
<1>1. PICK call \in Call \cup {NoCall} :
           /\ replier' = [replier EXCEPT ![f] = call]
           /\ call.step \in {"idle", "publishing", "consulting"}
           /\ call.step # "idle" => call.at # None /\ (call.step = "consulting" => ~Rejecting(call))
           /\ KnowsWell(call)
           /\ call.step # "idle" /\ Rejecting(call) =>
                call.target \notin pending' /\ pending' \cap call.visited \subseteq {call.at}
           /\ openTo' \in [Repliers -> SUBSET Requests]
  <2>1. PICK listed \in SUBSET pending : listed = pending'
    OBVIOUS
  <2>2. Advance(f, listed) /\ (Rejects(f) => replier[f].target \notin listed /\ listed \cap replier[f].visited = {})
    BY <2>1
  <2>3. PICK call \in Call \cup {NoCall} :
           /\ replier' = [replier EXCEPT ![f] = call]
           /\ call.step \in {"idle", "publishing", "consulting"}
           /\ call.step # "idle" => call.at # None /\ (call.step = "consulting" => ~Rejecting(call))
           /\ KnowsWell(call)
           /\ call.step # "idle" /\ Rejecting(call) =>
                call.target \notin listed /\ listed \cap call.visited \subseteq {call.at}
           /\ openTo' \in [Repliers -> SUBSET Requests]
    BY <2>2, AdvanceCall
  <2> QED BY <2>1, <2>3
<1>2. OwnAnnounced(call)'
  BY <1>1 DEF OwnAnnounced
<1>3. OwnSwept(call)'
  BY <1>1 DEF OwnSwept
<1> QED BY <1>1, <1>2, <1>3, ReplierMoves DEF IInv, TypeOK

\* The target is completed; a reject or an always goes on to the other requests.
LEMMA SettleStep == ASSUME IInv, NEW f \in Repliers, Settle(f) PROVE IInv'
<1>0. PICK q : q = replier[f].target
  OBVIOUS
<1>1. /\ replier[f] \in Call /\ KnowsWell(replier[f]) /\ replier[f].reply \in Replies
      /\ q \in Requests /\ asker[q] \notin Unlisted
  BY <1>0, InCall DEF Settle, Call
<1>2. AnnouncedFor(q, replier[f].reply)
  BY <1>0 DEF Settle, IInv, AnnouncesFirst
<1>3. PICK v \in Verdicts : v = Outcome(replier[f].reply)
  BY DEF Outcome, Verdicts
<1>4. verdict[q] = "open" => \/ v = "granted" /\ replied[q] \cap {"once", "always"} # {}
                             \/ v # "granted" /\ "reject" \in replied[q]
  BY <1>1, <1>2, <1>3 DEF AnnouncedFor, Outcome, Shows, Replies
<1>5. Complete(q, v) /\ pending' = pending \ {q} /\ UNCHANGED <<replied, closed>>
  BY <1>0, <1>3 DEF Settle
<1>6. /\ verdict' \in [Requests -> Verdicts \cup {"open"}]
      /\ \A p \in Requests : verdict'[p] # verdict[p] => verdict[p] = "open" /\ asker[p] \notin Unlisted
      /\ pending' = {p \in pending : verdict'[p] = "open"}
      /\ SettledWasAnnounced'
  BY <1>1, <1>4, <1>5, CompletedFor
<1>7. UNCHANGED <<configured, saved, changes, asker, lacking, replied, closed, failures>>
  BY DEF Settle, rules
<1>8. CASE Advance(f, pending')
  <2>1. q \notin pending' /\ pending' \cap replier[f].visited = {}
    BY <1>5 DEF Settle, IInv, SweptStaysOut
  <2> QED BY <1>0, <1>6, <1>7, <1>8, <2>1, LoopMove DEF Settle
<1>9. CASE UNCHANGED openTo /\ Goes(f, "recalling") /\ Saving(f)
  <2>0. PICK call : call = [step |-> "recalling", target |-> replier[f].target,
                            reply |-> replier[f].reply, at |-> replier[f].at,
                            visited |-> replier[f].visited, recalled |-> replier[f].recalled]
    OBVIOUS
  <2>1. call \in Call /\ call.step = "recalling"
    BY <1>1, <2>0 DEF Call
  <2>2. replier' = [replier EXCEPT ![f] = call]
    BY <1>9, <2>0 DEF Goes, Moved
  <2>3. KnowsWell(call)
    BY <1>1, <2>0 DEF KnowsWell
  <2>4. OwnAnnounced(call)' /\ OwnSwept(call)'
    BY <1>9, <2>0, <2>1 DEF OwnAnnounced, OwnSwept, Saving, Rejecting
  <2> QED BY <1>6, <1>7, <1>9, <2>1, <2>2, <2>3, <2>4, ReplierMoves DEF IInv, TypeOK
<1>10. CASE Returns(f)
  <2>1. KnowsWell(NoCall) /\ OwnAnnounced(NoCall)' /\ OwnSwept(NoCall)'
    BY PermissionNone DEF KnowsWell, OwnAnnounced, OwnSwept, NoCall
  <2>2. openTo' \in [Repliers -> SUBSET Requests]
    BY <1>10 DEF Returns, IInv, TypeOK
  <2> QED BY <1>6, <1>7, <1>10, <2>1, <2>2, ReplierMoves DEF Returns, IInv, TypeOK
<1> QED BY <1>8, <1>9, <1>10 DEF Settle

\* A call that ends, by a return or by a failure, owes nothing.
LEMMA ReturnMove ==
  ASSUME IInv, NEW f \in Repliers, Returns(f), failures' \in 0..MaxFailures,
         UNCHANGED <<rules, pending, asker, lacking, verdict, replied, closed>>
  PROVE  IInv'
<1>1. KnowsWell(NoCall) /\ OwnAnnounced(NoCall)' /\ OwnSwept(NoCall)
  BY PermissionNone DEF KnowsWell, OwnAnnounced, OwnSwept, NoCall
<1>2. openTo' \in [Repliers -> SUBSET Requests]
  BY DEF Returns, IInv, TypeOK
<1> QED BY <1>1, <1>2, QuietMove DEF Returns, rules, IInv, TypeOK

\* An always rereads the saved rules, or returns.
LEMMA RecallSavedStep == ASSUME IInv, NEW f \in Repliers, RecallSaved(f) PROVE IInv'
<1>1. CASE Returns(f)
  BY <1>1, ReturnMove DEF RecallSaved, IInv, TypeOK
<1>2. ASSUME NEW q \in pending, replier' = Moved(f, "consulting", q, {q}, saved), UNCHANGED openTo
      PROVE  IInv'
  <2>0. PICK call : call = [step |-> "consulting", target |-> replier[f].target,
                            reply |-> replier[f].reply, at |-> q, visited |-> {q}, recalled |-> saved]
    OBVIOUS
  <2>1. replier[f] \in Call /\ KnowsWell(replier[f])
    BY InCall DEF RecallSaved
  <2>2. q \in Requests /\ q # None /\ asker[q] \notin Unlisted
    BY PermissionNone DEF IInv, TypeOK, ListedIffOpen, Unlisted
  <2>3. call \in Call /\ call.step = "consulting" /\ call.at # None
    BY <2>0, <2>1, <2>2 DEF Call, IInv, TypeOK
  <2>4. replier' = [replier EXCEPT ![f] = call]
    BY <1>2, <2>0 DEF Moved
  <2>5. KnowsWell(call)
    BY <2>0, <2>1, <2>2 DEF KnowsWell
  <2>6. OwnAnnounced(call)' /\ OwnSwept(call)
    BY <2>0, <2>3 DEF OwnAnnounced, OwnSwept, RecallSaved, IInv, SweptStaysOut, Rejects, Rejecting
  <2> QED BY <1>2, <2>3, <2>4, <2>5, <2>6, QuietMove DEF RecallSaved, rules, IInv, TypeOK
<1> QED BY <1>1, <1>2 DEF RecallSaved

\* The loop publishes a reply for the request it stands at.
LEMMA PublishStep == ASSUME IInv, NEW f \in Repliers, Publish(f) PROVE IInv'
<1>0. PICK call : call = [step |-> "sweeping", target |-> replier[f].target,
                          reply |-> replier[f].reply, at |-> replier[f].at,
                          visited |-> replier[f].visited, recalled |-> replier[f].recalled]
  OBVIOUS
<1>1. /\ replier[f] \in Call /\ KnowsWell(replier[f])
      /\ call.at \in Requests /\ call.at # None
  BY <1>0, InCall DEF Publish, Call, IInv, AnnouncesFirst
<1>2. call \in Call /\ call.step = "sweeping"
  BY <1>0, <1>1 DEF Call
<1>3. replier' = [replier EXCEPT ![f] = call]
  BY <1>0 DEF Publish, Goes, Moved
<1>4. KnowsWell(call)
  BY <1>0, <1>1 DEF KnowsWell
<1>5. PICK reply \in {"reject", "always"} : reply = IF Rejecting(call) THEN "reject" ELSE "always"
  BY DEF Rejecting
<1>6. Published(call.at, reply)
  BY <1>0, <1>5 DEF Publish, Rejecting, Rejects
<1>7. /\ replied' \in [Requests -> SUBSET {"once", "always", "reject"}]
      /\ \A p \in Requests : replied[p] \subseteq replied'[p]
      /\ verdict[call.at] # "open" \/ Shows(reply) \in replied'[call.at]
  BY <1>1, <1>5, <1>6, PublishedFor DEF Replies
<1>8. OwnAnnounced(call)'
  <2>1. AnnouncedFor(call.at, reply)'
    BY <1>7 DEF AnnouncedFor, Publish
  <2> QED BY <1>1, <1>2, <1>5, <2>1 DEF OwnAnnounced
<1>9. OwnSwept(call)
  BY <1>0, <1>2 DEF OwnSwept, Publish, IInv, SweptStaysOut, Rejects, Rejecting
<1> QED BY <1>2, <1>3, <1>4, <1>7, <1>8, <1>9, QuietMove DEF Publish, rules, IInv, TypeOK

\* The loop of an always looks at whether the rules cover a request.
LEMMA ConsultStep == ASSUME IInv, NEW f \in Repliers, Consult(f) PROVE IInv'
<1>0. ~Rejects(f)
  BY DEF Consult, IInv, SweptStaysOut
<1>1. CASE Goes(f, "publishing") /\ UNCHANGED openTo
  <2>0. PICK call : call = [step |-> "publishing", target |-> replier[f].target,
                            reply |-> replier[f].reply, at |-> replier[f].at,
                            visited |-> replier[f].visited, recalled |-> replier[f].recalled]
    OBVIOUS
  <2>1. replier[f] \in Call /\ KnowsWell(replier[f]) /\ call.at # None
    BY <2>0, InCall DEF Consult, IInv, AnnouncesFirst
  <2>2. call \in Call /\ call.step = "publishing" /\ ~Rejecting(call)
    BY <1>0, <2>0, <2>1 DEF Call, Rejects, Rejecting
  <2>3. replier' = [replier EXCEPT ![f] = call]
    BY <1>1, <2>0 DEF Goes, Moved
  <2>4. KnowsWell(call)
    BY <2>0, <2>1 DEF KnowsWell
  <2>5. OwnAnnounced(call)' /\ OwnSwept(call)
    BY <2>1, <2>2 DEF OwnAnnounced, OwnSwept
  <2> QED BY <1>1, <2>2, <2>3, <2>4, <2>5, QuietMove DEF Consult, rules, IInv, TypeOK
<1>2. CASE Advance(f, pending)
  <2>1. pending = {q \in pending : verdict[q] = "open"}
    BY DEF IInv, ListedIffOpen, TypeOK
  <2>2. SettledWasAnnounced
    BY DEF IInv
  <2>3. UNCHANGED <<configured, saved, changes, asker, lacking, verdict, pending, replied, closed, failures>>
    BY DEF Consult, rules
  <2>4. SettledWasAnnounced'
    BY <2>2, <2>3 DEF SettledWasAnnounced
  <2>5. Advance(f, pending') /\ pending' = {q \in pending : verdict'[q] = "open"}
    BY <1>2, <2>1, <2>3
  <2> QED BY <1>0, <2>3, <2>4, <2>5, LoopMove DEF Consult, IInv, TypeOK
<1> QED BY <1>1, <1>2 DEF Consult

\* The loop completes a request and takes it off the list.
LEMMA SweepStep == ASSUME IInv, NEW f \in Repliers, Sweep(f) PROVE IInv'
<1>0. PICK q : q = replier[f].at
  OBVIOUS
<1>1. /\ replier[f] \in Call /\ KnowsWell(replier[f])
      /\ q \in Requests /\ asker[q] \notin Unlisted
  BY <1>0, InCall DEF Sweep, Call, IInv, AnnouncesFirst, KnowsWell
<1>2. AnnouncedFor(q, IF Rejects(f) THEN "reject" ELSE "always")
  BY <1>0 DEF Sweep, IInv, AnnouncesFirst
<1>3. PICK v \in Verdicts : v = IF Rejects(f) THEN "declined" ELSE "granted"
  BY DEF Verdicts
<1>4. verdict[q] = "open" => \/ v = "granted" /\ replied[q] \cap {"once", "always"} # {}
                             \/ v # "granted" /\ "reject" \in replied[q]
  BY <1>2, <1>3 DEF AnnouncedFor, Shows
<1>5. Complete(q, v) /\ pending' = pending \ {q} /\ UNCHANGED <<replied, closed>>
  BY <1>0, <1>3 DEF Sweep
<1>6. /\ verdict' \in [Requests -> Verdicts \cup {"open"}]
      /\ \A p \in Requests : verdict'[p] # verdict[p] => verdict[p] = "open" /\ asker[p] \notin Unlisted
      /\ pending' = {p \in pending : verdict'[p] = "open"}
      /\ SettledWasAnnounced'
  BY <1>1, <1>4, <1>5, CompletedFor
<1>7. UNCHANGED <<configured, saved, changes, asker, lacking, replied, closed, failures>>
  BY DEF Sweep, rules
<1>8. Rejects(f) => replier[f].target \notin pending' /\ pending' \cap replier[f].visited = {}
  BY <1>0, <1>5 DEF Sweep, IInv, SweptStaysOut
<1> QED BY <1>6, <1>7, <1>8, LoopMove DEF Sweep

\* A listener fails while a call of reply publishes.
LEMMA ReplyFailsStep == ASSUME IInv, NEW f \in Repliers, ReplyFails(f) PROVE IInv'
<1>1. failures' \in 0..MaxFailures
  BY PermissionBounds DEF ReplyFails, IInv, TypeOK
<1> QED BY <1>1, ReturnMove DEF ReplyFails

\* The finalizer rejects and drops every listed request.
LEMMA FinalizeStep == ASSUME IInv, Finalize PROVE IInv'
<1> USE DEF IInv
<1>1. TypeOK'
  BY DEF Finalize, rules, TypeOK, Verdicts
<1>2. /\ \A q \in Requests : verdict'[q] = IF q \in pending /\ verdict[q] = "open" THEN "declined" ELSE verdict[q]
      /\ pending' = {} /\ closed' /\ UNCHANGED <<asker, replier, replied>>
  BY DEF Finalize
<1>3. ListedIffOpen'
  BY <1>2 DEF ListedIffOpen
<1>4. SettledWasAnnounced'
  BY <1>2 DEF SettledWasAnnounced
<1>5. KnowsListed'
  BY <1>2 DEF KnowsListed, Knows, ListedIffOpen, Unlisted, Verdicts
<1>6. AnnouncesFirst'
  <2> SUFFICES ASSUME NEW f \in Repliers, NEW c, c = replier[f]
               PROVE  OwnAnnounced(c)'
    BY <1>2 DEF AnnouncesFirst, OwnAnnounced, Rejects, Rejecting
  <2>1. OwnAnnounced(c)
    BY DEF AnnouncesFirst, OwnAnnounced, Rejects, Rejecting
  <2>2. c.step # "idle" => c.target \in Requests /\ c.at \in Requests \cup {None}
    BY DEF TypeOK, Call, NoCall
  <2>3. ASSUME NEW q \in Requests, NEW reply, AnnouncedFor(q, reply)
        PROVE  AnnouncedFor(q, reply)'
    BY <1>2, <2>3 DEF AnnouncedFor
  <2> QED BY <2>1, <2>2, <2>3 DEF OwnAnnounced
<1>7. SweptStaysOut'
  BY <1>2 DEF SweptStaysOut, Rejects
<1> QED BY <1>1, <1>3, <1>4, <1>5, <1>6, <1>7

\* What changes around the service leaves the invariant alone.
LEMMA AroundStep ==
  ASSUME IInv, TypeOK', UNCHANGED <<pending, asker, verdict, replier, replied, closed>>
  PROVE  IInv'
BY DEF IInv, ListedIffOpen, SettledWasAnnounced, KnowsListed, Knows, AnnouncesFirst, AnnouncedFor,
       Rejects, SweptStaysOut

\* The rules of an agent are reloaded.
LEMMA ReconfigureStep ==
  ASSUME IInv, NEW s \in Sessions, NEW ruleset \in Rulesets \cup {None}, Reconfigure(s, ruleset)
  PROVE  IInv'
<1>1. changes' \in 0..MaxChanges
  BY PermissionBounds DEF Reconfigure, Changing, IInv, TypeOK
<1>2. openTo' \in [Repliers -> SUBSET Requests]
  BY DEF Reconfigure, IInv, TypeOK
<1>3. configured' \in [Sessions -> Rulesets \cup {None}]
  BY DEF Reconfigure, IInv, TypeOK
<1>4. TypeOK'
  BY <1>1, <1>2, <1>3 DEF Reconfigure, IInv, TypeOK
<1> QED BY <1>4, AroundStep DEF Reconfigure

\* A saved rule is removed.
LEMMA ForgetStep == ASSUME IInv, NEW r \in Resources, Forget(r) PROVE IInv'
<1>1. changes' \in 0..MaxChanges
  BY PermissionBounds DEF Forget, Changing, IInv, TypeOK
<1>2. TypeOK'
  BY <1>1 DEF Forget, IInv, TypeOK
<1> QED BY <1>2, AroundStep DEF Forget

\* Every step, stuttering included, keeps the invariant.
LEMMA NextIInv == IInv /\ [Next]_vars => IInv'
<1> SUFFICES ASSUME IInv, [Next]_vars PROVE IInv'
  OBVIOUS
<1>1. ASSUME NEW q \in Requests, AskerStep(q) \/ AnnounceFails(q) \/ Interrupt(q) PROVE IInv'
  BY <1>1, EvaluateStep, RecallStep, AnnounceStep, LeaveStep DEF AskerStep
<1>2. ASSUME NEW f \in Repliers, ReplierStep(f) \/ ReplyFails(f) PROVE IInv'
  BY <1>2, AnsweredStep, SaveStep, SettleStep, RecallSavedStep, ConsultStep, PublishStep, SweepStep,
     ReplyFailsStep DEF ReplierStep
<1>3. CASE UNCHANGED vars
  <2>1. TypeOK'
    BY <1>3 DEF vars, IInv, TypeOK
  <2> QED BY <1>3, <2>1, AroundStep DEF vars
<1> QED BY <1>1, <1>2, <1>3, ReplyStep, ReconfigureStep, ForgetStep, FinalizeStep DEF Next

\* The invariant holds in every reachable state: it holds at the start, and each
\* step of a call of ask, assert or reply, of the finalizer and of the agents keeps it.
THEOREM Inductive == Spec => []IInv
<1>1. IInv /\ [Next]_vars => IInv'
  BY NextIInv
<1> QED BY InitIInv, <1>1, PTL DEF Spec

\* Every state of the service is well typed.
THEOREM TypeCorrect == Spec => []TypeOK
<1>1. IInv => TypeOK
  BY DEF IInv
<1> QED BY Inductive, <1>1, PTL

\* The listed requests are exactly those that still need an answer.
THEOREM ListExact == Spec => []ListedIffOpen
<1>1. IInv => ListedIffOpen
  BY DEF IInv
<1> QED BY Inductive, <1>1, PTL

\* Nobody resumes with an answer that was not published first.
THEOREM AnswersPublished == Spec => []SettledWasAnnounced
<1>1. IInv => SettledWasAnnounced
  BY DEF IInv
<1> QED BY Inductive, <1>1, PTL

\* When a reject returns, its Session has no request left.
LEMMA LoopEndsClean ==
  ASSUME IInv, Next, NEW f \in Repliers, LoopEnds(f), Rejects(f), NEW q \in pending'
  PROVE  SessionOf[q] # SessionOf[replier[f].target]
<1>1. replier'[f].step = "idle" /\ replier[f].step # "idle"
  BY DEF LoopEnds, NoCall
<1>2. PICK g \in Repliers : ReplierStep(g) \/ ReplyFails(g) \/ \E p \in Requests, reply \in Replies : Reply(g, p, reply)
  BY <1>1 DEF Next, AskerStep, Evaluate, Recall, Announce, Resume, AnnounceFails, Interrupt,
     Reconfigure, Forget, Finalize
<1>3. g = f
  BY <1>1, <1>2 DEF IInv, TypeOK, ReplierStep, Answered, Save, Settle, RecallSaved, Consult, Publish, Sweep,
     ReplyFails, Reply, Returns, Goes, Moved, Advance
<1>4. Settle(f) \/ Consult(f) \/ Sweep(f)
  BY <1>1, <1>2, <1>3 DEF LoopEnds, ReplierStep, Answered, Save, RecallSaved, Publish, ReplyFails, Reply
<1>5. replier[f].step # "consulting"
  BY DEF IInv, SweptStaysOut
<1>6. Advance(f, pending') /\ pending' \cap replier[f].visited = {}
  <2>1. CASE Settle(f)
    BY <2>1 DEF Settle, Saving, Rejects, IInv, SweptStaysOut
  <2>2. CASE Sweep(f)
    BY <2>2 DEF Sweep, IInv, SweptStaysOut
  <2> QED BY <1>4, <1>5, <2>1, <2>2 DEF Consult
<1>7. Remaining(f, pending') = {}
  <2>1. \A p, visited, recalled : replier' # Moved(f, "publishing", p, visited, recalled)
    BY <1>1 DEF Moved, IInv, TypeOK
  <2> QED BY <1>6, <2>1 DEF Advance
<1> QED BY <1>6, <1>7 DEF Remaining

\* The loop of a reject leaves no request of its Session behind, those made
\* while it runs included.
THEOREM RejectComplete == Spec => RejectSweepsSession
<1>1. IInv /\ [Next]_vars => [\A f \in Repliers :
         LoopEnds(f) /\ Rejects(f) => \A q \in pending' : SessionOf[q] # SessionOf[replier[f].target]]_vars
  BY LoopEndsClean
<1> QED BY Inductive, <1>1, PTL DEF Spec, RejectSweepsSession

-----------------------------------------------------------------------------
(* Refinement of Prompts.                                                  *)

\* At the start no prompt was opened and no answer received.
LEMMA PromptInit == Init => PromptService!Init
BY DEF Init, PromptService!Init, Status, Received, Verdicts

\* Where the abstract prompt of a request stands, by the state of the service.
LEMMA StatusOf ==
  ASSUME IInv, NEW q \in Requests
  PROVE  /\ asker[q] \in Unlisted => Status(q) = "unasked"
         /\ asker[q] \in {"failed", "interrupted"} => Status(q) = "withdrawn"
         /\ asker[q] \notin Unlisted \cup {"failed", "interrupted"} =>
              Status(q) = verdict[q] /\ Status(q) \in Verdicts \cup {"open"}
BY DEF IInv, TypeOK, KnowsListed, ListedIffOpen, Unlisted, Status, Stages, Results, Verdicts

\* Where the abstract prompt stands after a step, likewise.
LEMMA StatusAfter ==
  ASSUME IInv', NEW q \in Requests
  PROVE  /\ asker'[q] \in Unlisted => Status(q)' = "unasked"
         /\ asker'[q] \in {"failed", "interrupted"} => Status(q)' = "withdrawn"
         /\ asker'[q] \notin Unlisted \cup {"failed", "interrupted"} =>
              Status(q)' = verdict'[q] /\ Status(q)' \in Verdicts \cup {"open"}
BY DEF IInv, TypeOK, KnowsListed, ListedIffOpen, Unlisted, Status, Stages, Results, Verdicts

\* A step of one call of assert or ask changes at most its own prompt.
LEMMA OthersSame ==
  ASSUME IInv, NEW q \in Requests, NEW stage, asker' = [asker EXCEPT ![q] = stage],
         \A p \in Requests \ {q} : p \in pending' <=> p \in pending, UNCHANGED verdict
  PROVE  \A p \in Requests \ {q} : Status(p)' = Status(p) /\ Received(p)' = Received(p)
BY DEF IInv, TypeOK, Status, Received

\* The steps of Prompts, request by request.
LEMMA OpenSim ==
  ASSUME NEW q \in Requests, Status(q) = "unasked", Status(q)' = "open",
         \A p \in Requests \ {q} : Status(p)' = Status(p), \A p \in Requests : Received(p)' = Received(p)
  PROVE  PromptService!Next
<1>1. PromptService!Open(q)
  BY DEF PromptService!Open
<1> QED BY <1>1 DEF PromptService!Next

\* A fiber that gives up withdraws its prompt.
LEMMA WithdrawSim ==
  ASSUME NEW q \in Requests, Status(q) \in Verdicts \cup {"open"}, Received(q) = "nothing",
         Status(q)' = "withdrawn",
         \A p \in Requests \ {q} : Status(p)' = Status(p), \A p \in Requests : Received(p)' = Received(p)
  PROVE  PromptService!Next
<1>1. PromptService!Withdraw(q)
  BY DEF PromptService!Withdraw
<1> QED BY <1>1 DEF PromptService!Next

\* A fiber that resumes with the verdict receives the answer.
LEMMA ReceiveSim ==
  ASSUME NEW q \in Requests, Status(q) \in Verdicts, Received(q) = "nothing", Received(q)' = Status(q),
         \A p \in Requests \ {q} : Received(p)' = Received(p), \A p \in Requests : Status(p)' = Status(p)
  PROVE  PromptService!Next
<1>1. PromptService!Receive(q)
  BY DEF PromptService!Receive
<1> QED BY <1>1 DEF PromptService!Next

\* Completing Deferreds closes prompts with one answer.
LEMMA SettleSim ==
  ASSUME NEW closing \in SUBSET Requests, NEW a \in Verdicts,
         \A p \in closing : Status(p) = "open",
         \A p \in Requests : Status(p)' = IF p \in closing THEN a ELSE Status(p),
         \A p \in Requests : Received(p)' = Received(p)
  PROVE  PromptService!Next
<1>1. PromptService!Settle(closing, a)
  BY DEF PromptService!Settle
<1> QED BY <1>1 DEF PromptService!Next

\* A step that changes no status and no received answer is a stutter.
LEMMA StutterSim ==
  ASSUME \A p \in Requests : Status(p)' = Status(p) /\ Received(p)' = Received(p)
  PROVE  UNCHANGED PromptService!vars
BY DEF PromptService!vars

Simulates == PromptService!Next \/ UNCHANGED PromptService!vars

\* Every step of a call of assert or ask is a step of its prompt, or a stutter.
LEMMA AskerSim ==
  ASSUME IInv, IInv', NEW q \in Requests, AskerStep(q) \/ AnnounceFails(q) \/ Interrupt(q)
  PROVE  Simulates
<1>1. PICK stage : asker' = [asker EXCEPT ![q] = stage]
  BY DEF AskerStep, Evaluate, Recall, Announce, Resume, AnnounceFails, Interrupt
<1>2. asker'[q] = stage
  BY <1>1 DEF IInv, TypeOK
<1>3. UNCHANGED verdict /\ \A p \in Requests \ {q} : p \in pending' <=> p \in pending
  BY DEF AskerStep, Evaluate, Recall, Announce, Resume, AnnounceFails, Interrupt
<1>4. \A p \in Requests \ {q} : Status(p)' = Status(p) /\ Received(p)' = Received(p)
  BY <1>1, <1>3, OthersSame
<1>5. CASE Evaluate(q)
  <2>1. asker[q] \in Unlisted /\ asker'[q] \in Unlisted
    BY <1>1, <1>5 DEF Evaluate, Unlisted, IInv, TypeOK
  <2>2. Received(q) = "nothing" /\ Received(q)' = "nothing"
    BY <2>1 DEF Received, Unlisted, Verdicts
  <2> QED BY <1>4, <2>1, <2>2, StatusOf, StatusAfter, StutterSim DEF Simulates
<1>6. CASE Recall(q)
  <2>1. asker[q] \in Unlisted /\ asker'[q] \in {"allowed", "announcing"} /\ verdict[q] = "open"
    BY <1>6 DEF Recall, Unlisted, IInv, TypeOK, KnowsListed
  <2>2. Received(q) = "nothing" /\ Received(q)' = "nothing"
    BY <2>1 DEF Received, Unlisted, Verdicts
  <2>3. Status(q) = "unasked" /\ Status(q)' \in {"unasked", "open"}
    BY <1>3, <2>1, StatusOf, StatusAfter DEF Unlisted
  <2> QED BY <1>4, <2>2, <2>3, StutterSim, OpenSim DEF Simulates
<1>7. CASE Announce(q)
  <2>1. asker[q] = "announcing" /\ asker'[q] \in {"posted", "waiting"}
    BY <1>7 DEF Announce, IInv, TypeOK
  <2>2. Received(q) = "nothing" /\ Received(q)' = "nothing"
    BY <2>1 DEF Received, Verdicts
  <2>3. Status(q)' = Status(q)
    BY <1>3, <2>1, StatusOf, StatusAfter DEF Unlisted
  <2> QED BY <1>4, <2>2, <2>3, StutterSim DEF Simulates
<1>8. CASE Resume(q)
  <2>1. asker[q] = "waiting" /\ asker'[q] = verdict[q] /\ verdict[q] \in Verdicts
    BY <1>8 DEF Resume, IInv, TypeOK
  <2>2. Received(q) = "nothing" /\ Received(q)' = verdict[q]
    BY <2>1 DEF Received, Verdicts
  <2>3. Status(q) = verdict[q] /\ Status(q)' = verdict[q]
    BY <1>3, <2>1, StatusOf, StatusAfter DEF Unlisted, Verdicts
  <2> QED BY <1>4, <2>1, <2>2, <2>3, ReceiveSim DEF Simulates
<1>9. CASE AnnounceFails(q) \/ Interrupt(q)
  <2>1. asker[q] \in {"announcing", "waiting"} /\ asker'[q] \in {"failed", "interrupted"}
    BY <1>9 DEF AnnounceFails, Interrupt, IInv, TypeOK
  <2>2. Received(q) = "nothing" /\ Received(q)' = "nothing"
    BY <2>1 DEF Received, Verdicts
  <2>3. Status(q) \in Verdicts \cup {"open"} /\ Status(q)' = "withdrawn"
    BY <2>1, StatusOf, StatusAfter DEF Unlisted
  <2> QED BY <1>4, <2>2, <2>3, WithdrawSim DEF Simulates
<1> QED BY <1>5, <1>6, <1>7, <1>8, <1>9 DEF AskerStep

\* A completion closes the prompts it finds open, if any still has its fiber.
LEMMA CompletionSim ==
  ASSUME IInv, IInv', NEW closing \in SUBSET Requests, NEW v \in Verdicts, UNCHANGED asker,
         \A p \in Requests : verdict'[p] = IF p \in closing /\ verdict[p] = "open" THEN v ELSE verdict[p]
  PROVE  Simulates
<1> DEFINE shut == {p \in closing : Status(p) = "open"}
<1>1. \A p \in Requests : Received(p)' = Received(p)
  BY DEF Received
<1>2. ASSUME NEW p \in Requests
      PROVE  Status(p)' = IF p \in shut THEN v ELSE Status(p)
  BY StatusOf, StatusAfter DEF Unlisted, Verdicts
<1>3. shut \in SUBSET Requests /\ \A p \in shut : Status(p) = "open"
  OBVIOUS
<1> HIDE DEF shut
<1> QED BY <1>1, <1>2, <1>3, SettleSim DEF Simulates

\* Every step of the service is a step of Prompts, or a stutter.
LEMMA Refines == ASSUME IInv, IInv', [Next]_vars PROVE Simulates
<1>1. ASSUME NEW f \in Repliers, NEW q \in Requests, NEW v \in Verdicts, Complete(q, v), UNCHANGED asker
      PROVE  Simulates
  <2>1. \A p \in Requests : verdict'[p] = IF p \in {q} /\ verdict[p] = "open" THEN v ELSE verdict[p]
    BY <1>1 DEF Complete, IInv, TypeOK
  <2> QED BY <1>1, <2>1, CompletionSim
<1>2. ASSUME NEW f \in Repliers, Settle(f) PROVE Simulates
  <2>1. replier[f].target \in Requests
    BY <1>2, InCall DEF Settle
  <2>2. Outcome(replier[f].reply) \in Verdicts
    BY DEF Outcome, Verdicts
  <2> QED BY <1>1, <1>2, <2>1, <2>2 DEF Settle
<1>3. ASSUME NEW f \in Repliers, Sweep(f) PROVE Simulates
  <2>1. replier[f].at \in Requests
    BY <1>3, InCall DEF Sweep, Call, IInv, AnnouncesFirst
  <2>2. (IF Rejects(f) THEN "declined" ELSE "granted") \in Verdicts
    BY DEF Verdicts
  <2> QED BY <1>1, <1>3, <2>1, <2>2 DEF Sweep
<1>4. CASE Finalize
  <2>1. pending \in SUBSET Requests /\ "declined" \in Verdicts
    BY DEF IInv, TypeOK, Verdicts
  <2>2. UNCHANGED asker
    BY <1>4 DEF Finalize
  <2>3. \A p \in Requests : verdict'[p] = IF p \in pending /\ verdict[p] = "open" THEN "declined" ELSE verdict[p]
    BY <1>4 DEF Finalize
  <2> QED BY <2>1, <2>2, <2>3, CompletionSim
<1>5. CASE UNCHANGED <<asker, pending, verdict>>
  BY <1>5, StutterSim DEF Simulates, Status, Received
<1>6. ASSUME NEW f \in Repliers, ReplierStep(f) \/ ReplyFails(f) PROVE Simulates
  BY <1>2, <1>3, <1>5, <1>6 DEF ReplierStep, ReplyFails, Answered, Save, RecallSaved, Consult, Publish
<1>7. ASSUME NEW f \in Repliers, NEW q \in Requests, NEW reply \in Replies, Reply(f, q, reply) PROVE Simulates
  BY <1>5, <1>7 DEF Reply
<1>8. ASSUME NEW s \in Sessions, NEW ruleset \in Rulesets \cup {None}, Reconfigure(s, ruleset) PROVE Simulates
  BY <1>5, <1>8 DEF Reconfigure
<1>9. ASSUME NEW r \in Resources, Forget(r) PROVE Simulates
  BY <1>5, <1>9 DEF Forget
<1>10. CASE UNCHANGED vars
  BY <1>5, <1>10 DEF vars
<1> QED BY AskerSim, <1>4, <1>6, <1>7, <1>8, <1>9, <1>10 DEF Next

\* The permission service implements Prompts: whatever replies race, one answer
\* closes a request for good and the tool call that waits receives that answer.
THEOREM ImplementsPrompts == Spec => PromptSpec
<1>1. Init => PromptService!Init
  BY PromptInit
<1>2. IInv /\ IInv' /\ [Next]_vars => [PromptService!Next]_(PromptService!vars)
  BY Refines DEF Simulates
<1> QED BY Inductive, <1>1, <1>2, PTL DEF Spec, PromptSpec, PromptService!Spec

-----------------------------------------------------------------------------
(* The rules and the loop of an always.                                    *)

\* A call of reply remembers every request that its rules do not deny now.
KnowsOpen ==
  \A f \in Repliers :
    replier[f].step # "idle" => \A q \in Requests : Present(q) /\ ~Denied(q) => q \in openTo[f]

\* Every step keeps DenyHolds, with what a call of reply knows of denied requests.
LEMMA DenyNext == IInv /\ IInv' /\ KnowsOpen /\ DenyHolds /\ [Next]_vars => (KnowsOpen /\ DenyHolds)'
<1> SUFFICES ASSUME IInv, IInv', KnowsOpen, DenyHolds, [Next]_vars
             PROVE  (KnowsOpen /\ DenyHolds)'
  OBVIOUS
<1> USE DEF IInv
\* A step of one call under the same rules.
<1>1. ASSUME NEW f \in Repliers, UNCHANGED configured,
             \A g \in Repliers \ {f} : replier'[g] = replier[g] /\ openTo'[g] = openTo[g],
             replier'[f].step # "idle" =>
               \/ replier[f].step # "idle" /\ openTo'[f] = openTo[f]
               \/ \A q \in Requests : Present(q) /\ ~Denied(q) => q \in openTo'[f],
             replier'[f].step \in {"publishing", "sweeping"} /\ ~Rejects(f)' => replier'[f].at \in openTo'[f]
      PROVE  (KnowsOpen /\ DenyHolds)'
  BY <1>1 DEF KnowsOpen, DenyHolds, Rejects, Present, Denied
<1>2. ASSUME UNCHANGED <<configured, replier, openTo>> PROVE (KnowsOpen /\ DenyHolds)'
  BY <1>2 DEF KnowsOpen, DenyHolds, Rejects, Present, Denied
<1>3. ASSUME NEW f \in Repliers, Returns(f), UNCHANGED configured PROVE (KnowsOpen /\ DenyHolds)'
  BY <1>1, <1>3 DEF Returns, TypeOK, NoCall
<1>4. ASSUME NEW f \in Repliers, NEW step \in {"saving", "settling", "recalling", "consulting"},
             NEW at, NEW visited, NEW recalled, replier' = Moved(f, step, at, visited, recalled),
             replier[f].step # "idle", UNCHANGED <<configured, openTo>>
      PROVE  (KnowsOpen /\ DenyHolds)'
  BY <1>1, <1>4 DEF Moved, TypeOK
<1>5. ASSUME NEW f \in Repliers, NEW step \in {"publishing", "sweeping"},
             NEW at, NEW visited, NEW recalled, replier' = Moved(f, step, at, visited, recalled),
             replier[f].step # "idle", UNCHANGED <<configured, openTo>>,
             Rejects(f) \/ at \in openTo[f]
      PROVE  (KnowsOpen /\ DenyHolds)'
  BY <1>1, <1>5 DEF Moved, TypeOK, Rejects
<1>6. ASSUME NEW f \in Repliers, NEW listed, Advance(f, listed), replier[f].step # "idle", UNCHANGED configured
      PROVE  (KnowsOpen /\ DenyHolds)'
  BY <1>3, <1>4, <1>5, <1>6 DEF Advance
<1>7. ASSUME NEW f \in Repliers, ReplierStep(f) \/ ReplyFails(f) PROVE (KnowsOpen /\ DenyHolds)'
  <2>1. CASE Answered(f) \/ Save(f)
    BY <1>4, <2>1 DEF Answered, Save, Goes, rules
  <2>2. CASE Settle(f) \/ Sweep(f)
    BY <1>3, <1>4, <1>6, <2>2 DEF Settle, Sweep, Goes, rules
  <2>3. CASE RecallSaved(f)
    BY <1>3, <1>4, <2>3 DEF RecallSaved, rules
  <2>4. CASE Consult(f)
    <3>1. CASE Covers(replier[f].at, replier[f].recalled) /\ Goes(f, "publishing") /\ UNCHANGED openTo
      <4>1. replier[f].at \in Requests
        BY <2>4, InCall DEF Consult, AnnouncesFirst, Call
      <4>2. replier[f].at \in openTo[f]
        BY <2>4, <3>1, <4>1 DEF Consult, KnowsOpen, Covers
      <4> QED BY <1>5, <2>4, <3>1, <4>2 DEF Consult, Goes, rules
    <3>2. CASE Advance(f, pending)
      BY <1>6, <2>4, <3>2 DEF Consult, rules
    <3> QED BY <2>4, <3>1, <3>2 DEF Consult
  <2>5. CASE Publish(f)
    <3>1. Rejects(f) \/ replier[f].at \in openTo[f]
      BY <2>5 DEF Publish, DenyHolds
    <3> QED BY <1>5, <2>5, <3>1 DEF Publish, Goes, rules
  <2>6. CASE ReplyFails(f)
    BY <1>3, <2>6 DEF ReplyFails, rules
  <2> QED BY <1>7, <2>1, <2>2, <2>3, <2>4, <2>5, <2>6 DEF ReplierStep
<1>8. ASSUME NEW f \in Repliers, NEW q \in Requests, NEW reply \in Replies, Reply(f, q, reply)
      PROVE  (KnowsOpen /\ DenyHolds)'
  <2>1. /\ UNCHANGED configured
        /\ \A g \in Repliers \ {f} : replier'[g] = replier[g] /\ openTo'[g] = openTo[g]
        /\ \A p \in Requests : Present(p) /\ ~Denied(p) => p \in openTo'[f]
        /\ replier'[f].step = "announcing"
    BY <1>8 DEF Reply, rules, TypeOK
  <2> QED BY <1>1, <2>1
<1>9. ASSUME NEW s \in Sessions, NEW ruleset \in Rulesets \cup {None}, Reconfigure(s, ruleset)
      PROVE  (KnowsOpen /\ DenyHolds)'
  <2>1. \A f \in Repliers : replier[f].step # "idle" => openTo[f] \subseteq openTo'[f]
    BY <1>9 DEF Reconfigure
  <2>2. DenyHolds'
    BY <1>9, <2>1 DEF Reconfigure, DenyHolds, Rejects
  <2>3. ASSUME NEW f \in Repliers, replier[f].step # "idle", NEW q \in Requests, (Present(q) /\ ~Denied(q))'
        PROVE  q \in openTo'[f]
    <3>0. configured' = [configured EXCEPT ![s] = ruleset] /\ SessionOf[q] \in Sessions /\ Needs[q] \subseteq Resources
      BY <1>9, RequestAssumption DEF Reconfigure
    <3>1. CASE SessionOf[q] = s
      <4>1. configured'[s] = ruleset
        BY <3>0 DEF TypeOK
      <4>2. ruleset # None /\ \A r \in Needs[q] : ruleset[r] # "deny"
        BY <2>3, <3>1, <4>1 DEF Present, Denied
      <4> QED BY <1>9, <2>3, <3>1, <4>2 DEF Reconfigure
    <3>2. CASE SessionOf[q] # s
      <4>1. configured'[SessionOf[q]] = configured[SessionOf[q]]
        BY <3>0, <3>2 DEF TypeOK
      <4>2. Present(q) /\ ~Denied(q)
        BY <2>3, <4>1 DEF Present, Denied
      <4> QED BY <2>1, <2>3, <4>2 DEF KnowsOpen
    <3> QED BY <3>1, <3>2
  <2>4. UNCHANGED replier
    BY <1>9 DEF Reconfigure
  <2> QED BY <2>2, <2>3, <2>4 DEF KnowsOpen
<1>10. ASSUME NEW q \in Requests, AskerStep(q) \/ AnnounceFails(q) \/ Interrupt(q)
       PROVE  (KnowsOpen /\ DenyHolds)'
  BY <1>2, <1>10 DEF AskerStep, Evaluate, Recall, Announce, Resume, AnnounceFails, Interrupt, rules
<1>11. CASE Finalize \/ UNCHANGED vars \/ \E r \in Resources : Forget(r)
  BY <1>2, <1>11 DEF Finalize, Forget, rules, vars
<1> QED BY <1>7, <1>8, <1>9, <1>10, <1>11 DEF Next

\* An always never grants what the rules of a request have denied ever since.
THEOREM DenyRespected == Spec => []DenyHolds
<1>1. Init => KnowsOpen /\ DenyHolds
  BY DEF Init, KnowsOpen, DenyHolds, NoCall
<1>2. IInv /\ IInv' /\ KnowsOpen /\ DenyHolds /\ [Next]_vars => (KnowsOpen /\ DenyHolds)'
  BY DenyNext
<1> QED BY Inductive, <1>1, <1>2, PTL DEF Spec

\* The loop of an always has passed only entries that it does not grant, while
\* no rules have been changed.
Passed(call) ==
  call.step \in {"consulting", "publishing", "sweeping"} /\ call.reply = "always" =>
    \A q \in pending \cap call.visited : q # call.at => ~Covers(q, call.recalled)
AlwaysPassed == changes = 0 => \A f \in Repliers : Passed(replier[f])

\* The loops pass entries, and those they have passed never come back.
LEMMA AlwaysNext == IInv /\ IInv' /\ AlwaysPassed /\ [Next]_vars => AlwaysPassed'
<1> SUFFICES ASSUME IInv, IInv', AlwaysPassed, [Next]_vars, changes' = 0
             PROVE  \A f \in Repliers : Passed(replier[f])'
  BY DEF AlwaysPassed
<1>0. /\ changes = 0 /\ UNCHANGED configured
      /\ \A q, recalled : Covers(q, recalled)' = Covers(q, recalled)
  <2>1. changes \in Nat
    BY PermissionBounds DEF IInv, TypeOK
  <2>2. ~Changing
    BY <2>1 DEF Changing
  <2>3. changes = 0 /\ UNCHANGED configured
    BY <2>2 DEF Next, AskerStep, Evaluate, Recall, Announce, Resume, AnnounceFails, Interrupt, ReplierStep,
       Answered, Save, Settle, RecallSaved, Consult, Publish, Sweep, ReplyFails, Reply, Reconfigure, Forget,
       Finalize, rules, vars
  <2> QED BY <2>3 DEF Covers, Present, Denied, Lacking
<1>a. \A f \in Repliers : Passed(replier[f])
  BY <1>0 DEF AlwaysPassed
\* What enters the list has been passed by no loop.
<1>b. \A q \in pending', f \in Repliers : q \in replier[f].visited => q \in pending
  <2> SUFFICES ASSUME NEW q \in pending', q \notin pending, NEW f \in Repliers PROVE q \notin replier[f].visited
    OBVIOUS
  <2>1. asker[q] = "ruled" /\ q \in Requests
    BY DEF Next, AskerStep, Evaluate, Recall, Announce, Resume, AnnounceFails, Interrupt, ReplierStep,
       Answered, Save, Settle, RecallSaved, Consult, Publish, Sweep, ReplyFails, Reply, Reconfigure, Forget,
       Finalize, vars
  <2> QED BY <2>1 DEF IInv, KnowsListed, Knows, Unlisted
<1>1. ASSUME NEW f \in Repliers, replier'[f] = replier[f] PROVE Passed(replier[f])'
  BY <1>0, <1>1, <1>a, <1>b DEF Passed
<1>2. ASSUME NEW f \in Repliers, NEW call, replier' = [replier EXCEPT ![f] = call], Passed(call)'
      PROVE  \A g \in Repliers : Passed(replier[g])'
  <2> SUFFICES ASSUME NEW g \in Repliers PROVE Passed(replier[g])'
    OBVIOUS
  <2>1. CASE g # f
    BY <1>1, <1>2, <2>1 DEF IInv, TypeOK
  <2>2. CASE g = f
    <3>1. replier'[g] = call
      BY <1>2, <2>2 DEF IInv, TypeOK
    <3> QED BY <1>2, <3>1 DEF Passed
  <2> QED BY <2>1, <2>2
<1>3. ASSUME NEW f \in Repliers, NEW listed, Advance(f, listed),
             replier[f].reply = "always" => \A p \in pending' \cap replier[f].visited : ~Covers(p, replier[f].recalled)
      PROVE  \A g \in Repliers : Passed(replier[g])'
  <2>1. CASE Returns(f)
    <3>1. Passed(NoCall)'
      BY DEF Passed, NoCall
    <3> QED BY <1>2, <2>1, <3>1 DEF Returns
  <2>2. ASSUME NEW q, NEW step,
               replier' = Moved(f, step, q, replier[f].visited \cup {q}, replier[f].recalled)
        PROVE  \A g \in Repliers : Passed(replier[g])'
    <3> DEFINE call == [step |-> step, target |-> replier[f].target, reply |-> replier[f].reply,
                        at |-> q, visited |-> replier[f].visited \cup {q}, recalled |-> replier[f].recalled]
    <3>1. PICK c : c = call
      OBVIOUS
    <3>2. Passed(c)'
      BY <1>0, <1>3, <3>1 DEF Passed
    <3>3. replier' = [replier EXCEPT ![f] = c]
      BY <2>2, <3>1 DEF Moved
    <3> QED BY <1>2, <3>2, <3>3
  <2> QED BY <1>3, <2>1, <2>2 DEF Advance
<1>4. ASSUME NEW f \in Repliers, NEW step \in {"saving", "settling", "recalling", "publishing", "sweeping"},
             Goes(f, step), step \in {"publishing", "sweeping"} => replier[f].step \in {"consulting", "publishing"}
      PROVE  \A g \in Repliers : Passed(replier[g])'
  <2> DEFINE call == [step |-> step, target |-> replier[f].target, reply |-> replier[f].reply,
                      at |-> replier[f].at, visited |-> replier[f].visited, recalled |-> replier[f].recalled]
  <2>1. PICK c : c = call
    OBVIOUS
  <2>2. Passed(c)'
    BY <1>0, <1>4, <1>a, <1>b, <2>1 DEF Passed
  <2>3. replier' = [replier EXCEPT ![f] = c]
    BY <1>4, <2>1 DEF Goes, Moved
  <2> QED BY <1>2, <2>2, <2>3
<1>5. ASSUME NEW f \in Repliers, ReplierStep(f) PROVE \A g \in Repliers : Passed(replier[g])'
  <2>1. CASE Answered(f) \/ Save(f)
    BY <1>4, <2>1 DEF Answered, Save
  <2>2. CASE Settle(f)
    <3>1. CASE Advance(f, pending') /\ Rejects(f)
      BY <1>3, <3>1 DEF Rejects
    <3>2. CASE Goes(f, "recalling")
      BY <1>4, <3>2
    <3>3. CASE Returns(f)
      <4>1. Passed(NoCall)'
        BY DEF Passed, NoCall
      <4> QED BY <1>2, <3>3, <4>1 DEF Returns
    <3> QED BY <2>2, <3>1, <3>2, <3>3 DEF Settle
  <2>3. CASE RecallSaved(f)
    <3>1. CASE Returns(f)
      <4>1. Passed(NoCall)'
        BY DEF Passed, NoCall
      <4> QED BY <1>2, <3>1, <4>1 DEF Returns
    <3>2. ASSUME NEW q \in pending, replier' = Moved(f, "consulting", q, {q}, saved)
          PROVE  \A g \in Repliers : Passed(replier[g])'
      <4> DEFINE call == [step |-> "consulting", target |-> replier[f].target, reply |-> replier[f].reply,
                          at |-> q, visited |-> {q}, recalled |-> saved]
      <4>1. PICK c : c = call
        OBVIOUS
      <4>2. Passed(c)'
        BY <4>1 DEF Passed
      <4>3. replier' = [replier EXCEPT ![f] = c]
        BY <3>2, <4>1 DEF Moved
      <4> QED BY <1>2, <4>2, <4>3
    <3> QED BY <2>3, <3>1, <3>2 DEF RecallSaved
  <2>4. CASE Consult(f)
    <3>1. CASE Goes(f, "publishing")
      BY <1>4, <2>4, <3>1 DEF Consult
    <3>2. CASE ~Covers(replier[f].at, replier[f].recalled) /\ Advance(f, pending)
      <4>1. pending' = pending /\ replier[f].step = "consulting"
        BY <2>4 DEF Consult
      <4> QED BY <1>3, <1>a, <3>2, <4>1 DEF Passed
    <3> QED BY <2>4, <3>1, <3>2 DEF Consult
  <2>5. CASE Publish(f)
    BY <1>4, <2>5 DEF Publish
  <2>6. CASE Sweep(f)
    <3>1. /\ pending' = pending \ {replier[f].at} /\ replier[f].step = "sweeping"
          /\ Advance(f, pending')
      BY <2>6 DEF Sweep
    <3> QED BY <1>3, <1>a, <3>1 DEF Passed
  <2> QED BY <1>5, <2>1, <2>2, <2>3, <2>4, <2>5, <2>6 DEF ReplierStep
<1>6. ASSUME NEW f \in Repliers, ReplyFails(f) \/ \E q \in Requests, reply \in Replies : Reply(f, q, reply)
      PROVE  \A g \in Repliers : Passed(replier[g])'
  <2>1. PICK call : replier' = [replier EXCEPT ![f] = call] /\ call.step \in {"idle", "announcing"}
    <3>1. CASE ReplyFails(f)
      <4>1. replier' = [replier EXCEPT ![f] = NoCall] /\ NoCall.step = "idle"
        BY <3>1 DEF ReplyFails, Returns, NoCall
      <4> QED BY <4>1
    <3>2. ASSUME NEW q, NEW reply, Reply(f, q, reply)
          PROVE  \E call : replier' = [replier EXCEPT ![f] = call] /\ call.step \in {"idle", "announcing"}
      <4>1. PICK call : call = [step |-> "announcing", target |-> q, reply |-> reply,
                                at |-> None, visited |-> {}, recalled |-> {}]
        OBVIOUS
      <4>2. replier' = [replier EXCEPT ![f] = call] /\ call.step = "announcing"
        BY <3>2, <4>1 DEF Reply
      <4> QED BY <4>2
    <3> QED BY <1>6, <3>1, <3>2
  <2>2. Passed(call)'
    BY <2>1 DEF Passed
  <2> QED BY <1>2, <2>1, <2>2
<1>7. CASE UNCHANGED replier
  BY <1>1, <1>7
<1> QED
  BY <1>5, <1>6, <1>7 DEF Next, AskerStep, Evaluate, Recall, Announce, Resume, AnnounceFails, Interrupt,
     Reconfigure, Forget, Finalize, vars

\* A loop of an always that ends has passed the whole list.
LEMMA AlwaysEndsClean ==
  ASSUME IInv, AlwaysPassed, Next, NEW f \in Repliers, LoopEnds(f), Saving(f), changes = 0, NEW q \in pending'
  PROVE  ~Covers(q, replier[f].recalled)
<1>1. replier'[f].step = "idle" /\ replier[f].step # "idle" /\ replier[f].reply = "always"
  BY DEF LoopEnds, NoCall, Saving
<1>2. PICK g \in Repliers : ReplierStep(g) \/ ReplyFails(g) \/ \E p \in Requests, reply \in Replies : Reply(g, p, reply)
  BY <1>1 DEF Next, AskerStep, Evaluate, Recall, Announce, Resume, AnnounceFails, Interrupt,
     Reconfigure, Forget, Finalize
<1>3. g = f
  BY <1>1, <1>2 DEF IInv, TypeOK, ReplierStep, Answered, Save, Settle, RecallSaved, Consult, Publish, Sweep,
     ReplyFails, Reply, Returns, Goes, Moved, Advance
<1>4. Settle(f) \/ Consult(f) \/ Sweep(f)
  BY <1>1, <1>2, <1>3 DEF LoopEnds, ReplierStep, Answered, Save, RecallSaved, Publish, ReplyFails, Reply
<1>5. ~Settle(f)
  <2>1. replier' # Moved(f, "recalling", replier[f].at, replier[f].visited, replier[f].recalled)
    BY <1>1 DEF Moved, IInv, TypeOK
  <2> QED BY <1>1, <2>1 DEF Settle, Goes, Rejects
<1>6. \A p, step, visited, recalled : step # "idle" => replier' # Moved(f, step, p, visited, recalled)
  BY <1>1 DEF Moved, IInv, TypeOK
<1>7. Passed(replier[f])
  BY DEF AlwaysPassed
<1>8. CASE Consult(f)
  <2>1. ~Covers(replier[f].at, replier[f].recalled) /\ Advance(f, pending) /\ pending' = pending
    BY <1>6, <1>8 DEF Consult, Goes
  <2>2. Remaining(f, pending) = {}
    BY <1>6, <2>1 DEF Advance
  <2>3. q \in replier[f].visited
    BY <1>1, <2>1, <2>2 DEF Remaining, Rejects
  <2> QED BY <1>1, <1>7, <1>8, <2>1, <2>3 DEF Passed, Consult
<1>9. CASE Sweep(f)
  <2>1. Advance(f, pending') /\ pending' = pending \ {replier[f].at}
    BY <1>9 DEF Sweep
  <2>2. Remaining(f, pending') = {}
    BY <1>6, <2>1 DEF Advance
  <2>3. q \in replier[f].visited
    BY <1>1, <2>2 DEF Remaining, Rejects
  <2> QED BY <1>1, <1>7, <1>9, <2>1, <2>3 DEF Passed, Sweep
<1> QED BY <1>4, <1>5, <1>8, <1>9

\* When an always that saved returns, no request of any session is left that
\* the rules it read allow, those made while it ran included, as long as no
\* rules have been changed.
THEOREM AlwaysComplete == Spec => AlwaysSweepsAll
<1>1. Init => AlwaysPassed
  BY DEF Init, AlwaysPassed, Passed, NoCall
<1>2. IInv /\ IInv' /\ AlwaysPassed /\ [Next]_vars => AlwaysPassed'
  BY AlwaysNext
<1>3. IInv /\ AlwaysPassed /\ [Next]_vars => [\A f \in Repliers :
         LoopEnds(f) /\ Saving(f) /\ changes = 0 => \A q \in pending' : ~Covers(q, replier[f].recalled)]_vars
  BY AlwaysEndsClean
<1> QED BY Inductive, <1>1, <1>2, <1>3, PTL DEF Spec, AlwaysSweepsAll

=============================================================================
