---------------------------- MODULE QuestionProofs ----------------------------
(* The question service keeps the promises of Prompts, for every number of     *)
(* requests, clients and answers.                                              *)
EXTENDS Question, TLAPS

\* The Map holds the requests whose call of ask has not ended and no verdict has reached.
ListExact ==
  /\ \A q \in pending : asker[q] \in Listed /\ verdict[q] = "open"
  /\ \A q \in Requests : asker[q] \in Listed /\ verdict[q] = "open" => q \in pending

\* A verdict is of a request that was asked, and a call that returned returned the verdict.
VerdictsOwned ==
  \A q \in Requests : /\ asker[q] = "idle" => verdict[q] = "open"
                      /\ asker[q] \in Verdicts => verdict[q] = asker[q]

\* A client that goes on to complete a Deferred has published that verdict, or is too late.
ClientsAnnounced ==
  \A c \in Clients : client[c] # NoCall =>
    /\ client[c] \in Call
    /\ asker[client[c].target] # "idle"
    /\ client[c].step = "settling" =>
         verdict[client[c].target] # "open" \/ client[c].verdict \in shown[client[c].target]

IInv == TypeOK /\ ListExact /\ VerdictsOwned /\ ClientsAnnounced /\ SettledWasShown

\* The words for stages are no verdicts.
LEMMA NamesApart ==
  /\ Verdicts \cap {"idle", "announcing", "waiting", "failed", "interrupted", "open",
                    "unasked", "withdrawn", "nothing"} = {}
  /\ "rejected" \in Verdicts
BY QuestionNames DEF Verdicts, Rejected

\* A fiber that is in no call has the record that says so.
LEMMA ClientIdle ==
  ASSUME IInv, NEW c \in Clients
  PROVE  client[c].step = "idle" <=> client[c] = NoCall
BY DEF IInv, TypeOK, Call, NoCall

\* Nothing is listed at the start.
LEMMA InitIInv == Init => IInv
<1> SUFFICES ASSUME Init PROVE IInv
  OBVIOUS
<1> USE DEF Init
<1>1. TypeOK
  <2>1. failures \in 0 .. MaxFailures
    BY QuestionBound
  <2>2. client \in [Clients -> Call \cup {NoCall}] /\ shown \in [Requests -> SUBSET Verdicts]
    OBVIOUS
  <2>3. /\ asker \in [Requests -> {"idle"} \cup Listed \cup GivenUp \cup Verdicts]
        /\ verdict \in [Requests -> Verdicts \cup {"open"}]
    OBVIOUS
  <2>4. closed \in BOOLEAN /\ pending \subseteq Requests
    OBVIOUS
  <2> QED BY <2>1, <2>2, <2>3, <2>4 DEF TypeOK
<1>2. ListExact /\ VerdictsOwned /\ ClientsAnnounced /\ SettledWasShown
  BY NamesApart DEF ListExact, VerdictsOwned, ClientsAnnounced, SettledWasShown, Listed
<1> QED BY <1>1, <1>2 DEF IInv

\* A call of ask that ends takes its request off the list.
LEMMA LeaveInv ==
  ASSUME IInv, NEW q \in Requests, NEW result,
         asker[q] \in Listed, Leave(q, result),
         \/ result \in GivenUp
         \/ result \in Verdicts /\ result = verdict[q],
         UNCHANGED <<verdict, client, shown, closed>>,
         failures' \in 0 .. MaxFailures
  PROVE  IInv'
<1> USE DEF IInv
<1>0. asker' = [asker EXCEPT ![q] = result] /\ pending' = pending \ {q}
  BY DEF Leave
<1>1. asker'[q] = result /\ \A p \in Requests \ {q} : asker'[p] = asker[p]
  BY <1>0 DEF TypeOK
<1>2. result \notin Listed /\ result # "idle" /\ (result \in GivenUp => result \notin Verdicts)
  BY NamesApart DEF GivenUp, Listed
<1>3. TypeOK'
  BY <1>0 DEF TypeOK, GivenUp
<1>4. ListExact'
  BY <1>0, <1>1, <1>2 DEF ListExact, TypeOK
<1>5. VerdictsOwned'
  BY <1>1, <1>2 DEF VerdictsOwned
<1>6. ClientsAnnounced'
  BY <1>1, <1>2 DEF ClientsAnnounced, Call
<1>7. SettledWasShown'
  BY DEF SettledWasShown
<1> QED BY <1>3, <1>4, <1>5, <1>6, <1>7

\* The other steps of ask.
LEMMA AskInv ==
  ASSUME IInv, NEW q \in Requests, Ask(q) \/ Announce(q)
  PROVE  IInv'
<1> USE DEF IInv
<1>0. /\ asker[q] = "idle" \/ q \in pending \/ verdict[q] # "open"
      /\ asker' = [asker EXCEPT ![q] = IF asker[q] = "idle" THEN "announcing" ELSE "waiting"]
      /\ pending' = IF asker[q] = "idle" THEN pending \cup {q} ELSE pending
      /\ asker[q] \in {"idle", "announcing"}
      /\ UNCHANGED <<verdict, client, shown, closed, failures>>
  BY DEF Ask, Announce, ListExact, Listed
<1>1. asker'[q] \in Listed /\ \A p \in Requests \ {q} : asker'[p] = asker[p]
  BY <1>0 DEF TypeOK, Listed
<1>2. TypeOK'
  BY <1>0 DEF TypeOK, Listed
<1>3. ListExact'
  BY <1>0, <1>1 DEF ListExact, TypeOK, VerdictsOwned, Listed
<1>4. VerdictsOwned'
  BY <1>0, <1>1, NamesApart DEF VerdictsOwned, Listed
<1>5. ClientsAnnounced'
  BY <1>0, <1>1 DEF ClientsAnnounced, Call, Listed
<1>6. SettledWasShown'
  BY <1>0 DEF SettledWasShown
<1> QED BY <1>2, <1>3, <1>4, <1>5, <1>6

\* A client that finds, publishes or fails touches no request.
LEMMA ClientInv ==
  ASSUME IInv, NEW c \in Clients,
         Publish(c) \/ PublishFails(c) \/ \E q \in Requests, v \in Verdicts : Find(c, q, v)
  PROVE  IInv'
<1> USE DEF IInv
<1>0. UNCHANGED <<pending, asker, verdict, closed>> /\ failures' \in 0 .. MaxFailures
  BY QuestionBound DEF Publish, PublishFails, Find, TypeOK
<1>1. ListExact' /\ VerdictsOwned'
  BY <1>0 DEF ListExact, VerdictsOwned
<1>2. TypeOK' /\ ClientsAnnounced' /\ SettledWasShown'
  <2>1. CASE Publish(c)
    <3> PICK q \in Requests, v \in Verdicts :
          client[c] = [step |-> "announcing", target |-> q, verdict |-> v]
      BY <2>1, ClientIdle DEF Publish, ClientsAnnounced, TypeOK, Call, NoCall
    <3>0. /\ client' = [client EXCEPT ![c].step = "settling"]
          /\ client'[c] = [step |-> "settling", target |-> q, verdict |-> v]
          /\ \A d \in Clients \ {c} : client'[d] = client[d]
      BY <2>1 DEF Publish, TypeOK
    <3>1. /\ client' \in [Clients -> Call \cup {NoCall}]
          /\ shown' = [shown EXCEPT ![q] = IF verdict[q] = "open" THEN @ \cup {v} ELSE @]
      BY <2>1, <3>0 DEF Publish, TypeOK, Call
    <3>2. asker[q] # "idle"
      BY DEF ClientsAnnounced, NoCall
    <3>3. \A p \in Requests : shown[p] \subseteq shown'[p]
      BY <3>1 DEF TypeOK
    <3>4. verdict[q] # "open" \/ v \in shown'[q]
      BY <3>1 DEF TypeOK
    <3>5. TypeOK'
      BY <1>0, <3>1 DEF TypeOK, Call
    <3>6. ClientsAnnounced'
      <4> SUFFICES ASSUME NEW d \in Clients, client'[d] # NoCall
                   PROVE  /\ client'[d] \in Call
                          /\ asker[client'[d].target] # "idle"
                          /\ client'[d].step = "settling" =>
                               \/ verdict[client'[d].target] # "open"
                               \/ client'[d].verdict \in shown'[client'[d].target]
        BY <1>0 DEF ClientsAnnounced
      <4>1. CASE d = c
        BY <3>0, <3>2, <3>4, <4>1 DEF Call
      <4>2. CASE d # c
        BY <3>0, <3>3, <4>2 DEF ClientsAnnounced, Call
      <4> QED BY <4>1, <4>2
    <3>7. SettledWasShown'
      BY <1>0, <3>3 DEF SettledWasShown
    <3> QED BY <3>5, <3>6, <3>7
  <2>2. CASE PublishFails(c)
    <3>1. shown' = shown /\ client' = [client EXCEPT ![c] = NoCall]
      BY <2>2 DEF PublishFails
    <3> QED BY <1>0, <3>1 DEF TypeOK, ClientsAnnounced, SettledWasShown
  <2>3. ASSUME NEW q \in Requests, NEW v \in Verdicts, Find(c, q, v)
        PROVE  TypeOK' /\ ClientsAnnounced' /\ SettledWasShown'
    <3>1. /\ shown' = shown /\ q \in pending
          /\ client' = [client EXCEPT ![c] = [step |-> "announcing", target |-> q, verdict |-> v]]
      BY <2>3 DEF Find
    <3>2. asker[q] # "idle"
      BY <3>1 DEF ListExact, Listed
    <3> QED BY <1>0, <3>1, <3>2 DEF TypeOK, ClientsAnnounced, SettledWasShown, Call
  <2> QED BY <2>1, <2>2, <2>3
<1> QED BY <1>1, <1>2

\* Completing the Deferreds of asked requests, with what was shown or at the end, and
\* taking them off the list.
LEMMA CompletionInv ==
  ASSUME IInv, NEW done \in SUBSET Requests, NEW v \in Verdicts,
         \A q \in done : asker[q] # "idle",
         verdict' = [q \in Requests |-> IF q \in done /\ verdict[q] = "open" THEN v ELSE verdict[q]],
         pending' = pending \ done,
         \/ client' = client
         \/ \E c \in Clients : client' = [client EXCEPT ![c] = NoCall],
         \/ \A q \in done : verdict[q] = "open" => v \in shown[q]
         \/ closed' /\ v = Rejected,
         closed' \in BOOLEAN, closed => closed',
         UNCHANGED <<asker, shown, failures>>
  PROVE  IInv'
<1> USE DEF IInv
<1>1. \A q \in Requests : verdict[q] # "open" => verdict'[q] = verdict[q]
  BY DEF TypeOK
<1>2. v # "open"
  BY NamesApart
<1>3. \A c \in Clients : client'[c] = client[c] \/ client'[c] = NoCall
  BY DEF TypeOK
<1>4. TypeOK'
  BY DEF TypeOK
<1>5. ListExact'
  BY <1>1, <1>2 DEF ListExact, TypeOK
<1>6. VerdictsOwned'
  BY <1>1, NamesApart DEF VerdictsOwned
<1>7. ClientsAnnounced'
  BY <1>1, <1>3 DEF ClientsAnnounced, Call
<1>8. SettledWasShown'
  BY DEF SettledWasShown
<1> QED BY <1>4, <1>5, <1>6, <1>7, <1>8

\* Every step keeps what is said of the list, the verdicts and the clients.
LEMMA StepIInv == IInv /\ [Next]_vars => IInv'
<1> SUFFICES ASSUME IInv, [Next]_vars PROVE IInv'
  OBVIOUS
<1>1. ASSUME NEW q \in Requests, Ask(q) \/ AskerStep(q) \/ AnnounceFails(q) \/ Interrupt(q)
      PROVE  IInv'
  <2>1. CASE Ask(q) \/ Announce(q)
    BY <2>1, AskInv
  <2>2. CASE Resume(q)
    <3>1. /\ asker[q] \in Listed /\ Leave(q, verdict[q]) /\ verdict[q] \in Verdicts
          /\ UNCHANGED <<verdict, client, shown, closed>> /\ failures' \in 0 .. MaxFailures
      BY <2>2 DEF Resume, Listed, IInv, TypeOK
    <3> QED BY <3>1, LeaveInv
  <2>3. CASE AnnounceFails(q) \/ Interrupt(q)
    <3>1. PICK result \in GivenUp :
            /\ asker[q] \in Listed /\ Leave(q, result)
            /\ UNCHANGED <<verdict, client, shown, closed>> /\ failures' \in 0 .. MaxFailures
      BY <2>3, QuestionBound DEF AnnounceFails, Interrupt, Listed, GivenUp, IInv, TypeOK
    <3> QED BY <3>1, LeaveInv
  <2> QED BY <1>1, <2>1, <2>2, <2>3 DEF AskerStep
<1>2. ASSUME NEW c \in Clients, Settle(c) PROVE IInv'
  <2>1. client[c] \in Call /\ asker[client[c].target] # "idle"
    BY <1>2, ClientIdle DEF Settle, IInv, ClientsAnnounced, NoCall
  <2> DEFINE q == client[c].target
             v == client[c].verdict
  <2>2. q \in Requests /\ v \in Verdicts
    BY <2>1 DEF Call
  <2>3. verdict[q] # "open" \/ v \in shown[q]
    BY <1>2, ClientIdle DEF Settle, IInv, ClientsAnnounced, NoCall
  <2>4. verdict' = [p \in Requests |-> IF p \in {q} /\ verdict[p] = "open" THEN v ELSE verdict[p]]
    BY <1>2, <2>2 DEF Settle, Complete, IInv, TypeOK
  <2>5. /\ pending' = pending \ {q} /\ client' = [client EXCEPT ![c] = NoCall]
        /\ UNCHANGED <<asker, shown, closed, failures>>
    BY <1>2 DEF Settle
  <2>6. closed' \in BOOLEAN
    BY <2>5 DEF IInv, TypeOK
  <2>7. /\ {q} \in SUBSET Requests
        /\ \A p \in {q} : asker[p] # "idle"
        /\ \A p \in {q} : verdict[p] = "open" => v \in shown[p]
    BY <2>1, <2>2, <2>3
  <2> HIDE DEF q, v
  <2> QED BY <2>2, <2>4, <2>5, <2>6, <2>7, CompletionInv
<1>3. CASE Finalize
  <2>1. /\ pending \in SUBSET Requests /\ Rejected \in Verdicts
        /\ \A q \in pending : asker[q] # "idle"
    BY DEF IInv, TypeOK, ListExact, Listed, Verdicts
  <2>2. /\ verdict' = [q \in Requests |-> IF q \in pending /\ verdict[q] = "open" THEN Rejected ELSE verdict[q]]
        /\ pending' = pending \ pending /\ closed' = TRUE
        /\ UNCHANGED <<client, asker, shown, failures>>
    BY <1>3 DEF Finalize
  <2> QED BY <2>1, <2>2, CompletionInv
<1>4. ASSUME NEW c \in Clients,
             Publish(c) \/ PublishFails(c) \/ \E q \in Requests, v \in Verdicts : Find(c, q, v)
      PROVE  IInv'
  BY <1>4, ClientInv
<1>5. CASE UNCHANGED vars
  BY <1>5 DEF vars, IInv, TypeOK, ListExact, VerdictsOwned, ClientsAnnounced, SettledWasShown
<1> QED BY <1>1, <1>2, <1>3, <1>4, <1>5 DEF Next, ClientStep

\* The strengthened invariant holds in every reachable state.
LEMMA Inductive == Spec => []IInv
BY InitIInv, StepIInv, PTL DEF Spec

(* The question service stays in the states the model declares.                *)
THEOREM TypeCorrect == Spec => []TypeOK
<1>1. IInv => TypeOK
  BY DEF IInv
<1> QED BY <1>1, Inductive, PTL

(* What settled a question had been published while it was open, unless the    *)
(* finalizer rejected it.                                                      *)
THEOREM VerdictsShown == Spec => []SettledWasShown
<1>1. IInv => SettledWasShown
  BY DEF IInv
<1> QED BY <1>1, Inductive, PTL

(* However replies, rejections, interrupts, failing listeners and the          *)
(* finalizer race, a question is listed exactly while it needs an answer.      *)
THEOREM ListShowsOpen == Spec => []ListedIffOpen
<1>1. IInv => ListedIffOpen
  BY DEF IInv, ListExact, ListedIffOpen
<1> QED BY <1>1, Inductive, PTL

-----------------------------------------------------------------------------
(* Refinement of Prompts.                                                      *)

\* Where the abstract prompt of a request stands, and what its call received.
LEMMA StatusOf ==
  ASSUME IInv, NEW q \in Requests
  PROVE  /\ asker[q] = "idle" => Status(q) = "unasked" /\ Received(q) = "nothing"
         /\ asker[q] \in GivenUp => Status(q) = "withdrawn" /\ Received(q) = "nothing"
         /\ asker[q] \in Listed =>
              /\ Status(q) = verdict[q] /\ verdict[q] \in Verdicts \cup {"open"}
              /\ Received(q) = "nothing"
         /\ asker[q] \in Verdicts => Status(q) = asker[q] /\ Received(q) = asker[q]
<1>1. \A x \in {"idle", "failed", "interrupted", "announcing", "waiting", "open"} : x \notin Verdicts
  BY NamesApart
<1> QED BY <1>1 DEF IInv, TypeOK, ListExact, VerdictsOwned, Status, Received, GivenUp, Listed

\* The same after a step.
LEMMA StatusAfter ==
  ASSUME IInv', NEW q \in Requests
  PROVE  /\ asker'[q] = "idle" => Status(q)' = "unasked" /\ Received(q)' = "nothing"
         /\ asker'[q] \in GivenUp => Status(q)' = "withdrawn" /\ Received(q)' = "nothing"
         /\ asker'[q] \in Listed =>
              /\ Status(q)' = verdict'[q] /\ verdict'[q] \in Verdicts \cup {"open"}
              /\ Received(q)' = "nothing"
         /\ asker'[q] \in Verdicts => Status(q)' = asker'[q] /\ Received(q)' = asker'[q]
<1>1. \A x \in {"idle", "failed", "interrupted", "announcing", "waiting", "open"} : x \notin Verdicts
  BY NamesApart
<1> QED BY <1>1 DEF IInv, TypeOK, ListExact, VerdictsOwned, Status, Received, GivenUp, Listed

Simulates == PromptService!Next \/ UNCHANGED PromptService!vars

\* A step of one call of ask leaves the prompts of the others as they are.
LEMMA AskerSim ==
  ASSUME IInv, IInv', NEW q \in Requests,
         Ask(q) \/ AskerStep(q) \/ AnnounceFails(q) \/ Interrupt(q)
  PROVE  Simulates
<1>1. PICK stage : asker' = [asker EXCEPT ![q] = stage]
  BY DEF Ask, AskerStep, Announce, Resume, AnnounceFails, Interrupt, Leave
<1>2. UNCHANGED verdict /\ \A p \in Requests \ {q} : p \in pending' <=> p \in pending
  BY DEF Ask, AskerStep, Announce, Resume, AnnounceFails, Interrupt, Leave
<1>3. \A p \in Requests \ {q} : Status(p)' = Status(p) /\ Received(p)' = Received(p)
  BY <1>1, <1>2 DEF Status, Received, IInv, TypeOK
<1>4. CASE Ask(q)
  <2>1. asker[q] = "idle" /\ asker'[q] \in Listed /\ verdict'[q] = "open"
    BY <1>4 DEF Ask, IInv, TypeOK, VerdictsOwned, Listed
  <2>2. PromptService!Open(q)
    BY <1>3, <2>1, StatusOf, StatusAfter DEF PromptService!Open
  <2> QED BY <2>2 DEF PromptService!Next, Simulates
<1>5. CASE Announce(q)
  <2>1. asker[q] \in Listed /\ asker'[q] \in Listed
    BY <1>5 DEF Announce, IInv, TypeOK, Listed
  <2>2. UNCHANGED PromptService!vars
    BY <1>2, <1>3, <2>1, StatusOf, StatusAfter DEF PromptService!vars
  <2> QED BY <2>2 DEF Simulates
<1>6. CASE Resume(q)
  <2>1. asker[q] \in Listed /\ asker'[q] = verdict[q] /\ verdict[q] \in Verdicts
    BY <1>6 DEF Resume, Leave, IInv, TypeOK, Listed
  <2>2. PromptService!Receive(q)
    BY <1>3, <2>1, StatusOf, StatusAfter DEF PromptService!Receive
  <2> QED BY <2>2 DEF PromptService!Next, Simulates
<1>7. CASE AnnounceFails(q) \/ Interrupt(q)
  <2>1. asker[q] \in Listed /\ asker'[q] \in GivenUp
    BY <1>7 DEF AnnounceFails, Interrupt, Leave, IInv, TypeOK, Listed, GivenUp
  <2>2. PromptService!Withdraw(q)
    BY <1>3, <2>1, StatusOf, StatusAfter DEF PromptService!Withdraw
  <2> QED BY <2>2 DEF PromptService!Next, Simulates
<1> QED BY <1>4, <1>5, <1>6, <1>7 DEF AskerStep

\* A completion closes the prompts it finds open, if any still has its call.
LEMMA CompletionSim ==
  ASSUME IInv, IInv', NEW done \in SUBSET Requests, NEW v \in Verdicts, UNCHANGED asker,
         \A p \in Requests : verdict'[p] = IF p \in done /\ verdict[p] = "open" THEN v ELSE verdict[p]
  PROVE  Simulates
<1> DEFINE shut == {p \in done : Status(p) = "open"}
<1>1. \A p \in Requests : Received(p)' = Received(p)
  BY DEF Received
<1>2. ASSUME NEW p \in Requests
      PROVE  Status(p)' = IF p \in shut THEN v ELSE Status(p)
  <2>1. asker[p] \in {"idle"} \cup GivenUp \cup Listed \cup Verdicts
    BY DEF IInv, TypeOK
  <2>2. CASE asker[p] \in {"idle"} \cup GivenUp \cup Verdicts
    BY <2>2, StatusOf, StatusAfter, NamesApart
  <2>3. CASE asker[p] \in Listed
    BY <2>3, StatusOf, StatusAfter, NamesApart
  <2> QED BY <2>1, <2>2, <2>3
<1>3. shut \in SUBSET Requests /\ \A p \in shut : Status(p) = "open"
  OBVIOUS
<1> HIDE DEF shut
<1>4. PromptService!Settle(shut, v)
  BY <1>1, <1>2, <1>3 DEF PromptService!Settle
<1> QED BY <1>3, <1>4 DEF PromptService!Next, Simulates

\* Every step of the service is a step of Prompts, or a stutter.
LEMMA Refines == ASSUME IInv, IInv', [Next]_vars PROVE Simulates
<1>1. ASSUME NEW c \in Clients, Settle(c) PROVE Simulates
  <2>1. client[c].target \in Requests /\ client[c].verdict \in Verdicts /\ UNCHANGED asker
    BY <1>1, ClientIdle DEF Settle, IInv, TypeOK, Call
  <2>2. \A p \in Requests : verdict'[p] = IF p \in {client[c].target} /\ verdict[p] = "open"
                                         THEN client[c].verdict ELSE verdict[p]
    BY <1>1 DEF Settle, Complete, IInv, TypeOK
  <2> QED BY <2>1, <2>2, CompletionSim
<1>2. CASE Finalize
  <2>1. pending \in SUBSET Requests /\ Rejected \in Verdicts /\ UNCHANGED asker
    BY <1>2 DEF Finalize, IInv, TypeOK, Verdicts
  <2>2. \A p \in Requests : verdict'[p] = IF p \in pending /\ verdict[p] = "open" THEN Rejected ELSE verdict[p]
    BY <1>2 DEF Finalize
  <2> QED BY <2>1, <2>2, CompletionSim
<1>3. CASE UNCHANGED <<asker, pending, verdict>>
  BY <1>3 DEF Simulates, Status, Received, PromptService!vars
<1>4. ASSUME NEW c \in Clients,
             Publish(c) \/ PublishFails(c) \/ \E q \in Requests, v \in Verdicts : Find(c, q, v)
      PROVE  Simulates
  BY <1>3, <1>4 DEF Publish, PublishFails, Find
<1>5. CASE UNCHANGED vars
  BY <1>3, <1>5 DEF vars
<1> QED BY AskerSim, <1>1, <1>2, <1>4, <1>5 DEF Next, ClientStep

(* The question service implements Prompts: whatever replies and rejections    *)
(* race, one closes a question for good and its call of ask returns that one.  *)
THEOREM ImplementsPrompts == Spec => PromptSpec
<1>1. Init => PromptService!Init
  BY NamesApart DEF Init, PromptService!Init, Status, Received, GivenUp
<1>2. IInv /\ IInv' /\ [Next]_vars => [PromptService!Next]_(PromptService!vars)
  BY Refines DEF Simulates
<1> QED BY Inductive, <1>1, <1>2, PTL DEF Spec, PromptSpec, PromptService!Spec
===============================================================================
