------------------------------- MODULE Question -------------------------------
(***************************************************************************)
(* packages/core/src/question.ts: a tool call asks the user questions and  *)
(* waits; clients reply to or reject the request.  A request is identified *)
(* with the call of ask that makes it.                                     *)
(***************************************************************************)
EXTENDS Naturals

CONSTANTS Requests,     \* identifiers of requests, each asked once
          Answers,      \* what a user may reply
          Clients,      \* fibers that call reply and reject
          None,
          MaxFailures   \* bound on failing publishes

Rejected == "rejected"
Verdicts == Answers \cup {Rejected}

ASSUME QuestionNames ==
  /\ None \notin Requests \cup Verdicts
  /\ Answers \cap {"idle", "announcing", "waiting", "failed", "interrupted", "open",
                   "rejected", "unasked", "withdrawn", "nothing"} = {}
ASSUME QuestionBound == MaxFailures \in Nat

VARIABLES pending,   \* the keys of the Map `pending`
          asker,     \* request -> where its call of ask stands
          verdict,   \* request -> what completed its Deferred, or "open"
          client,    \* fiber -> the call of reply or reject it is in
          shown,     \* history: request -> the verdicts published while it was open
          closed,    \* the location layer has been finalized
          failures

vars == <<pending, asker, verdict, client, shown, closed, failures>>

Call == [step : {"announcing", "settling"}, target : Requests, verdict : Verdicts]
NoCall == [step |-> "idle", target |-> None, verdict |-> None]

Listed == {"announcing", "waiting"}
GivenUp == {"failed", "interrupted"}

TypeOK == /\ pending \subseteq Requests
          /\ asker \in [Requests -> {"idle"} \cup Listed \cup GivenUp \cup Verdicts]
          /\ verdict \in [Requests -> Verdicts \cup {"open"}]
          /\ client \in [Clients -> Call \cup {NoCall}]
          /\ shown \in [Requests -> SUBSET Verdicts]
          /\ closed \in BOOLEAN
          /\ failures \in 0..MaxFailures

Init == /\ pending = {}
        /\ asker = [q \in Requests |-> "idle"]
        /\ verdict = [q \in Requests |-> "open"]
        /\ client = [c \in Clients |-> NoCall]
        /\ shown = [q \in Requests |-> {}]
        /\ closed = FALSE
        /\ failures = 0

-----------------------------------------------------------------------------
(* ask.                                                                    *)

Ask(q) == /\ asker[q] = "idle"
          /\ asker' = [asker EXCEPT ![q] = "announcing"]
          /\ pending' = pending \cup {q}
          /\ UNCHANGED <<verdict, client, shown, closed, failures>>

Announce(q) == /\ asker[q] = "announcing"
               /\ asker' = [asker EXCEPT ![q] = "waiting"]
               /\ UNCHANGED <<pending, verdict, client, shown, closed, failures>>

\* Mutant: only a call of ask that returns takes its request off the Map.
LeaveAnswered(q, result) == /\ asker' = [asker EXCEPT ![q] = result]
                            /\ pending' = IF result \in GivenUp THEN pending ELSE pending \ {q}

\* ensuring: however ask ends, its request leaves the Map.
Leave(q, result) == /\ asker' = [asker EXCEPT ![q] = result]
                    /\ pending' = pending \ {q}

AnnounceFails(q) == /\ asker[q] = "announcing"
                    /\ failures < MaxFailures
                    /\ failures' = failures + 1
                    /\ Leave(q, "failed")
                    /\ UNCHANGED <<verdict, client, shown, closed>>

Resume(q) == /\ asker[q] = "waiting"
             /\ verdict[q] # "open"
             /\ Leave(q, verdict[q])
             /\ UNCHANGED <<verdict, client, shown, closed, failures>>

\* Only the wait is interruptible.
Interrupt(q) == /\ asker[q] = "waiting"
                /\ Leave(q, "interrupted")
                /\ UNCHANGED <<verdict, client, shown, closed, failures>>

-----------------------------------------------------------------------------
(* reply and reject, which differ in the verdict and its event.            *)

\* Mutants: the last completion is the one; a completion nobody awaits yet is lost.
CompleteLast(q, v) == verdict' = [verdict EXCEPT ![q] = v]
CompleteWaiting(q, v) ==
  verdict' = [verdict EXCEPT ![q] = IF @ = "open" /\ asker[q] = "waiting" THEN v ELSE @]

\* Deferred.succeed and Deferred.fail: the first completion is the one.
Complete(q, v) == verdict' = [verdict EXCEPT ![q] = IF @ = "open" THEN v ELSE @]

\* Mutant: the Deferred is completed before the event is published.
FindSettling(c, q, v) ==
  /\ client[c].step = "idle"
  /\ q \in pending
  /\ client' = [client EXCEPT ![c] = [step |-> "settling", target |-> q, verdict |-> v]]
  /\ UNCHANGED <<pending, asker, verdict, shown, closed, failures>>

\* A request that is not there is NotFound.
Find(c, q, v) ==
  /\ client[c].step = "idle"
  /\ q \in pending
  /\ client' = [client EXCEPT ![c] = [step |-> "announcing", target |-> q, verdict |-> v]]
  /\ UNCHANGED <<pending, asker, verdict, shown, closed, failures>>

Publish(c) ==
  /\ client[c].step = "announcing"
  /\ client' = [client EXCEPT ![c].step = "settling"]
  /\ shown' = [shown EXCEPT ![client[c].target] =
                 IF verdict[client[c].target] = "open" THEN @ \cup {client[c].verdict} ELSE @]
  /\ UNCHANGED <<pending, asker, verdict, closed, failures>>

\* A listener of Replied or Rejected that fails makes the call fail.
PublishFails(c) ==
  /\ client[c].step = "announcing"
  /\ failures < MaxFailures
  /\ failures' = failures + 1
  /\ client' = [client EXCEPT ![c] = NoCall]
  /\ UNCHANGED <<pending, asker, verdict, shown, closed>>

Settle(c) ==
  /\ client[c].step = "settling"
  /\ Complete(client[c].target, client[c].verdict)
  /\ pending' = pending \ {client[c].target}
  /\ client' = [client EXCEPT ![c] = NoCall]
  /\ UNCHANGED <<asker, shown, closed, failures>>

\* The layer's finalizer.
Finalize ==
  /\ ~closed
  /\ closed' = TRUE
  /\ verdict' = [q \in Requests |-> IF q \in pending /\ verdict[q] = "open" THEN Rejected ELSE verdict[q]]
  /\ pending' = {}
  /\ UNCHANGED <<asker, client, shown, failures>>

-----------------------------------------------------------------------------

AskerStep(q) == Announce(q) \/ Resume(q)
ClientStep(c) == Publish(c) \/ Settle(c)

Next == \/ \E q \in Requests : Ask(q) \/ AskerStep(q) \/ AnnounceFails(q) \/ Interrupt(q)
        \/ \E c \in Clients : ClientStep(c) \/ PublishFails(c)
        \/ \E c \in Clients, q \in Requests, v \in Verdicts : Find(c, q, v)
        \/ Finalize

Spec == Init /\ [][Next]_vars

\* The runtime runs every fiber that can run; users owe no answer.
FairSpec == /\ Spec
            /\ \A q \in Requests : WF_vars(AskerStep(q))
            /\ \A c \in Clients : WF_vars(ClientStep(c))

-----------------------------------------------------------------------------
(* Properties.                                                             *)

\* A question is settled with what the event stream told while it was open: the
\* very answers of a Replied, or a Rejected.  The finalizer, which publishes
\* nothing, is the exception.  (Asked may still be on its way to its listeners.)
SettledWasShown ==
  \A q \in Requests :
    verdict[q] # "open" => verdict[q] \in shown[q] \/ (closed /\ verdict[q] = Rejected)

\* What list shows is what still needs an answer, although ask, reply, reject and
\* the finalizer each change the Map and the Deferred on their own and any of
\* them may have looked a question up before another one settled it.
ListedIffOpen ==
  \A q \in Requests : q \in pending <=> asker[q] \in Listed /\ verdict[q] = "open"

\* The service keeps the promises of Prompts: of the replies and rejections that
\* race to a request one closes it, and its call of ask returns that one.
Status(q) == IF asker[q] \in GivenUp THEN "withdrawn"
             ELSE IF verdict[q] # "open" THEN verdict[q]
             ELSE IF q \in pending THEN "open" ELSE "unasked"
Received(q) == IF asker[q] \in Verdicts THEN asker[q] ELSE "nothing"

PromptService == INSTANCE Prompts WITH
  Prompt <- Requests, Answer <- Verdicts,
  status <- [q \in Requests |-> Status(q)],
  received <- [q \in Requests |-> Received(q)]

PromptSpec == PromptService!Spec

\* Once an answer to it is published, a call of ask returns, also when the
\* answer comes before the call awaits it.
AnswerReaches ==
  \A q \in Requests :
    (\E c \in Clients : client[c].step = "settling" /\ client[c].target = q) ~> asker[q] \notin Listed

=============================================================================
