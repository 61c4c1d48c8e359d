------------------------------ MODULE Permission ------------------------------
(***************************************************************************)
(* packages/core/src/permission.ts and permission/saved.ts: tool calls     *)
(* assert a permission; rules decide, or the user is asked and replies.    *)
(* A reject declines every other request of its Session; an always with    *)
(* rules to save grants every request the saved rules now allow.           *)
(*                                                                         *)
(* A request is identified with the call of assert or ask that makes it,   *)
(* and asked at most once: an identifier is not reused.  A rule matches a  *)
(* resource; the wildcards, and the action every rule and resource of a    *)
(* request also carries, are folded into the resource.  The Map `pending`  *)
(* is a set: a loop over it visits its entries in any order, where the     *)
(* code visits them in the order of insertion, and like the code's live    *)
(* iterator it also visits what is inserted before the loop ends.          *)
(***************************************************************************)
EXTENDS Naturals

CONSTANTS Requests,            \* identifiers of permission requests
          Posted,              \* those made by ask, which nobody awaits
          Sessions,
          Resources,
          SessionOf, Needs,    \* request -> its session, its resources
          Saves,               \* request -> what an always reply saves
          Repliers,            \* fibers that call reply
          Rulesets,            \* configurations: resource -> effect
          Initially,           \* what may be configured at first
          None,
          MaxFailures,         \* bound on failing publishes
          MaxChanges           \* bound on changes of configured or saved rules

ASSUME RequestAssumption == /\ Posted \subseteq Requests
                            /\ SessionOf \in [Requests -> Sessions]
                            /\ Needs \in [Requests -> SUBSET Resources]
                            /\ Saves \in [Requests -> SUBSET Resources]
ASSUME RulesetAssumption == /\ Rulesets \subseteq [Resources -> {"allow", "ask", "deny"}]
                            /\ Initially \subseteq [Sessions -> Rulesets]
ASSUME PermissionNone == None \notin Requests \cup Rulesets
ASSUME PermissionBounds == MaxFailures \in Nat /\ MaxChanges \in Nat

VARIABLES configured,   \* session -> the ruleset of its agent; None: no such session
          saved,        \* resources with an allow rule in the table of saved rules
          pending,      \* the Map `pending`
          asker,        \* request -> where the call of assert or ask stands
          lacking,      \* request -> between its two reads, what its ruleset did not allow
          verdict,      \* request -> what completed its Deferred, or "open"
          replier,      \* fiber -> the call of reply it is in
          replied,      \* history: request -> the replies published for it while open
          openTo,       \* history: fiber -> requests some rules since its call did not deny
          closed,       \* the location layer has been finalized
          failures, changes

vars == <<configured, saved, pending, asker, lacking, verdict, replier, replied,
          openTo, closed, failures, changes>>
rules == <<configured, saved, changes>>

-----------------------------------------------------------------------------
(* State.                                                                  *)

\* A reject with a message corrects rather than declines.
Replies == {"once", "always", "reject", "correct"}
Verdicts == {"granted", "declined", "corrected"}

\* "ruled": the configured rules are read, the saved ones are awaited;
\* "announcing": publishing Asked; "waiting": awaiting the Deferred;
\* "posted": ask has returned and left the request.  The others are results.
Results == {"blocked", "allowed", "missing", "failed", "interrupted"} \cup Verdicts
Stages == {"idle", "ruled", "announcing", "waiting", "posted"} \cup Results

\* "announcing": publishing Replied for the target; "saving": adding the rules
\* to save; "settling": about to settle the target; "recalling": reading the
\* saved rules; "consulting": reading the rules of `at`; "publishing" and
\* "sweeping": publishing Replied for `at`, about to settle it.
Call == [step : {"announcing", "saving", "settling", "recalling", "consulting", "publishing", "sweeping"},
         target : Requests, reply : Replies, at : Requests \cup {None},
         visited : SUBSET Requests, recalled : SUBSET Resources]
NoCall == [step |-> "idle", target |-> None, reply |-> None, at |-> None, visited |-> {}, recalled |-> {}]

TypeOK == /\ configured \in [Sessions -> Rulesets \cup {None}]
          /\ saved \subseteq Resources
          /\ pending \subseteq Requests
          /\ asker \in [Requests -> Stages]
          /\ lacking \in [Requests -> SUBSET Resources]
          /\ verdict \in [Requests -> Verdicts \cup {"open"}]
          /\ replier \in [Repliers -> Call \cup {NoCall}]
          /\ replied \in [Requests -> SUBSET {"once", "always", "reject"}]
          /\ openTo \in [Repliers -> SUBSET Requests]
          /\ closed \in BOOLEAN
          /\ failures \in 0..MaxFailures
          /\ changes \in 0..MaxChanges

Init == /\ configured \in Initially
        /\ saved = {}
        /\ pending = {}
        /\ asker = [q \in Requests |-> "idle"]
        /\ lacking = [q \in Requests |-> {}]
        /\ verdict = [q \in Requests |-> "open"]
        /\ replier = [f \in Repliers |-> NoCall]
        /\ replied = [q \in Requests |-> {}]
        /\ openTo = [f \in Repliers |-> {}]
        /\ closed = FALSE
        /\ failures = 0
        /\ changes = 0

Present(q) == configured[SessionOf[q]] # None
Lacking(q) == {r \in Needs[q] : configured[SessionOf[q]][r] # "allow"}
Denied(q) == \E r \in Needs[q] : configured[SessionOf[q]][r] = "deny"

-----------------------------------------------------------------------------
(* assert and ask.                                                         *)

\* The first half of evaluateInput: the configured rules alone may deny.
Evaluate(q) ==
  /\ asker[q] = "idle"
  /\ \/ /\ ~Present(q)
        /\ asker' = [asker EXCEPT ![q] = "missing"]
        /\ UNCHANGED lacking
     \/ /\ Present(q) /\ Denied(q)
        /\ asker' = [asker EXCEPT ![q] = "blocked"]
        /\ UNCHANGED lacking
     \/ /\ Present(q) /\ ~Denied(q)
        /\ asker' = [asker EXCEPT ![q] = "ruled"]
        /\ lacking' = [lacking EXCEPT ![q] = Lacking(q)]
  /\ UNCHANGED <<rules, pending, verdict, replier, replied, openTo, closed, failures>>

\* The second half: saved rules come last, so they allow what they name; what
\* is still to ask enters the Map at once.
Recall(q) ==
  /\ asker[q] = "ruled"
  /\ lacking' = [lacking EXCEPT ![q] = {}]
  /\ \/ /\ lacking[q] \subseteq saved
        /\ asker' = [asker EXCEPT ![q] = "allowed"]
        /\ UNCHANGED pending
     \/ /\ ~(lacking[q] \subseteq saved)
        /\ asker' = [asker EXCEPT ![q] = "announcing"]
        /\ pending' = pending \cup {q}
  /\ UNCHANGED <<rules, verdict, replier, replied, openTo, closed, failures>>

Announce(q) ==
  /\ asker[q] = "announcing"
  /\ asker' = [asker EXCEPT ![q] = IF q \in Posted THEN "posted" ELSE "waiting"]
  /\ UNCHANGED <<rules, pending, lacking, verdict, replier, replied, openTo, closed, failures>>

\* A listener of Asked that fails makes create fail.
AnnounceFails(q) ==
  /\ asker[q] = "announcing"
  /\ failures < MaxFailures
  /\ failures' = failures + 1
  /\ asker' = [asker EXCEPT ![q] = "failed"]
  /\ pending' = pending \ {q}
  /\ UNCHANGED <<rules, lacking, verdict, replier, replied, openTo, closed>>

Resume(q) ==
  /\ asker[q] = "waiting"
  /\ verdict[q] # "open"
  /\ asker' = [asker EXCEPT ![q] = verdict[q]]
  /\ pending' = pending \ {q}
  /\ UNCHANGED <<rules, lacking, verdict, replier, replied, openTo, closed, failures>>

\* Mutant: without ensuring, an interrupted wait leaves its request listed.
InterruptLeaving(q) ==
  /\ asker[q] = "waiting"
  /\ asker' = [asker EXCEPT ![q] = "interrupted"]
  /\ UNCHANGED <<rules, pending, lacking, verdict, replier, replied, openTo, closed, failures>>

\* Only the wait is interruptible: a client interrupts the Session's drain.
Interrupt(q) ==
  /\ asker[q] = "waiting"
  /\ asker' = [asker EXCEPT ![q] = "interrupted"]
  /\ pending' = pending \ {q}
  /\ UNCHANGED <<rules, lacking, verdict, replier, replied, openTo, closed, failures>>

-----------------------------------------------------------------------------
(* reply, which is uninterruptible.                                        *)

\* Mutants: the last completion is the one; a completion nobody awaits yet is lost.
CompleteLast(q, v) == verdict' = [verdict EXCEPT ![q] = v]
CompleteWaiting(q, v) ==
  verdict' = [verdict EXCEPT ![q] = IF @ = "open" /\ asker[q] = "waiting" THEN v ELSE @]

\* Deferred.succeed and Deferred.fail: the first completion is the one.
Complete(q, v) == verdict' = [verdict EXCEPT ![q] = IF @ = "open" THEN v ELSE @]

Outcome(reply) == CASE reply = "reject" -> "declined"
                    [] reply = "correct" -> "corrected"
                    [] OTHER -> "granted"
Rejects(f) == replier[f].reply \in {"reject", "correct"}
Saving(f) == replier[f].reply = "always" /\ Saves[replier[f].target] # {}

Shows(reply) == IF reply = "correct" THEN "reject" ELSE reply
Published(q, reply) ==
  replied' = [replied EXCEPT ![q] = IF verdict[q] = "open" THEN @ \cup {Shows(reply)} ELSE @]

\* The call of f goes on to another step, looking at another entry.
Moved(f, step, at, visited, recalled) ==
  [replier EXCEPT ![f] = [step |-> step, target |-> replier[f].target, reply |-> replier[f].reply,
                          at |-> at, visited |-> visited, recalled |-> recalled]]
Goes(f, step) == replier' = Moved(f, step, replier[f].at, replier[f].visited, replier[f].recalled)
Returns(f) == /\ replier' = [replier EXCEPT ![f] = NoCall]
              /\ openTo' = [openTo EXCEPT ![f] = {}]

\* reply's first statement finds the request; a request that is gone is NotFound.
Reply(f, q, reply) ==
  /\ replier[f].step = "idle"
  /\ q \in pending
  /\ replier' = [replier EXCEPT ![f] = [step |-> "announcing", target |-> q, reply |-> reply,
                                        at |-> None, visited |-> {}, recalled |-> {}]]
  /\ openTo' = [openTo EXCEPT ![f] = {p \in Requests : Present(p) /\ ~Denied(p)}]
  /\ UNCHANGED <<rules, pending, asker, lacking, verdict, replied, closed, failures>>

Answered(f) ==
  /\ replier[f].step = "announcing"
  /\ Published(replier[f].target, replier[f].reply)
  /\ Goes(f, IF Saving(f) THEN "saving" ELSE "settling")
  /\ UNCHANGED <<rules, pending, asker, lacking, verdict, openTo, closed, failures>>

\* saved.add; saving what is saved already is no conflict.
Save(f) ==
  /\ replier[f].step = "saving"
  /\ saved' = saved \cup Saves[replier[f].target]
  /\ Goes(f, "settling")
  /\ UNCHANGED <<configured, changes, pending, asker, lacking, verdict, replied, openTo, closed, failures>>

\* Mutant: requests whose Asked is being published are passed over.
RemainingWaiting(f, listed) ==
  {q \in listed \ replier[f].visited :
     Rejects(f) => /\ SessionOf[q] = SessionOf[replier[f].target]
                   /\ asker[q] # "announcing"}

\* What the loop has left: a reject passes over the requests of other sessions.
Remaining(f, listed) ==
  {q \in listed \ replier[f].visited : Rejects(f) => SessionOf[q] = SessionOf[replier[f].target]}

\* The loop of reply goes on to another entry of the Map, or reply returns.
Advance(f, listed) ==
  \/ Remaining(f, listed) = {} /\ Returns(f)
  \/ \E q \in Remaining(f, listed) :
       /\ replier' = Moved(f, IF Rejects(f) THEN "publishing" ELSE "consulting", q,
                           replier[f].visited \cup {q}, replier[f].recalled)
       /\ UNCHANGED openTo

\* Settles the target.  A reject goes on to its Session's other requests, an
\* always that saved to reading back what is saved, anything else returns.
Settle(f) ==
  LET q == replier[f].target IN
  /\ replier[f].step = "settling"
  /\ Complete(q, Outcome(replier[f].reply))
  /\ pending' = pending \ {q}
  /\ \/ Rejects(f) /\ Advance(f, pending')
     \/ Saving(f) /\ Goes(f, "recalling") /\ UNCHANGED openTo
     \/ ~Rejects(f) /\ ~Saving(f) /\ Returns(f)
  /\ UNCHANGED <<rules, asker, lacking, replied, closed, failures>>

\* The saved rules are read once, before the loop.
RecallSaved(f) ==
  /\ replier[f].step = "recalling"
  /\ \/ pending = {} /\ Returns(f)
     \/ \E q \in pending : replier' = Moved(f, "consulting", q, {q}, saved) /\ UNCHANGED openTo
  /\ UNCHANGED <<rules, pending, asker, lacking, verdict, replied, closed, failures>>

\* Mutant: saved rules alone decide, and they come after the configured ones.
CoversBySaved(q, recalled) == Present(q) /\ Lacking(q) \subseteq recalled

\* Whether the loop of an always grants an entry.
Covers(q, recalled) == Present(q) /\ ~Denied(q) /\ Lacking(q) \subseteq recalled

\* Mutant: an always passes over the requests of other sessions, as a reject does.
ConsultOfSession(f) ==
  LET grants == Covers(replier[f].at, replier[f].recalled)
                /\ SessionOf[replier[f].at] = SessionOf[replier[f].target] IN
  /\ replier[f].step = "consulting"
  /\ \/ grants /\ Goes(f, "publishing") /\ UNCHANGED openTo
     \/ ~grants /\ Advance(f, pending)
  /\ UNCHANGED <<rules, pending, asker, lacking, verdict, replied, closed, failures>>

Consult(f) ==
  /\ replier[f].step = "consulting"
  /\ \/ /\ Covers(replier[f].at, replier[f].recalled)
        /\ Goes(f, "publishing") /\ UNCHANGED openTo
     \/ /\ ~Covers(replier[f].at, replier[f].recalled)
        /\ Advance(f, pending)
  /\ UNCHANGED <<rules, pending, asker, lacking, verdict, replied, closed, failures>>

Publish(f) ==
  /\ replier[f].step = "publishing"
  /\ Published(replier[f].at, IF Rejects(f) THEN "reject" ELSE "always")
  /\ Goes(f, "sweeping")
  /\ UNCHANGED <<rules, pending, asker, lacking, verdict, openTo, closed, failures>>

\* The others of a Session are declined even when the target is corrected.
Sweep(f) ==
  LET q == replier[f].at IN
  /\ replier[f].step = "sweeping"
  /\ Complete(q, IF Rejects(f) THEN "declined" ELSE "granted")
  /\ pending' = pending \ {q}
  /\ Advance(f, pending')
  /\ UNCHANGED <<rules, asker, lacking, replied, closed, failures>>

\* A listener of Replied that fails makes reply fail where it stands.
ReplyFails(f) ==
  /\ replier[f].step \in {"announcing", "publishing"}
  /\ failures < MaxFailures
  /\ failures' = failures + 1
  /\ Returns(f)
  /\ UNCHANGED <<rules, pending, asker, lacking, verdict, replied, closed>>

-----------------------------------------------------------------------------
(* The layer's finalizer, and what changes around the service.             *)

Finalize ==
  /\ ~closed
  /\ closed' = TRUE
  /\ verdict' = [q \in Requests |-> IF q \in pending /\ verdict[q] = "open" THEN "declined" ELSE verdict[q]]
  /\ pending' = {}
  /\ UNCHANGED <<rules, asker, lacking, replier, replied, openTo, failures>>

Changing == changes < MaxChanges /\ changes' = changes + 1

\* An agent's configuration is reloaded, or (None) the session is gone.
Reconfigure(s, ruleset) ==
  /\ Changing
  /\ configured[s] \notin {None, ruleset}
  /\ configured' = [configured EXCEPT ![s] = ruleset]
  /\ openTo' = [f \in Repliers |->
                  IF replier[f].step = "idle" THEN {}
                  ELSE openTo[f] \cup {q \in Requests : /\ SessionOf[q] = s /\ ruleset # None
                                                        /\ \A r \in Needs[q] : ruleset[r] # "deny"}]
  /\ UNCHANGED <<saved, pending, asker, lacking, verdict, replier, replied, closed, failures>>

\* PermissionSaved.remove
Forget(r) ==
  /\ Changing
  /\ r \in saved
  /\ saved' = saved \ {r}
  /\ UNCHANGED <<configured, pending, asker, lacking, verdict, replier, replied, openTo, closed, failures>>

-----------------------------------------------------------------------------

AskerStep(q) == Evaluate(q) \/ Recall(q) \/ Announce(q) \/ Resume(q)
ReplierStep(f) == \/ Answered(f) \/ Save(f) \/ Settle(f) \/ RecallSaved(f)
                  \/ Consult(f) \/ Publish(f) \/ Sweep(f)

Next == \/ \E q \in Requests : AskerStep(q) \/ AnnounceFails(q) \/ Interrupt(q)
        \/ \E f \in Repliers : ReplierStep(f) \/ ReplyFails(f)
        \/ \E f \in Repliers, q \in Requests, reply \in Replies : Reply(f, q, reply)
        \/ \E s \in Sessions, ruleset \in Rulesets \cup {None} : Reconfigure(s, ruleset)
        \/ \E r \in Resources : Forget(r)
        \/ Finalize

Spec == Init /\ [][Next]_vars

\* The runtime runs every fiber that can run; users owe no reply.
FairSpec == /\ Spec
            /\ \A q \in Requests : WF_vars(AskerStep(q))
            /\ \A f \in Repliers : WF_vars(ReplierStep(f))

-----------------------------------------------------------------------------
(* Properties.                                                             *)

\* The listed requests are exactly those that still need an answer: a user can
\* always answer a request somebody waits for, and never sees one that was
\* answered, given up or lost.  Every path through create, assert and reply has
\* its own pending.set or pending.delete.
ListedIffOpen ==
  \A q \in Requests :
    q \in pending <=> asker[q] \in {"announcing", "waiting", "posted"} /\ verdict[q] = "open"

\* Nobody resumes with an answer its Session's event stream has not shown: a
\* grant was published as once or always, a rejection as reject, except those
\* the finalizer makes.
SettledWasAnnounced ==
  \A q \in Requests :
    /\ verdict[q] = "granted" => replied[q] \cap {"once", "always"} # {}
    /\ verdict[q] = "corrected" => "reject" \in replied[q]
    /\ verdict[q] = "declined" => "reject" \in replied[q] \/ closed

\* An always reply never grants another request that its own rules have denied
\* ever since the reply arrived, though the saved rule, coming last, matches it:
\* a reload of the agent may deny what is already asked.
DenyHolds ==
  \A f \in Repliers :
    replier[f].step \in {"publishing", "sweeping"} /\ ~Rejects(f) => replier[f].at \in openTo[f]

LoopEnds(f) == replier[f].step \in {"settling", "consulting", "sweeping"} /\ replier'[f] = NoCall

\* When a reject returns, its Session has no request left, those made while it
\* was declining the others included: the loop runs over the live Map.
RejectSweepsSession ==
  [][\A f \in Repliers :
       LoopEnds(f) /\ Rejects(f) =>
         \A q \in pending' : SessionOf[q] # SessionOf[replier[f].target]]_vars

\* When an always that saved returns, no listed request of any session is one
\* that the rules it read allow, as long as no rules have been changed.
AlwaysSweepsAll ==
  [][\A f \in Repliers :
       LoopEnds(f) /\ Saving(f) /\ changes = 0 =>
         \A q \in pending' : ~Covers(q, replier[f].recalled)]_vars

\* The service keeps the promises of Prompts: one answer closes a request, and
\* the tool call that waits resumes with that answer or not at all, whatever
\* replies race to it.
Status(q) == IF asker[q] \in {"failed", "interrupted"} THEN "withdrawn"
             ELSE IF verdict[q] # "open" THEN verdict[q]
             ELSE IF q \in pending THEN "open" ELSE "unasked"
Received(q) == IF asker[q] \in Verdicts THEN asker[q] ELSE "nothing"

PromptService == INSTANCE Prompts WITH
  Prompt <- Requests, Answer <- Verdicts,
  status <- [q \in Requests |-> Status(q)],
  received <- [q \in Requests |-> Received(q)]

PromptSpec == PromptService!Spec

\* Once a reply has published its answer to a tool call, the call does not wait
\* for long: also when the answer comes before the call awaits it.
AnswerReaches ==
  \A q \in Requests :
    (\E f \in Repliers : replier[f].step = "settling" /\ replier[f].target = q)
      ~> asker[q] \notin {"announcing", "waiting"}

=============================================================================
