-------------------------- MODULE TelegramWorkflow --------------------------
(***************************************************************************)
(* One paid review in the hands of its reviewers: the Telegram webhook of  *)
(* review/app.ts, the handlers of review/telegram.ts, the prompts of       *)
(* review/telegram-prompt-store.ts and the rows of telegram_updates.       *)
(*                                                                         *)
(* Telegram repeats an update until it is answered with a success, several *)
(* at a time and in any order.  A handler runs until it awaits an answer   *)
(* of the bot API; between two transactions of such a stretch nothing else *)
(* runs, but the process may die.  The offers have been sent; the workflow *)
(* of the order around them is that of module ReviewProcessor.             *)
(***************************************************************************)
EXTENDS Integers, Sequences, FiniteSets

CONSTANTS
    Users,       \* who may write to the bot
    Reviewers,   \* those of them who are active and write from their chat
    Claimants,   \* whose claim was handled before the model starts, NoOne if none
    FirstChoices,\* what the claimant had chosen by then, "-" if nothing
    Repertoire,  \* bound on what the users may send
    Handlers,    \* concurrent deliveries of the webhook
    NoOne,       \* neither a user nor a handler
    MaxUpdates,  \* bound on what the users do
    MaxPrompts,  \* bound on the reason prompts that go out
    MaxFaults    \* bound on restarts, failed calls and calls beyond a lease

ASSUME UsersAssumption ==
    /\ Reviewers \subseteq Users
    /\ NoOne \notin Users \cup Handlers
    /\ Claimants \subseteq Reviewers \cup {NoOne}

VARIABLES
    inbox,     \* the updates, in the order of their ids
    acked,     \* those that Telegram need not deliver again
    ledger,    \* telegram_updates: status, holder of the token, lease
    review,    \* state, reviewer and decision of the order
    slaOver,   \* the order's review SLA has elapsed
    prompts,   \* reason prompts in the order they went out, with their row
    asked,     \* reviewers who were sent the Approve / Reject buttons
    told,      \* updates that their sender had an answer to
    handler,   \* what each delivery is at
    busy,      \* the handler in the middle of a stretch, or NoOne
    faults     \* how much has gone wrong, for its bound

vars == <<inbox, acked, ledger, review, slaOver, prompts, asked, told,
          handler, busy, faults>>

deskVars == <<inbox, slaOver, faults>>

Decisions == {"approve", "reject"}

\* What a user may send: the buttons, a reply to a reason prompt, /verdict.
Update == [by : Users, does : {"claim"}, says : {"-"}, on : {0}]
    \cup [by : Users, does : {"choose", "command"}, says : Decisions, on : {0}]
    \cup [by : Users, does : {"reply"}, says : {"reason", "short"},
          on : 1 .. MaxPrompts]

ASSUME BoundsAssumption ==
    /\ {MaxUpdates, MaxFaults} \subseteq Nat
    /\ MaxPrompts \in Nat \ {0}
    /\ Repertoire \subseteq Update
    /\ FirstChoices \subseteq Decisions \cup {"-"}

\* A row as reserveTelegramUpdate, complete and fail leave it.
Reservation ==
    [status : {"unseen", "processing", "failed", "processed"},
     holder : Handlers \cup {NoOne}, leaseOver : BOOLEAN]

PromptStatus == {"unrecorded", "active", "consumed", "superseded", "expired"}

Stages == {"idle", "start", "excuse", "prompting", "prompted", "confirming",
           "granting", "asking", "verdict", "noting"}

TypeOK ==
    /\ inbox \in Seq(Update) /\ Len(inbox) <= MaxUpdates
    /\ acked \subseteq 1 .. Len(inbox)
    /\ ledger \in [1 .. MaxUpdates -> Reservation]
    /\ \A u \in 1 .. MaxUpdates :
          ledger[u].holder # NoOne <=> ledger[u].status = "processing"
    /\ review \in [state : {"dispatched", "claimed", "verdict_submitted", "over"},
                   reviewer : Users \cup {NoOne},
                   decision : Decisions \cup {"-"}]
    /\ prompts \in Seq([by : Users, says : Decisions, status : PromptStatus])
    /\ Len(prompts) <= MaxPrompts
    /\ asked \subseteq Reviewers
    /\ told \subseteq 1 .. Len(inbox)
    /\ handler \in [Handlers -> [at : Stages, update : 0 .. MaxUpdates,
                                 prompt : 0 .. MaxPrompts]]
    /\ busy \in Handlers \cup {NoOne}
    /\ faults \in 0 .. MaxFaults
    /\ slaOver \in BOOLEAN

Idle == [at |-> "idle", update |-> 0, prompt |-> 0]

Init ==
    /\ inbox = <<>> /\ acked = {} /\ told = {}
    /\ ledger = [u \in 1 .. MaxUpdates |->
                    [status |-> "unseen", holder |-> NoOne, leaseOver |-> FALSE]]
    /\ \E r \in Claimants, choice \in FirstChoices :
          /\ review = [state |-> IF r = NoOne THEN "dispatched" ELSE "claimed",
                       reviewer |-> r, decision |-> "-"]
          /\ asked = {r} \ {NoOne}
          /\ prompts = IF r = NoOne \/ choice = "-" THEN <<>>
                       ELSE <<[by |-> r, says |-> choice, status |-> "active"]>>
    /\ slaOver = FALSE
    /\ handler = [h \in Handlers |-> Idle]
    /\ busy = NoOne
    /\ faults = 0

-----------------------------------------------------------------------------
(* The users.  A reply is to a prompt of one's own chat.                   *)

Possible(m) ==
    /\ m.does = "choose" => m.by \in asked
    /\ m.does = "reply" => m.on <= Len(prompts) /\ prompts[m.on].by = m.by

Write(m) ==
    /\ Len(inbox) < MaxUpdates
    /\ Possible(m)
    /\ inbox' = Append(inbox, m)
    /\ UNCHANGED <<acked, ledger, review, slaOver, prompts, asked, told,
                   handler, busy, faults>>

-----------------------------------------------------------------------------
(* The webhook and telegram_updates.                                       *)

GoesWrong ==
    /\ faults < MaxFaults
    /\ faults' = faults + 1

Turn(h) == busy \in {h, NoOne}

\* fault: an update whose handler died is never taken over.
AcquirableFresh(u) == ledger[u].status \in {"unseen", "failed"}

\* reserveTelegramUpdate acquires a fresh, a failed or an abandoned update.
Acquirable(u) ==
    \/ ledger[u].status \in {"unseen", "failed"}
    \/ ledger[u].status = "processing" /\ ledger[u].leaseOver

Deliver(h, u) ==
    /\ busy = NoOne /\ handler[h].at = "idle"
    /\ u \in 1 .. Len(inbox) \ acked
    /\ Acquirable(u)
    /\ ledger' = [ledger EXCEPT ![u] = [status |-> "processing", holder |-> h,
                                        leaseOver |-> FALSE]]
    /\ handler' = [handler EXCEPT ![h] = [at |-> "start", update |-> u, prompt |-> 0]]
    /\ busy' = h
    /\ UNCHANGED <<deskVars, acked, review, prompts, asked, told>>

\* 200 with duplicate: true.  The 503 of an update in hand changes nothing.
IsDuplicate(u) == ledger[u].status = "processed"

Duplicate(u) ==
    /\ busy = NoOne
    /\ u \in 1 .. Len(inbox) \ acked
    /\ IsDuplicate(u)
    /\ acked' = acked \cup {u}
    /\ UNCHANGED <<deskVars, ledger, review, prompts, asked, told, handler, busy>>

\* Five minutes pass, after a crash or while the handler awaits an answer:
\* nothing bounds a call to the bot API by less.
LeaseEnds(u) ==
    /\ busy = NoOne
    /\ ledger[u].status = "processing" /\ ~ledger[u].leaseOver
    /\ ledger' = [ledger EXCEPT ![u].leaseOver = TRUE]
    /\ IF handler[ledger[u].holder].update = u THEN GoesWrong ELSE UNCHANGED faults
    /\ UNCHANGED <<inbox, slaOver, acked, review, prompts, asked, told, handler, busy>>

\* fault: the token is not compared.
HoldsAny(h, u) == ledger[u].status = "processing"

Holds(h, u) == ledger[u].status = "processing" /\ ledger[u].holder = h

\* handleUpdate has returned: completeTelegramUpdate, which throws when the
\* token is another's, and the answer 202 or 500.
Complete(h) ==
    LET u == handler[h].update IN
    /\ IF Holds(h, u)
       THEN /\ ledger' = [ledger EXCEPT ![u].status = "processed", ![u].holder = NoOne,
                                        ![u].leaseOver = FALSE]
            /\ acked' = acked \cup {u}
       ELSE UNCHANGED <<ledger, acked>>
    /\ handler' = [handler EXCEPT ![h] = Idle]
    /\ busy' = NoOne

\* handleUpdate has thrown: failTelegramUpdate and 500.
Fail(h) ==
    LET u == handler[h].update IN
    /\ ledger' = IF Holds(h, u)
                 THEN [ledger EXCEPT ![u].status = "failed", ![u].holder = NoOne,
                                     ![u].leaseOver = FALSE]
                 ELSE ledger
    /\ handler' = [handler EXCEPT ![h] = Idle]
    /\ busy' = NoOne
    /\ UNCHANGED acked

-----------------------------------------------------------------------------
(* handleUpdate up to its first await.                                     *)

Await(h, stage) ==
    /\ handler' = [handler EXCEPT ![h].at = stage]
    /\ busy' = NoOne

Starts(h, does) ==
    /\ handler[h].at = "start" /\ Turn(h)
    /\ inbox[handler[h].update].does \in does

By(h) == inbox[handler[h].update].by

ClaimedBy(r) == review.state = "claimed" /\ review.reviewer = r

\* A user who is no active reviewer, or writes from elsewhere, is told so.
TurnAway(h) ==
    /\ handler[h].at = "start" /\ Turn(h)
    /\ By(h) \notin Reviewers
    /\ Await(h, "excuse")
    /\ UNCHANGED <<deskVars, acked, ledger, review, prompts, asked, told>>

MayClaim(r) ==
    \/ ClaimedBy(r)
    \/ review.state = "dispatched" /\ ~slaOver

\* handleCallback: claim.  claimOrder answers again to its own reviewer.
Claim(h) ==
    /\ Starts(h, {"claim"}) /\ By(h) \in Reviewers
    /\ IF MayClaim(By(h))
       THEN /\ review' = [review EXCEPT !.state = "claimed", !.reviewer = By(h)]
            /\ Await(h, "granting")
       ELSE /\ Await(h, "excuse")
            /\ UNCHANGED review
    /\ UNCHANGED <<deskVars, acked, ledger, prompts, asked, told>>

\* handleCallback: approve, reject.
Choose(h) ==
    /\ Starts(h, {"choose"}) /\ By(h) \in Reviewers
    /\ Await(h, IF ClaimedBy(By(h)) /\ ~slaOver THEN "prompting" ELSE "excuse")
    /\ UNCHANGED <<deskVars, acked, ledger, review, prompts, asked, told>>

\* submitVerdict: the first verdict stands; later ones are told it succeeded.
SubmitVerdict(h, decision) ==
    /\ \/ /\ ClaimedBy(By(h)) /\ ~slaOver
          /\ review' = [review EXCEPT !.state = "verdict_submitted", !.decision = decision]
       \/ /\ review.state = "verdict_submitted" /\ review.reviewer = By(h)
          /\ UNCHANGED review
    /\ handler' = [handler EXCEPT ![h].at = "verdict"]
    /\ busy' = h

Refused(h) ==
    /\ ~(ClaimedBy(By(h)) /\ ~slaOver)
    /\ ~(review.state = "verdict_submitted" /\ review.reviewer = By(h))

\* handleLegacyVerdict.
Command(h) ==
    /\ Starts(h, {"command"}) /\ By(h) \in Reviewers
    /\ \/ SubmitVerdict(h, inbox[handler[h].update].says)
       \/ /\ Refused(h)
          /\ Await(h, "excuse")
          /\ UNCHANGED review
    /\ UNCHANGED <<deskVars, acked, ledger, prompts, asked, told>>

\* fault: the choice made last decides, whichever prompt the reply is to.
RepliedToNewest(h) == prompts[Len(prompts)]

\* lookupReply: the prompt that the message replied to has an active row.
RepliedTo(h) == prompts[inbox[handler[h].update].on]

Usable(h) ==
    /\ RepliedTo(h).status = "active" /\ ~slaOver
    /\ inbox[handler[h].update].says = "reason"
    /\ ClaimedBy(By(h))

\* handleReasonReply.
Reply(h) ==
    /\ Starts(h, {"reply"}) /\ By(h) \in Reviewers
    /\ IF Usable(h)
       THEN /\ SubmitVerdict(h, RepliedTo(h).says)
            /\ UNCHANGED prompts
       ELSE /\ Await(h, "excuse")
            /\ UNCHANGED review
            /\ prompts' = IF RepliedTo(h).status = "active" /\ slaOver
                          THEN [prompts EXCEPT ![inbox[handler[h].update].on].status = "expired"]
                          ELSE prompts
    /\ UNCHANGED <<deskVars, acked, ledger, asked, told>>

-----------------------------------------------------------------------------
(* After an await.  A failed call may have reached the user all the same.  *)

\* fault: the older prompt stays active.
LeaveActive == prompts

SupersedeActive ==
    [k \in DOMAIN prompts |->
        IF prompts[k].status = "active"
        THEN [prompts[k] EXCEPT !.status = "superseded"] ELSE prompts[k]]

\* submitVerdictAndNotify: the transaction after the verdict's.
FinalizePrompt(h) ==
    /\ handler[h].at = "verdict" /\ Turn(h)
    /\ prompts' = IF inbox[handler[h].update].does = "reply"
                  THEN [prompts EXCEPT ![inbox[handler[h].update].on].status = "consumed"]
                  ELSE SupersedeActive
    /\ Await(h, "noting")
    /\ UNCHANGED <<deskVars, acked, ledger, review, asked, told>>

\* The reason prompt reaches the reviewer's chat.
PromptGoesOut(h) ==
    /\ handler[h].at = "prompting" /\ Turn(h)
    /\ Len(prompts) < MaxPrompts
    /\ prompts' = Append(prompts, [by |-> By(h), status |-> "unrecorded",
                                   says |-> inbox[handler[h].update].says])
    /\ handler' = [handler EXCEPT ![h].at = "prompted", ![h].prompt = Len(prompts')]
    /\ UNCHANGED <<deskVars, acked, ledger, review, asked, told, busy>>

\* Its message id is back: create supersedes the active prompt of the order.
CreatePrompt(h) ==
    /\ handler[h].at = "prompted" /\ Turn(h)
    /\ prompts' = [SupersedeActive EXCEPT ![handler[h].prompt].status = "active"]
    /\ handler' = [handler EXCEPT ![h].at = "confirming", ![h].prompt = 0]
    /\ UNCHANGED <<deskVars, acked, ledger, review, asked, told, busy>>

Tell(h) == told' = told \cup {handler[h].update}

\* The answers that end a handler: an explanation, the verdict's receipt
\* (which also wakes the worker), the confirmation of a choice.
LastAnswered(h) ==
    /\ handler[h].at \in {"excuse", "confirming", "noting"} /\ Turn(h)
    /\ Tell(h)
    /\ Complete(h)
    /\ UNCHANGED <<deskVars, review, prompts, asked>>

ClaimAnswered(h) ==
    /\ handler[h].at = "granting" /\ Turn(h)
    /\ Tell(h)
    /\ Await(h, "asking")
    /\ UNCHANGED <<deskVars, acked, ledger, review, prompts, asked>>

\* sendDecisionPrompt.
ButtonsSent(h) ==
    /\ handler[h].at = "asking" /\ Turn(h)
    /\ asked' = asked \cup {By(h)}
    /\ Complete(h)
    /\ UNCHANGED <<deskVars, review, prompts, told>>

\* A call inside the try: the catch explains.
CallFails(h) ==
    /\ handler[h].at \in {"prompting", "prompted", "confirming", "granting",
                          "asking", "noting"} /\ Turn(h)
    /\ GoesWrong
    /\ handler' = [handler EXCEPT ![h].at = "excuse", ![h].prompt = 0]
    /\ asked' \in {asked, asked \cup (IF handler[h].at = "asking" THEN {By(h)} ELSE {})}
    /\ UNCHANGED <<inbox, slaOver, acked, ledger, review, prompts, told, busy>>

\* The bound on prompts: the bot API has no more.
PromptRefused(h) ==
    /\ handler[h].at = "prompting" /\ Turn(h)
    /\ Len(prompts) = MaxPrompts
    /\ Await(h, "excuse")
    /\ UNCHANGED <<deskVars, acked, ledger, review, prompts, asked, told>>

\* The explanation fails as well.
ExcuseFails(h) ==
    /\ handler[h].at = "excuse" /\ Turn(h)
    /\ GoesWrong
    /\ Fail(h)
    /\ UNCHANGED <<inbox, slaOver, review, prompts, asked, told>>

-----------------------------------------------------------------------------
(* The rest of the system.                                                 *)

\* applyReviewTimeouts, an abandoned offer or an elapsed SLA.
TimesOut ==
    /\ busy = NoOne
    /\ \/ review.state = "dispatched"
       \/ review.state = "claimed" /\ slaOver
    /\ review' = [review EXCEPT !.state = "over"]
    /\ UNCHANGED <<deskVars, acked, ledger, prompts, asked, told, handler, busy>>

SlaElapses ==
    /\ ~slaOver
    /\ slaOver' = TRUE
    /\ UNCHANGED <<inbox, acked, ledger, review, prompts, asked, told, handler,
                   busy, faults>>

\* The process dies and starts again; the rows stay.
Crash ==
    /\ GoesWrong
    /\ handler' = [h \in Handlers |-> Idle]
    /\ busy' = NoOne
    /\ UNCHANGED <<inbox, slaOver, acked, ledger, review, prompts, asked, told>>

HandlerStep(h) ==
    \/ TurnAway(h) \/ Claim(h) \/ Choose(h) \/ Command(h) \/ Reply(h)
    \/ FinalizePrompt(h) \/ PromptGoesOut(h) \/ CreatePrompt(h)
    \/ LastAnswered(h) \/ ClaimAnswered(h) \/ ButtonsSent(h) \/ PromptRefused(h)

Webhook(u) == Duplicate(u) \/ \E h \in Handlers : Deliver(h, u)

Next ==
    \/ \E m \in Repertoire : Write(m)
    \/ \E u \in 1 .. Len(inbox) : Webhook(u) \/ LeaseEnds(u)
    \/ \E h \in Handlers : HandlerStep(h) \/ CallFails(h) \/ ExcuseFails(h)
    \/ TimesOut \/ SlaElapses \/ Crash

Spec == Init /\ [][Next]_vars

-----------------------------------------------------------------------------
(* What the workflow must keep.                                            *)

\* What a message of the inbox decides: /verdict says it, a reply means the
\* prompt it is a reply to.
Meant(u) ==
    CASE inbox[u].does = "command" -> inbox[u].says
      [] inbox[u].does = "reply" /\ inbox[u].says = "reason" -> prompts[inbox[u].on].says
      [] OTHER -> "-"

(***************************************************************************)
(* The verdict is what a message of the assigned reviewer decided, however *)
(* choices and replies overlap, and the only prompt that is ever used up   *)
(* is one with that decision.                                              *)
(***************************************************************************)
VerdictWasMeant ==
    /\ review.state = "verdict_submitted" =>
          \E u \in 1 .. Len(inbox) :
             /\ inbox[u].by = review.reviewer
             /\ Meant(u) = review.decision
             /\ ledger[u].status # "unseen"
    /\ \A k \in DOMAIN prompts : prompts[k].status = "consumed" =>
          /\ review.state = "verdict_submitted"
          /\ prompts[k].by = review.reviewer /\ prompts[k].says = review.decision

(***************************************************************************)
(* From the first recorded prompt to the verdict the assigned reviewer has *)
(* exactly one prompt to reply to: neither two that contradict each other  *)
(* nor, after overlapping choices, redeliveries and crashes, none.         *)
(***************************************************************************)
OnePromptInForce ==
    (/\ review.state = "claimed" /\ ~slaOver
     /\ \E k \in DOMAIN prompts : prompts[k].status # "unrecorded")
        => \E k \in DOMAIN prompts :
              \A j \in DOMAIN prompts : (prompts[j].status = "active") <=> (j = k)

(***************************************************************************)
(* Telegram is told to forget an update only when its sender has had an    *)
(* answer to it: a handler that dies or is refused leaves it to be         *)
(* delivered again.                                                        *)
(***************************************************************************)
NoUpdateForgotten == acked \subseteq told

(***************************************************************************)
(* The rows agree with each other and with what the users were told: one   *)
(* prompt in force, and no update closed behind the back of its sender.    *)
(***************************************************************************)
WorkflowInv == TypeOK /\ OnePromptInForce /\ NoUpdateForgotten

(***************************************************************************)
(* Of the handlers of one update, one abandoned at its lease and one that  *)
(* took it over, the one whose token was replaced never closes it.         *)
(***************************************************************************)
OnlyHolderCloses ==
    [][\A u \in 1 .. MaxUpdates :
          (ledger[u].status = "processing" /\ ledger'[u].status = "processed")
             => ledger[u].holder \in Handlers
                /\ handler[ledger[u].holder].update = u
                /\ handler'[ledger[u].holder] = Idle]_vars

(***************************************************************************)
(* Fairness.  The process runs, Telegram repeats what was not accepted and *)
(* five minutes pass.  Calls fail only so often (MaxFaults), but the one   *)
(* for a prompt beyond MaxPrompts fails for good: the reviewer is told.    *)
(***************************************************************************)
FairSpec ==
    /\ Spec
    /\ \A h \in Handlers : WF_vars(HandlerStep(h))
    /\ \A u \in 1 .. MaxUpdates :
          /\ SF_vars(u <= Len(inbox) /\ Webhook(u))
          /\ WF_vars(u <= Len(inbox) /\ LeaseEnds(u))

(***************************************************************************)
(* Whatever a user sends is dealt with in the end, across crashes, failed  *)
(* calls and handlers that outlive their lease.                            *)
(***************************************************************************)
UpdatesAreHandled ==
    \A u \in 1 .. MaxUpdates : u <= Len(inbox) ~> u \in acked
=============================================================================
