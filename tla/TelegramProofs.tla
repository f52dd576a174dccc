--------------------------- MODULE TelegramProofs ---------------------------
(***************************************************************************)
(* Proofs about TelegramWorkflow, for any number of users, handlers,       *)
(* updates, prompts and faults: the rows agree with each other, no update  *)
(* is closed behind its sender's back or by a handler that lost it, and    *)
(* the verdict is one that the assigned reviewer meant.                    *)
(***************************************************************************)
EXTENDS TelegramWorkflow, SequenceTheorems, TLAPS

Prompt == [by : Users, says : Decisions, status : PromptStatus]

Message(h) == inbox[handler[h].update]

(***************************************************************************)
(* A reply is to a prompt that its sender was sent.                        *)
(***************************************************************************)
RepliesArePossible ==
    \A u \in 1 .. Len(inbox) : inbox[u].does = "reply" =>
        /\ inbox[u].on \in 1 .. Len(prompts)
        /\ prompts[inbox[u].on].by = inbox[u].by

(***************************************************************************)
(* What a handler has established by the stage it is at.                   *)
(***************************************************************************)
EstablishedFor(h) ==
    /\ handler[h].at # "idle" =>
        /\ handler[h].update \in 1 .. Len(inbox)
        /\ ledger[handler[h].update].status # "unseen"
    /\ handler[h].at \notin {"idle", "start", "excuse"} => By(h) \in Reviewers
    /\ handler[h].at \in {"prompting", "prompted"} =>
        Message(h).does = "choose" /\ review.state # "dispatched"
    /\ handler[h].at = "prompted" => handler[h].prompt \in 1 .. Len(prompts)
    /\ handler[h].at = "asking" => handler[h].update \in told
    /\ handler[h].at = "verdict" =>
        /\ review.state = "verdict_submitted"
        /\ Message(h).does = "reply" =>
            /\ prompts[Message(h).on].by = review.reviewer
            /\ prompts[Message(h).on].says = review.decision

Established == \A h \in Handlers : EstablishedFor(h)

(***************************************************************************)
(* An update is closed after its sender was told; before the claim there   *)
(* is nothing to reply to.                                                 *)
(***************************************************************************)
ClosedWereTold ==
    \A u \in 1 .. MaxUpdates : ledger[u].status = "processed" => u \in told

Unclaimed == review.state = "dispatched" => prompts = <<>>

DeskInv ==
    /\ WorkflowInv /\ VerdictWasMeant
    /\ RepliesArePossible /\ Established /\ ClosedWereTold /\ Unclaimed

-----------------------------------------------------------------------------
LEMMA Messages ==
    ASSUME TypeOK
    PROVE  /\ Len(inbox) \in 0 .. MaxUpdates /\ Len(prompts) \in 0 .. MaxPrompts
           /\ \A u \in 1 .. Len(inbox) : inbox[u] \in Update /\ u \in 1 .. MaxUpdates
           /\ prompts \in Seq(Prompt) /\ DOMAIN prompts = 1 .. Len(prompts)
           /\ prompts \in [1 .. Len(prompts) -> Prompt]
<1>1. Len(inbox) \in Nat /\ Len(prompts) \in Nat
  BY LenProperties DEF TypeOK
<1>2. \A u \in 1 .. Len(inbox) : inbox[u] \in Update
  BY ElementOfSeq DEF TypeOK
<1>3. prompts \in Seq(Prompt)
  BY DEF TypeOK, Prompt
<1>4. DOMAIN prompts = 1 .. Len(prompts) /\ prompts \in [1 .. Len(prompts) -> Prompt]
  BY <1>3, LenProperties
<1>5. Len(inbox) <= MaxUpdates /\ Len(prompts) <= MaxPrompts
  BY DEF TypeOK
<1>6. \A u \in 1 .. Len(inbox) : u \in 1 .. MaxUpdates
  BY <1>1, <1>5, BoundsAssumption
<1> QED
  BY <1>1, <1>2, <1>3, <1>4, <1>5, <1>6, BoundsAssumption

LEMMA Recast ==
    ASSUME TypeOK, NEW s \in [1 .. Len(prompts) -> Prompt]
    PROVE  s \in Seq(Prompt) /\ Len(s) = Len(prompts)
<1>1. Len(prompts) \in Nat
  BY Messages, BoundsAssumption
<1>2. s \in Seq(Prompt)
  BY <1>1, SeqDef
<1>3. DOMAIN s = 1 .. Len(s) /\ Len(s) \in Nat
  BY <1>2, LenProperties
<1> QED
  BY <1>1, <1>2, <1>3

LEMMA InitInv == Init => DeskInv
<1> SUFFICES ASSUME Init PROVE DeskInv
  OBVIOUS
<1> PICK r \in Claimants, choice \in FirstChoices :
        /\ review = [state |-> IF r = NoOne THEN "dispatched" ELSE "claimed",
                     reviewer |-> r, decision |-> "-"]
        /\ asked = {r} \ {NoOne}
        /\ prompts = IF r = NoOne \/ choice = "-" THEN <<>>
                     ELSE <<[by |-> r, says |-> choice, status |-> "active"]>>
  BY DEF Init
<1>1. inbox = <<>> /\ inbox \in Seq(Update) /\ Len(inbox) = 0
  BY EmptySeq DEF Init
<1>2. r \in Reviewers \cup {NoOne} /\ r \in Users \cup {NoOne} /\ asked \subseteq Reviewers
  BY UsersAssumption
<1>3. /\ prompts \in Seq(Prompt) /\ Len(prompts) <= MaxPrompts
      /\ DOMAIN prompts = 1 .. Len(prompts)
      /\ \A k \in DOMAIN prompts : k = 1 /\ prompts[k].status = "active"
  <2>1. CASE prompts = <<>>
    <3>1. prompts \in Seq(Prompt) /\ Len(prompts) = 0 /\ DOMAIN prompts = 1 .. Len(prompts)
      BY <2>1, EmptySeq, LenProperties
    <3> QED
      BY <3>1, BoundsAssumption
  <2>2. CASE r # NoOne /\ choice # "-"
    <3> DEFINE first == [by |-> r, says |-> choice, status |-> "active"]
    <3>1. first \in Prompt
      BY <1>2, <2>2, BoundsAssumption DEF Prompt, PromptStatus
    <3>2. prompts = <<first>>
      BY <2>2
    <3> HIDE DEF first
    <3>3. prompts \in Seq(Prompt) /\ Len(prompts) = 1 /\ prompts[1] = first
      BY <3>1, <3>2
    <3>4. DOMAIN prompts = 1 .. Len(prompts) /\ first.status = "active"
      BY <3>3, LenProperties DEF first
    <3> QED
      BY <3>3, <3>4, BoundsAssumption
  <2> QED
    BY <2>1, <2>2
<1>4. TypeOK
  <2>1. ledger \in [1 .. MaxUpdates -> Reservation]
    BY DEF Init, Reservation
  <2>2. \A u \in 1 .. MaxUpdates :
            ledger[u].holder # NoOne <=> ledger[u].status = "processing"
    BY DEF Init
  <2>3. handler \in [Handlers -> [at : Stages, update : 0 .. MaxUpdates,
                                  prompt : 0 .. MaxPrompts]]
    BY BoundsAssumption DEF Init, Idle, Stages
  <2>4. review \in [state : {"dispatched", "claimed", "verdict_submitted", "over"},
                    reviewer : Users \cup {NoOne}, decision : Decisions \cup {"-"}]
    BY <1>2
  <2>5. acked = {} /\ told = {} /\ busy = NoOne /\ faults = 0 /\ slaOver = FALSE
    BY DEF Init
  <2>6. faults \in 0 .. MaxFaults /\ Len(inbox) <= MaxUpdates
    BY <1>1, <2>5, BoundsAssumption
  <2> QED
    BY <1>1, <1>2, <1>3, <2>1, <2>2, <2>3, <2>4, <2>5, <2>6 DEF TypeOK, Prompt
<1>5. OnePromptInForce /\ VerdictWasMeant
  BY <1>3 DEF OnePromptInForce, VerdictWasMeant
<1>6. NoUpdateForgotten /\ ClosedWereTold /\ RepliesArePossible
  BY <1>1 DEF Init, NoUpdateForgotten, ClosedWereTold, RepliesArePossible
<1>7. Established
  BY DEF Init, Idle, Established, EstablishedFor
<1>8. Unclaimed
  BY DEF Unclaimed
<1> QED
  BY <1>4, <1>5, <1>6, <1>7, <1>8 DEF DeskInv, WorkflowInv

-----------------------------------------------------------------------------
(* What every step but a user's leaves in force.                           *)

Handling == [at : Stages, update : 0 .. MaxUpdates, prompt : 0 .. MaxPrompts]

Case == [state : {"dispatched", "claimed", "verdict_submitted", "over"},
         reviewer : Users \cup {NoOne}, decision : Decisions \cup {"-"}]

LedgerOK ==
    /\ ledger \in [1 .. MaxUpdates -> Reservation]
    /\ \A u \in 1 .. MaxUpdates :
          ledger[u].holder # NoOne <=> ledger[u].status = "processing"

PromptsOnward ==
    /\ prompts' \in Seq(Prompt)
    /\ Len(prompts) <= Len(prompts') /\ Len(prompts') <= MaxPrompts
    /\ \A k \in 1 .. Len(prompts) :
          prompts'[k].by = prompts[k].by /\ prompts'[k].says = prompts[k].says

ReviewOnward ==
    /\ review' \in Case
    /\ review.state # "dispatched" => review'.state # "dispatched"
    /\ review.state = "verdict_submitted" => review' = review

LedgerOnward ==
    \A u \in 1 .. MaxUpdates :
        ledger[u].status # "unseen" => ledger'[u].status # "unseen"

Onward ==
    /\ inbox' = inbox /\ told \subseteq told'
    /\ PromptsOnward /\ ReviewOnward /\ LedgerOnward

UsedAsDecided ==
    \A k \in 1 .. Len(prompts') : prompts'[k].status = "consumed" =>
        \/ k \in 1 .. Len(prompts) /\ prompts[k].status = "consumed"
        \/ /\ review'.state = "verdict_submitted"
           /\ prompts'[k].by = review'.reviewer /\ prompts'[k].says = review'.decision

LEMMA SamePrompts ==
    ASSUME TypeOK, prompts' = prompts
    PROVE  PromptsOnward /\ UsedAsDecided
BY Messages DEF PromptsOnward, UsedAsDecided

LEMMA SameReview ==
    ASSUME TypeOK, review' = review
    PROVE  ReviewOnward
BY DEF TypeOK, ReviewOnward, Case

LEMMA OthersStay ==
    ASSUME DeskInv, Onward, NEW g \in Handlers, handler'[g] = handler[g]
    PROVE  EstablishedFor(g)'
<1>0. EstablishedFor(g) /\ TypeOK
  BY DEF DeskInv, Established, WorkflowInv
<1>1. By(g)' = By(g) /\ Message(g)' = Message(g)
  BY DEF Onward, By, Message
<1>2. handler[g].at # "idle" =>
          /\ handler'[g].update \in 1 .. Len(inbox')
          /\ ledger'[handler'[g].update].status # "unseen"
  BY <1>0, Messages DEF Onward, LedgerOnward, EstablishedFor
<1>3. handler[g].at \in {"prompting", "prompted"} => review'.state # "dispatched"
  BY <1>0 DEF Onward, ReviewOnward, EstablishedFor
<1>4. handler[g].at = "prompted" => handler'[g].prompt \in 1 .. Len(prompts')
  <2>1. Len(prompts) \in Nat /\ Len(prompts') \in Nat
    BY <1>0, Messages, BoundsAssumption, LenProperties DEF Onward, PromptsOnward
  <2> QED
    BY <1>0, <2>1 DEF Onward, PromptsOnward, EstablishedFor
<1>5. ASSUME handler[g].at = "verdict"
      PROVE  /\ review'.state = "verdict_submitted"
             /\ Message(g)'.does = "reply" =>
                  /\ prompts'[Message(g)'.on].by = review'.reviewer
                  /\ prompts'[Message(g)'.on].says = review'.decision
  <2>1. review.state = "verdict_submitted" /\ review' = review
    BY <1>0, <1>5 DEF EstablishedFor, Onward, ReviewOnward
  <2>2. ASSUME Message(g).does = "reply" PROVE Message(g).on \in 1 .. Len(prompts)
    BY <1>0, <1>5, <2>2 DEF EstablishedFor, DeskInv, RepliesArePossible, Message
  <2> QED
    BY <1>0, <1>1, <1>5, <2>1, <2>2 DEF EstablishedFor, Onward, PromptsOnward
<1>6. handler[g].at = "asking" => handler'[g].update \in told'
  BY <1>0 DEF Onward, EstablishedFor
<1> QED
  BY <1>0, <1>1, <1>2, <1>3, <1>4, <1>5, <1>6 DEF EstablishedFor

LEMMA IdleStays ==
    ASSUME NEW g \in Handlers, handler'[g] = Idle
    PROVE  EstablishedFor(g)'
BY DEF EstablishedFor, Idle

LEMMA RepliesStay ==
    ASSUME DeskInv, Onward
    PROVE  RepliesArePossible'
<1>1. Len(prompts) \in Nat /\ Len(prompts') \in Nat
  BY Messages, BoundsAssumption, LenProperties
  DEF Onward, PromptsOnward, DeskInv, WorkflowInv
<1> QED
  BY <1>1 DEF DeskInv, RepliesArePossible, Onward, PromptsOnward

LEMMA VerdictStays ==
    ASSUME DeskInv, Onward, UsedAsDecided,
           review'.state = "verdict_submitted" => review' = review
    PROVE  VerdictWasMeant'
<1>0. TypeOK /\ VerdictWasMeant /\ DOMAIN prompts' = 1 .. Len(prompts')
  BY LenProperties DEF DeskInv, WorkflowInv, Onward, PromptsOnward
<1>1. ASSUME NEW k \in DOMAIN prompts', prompts'[k].status = "consumed"
      PROVE  /\ review'.state = "verdict_submitted"
             /\ prompts'[k].by = review'.reviewer
             /\ prompts'[k].says = review'.decision
  <2> SUFFICES ASSUME k \in 1 .. Len(prompts), prompts[k].status = "consumed"
               PROVE  /\ review'.state = "verdict_submitted"
                      /\ prompts'[k].by = review'.reviewer
                      /\ prompts'[k].says = review'.decision
    BY <1>0, <1>1 DEF UsedAsDecided
  <2>1. k \in DOMAIN prompts
    BY <1>0, Messages
  <2>2. review.state = "verdict_submitted" /\ review' = review
    BY <1>0, <2>1 DEF VerdictWasMeant, Onward, ReviewOnward
  <2> QED
    BY <1>0, <2>1, <2>2 DEF VerdictWasMeant, Onward, PromptsOnward
<1>2. ASSUME review'.state = "verdict_submitted"
      PROVE  \E u \in 1 .. Len(inbox') :
                /\ inbox'[u].by = review'.reviewer
                /\ Meant(u)' = review'.decision
                /\ ledger'[u].status # "unseen"
  <2>1. review' = review /\ review.state = "verdict_submitted"
    BY <1>2
  <2>2. PICK u \in 1 .. Len(inbox) : /\ inbox[u].by = review.reviewer
                                     /\ Meant(u) = review.decision
                                     /\ ledger[u].status # "unseen"
    BY <1>0, <2>1 DEF VerdictWasMeant
  <2>3. ledger'[u].status # "unseen"
    BY <1>0, <2>2, Messages DEF Onward, LedgerOnward
  <2>4. Meant(u)' = Meant(u)
    BY DEF DeskInv, RepliesArePossible, Onward, PromptsOnward, Meant
  <2> QED
    BY <2>1, <2>2, <2>3, <2>4 DEF Onward
<1> QED
  BY <1>1, <1>2 DEF VerdictWasMeant

LEMMA PromptInForceStays ==
    ASSUME DeskInv, prompts' = prompts, slaOver => slaOver',
           review'.state = "claimed" => review.state \in {"dispatched", "claimed"}
    PROVE  OnePromptInForce'
<1>1. OnePromptInForce /\ Unclaimed /\ slaOver \in BOOLEAN
  BY DEF DeskInv, WorkflowInv, TypeOK
<1>2. CASE review.state = "dispatched"
  <2>1. DOMAIN prompts' = {}
    BY <1>1, <1>2 DEF Unclaimed
  <2> QED
    BY <2>1 DEF OnePromptInForce
<1>3. CASE review.state # "dispatched"
  BY <1>1, <1>3 DEF OnePromptInForce
<1> QED
  BY <1>2, <1>3

(***************************************************************************)
(* What is left to show of a step of the process.                          *)
(***************************************************************************)
LEMMA DeskStep ==
    ASSUME DeskInv, Onward, LedgerOK',
           acked' \subseteq told', told' \subseteq 1 .. Len(inbox),
           asked' \subseteq Reviewers, busy' \in Handlers \cup {NoOne},
           faults' \in 0 .. MaxFaults, slaOver' \in BOOLEAN,
           handler' \in [Handlers -> Handling],
           \A g \in Handlers : EstablishedFor(g)',
           OnePromptInForce', VerdictWasMeant', ClosedWereTold', Unclaimed'
    PROVE  DeskInv'
<1>1. TypeOK'
  <2>1. inbox' \in Seq(Update) /\ Len(inbox') <= MaxUpdates /\ inbox' = inbox
    BY DEF DeskInv, WorkflowInv, TypeOK, Onward
  <2>2. prompts' \in Seq([by : Users, says : Decisions, status : PromptStatus])
        /\ Len(prompts') <= MaxPrompts
    BY DEF Onward, PromptsOnward, Prompt
  <2>3. review' \in Case
    BY DEF Onward, ReviewOnward
  <2> QED
    BY <2>1, <2>2, <2>3 DEF TypeOK, LedgerOK, Handling, Case
<1>2. RepliesArePossible'
  BY RepliesStay
<1> QED
  BY <1>1, <1>2 DEF DeskInv, WorkflowInv, Established, NoUpdateForgotten

(***************************************************************************)
(* The steps that neither reserve an update nor close one.                 *)
(***************************************************************************)
LEMMA StageStep ==
    ASSUME DeskInv, UNCHANGED <<inbox, acked, ledger>>,
           PromptsOnward, ReviewOnward,
           told \subseteq told', told' \subseteq 1 .. Len(inbox),
           asked' \subseteq Reviewers, busy' \in Handlers \cup {NoOne},
           faults' \in 0 .. MaxFaults, slaOver' \in BOOLEAN,
           handler' \in [Handlers -> Handling],
           \A g \in Handlers : EstablishedFor(g)',
           OnePromptInForce', VerdictWasMeant', Unclaimed'
    PROVE  DeskInv'
<1>1. Onward
  BY DEF Onward, LedgerOnward
<1>2. LedgerOK' /\ ClosedWereTold'
  BY DEF DeskInv, WorkflowInv, TypeOK, LedgerOK, ClosedWereTold
<1>3. acked' \subseteq told'
  BY DEF DeskInv, WorkflowInv, NoUpdateForgotten
<1> QED
  BY <1>1, <1>2, <1>3, DeskStep

(***************************************************************************)
(* The steps of these that only one handler notices.                       *)
(***************************************************************************)
LEMMA HandlerMoves ==
    ASSUME DeskInv, UNCHANGED <<inbox, acked, ledger, slaOver, review, prompts>>,
           told \subseteq told', told' \subseteq 1 .. Len(inbox),
           asked' \subseteq Reviewers, busy' \in Handlers \cup {NoOne},
           faults' \in 0 .. MaxFaults,
           handler' \in [Handlers -> Handling],
           NEW h \in Handlers, EstablishedFor(h)',
           \A g \in Handlers \ {h} : handler'[g] = handler[g]
    PROVE  DeskInv'
<1>0. TypeOK /\ Unclaimed
  BY DEF DeskInv, WorkflowInv
<1>1. PromptsOnward /\ UsedAsDecided /\ ReviewOnward
  BY <1>0, SamePrompts, SameReview
<1>2. Onward
  BY <1>1 DEF Onward, LedgerOnward
<1>3. \A g \in Handlers : EstablishedFor(g)'
  BY <1>2, OthersStay
<1>4. OnePromptInForce'
  BY PromptInForceStays
<1>5. VerdictWasMeant'
  BY <1>1, <1>2, VerdictStays
<1>6. Unclaimed' /\ slaOver' \in BOOLEAN
  BY <1>0 DEF Unclaimed, TypeOK
<1> QED
  BY <1>1, <1>3, <1>4, <1>5, <1>6, StageStep

-----------------------------------------------------------------------------
(* The users and Telegram.                                                 *)

LEMMA WriteKeeps ==
    ASSUME DeskInv, NEW m \in Repertoire, Write(m)
    PROVE  DeskInv'
<1>0. TypeOK /\ WorkflowInv
  BY DEF DeskInv, WorkflowInv
<1>1. m \in Update /\ inbox \in Seq(Update) /\ Len(inbox) \in Nat
  BY <1>0, BoundsAssumption, Messages DEF TypeOK
<1>2. /\ inbox' \in Seq(Update) /\ Len(inbox') = Len(inbox) + 1
      /\ \A u \in 1 .. Len(inbox) : inbox'[u] = inbox[u]
      /\ inbox'[Len(inbox) + 1] = m
  BY <1>1, AppendProperties DEF Write
<1>3. TypeOK'
  <2>1. acked' \subseteq 1 .. Len(inbox') /\ told' \subseteq 1 .. Len(inbox')
    BY <1>0, <1>1, <1>2 DEF TypeOK, Write
  <2>2. Len(inbox') <= MaxUpdates
    BY <1>1, <1>2, BoundsAssumption DEF Write
  <2> QED
    BY <1>0, <1>2, <2>1, <2>2 DEF TypeOK, Write
<1>4. OnePromptInForce' /\ NoUpdateForgotten' /\ ClosedWereTold' /\ Unclaimed'
  BY DEF DeskInv, WorkflowInv, OnePromptInForce, NoUpdateForgotten, ClosedWereTold,
         Unclaimed, Write
<1>5. VerdictWasMeant'
  <2>1. \A u \in 1 .. Len(inbox) : Meant(u)' = Meant(u)
    BY <1>2 DEF Meant, Write
  <2> QED
    BY <1>1, <1>2, <2>1 DEF DeskInv, VerdictWasMeant, Write
<1>6. RepliesArePossible'
  <2> SUFFICES ASSUME NEW u \in 1 .. Len(inbox'), inbox'[u].does = "reply"
               PROVE  inbox'[u].on \in 1 .. Len(prompts)
                      /\ prompts[inbox'[u].on].by = inbox'[u].by
    BY DEF RepliesArePossible, Write
  <2>1. CASE u \in 1 .. Len(inbox)
    BY <1>2, <2>1 DEF DeskInv, RepliesArePossible
  <2>2. CASE u = Len(inbox) + 1
    <3>1. inbox'[u] = m /\ m.does = "reply"
      BY <1>2, <2>2
    <3>2. m.on \in 1 .. MaxPrompts /\ Len(prompts) \in Nat
      BY <1>0, <1>1, <3>1, Messages, BoundsAssumption DEF Update
    <3> QED
      BY <3>1, <3>2, BoundsAssumption DEF Write, Possible
  <2> QED
    BY <1>1, <1>2, <2>1, <2>2
<1>7. Established'
  <2> SUFFICES ASSUME NEW g \in Handlers PROVE EstablishedFor(g)'
    BY DEF Established
  <2>0. EstablishedFor(g) /\ handler' = handler
    BY DEF DeskInv, Established, Write
  <2>1. CASE handler[g].at = "idle"
    BY <2>0, <2>1 DEF EstablishedFor
  <2>2. CASE handler[g].at # "idle"
    <3>1. handler[g].update \in 1 .. Len(inbox)
      BY <2>0, <2>2 DEF EstablishedFor
    <3>2. Message(g)' = Message(g) /\ By(g)' = By(g) /\ handler[g].update \in 1 .. Len(inbox')
      BY <1>1, <1>2, <2>0, <3>1 DEF Message, By
    <3> QED
      BY <2>0, <3>2 DEF EstablishedFor, Write
  <2> QED
    BY <2>1, <2>2
<1> QED
  BY <1>3, <1>4, <1>5, <1>6, <1>7 DEF DeskInv, WorkflowInv

LEMMA DeliverKeeps ==
    ASSUME DeskInv, NEW h \in Handlers, NEW u \in 1 .. Len(inbox), Deliver(h, u)
    PROVE  DeskInv'
<1>0. TypeOK /\ Unclaimed /\ u \in 1 .. MaxUpdates
  BY Messages DEF DeskInv, WorkflowInv
<1>1. PromptsOnward /\ UsedAsDecided /\ ReviewOnward
  BY <1>0, SamePrompts, SameReview DEF Deliver
<1>2. LedgerOK' /\ LedgerOnward
  <2>1. [status |-> "processing", holder |-> h, leaseOver |-> FALSE] \in Reservation
    BY DEF Reservation
  <2>2. h # NoOne
    BY UsersAssumption
  <2> QED
    BY <1>0, <2>1, <2>2 DEF Deliver, TypeOK, LedgerOK, LedgerOnward
<1>3. Onward
  BY <1>1, <1>2 DEF Onward, Deliver, deskVars
<1>4. /\ handler' \in [Handlers -> Handling]
      /\ handler'[h] = [at |-> "start", update |-> u, prompt |-> 0]
      /\ \A g \in Handlers \ {h} : handler'[g] = handler[g]
  <2>1. [at |-> "start", update |-> u, prompt |-> 0] \in Handling
    BY <1>0, BoundsAssumption DEF Handling, Stages
  <2> QED
    BY <1>0, <2>1 DEF Deliver, TypeOK, Handling
<1>5. EstablishedFor(h)'
  BY <1>0, <1>4 DEF EstablishedFor, Deliver, deskVars, TypeOK
<1>6. \A g \in Handlers : EstablishedFor(g)'
  BY <1>3, <1>4, <1>5, OthersStay
<1>7. OnePromptInForce' /\ VerdictWasMeant'
  BY <1>1, <1>3, PromptInForceStays, VerdictStays DEF Deliver, deskVars
<1>8. ClosedWereTold' /\ Unclaimed'
  BY <1>0 DEF DeskInv, ClosedWereTold, Unclaimed, Deliver, TypeOK
<1>9. /\ acked' \subseteq told' /\ told' \subseteq 1 .. Len(inbox)
      /\ asked' \subseteq Reviewers /\ busy' \in Handlers \cup {NoOne}
      /\ faults' \in 0 .. MaxFaults /\ slaOver' \in BOOLEAN
  BY DEF DeskInv, WorkflowInv, NoUpdateForgotten, TypeOK, Deliver, deskVars
<1> QED
  BY <1>2, <1>3, <1>4, <1>6, <1>7, <1>8, <1>9, DeskStep

LEMMA DuplicateKeeps ==
    ASSUME DeskInv, NEW u \in 1 .. Len(inbox), Duplicate(u)
    PROVE  DeskInv'
<1>0. TypeOK /\ Unclaimed /\ u \in 1 .. MaxUpdates
  BY Messages DEF DeskInv, WorkflowInv
<1>1. PromptsOnward /\ UsedAsDecided /\ ReviewOnward
  BY <1>0, SamePrompts, SameReview DEF Duplicate
<1>2. Onward /\ LedgerOK'
  BY <1>0, <1>1 DEF Onward, LedgerOnward, Duplicate, deskVars, TypeOK, LedgerOK
<1>3. \A g \in Handlers : EstablishedFor(g)'
  BY <1>2, OthersStay DEF Duplicate
<1>4. OnePromptInForce' /\ VerdictWasMeant'
  BY <1>1, <1>2, PromptInForceStays, VerdictStays DEF Duplicate, deskVars
<1>5. acked' \subseteq told'
  BY <1>0 DEF DeskInv, WorkflowInv, NoUpdateForgotten, ClosedWereTold, Duplicate, IsDuplicate
<1>6. ClosedWereTold' /\ Unclaimed'
  BY DEF DeskInv, ClosedWereTold, Unclaimed, Duplicate
<1>7. /\ told' \subseteq 1 .. Len(inbox)
      /\ asked' \subseteq Reviewers /\ busy' \in Handlers \cup {NoOne}
      /\ faults' \in 0 .. MaxFaults /\ slaOver' \in BOOLEAN
      /\ handler' \in [Handlers -> Handling]
  <2>1. UNCHANGED <<inbox, told, asked, busy, faults, slaOver, handler>>
    BY DEF Duplicate, deskVars
  <2> QED  BY <1>0, <2>1 DEF TypeOK, Handling
<1> QED
  BY <1>2, <1>3, <1>4, <1>5, <1>6, <1>7, DeskStep

LEMMA LeaseEndsKeeps ==
    ASSUME DeskInv, NEW u \in 1 .. Len(inbox), LeaseEnds(u)
    PROVE  DeskInv'
<1>0. TypeOK /\ Unclaimed /\ u \in 1 .. MaxUpdates
  BY Messages DEF DeskInv, WorkflowInv
<1>1. PromptsOnward /\ UsedAsDecided /\ ReviewOnward
  BY <1>0, SamePrompts, SameReview DEF LeaseEnds
<1>2. LedgerOK' /\ LedgerOnward
      /\ \A v \in 1 .. MaxUpdates : ledger'[v].status = ledger[v].status
  BY <1>0 DEF LeaseEnds, TypeOK, LedgerOK, LedgerOnward, Reservation
<1>3. Onward
  BY <1>1, <1>2 DEF Onward, LeaseEnds
<1>4. \A g \in Handlers : EstablishedFor(g)'
  BY <1>3, OthersStay DEF LeaseEnds
<1>5. OnePromptInForce' /\ VerdictWasMeant'
  BY <1>1, <1>3, PromptInForceStays, VerdictStays DEF LeaseEnds
<1>6. ClosedWereTold' /\ Unclaimed'
  BY <1>2 DEF DeskInv, ClosedWereTold, Unclaimed, LeaseEnds
<1>7. faults' \in 0 .. MaxFaults
  BY <1>0, BoundsAssumption DEF LeaseEnds, GoesWrong, TypeOK
<1>8. /\ acked' \subseteq told' /\ told' \subseteq 1 .. Len(inbox)
      /\ asked' \subseteq Reviewers /\ busy' \in Handlers \cup {NoOne}
      /\ slaOver' \in BOOLEAN /\ handler' \in [Handlers -> Handling]
  BY DEF DeskInv, WorkflowInv, NoUpdateForgotten, TypeOK, LeaseEnds, Handling
<1> QED
  BY <1>2, <1>3, <1>4, <1>5, <1>6, <1>7, <1>8, DeskStep

-----------------------------------------------------------------------------
(* A handler returns or gives up.                                          *)

LEMMA RowCloses ==
    ASSUME TypeOK, NEW u \in 1 .. MaxUpdates, ledger[u].status # "unseen",
           NEW closed \in {"processed", "failed"},
           ledger' = [ledger EXCEPT ![u].status = closed, ![u].holder = NoOne,
                                    ![u].leaseOver = FALSE]
    PROVE  /\ LedgerOK' /\ LedgerOnward /\ ledger'[u].status = closed
           /\ \A v \in 1 .. MaxUpdates \ {u} : ledger'[v] = ledger[v]
<1>0. ledger \in [1 .. MaxUpdates -> Reservation] /\ ledger[u] \in Reservation
  BY DEF TypeOK
<1> DEFINE row == [ledger[u] EXCEPT !.status = closed, !.holder = NoOne,
                                    !.leaseOver = FALSE]
<1>1. row.status = closed /\ row.holder = NoOne
  BY <1>0 DEF Reservation
<1>2. row \in Reservation
  BY <1>0 DEF Reservation
<1>3. ledger' = [ledger EXCEPT ![u] = row]
  BY <1>0
<1> HIDE DEF row
<1>4. ledger' \in [1 .. MaxUpdates -> Reservation] /\ ledger'[u] = row
      /\ \A v \in 1 .. MaxUpdates \ {u} : ledger'[v] = ledger[v]
  BY <1>0, <1>2, <1>3
<1>5. \A v \in 1 .. MaxUpdates : ledger'[v].holder # NoOne <=> ledger'[v].status = "processing"
  BY <1>1, <1>4 DEF TypeOK
<1> QED
  BY <1>1, <1>4, <1>5 DEF LedgerOK, LedgerOnward

LEMMA CompleteFacts ==
    ASSUME DeskInv, NEW h \in Handlers, handler[h].at # "idle", Complete(h),
           told' \in SUBSET (1 .. Len(inbox)), told \subseteq told',
           handler[h].update \in told'
    PROVE  /\ LedgerOK' /\ LedgerOnward /\ ClosedWereTold' /\ acked' \subseteq told'
           /\ handler' \in [Handlers -> Handling] /\ handler'[h] = Idle
           /\ \A g \in Handlers \ {h} : handler'[g] = handler[g]
           /\ busy' = NoOne
<1> DEFINE u == handler[h].update
<1>0. TypeOK /\ EstablishedFor(h) /\ ClosedWereTold /\ NoUpdateForgotten
  BY DEF DeskInv, WorkflowInv, Established
<1>1. u \in 1 .. Len(inbox) /\ u \in 1 .. MaxUpdates
  BY <1>0, Messages DEF EstablishedFor
<1>2. handler' = [handler EXCEPT ![h] = Idle] /\ busy' = NoOne
  BY DEF Complete
<1>3. Idle \in Handling
  BY BoundsAssumption DEF Idle, Handling, Stages
<1>4. /\ handler' \in [Handlers -> Handling] /\ handler'[h] = Idle
      /\ \A g \in Handlers \ {h} : handler'[g] = handler[g]
  BY <1>0, <1>2, <1>3 DEF TypeOK, Handling
<1>5. CASE Holds(h, u)
  <2>1. /\ ledger' = [ledger EXCEPT ![u].status = "processed", ![u].holder = NoOne,
                                    ![u].leaseOver = FALSE]
        /\ acked' = acked \cup {u}
    BY <1>5 DEF Complete
  <2>2. /\ LedgerOK' /\ LedgerOnward
        /\ \A v \in 1 .. MaxUpdates \ {u} : ledger'[v] = ledger[v]
    BY <1>0, <1>1, <1>5, <2>1, RowCloses DEF Holds
  <2>3. ClosedWereTold'
    BY <1>0, <2>2 DEF ClosedWereTold
  <2> QED
    BY <1>0, <1>2, <1>4, <2>1, <2>2, <2>3 DEF NoUpdateForgotten
<1>6. CASE ~Holds(h, u)
  <2>1. ledger' = ledger /\ acked' = acked
    BY <1>6 DEF Complete
  <2> QED
    BY <1>0, <1>2, <1>4, <2>1 DEF TypeOK, LedgerOK, LedgerOnward, ClosedWereTold,
       NoUpdateForgotten
<1> QED
  BY <1>5, <1>6

LEMMA FailFacts ==
    ASSUME DeskInv, NEW h \in Handlers, handler[h].at # "idle", Fail(h), told' = told
    PROVE  /\ LedgerOK' /\ LedgerOnward /\ ClosedWereTold' /\ acked' = acked
           /\ handler' \in [Handlers -> Handling] /\ handler'[h] = Idle
           /\ \A g \in Handlers \ {h} : handler'[g] = handler[g]
           /\ busy' = NoOne
<1> DEFINE u == handler[h].update
<1>0. TypeOK /\ EstablishedFor(h) /\ ClosedWereTold
  BY DEF DeskInv, WorkflowInv, Established
<1>1. u \in 1 .. MaxUpdates
  BY <1>0, Messages DEF EstablishedFor
<1>2. handler' = [handler EXCEPT ![h] = Idle] /\ busy' = NoOne /\ acked' = acked
  BY DEF Fail
<1>3. Idle \in Handling
  BY BoundsAssumption DEF Idle, Handling, Stages
<1>4. /\ handler' \in [Handlers -> Handling] /\ handler'[h] = Idle
      /\ \A g \in Handlers \ {h} : handler'[g] = handler[g]
  BY <1>0, <1>2, <1>3 DEF TypeOK, Handling
<1>5. CASE Holds(h, u)
  <2>1. ledger' = [ledger EXCEPT ![u].status = "failed", ![u].holder = NoOne,
                                 ![u].leaseOver = FALSE]
    BY <1>5 DEF Fail
  <2>2. /\ LedgerOK' /\ LedgerOnward /\ ledger'[u].status = "failed"
        /\ \A v \in 1 .. MaxUpdates \ {u} : ledger'[v] = ledger[v]
    BY <1>0, <1>1, <1>5, <2>1, RowCloses DEF Holds
  <2>3. ClosedWereTold'
    BY <1>0, <2>2 DEF ClosedWereTold
  <2> QED
    BY <1>2, <1>4, <2>2, <2>3
<1>6. CASE ~Holds(h, u)
  <2>1. ledger' = ledger
    BY <1>6 DEF Fail
  <2> QED
    BY <1>0, <1>2, <1>4, <2>1 DEF TypeOK, LedgerOK, LedgerOnward, ClosedWereTold
<1> QED
  BY <1>5, <1>6

(***************************************************************************)
(* The rows that a handler closes or gives back touch nothing else.        *)
(***************************************************************************)
LEMMA HandlerEnds ==
    ASSUME DeskInv, UNCHANGED <<inbox, slaOver, review, prompts>>,
           NEW h \in Handlers,
           LedgerOK', LedgerOnward, ClosedWereTold', acked' \subseteq told',
           handler' \in [Handlers -> Handling], handler'[h] = Idle,
           \A g \in Handlers \ {h} : handler'[g] = handler[g],
           told \subseteq told', told' \subseteq 1 .. Len(inbox),
           asked' \subseteq Reviewers, busy' = NoOne, faults' \in 0 .. MaxFaults
    PROVE  DeskInv'
<1>0. TypeOK /\ Unclaimed
  BY DEF DeskInv, WorkflowInv
<1>1. PromptsOnward /\ UsedAsDecided /\ ReviewOnward
  BY <1>0, SamePrompts, SameReview
<1>2. Onward
  BY <1>1 DEF Onward
<1>3. \A g \in Handlers : EstablishedFor(g)'
  BY <1>2, OthersStay, IdleStays
<1>4. OnePromptInForce' /\ VerdictWasMeant'
  BY <1>1, <1>2, PromptInForceStays, VerdictStays
<1>5. Unclaimed' /\ slaOver' \in BOOLEAN
  BY <1>0 DEF Unclaimed, TypeOK
<1> QED
  BY <1>2, <1>3, <1>4, <1>5, DeskStep

LEMMA LastAnsweredKeeps ==
    ASSUME DeskInv, NEW h \in Handlers, LastAnswered(h)
    PROVE  DeskInv'
<1>0. TypeOK /\ EstablishedFor(h)
  BY DEF DeskInv, WorkflowInv, Established
<1>1. handler[h].at # "idle" /\ Complete(h) /\ told' = told \cup {handler[h].update}
      /\ UNCHANGED <<inbox, slaOver, faults, review, prompts, asked>>
  BY DEF LastAnswered, Tell, deskVars
<1>2. told' \in SUBSET (1 .. Len(inbox)) /\ told \subseteq told' /\ handler[h].update \in told'
  BY <1>0, <1>1 DEF EstablishedFor, TypeOK
<1>3. asked' \subseteq Reviewers /\ faults' \in 0 .. MaxFaults
  BY <1>0, <1>1 DEF TypeOK
<1> QED
  BY <1>1, <1>2, <1>3, CompleteFacts, HandlerEnds

LEMMA ButtonsSentKeeps ==
    ASSUME DeskInv, NEW h \in Handlers, ButtonsSent(h)
    PROVE  DeskInv'
<1>0. TypeOK /\ EstablishedFor(h)
  BY DEF DeskInv, WorkflowInv, Established
<1>1. handler[h].at = "asking" /\ Complete(h) /\ asked' = asked \cup {By(h)}
      /\ UNCHANGED <<inbox, slaOver, faults, review, prompts, told>>
  BY DEF ButtonsSent, deskVars
<1>2. told' \in SUBSET (1 .. Len(inbox)) /\ handler[h].update \in told'
  BY <1>0, <1>1 DEF EstablishedFor, TypeOK
<1>3. asked' \subseteq Reviewers /\ faults' \in 0 .. MaxFaults
  BY <1>0, <1>1 DEF TypeOK, EstablishedFor
<1> QED
  BY <1>1, <1>2, <1>3, CompleteFacts, HandlerEnds

LEMMA ExcuseFailsKeeps ==
    ASSUME DeskInv, NEW h \in Handlers, ExcuseFails(h)
    PROVE  DeskInv'
<1>0. TypeOK /\ NoUpdateForgotten
  BY DEF DeskInv, WorkflowInv
<1>1. handler[h].at # "idle" /\ Fail(h)
      /\ UNCHANGED <<inbox, slaOver, review, prompts, asked, told>>
  BY DEF ExcuseFails
<1>2. faults' \in 0 .. MaxFaults
  BY <1>0, BoundsAssumption DEF TypeOK, ExcuseFails, GoesWrong
<1>3. told' \subseteq 1 .. Len(inbox) /\ asked' \subseteq Reviewers
  BY <1>0, <1>1 DEF TypeOK
<1>4. acked' \subseteq told'
  BY <1>0, <1>1 DEF Fail, NoUpdateForgotten
<1> QED
  BY <1>1, <1>2, <1>3, <1>4, FailFacts, HandlerEnds

-----------------------------------------------------------------------------
(* A handler reaches its next stage.                                       *)

LEMMA AwaitFacts ==
    ASSUME TypeOK, NEW h \in Handlers, NEW stage \in Stages, Await(h, stage)
    PROVE  /\ handler' \in [Handlers -> Handling]
           /\ handler'[h].at = stage /\ handler'[h].update = handler[h].update
           /\ \A g \in Handlers \ {h} : handler'[g] = handler[g]
           /\ busy' = NoOne
BY DEF TypeOK, Await, Handling

\* The same of a step that also sets the prompt in hand.
LEMMA AdvanceFacts ==
    ASSUME TypeOK, NEW h \in Handlers, NEW stage \in Stages, NEW p \in 0 .. MaxPrompts,
           handler' = [handler EXCEPT ![h].at = stage, ![h].prompt = p]
    PROVE  /\ handler' \in [Handlers -> Handling]
           /\ handler'[h].at = stage /\ handler'[h].update = handler[h].update
           /\ handler'[h].prompt = p
           /\ \A g \in Handlers \ {h} : handler'[g] = handler[g]
<1> DEFINE next == [handler[h] EXCEPT !.at = stage, !.prompt = p]
<1>0. handler \in [Handlers -> Handling] /\ handler[h] \in Handling
  BY DEF TypeOK, Handling
<1>1. /\ next \in Handling /\ next.at = stage /\ next.prompt = p
      /\ next.update = handler[h].update
  BY <1>0 DEF Handling
<1>2. handler' = [handler EXCEPT ![h] = next]
  BY <1>0
<1> HIDE DEF next
<1> QED
  BY <1>0, <1>1, <1>2

LEMMA ExcuseEstablished ==
    ASSUME DeskInv, NEW h \in Handlers, handler[h].at # "idle",
           UNCHANGED <<inbox, ledger>>,
           handler'[h].at = "excuse", handler'[h].update = handler[h].update
    PROVE  EstablishedFor(h)'
BY DEF DeskInv, Established, EstablishedFor

LEMMA TurnedAway ==
    ASSUME DeskInv, NEW h \in Handlers, handler[h].at # "idle", Await(h, "excuse"),
           UNCHANGED <<deskVars, acked, ledger, review, prompts, asked, told>>
    PROVE  DeskInv'
<1>0. TypeOK /\ "excuse" \in Stages
  BY DEF DeskInv, WorkflowInv, Stages
<1>1. /\ handler' \in [Handlers -> Handling] /\ EstablishedFor(h)' /\ busy' = NoOne
      /\ \A g \in Handlers \ {h} : handler'[g] = handler[g]
  BY <1>0, AwaitFacts, ExcuseEstablished DEF deskVars
<1>2. told' \subseteq 1 .. Len(inbox) /\ asked' \subseteq Reviewers /\ faults' \in 0 .. MaxFaults
  BY <1>0 DEF TypeOK, deskVars
<1> QED
  BY <1>1, <1>2, HandlerMoves DEF deskVars

LEMMA TurnAwayKeeps ==
    ASSUME DeskInv, NEW h \in Handlers, TurnAway(h)
    PROVE  DeskInv'
BY TurnedAway DEF TurnAway

LEMMA PromptRefusedKeeps ==
    ASSUME DeskInv, NEW h \in Handlers, PromptRefused(h)
    PROVE  DeskInv'
BY TurnedAway DEF PromptRefused

LEMMA ChooseKeeps ==
    ASSUME DeskInv, NEW h \in Handlers, Choose(h)
    PROVE  DeskInv'
<1>0. TypeOK /\ EstablishedFor(h) /\ "prompting" \in Stages /\ handler[h].at = "start"
  BY DEF DeskInv, WorkflowInv, Established, Stages, Choose, Starts
<1>1. CASE Await(h, "excuse")
  BY <1>0, <1>1, TurnedAway DEF Choose
<1>2. CASE ClaimedBy(By(h)) /\ Await(h, "prompting")
  <2>1. /\ handler' \in [Handlers -> Handling] /\ busy' = NoOne
        /\ handler'[h].at = "prompting" /\ handler'[h].update = handler[h].update
        /\ \A g \in Handlers \ {h} : handler'[g] = handler[g]
    BY <1>0, <1>2, AwaitFacts
  <2>2. EstablishedFor(h)'
    BY <1>0, <1>2, <2>1
    DEF EstablishedFor, Choose, Starts, By, Message, ClaimedBy, deskVars
  <2>3. told' \subseteq 1 .. Len(inbox) /\ asked' \subseteq Reviewers /\ faults' \in 0 .. MaxFaults
    BY <1>0 DEF TypeOK, deskVars, Choose
  <2> QED
    BY <2>1, <2>2, <2>3, HandlerMoves DEF Choose, deskVars
<1> QED
  BY <1>1, <1>2 DEF Choose

LEMMA ClaimAnsweredKeeps ==
    ASSUME DeskInv, NEW h \in Handlers, ClaimAnswered(h)
    PROVE  DeskInv'
<1>0. TypeOK /\ EstablishedFor(h) /\ "asking" \in Stages /\ handler[h].at = "granting"
  BY DEF DeskInv, WorkflowInv, Established, Stages, ClaimAnswered
<1>1. /\ handler' \in [Handlers -> Handling] /\ busy' = NoOne
      /\ handler'[h].at = "asking" /\ handler'[h].update = handler[h].update
      /\ \A g \in Handlers \ {h} : handler'[g] = handler[g]
  BY <1>0, AwaitFacts DEF ClaimAnswered
<1>2. told' = told \cup {handler[h].update} /\ told' \subseteq 1 .. Len(inbox)
  BY <1>0 DEF ClaimAnswered, Tell, EstablishedFor, TypeOK
<1>3. EstablishedFor(h)'
  BY <1>0, <1>1, <1>2 DEF EstablishedFor, ClaimAnswered, By, Message, deskVars
<1>4. asked' \subseteq Reviewers /\ faults' \in 0 .. MaxFaults
  BY <1>0 DEF TypeOK, deskVars, ClaimAnswered
<1> QED
  BY <1>1, <1>2, <1>3, <1>4, HandlerMoves DEF ClaimAnswered, deskVars

LEMMA CallFailsKeeps ==
    ASSUME DeskInv, NEW h \in Handlers, CallFails(h)
    PROVE  DeskInv'
<1>0. TypeOK /\ EstablishedFor(h) /\ handler[h].at \notin {"idle", "start", "excuse"}
  BY DEF DeskInv, WorkflowInv, Established, CallFails
<1>1. /\ handler' \in [Handlers -> Handling]
      /\ handler'[h].at = "excuse" /\ handler'[h].update = handler[h].update
      /\ \A g \in Handlers \ {h} : handler'[g] = handler[g]
  <2>1. "excuse" \in Stages /\ 0 \in 0 .. MaxPrompts
    BY BoundsAssumption DEF Stages
  <2>2. handler' = [handler EXCEPT ![h].at = "excuse", ![h].prompt = 0]
    BY DEF CallFails
  <2> QED
    BY <1>0, <2>1, <2>2, AdvanceFacts
<1>2. EstablishedFor(h)'
  BY <1>0, <1>1, ExcuseEstablished DEF CallFails
<1>3. faults' \in 0 .. MaxFaults
  BY <1>0, BoundsAssumption DEF TypeOK, CallFails, GoesWrong
<1>4. asked' \subseteq Reviewers
  BY <1>0 DEF CallFails, EstablishedFor, TypeOK
<1>5. told' = told /\ told' \subseteq 1 .. Len(inbox) /\ busy' \in Handlers \cup {NoOne}
  BY <1>0 DEF CallFails, TypeOK
<1> QED
  BY <1>1, <1>2, <1>3, <1>4, <1>5, HandlerMoves DEF CallFails

-----------------------------------------------------------------------------
(* The order's review moves on.                                            *)

LEMMA ClaimKeeps ==
    ASSUME DeskInv, NEW h \in Handlers, Claim(h)
    PROVE  DeskInv'
<1>0. TypeOK /\ EstablishedFor(h) /\ "granting" \in Stages /\ handler[h].at = "start"
  BY DEF DeskInv, WorkflowInv, Established, Stages, Claim, Starts
<1>1. CASE MayClaim(By(h))
  <2>0. /\ review' = [review EXCEPT !.state = "claimed", !.reviewer = By(h)]
        /\ Await(h, "granting") /\ By(h) \in Users
        /\ UNCHANGED <<deskVars, acked, ledger, prompts, asked, told>>
    BY <1>1, UsersAssumption DEF Claim
  <2>1. /\ handler' \in [Handlers -> Handling] /\ busy' = NoOne
        /\ handler'[h].at = "granting" /\ handler'[h].update = handler[h].update
        /\ \A g \in Handlers \ {h} : handler'[g] = handler[g]
    BY <1>0, <2>0, AwaitFacts
  <2>2. /\ review' \in Case /\ review'.state = "claimed"
        /\ review.state \in {"dispatched", "claimed"}
    BY <1>0, <1>1, <2>0 DEF TypeOK, Case, MayClaim, ClaimedBy
  <2>3. PromptsOnward /\ UsedAsDecided /\ ReviewOnward
    BY <1>0, <2>0, <2>2, SamePrompts DEF ReviewOnward
  <2>4. Onward
    BY <2>0, <2>3 DEF Onward, LedgerOnward, deskVars
  <2>5. EstablishedFor(h)'
    BY <1>0, <2>0, <2>1 DEF EstablishedFor, Claim, By, deskVars
  <2>6. \A g \in Handlers : EstablishedFor(g)'
    BY <2>1, <2>4, <2>5, OthersStay
  <2>7. OnePromptInForce' /\ VerdictWasMeant' /\ Unclaimed'
    BY <2>0, <2>2, <2>3, <2>4, PromptInForceStays, VerdictStays DEF Unclaimed, deskVars
  <2>8. /\ told' = told /\ told' \subseteq 1 .. Len(inbox) /\ asked' \subseteq Reviewers
        /\ faults' \in 0 .. MaxFaults /\ slaOver' \in BOOLEAN
    BY <1>0, <2>0 DEF TypeOK, deskVars
  <2> QED
    BY <2>0, <2>1, <2>3, <2>6, <2>7, <2>8, StageStep DEF deskVars
<1>2. CASE ~MayClaim(By(h))
  BY <1>0, <1>2, TurnedAway DEF Claim
<1> QED
  BY <1>1, <1>2

(***************************************************************************)
(* A verdict that stands is what the message at hand means.                *)
(***************************************************************************)
LEMMA SubmitFacts ==
    ASSUME DeskInv, NEW h \in Handlers, handler[h].at = "start", By(h) \in Reviewers,
           NEW decision \in Decisions, SubmitVerdict(h, decision)
    PROVE  /\ ReviewOnward /\ review'.state = "verdict_submitted"
           /\ \/ review' = review /\ review.state = "verdict_submitted"
              \/ /\ review.state = "claimed" /\ review'.reviewer = By(h)
                 /\ review'.decision = decision
           /\ handler' \in [Handlers -> Handling] /\ busy' = h
           /\ handler'[h].at = "verdict" /\ handler'[h].update = handler[h].update
           /\ \A g \in Handlers \ {h} : handler'[g] = handler[g]
<1>0. TypeOK /\ By(h) \in Users
  BY UsersAssumption DEF DeskInv, WorkflowInv
<1>1. /\ handler' \in [Handlers -> Handling] /\ busy' = h
      /\ handler'[h].at = "verdict" /\ handler'[h].update = handler[h].update
      /\ \A g \in Handlers \ {h} : handler'[g] = handler[g]
  BY <1>0 DEF SubmitVerdict, TypeOK, Handling, Stages
<1>2. CASE ClaimedBy(By(h)) /\ review' = [review EXCEPT !.state = "verdict_submitted",
                                                       !.decision = decision]
  <2>1. /\ review' \in Case /\ review'.state = "verdict_submitted"
        /\ review.state = "claimed" /\ review'.reviewer = By(h)
        /\ review'.decision = decision
    BY <1>0, <1>2 DEF TypeOK, Case, ClaimedBy
  <2> QED
    BY <1>1, <2>1 DEF ReviewOnward
<1>3. CASE review.state = "verdict_submitted" /\ review' = review
  BY <1>0, <1>1, <1>3, SameReview
<1> QED
  BY <1>2, <1>3 DEF SubmitVerdict

LEMMA VerdictKeeps ==
    ASSUME DeskInv, NEW h \in Handlers, handler[h].at = "start", By(h) \in Reviewers,
           NEW decision \in Decisions, SubmitVerdict(h, decision),
           Meant(handler[h].update) = decision,
           Message(h).does = "reply" => ClaimedBy(By(h)),
           UNCHANGED <<deskVars, acked, ledger, prompts, asked, told>>
    PROVE  DeskInv'
<1>0. TypeOK /\ EstablishedFor(h) /\ RepliesArePossible /\ VerdictWasMeant
  BY DEF DeskInv, WorkflowInv, Established
<1>1. /\ ReviewOnward /\ review'.state = "verdict_submitted"
      /\ \/ review' = review /\ review.state = "verdict_submitted"
         \/ /\ review.state = "claimed" /\ review'.reviewer = By(h)
            /\ review'.decision = decision
      /\ handler' \in [Handlers -> Handling] /\ busy' = h
      /\ handler'[h].at = "verdict" /\ handler'[h].update = handler[h].update
      /\ \A g \in Handlers \ {h} : handler'[g] = handler[g]
  BY SubmitFacts
<1>2. PromptsOnward /\ UsedAsDecided
  BY <1>0, SamePrompts
<1>3. Onward
  BY <1>1, <1>2 DEF Onward, LedgerOnward, deskVars
<1>4. PICK u \in 1 .. Len(inbox) : u = handler[h].update /\ ledger[u].status # "unseen"
  BY <1>0 DEF EstablishedFor
<1>5. Meant(u)' = decision
  <2>1. Meant(u) = decision
    BY <1>4
  <2>2. Meant(u)' = Meant(u)
    BY DEF Meant, deskVars
  <2> QED
    BY <2>1, <2>2
<1>6. EstablishedFor(h)'
  <2>1. By(h)' = By(h) /\ Message(h)' = Message(h)
    BY <1>1 DEF By, Message, deskVars
  <2>2. ASSUME Message(h).does = "reply"
        PROVE  /\ prompts[Message(h).on].by = review'.reviewer
               /\ prompts[Message(h).on].says = review'.decision
    <3>1. review'.reviewer = By(h) /\ review'.decision = decision
      BY <1>1, <2>2 DEF ClaimedBy
    <3>2. prompts[Message(h).on].by = By(h)
      BY <1>0, <1>4, <2>2 DEF RepliesArePossible, Message, By
    <3>3. Message(h).says = "reason" => prompts[Message(h).on].says = decision
      BY <2>2 DEF Meant, Message
    <3>4. Message(h).says # "reason" => decision = "-"
      BY <2>2 DEF Meant, Message
    <3> QED
      BY <3>1, <3>2, <3>3, <3>4 DEF Decisions
  <2> QED
    BY <1>1, <1>4, <2>1, <2>2 DEF EstablishedFor, deskVars
<1>7. \A g \in Handlers : EstablishedFor(g)'
  BY <1>1, <1>3, <1>6, OthersStay
<1>8. VerdictWasMeant'
  <2>1. CASE review' = review
    BY <1>2, <1>3, <2>1, VerdictStays
  <2>2. CASE review.state = "claimed" /\ review'.reviewer = By(h)
             /\ review'.decision = decision
    <3>1. \A k \in DOMAIN prompts' : prompts'[k].status # "consumed"
      BY <1>0, <2>2 DEF VerdictWasMeant
    <3>2. /\ u \in 1 .. Len(inbox') /\ inbox'[u].by = review'.reviewer
          /\ Meant(u)' = review'.decision /\ ledger'[u].status # "unseen"
      BY <1>4, <1>5, <2>2 DEF By, deskVars
    <3> QED
      BY <3>1, <3>2 DEF VerdictWasMeant
  <2> QED
    BY <1>1, <2>1, <2>2
<1>9. OnePromptInForce' /\ Unclaimed'
  BY <1>1 DEF OnePromptInForce, Unclaimed
<1>10. /\ told' = told /\ told' \subseteq 1 .. Len(inbox) /\ asked' \subseteq Reviewers
       /\ faults' \in 0 .. MaxFaults /\ slaOver' \in BOOLEAN
  BY <1>0 DEF TypeOK, deskVars
<1> QED
  BY <1>1, <1>2, <1>7, <1>8, <1>9, <1>10, StageStep DEF deskVars

LEMMA CommandKeeps ==
    ASSUME DeskInv, NEW h \in Handlers, Command(h)
    PROVE  DeskInv'
<1>0. TypeOK /\ EstablishedFor(h) /\ handler[h].at = "start"
  BY DEF DeskInv, WorkflowInv, Established, Command, Starts
<1>1. handler[h].update \in 1 .. Len(inbox) /\ Message(h).does = "command" /\ By(h) \in Reviewers
  BY <1>0 DEF EstablishedFor, Command, Starts, Message
<1>2. Message(h).says \in Decisions
  BY <1>0, <1>1, Messages DEF Update, Message
<1>3. CASE SubmitVerdict(h, Message(h).says)
  <2>1. Meant(handler[h].update) = Message(h).says
    BY <1>1 DEF Meant, Message
  <2> QED
    BY <1>0, <1>1, <1>2, <1>3, <2>1, VerdictKeeps DEF Command
<1>4. CASE Await(h, "excuse") /\ UNCHANGED review
  BY <1>0, <1>4, TurnedAway DEF Command
<1> QED
  BY <1>3, <1>4 DEF Command, Message

(***************************************************************************)
(* Rows of prompts are rewritten, none is added.                           *)
(***************************************************************************)
LEMMA PromptsRewritten ==
    ASSUME TypeOK, prompts' \in [1 .. Len(prompts) -> Prompt],
           \A k \in 1 .. Len(prompts) :
              prompts'[k].by = prompts[k].by /\ prompts'[k].says = prompts[k].says
    PROVE  /\ PromptsOnward /\ Len(prompts') = Len(prompts)
           /\ DOMAIN prompts' = 1 .. Len(prompts)
<1>1. prompts' \in Seq(Prompt) /\ Len(prompts') = Len(prompts)
  BY Recast
<1>2. Len(prompts) \in Nat /\ Len(prompts) <= MaxPrompts
  BY Messages, BoundsAssumption
<1> QED
  BY <1>1, <1>2 DEF PromptsOnward

LEMMA OneRewritten ==
    ASSUME TypeOK, NEW k \in 1 .. Len(prompts), NEW status \in PromptStatus,
           NEW s, s \in [1 .. Len(prompts) -> Prompt]
    PROVE  LET t == [s EXCEPT ![k].status = status] IN
           /\ t \in [1 .. Len(prompts) -> Prompt]
           /\ t[k].by = s[k].by /\ t[k].says = s[k].says /\ t[k].status = status
           /\ \A j \in 1 .. Len(prompts) : j # k => t[j] = s[j]
BY DEF Prompt

LEMMA Superseding ==
    ASSUME TypeOK
    PROVE  /\ SupersedeActive \in [1 .. Len(prompts) -> Prompt]
           /\ \A k \in 1 .. Len(prompts) :
                 /\ SupersedeActive[k].by = prompts[k].by
                 /\ SupersedeActive[k].says = prompts[k].says
                 /\ SupersedeActive[k].status # "active"
                 /\ SupersedeActive[k].status = "consumed" => prompts[k].status = "consumed"
<1>1. DOMAIN prompts = 1 .. Len(prompts) /\ \A k \in 1 .. Len(prompts) : prompts[k] \in Prompt
  BY Messages
<1>2. ASSUME NEW k \in 1 .. Len(prompts)
      PROVE  LET p == [prompts[k] EXCEPT !.status = "superseded"] IN
             /\ p \in Prompt /\ p.by = prompts[k].by /\ p.says = prompts[k].says
             /\ p.status = "superseded"
  BY <1>1 DEF Prompt, PromptStatus
<1> QED
  BY <1>1, <1>2 DEF SupersedeActive

LEMMA ReplyKeeps ==
    ASSUME DeskInv, NEW h \in Handlers, Reply(h)
    PROVE  DeskInv'
<1>0. TypeOK /\ EstablishedFor(h) /\ RepliesArePossible /\ Unclaimed /\ handler[h].at = "start"
  BY DEF DeskInv, WorkflowInv, Established, Reply, Starts
<1>1. handler[h].update \in 1 .. Len(inbox) /\ Message(h).does = "reply" /\ By(h) \in Reviewers
  BY <1>0 DEF EstablishedFor, Reply, Starts, Message
<1> DEFINE on == Message(h).on
<1>2. on \in 1 .. Len(prompts) /\ prompts[on] \in Prompt
  BY <1>0, <1>1, Messages DEF RepliesArePossible, Message
<1>3. CASE Usable(h)
  <2>1. RepliedTo(h).says \in Decisions /\ SubmitVerdict(h, RepliedTo(h).says)
    BY <1>2, <1>3 DEF Reply, RepliedTo, Message, Prompt
  <2>2. Meant(handler[h].update) = RepliedTo(h).says
    BY <1>1, <1>3 DEF Meant, RepliedTo, Message, Usable
  <2>3. ClaimedBy(By(h))
    BY <1>3 DEF Usable
  <2>4. UNCHANGED <<deskVars, acked, ledger, prompts, asked, told>>
    BY <1>3 DEF Reply
  <2> QED
    BY <1>0, <1>1, <2>1, <2>2, <2>3, <2>4, VerdictKeeps
<1>4. CASE ~Usable(h) /\ prompts' = prompts
  BY <1>0, <1>4, TurnedAway DEF Reply
<1>5. CASE ~Usable(h) /\ slaOver /\ prompts' = [prompts EXCEPT ![on].status = "expired"]
  <2>1. /\ prompts' \in [1 .. Len(prompts) -> Prompt] /\ prompts'[on].status = "expired"
        /\ prompts'[on].by = prompts[on].by /\ prompts'[on].says = prompts[on].says
        /\ \A j \in 1 .. Len(prompts) : j # on => prompts'[j] = prompts[j]
    <3>1. "expired" \in PromptStatus /\ prompts \in [1 .. Len(prompts) -> Prompt]
      BY <1>0, Messages DEF PromptStatus
    <3> HIDE DEF on
    <3> QED
      BY <1>0, <1>2, <1>5, <3>1, OneRewritten
  <2>2. PromptsOnward /\ Len(prompts') = Len(prompts)
    BY <1>0, <2>1, PromptsRewritten
  <2>3. UsedAsDecided
    BY <2>1, <2>2 DEF UsedAsDecided
  <2>4. ReviewOnward /\ review' = review
    BY <1>0, <1>5, SameReview DEF Reply
  <2>5. Onward
    BY <1>5, <2>2, <2>4 DEF Onward, LedgerOnward, Reply, deskVars
  <2>6. Await(h, "excuse") /\ "excuse" \in Stages
    BY <1>5 DEF Reply, Stages
  <2>7. /\ handler' \in [Handlers -> Handling] /\ busy' = NoOne
        /\ handler'[h].at = "excuse" /\ handler'[h].update = handler[h].update
        /\ \A g \in Handlers \ {h} : handler'[g] = handler[g]
    BY <1>0, <2>6, AwaitFacts
  <2>8. \A g \in Handlers : EstablishedFor(g)'
    BY <1>0, <2>5, <2>7, ExcuseEstablished, OthersStay DEF Reply, deskVars
  <2>9. OnePromptInForce' /\ VerdictWasMeant'
    BY <1>5, <2>3, <2>4, <2>5, VerdictStays DEF OnePromptInForce, Reply, deskVars
  <2>10. Unclaimed'
    <3>1. ASSUME review.state = "dispatched" PROVE FALSE
      <4>1. Len(prompts) = 0
        BY <1>0, <3>1, EmptySeq DEF Unclaimed
      <4> QED
        BY <1>2, <4>1
    <3> QED
      BY <2>4, <3>1 DEF Unclaimed
  <2>11. /\ told' = told /\ told' \subseteq 1 .. Len(inbox) /\ asked' \subseteq Reviewers
         /\ faults' \in 0 .. MaxFaults /\ slaOver' \in BOOLEAN
    BY <1>0 DEF TypeOK, deskVars, Reply
  <2> QED
    BY <2>2, <2>4, <2>7, <2>8, <2>9, <2>10, <2>11, StageStep DEF Reply, deskVars
<1> QED
  BY <1>3, <1>4, <1>5 DEF Reply, Message

-----------------------------------------------------------------------------
(* The prompts.                                                            *)

LEMMA FinalizePromptKeeps ==
    ASSUME DeskInv, NEW h \in Handlers, FinalizePrompt(h)
    PROVE  DeskInv'
<1>0. /\ TypeOK /\ EstablishedFor(h) /\ RepliesArePossible /\ VerdictWasMeant
      /\ handler[h].at = "verdict" /\ review.state = "verdict_submitted"
  BY DEF DeskInv, WorkflowInv, Established, EstablishedFor, FinalizePrompt
<1> DEFINE on == Message(h).on
<1>1. /\ prompts' \in [1 .. Len(prompts) -> Prompt]
      /\ \A k \in 1 .. Len(prompts) :
            /\ prompts'[k].by = prompts[k].by /\ prompts'[k].says = prompts[k].says
            /\ prompts'[k].status = "consumed" =>
                  \/ prompts[k].status = "consumed"
                  \/ prompts[k].by = review.reviewer /\ prompts[k].says = review.decision
  <2>1. CASE Message(h).does = "reply"
    <3>1. /\ on \in 1 .. Len(prompts)
          /\ prompts[on].by = review.reviewer /\ prompts[on].says = review.decision
      BY <1>0, <2>1 DEF RepliesArePossible, Message, EstablishedFor
    <3>2. prompts' = [prompts EXCEPT ![on].status = "consumed"]
      BY <2>1 DEF FinalizePrompt, Message
    <3>3. "consumed" \in PromptStatus /\ prompts \in [1 .. Len(prompts) -> Prompt]
      BY <1>0, Messages DEF PromptStatus
    <3> HIDE DEF on
    <3>4. /\ prompts' \in [1 .. Len(prompts) -> Prompt]
          /\ prompts'[on].by = prompts[on].by /\ prompts'[on].says = prompts[on].says
          /\ \A j \in 1 .. Len(prompts) : j # on => prompts'[j] = prompts[j]
      BY <1>0, <3>1, <3>2, <3>3, OneRewritten
    <3> QED
      BY <3>1, <3>4
  <2>2. CASE Message(h).does # "reply"
    <3>1. prompts' = SupersedeActive
      BY <2>2 DEF FinalizePrompt, Message
    <3> QED
      BY <1>0, <3>1, Superseding
  <2> QED
    BY <2>1, <2>2
<1>2. PromptsOnward /\ Len(prompts') = Len(prompts)
  BY <1>0, <1>1, PromptsRewritten
<1>3. ReviewOnward /\ review' = review
  BY <1>0, SameReview DEF FinalizePrompt
<1>4. UsedAsDecided
  BY <1>0, <1>1, <1>2, <1>3 DEF UsedAsDecided
<1>5. Onward
  BY <1>2, <1>3 DEF Onward, LedgerOnward, FinalizePrompt, deskVars
<1>6. Await(h, "noting") /\ "noting" \in Stages
  BY DEF FinalizePrompt, Stages
<1>7. /\ handler' \in [Handlers -> Handling] /\ busy' = NoOne
      /\ handler'[h].at = "noting" /\ handler'[h].update = handler[h].update
      /\ \A g \in Handlers \ {h} : handler'[g] = handler[g]
  BY <1>0, <1>6, AwaitFacts
<1>8. EstablishedFor(h)'
  BY <1>0, <1>7 DEF EstablishedFor, FinalizePrompt, By, deskVars
<1>9. \A g \in Handlers : EstablishedFor(g)'
  BY <1>5, <1>7, <1>8, OthersStay
<1>10. OnePromptInForce' /\ Unclaimed'
  BY <1>0, <1>3 DEF OnePromptInForce, Unclaimed
<1>11. VerdictWasMeant'
  BY <1>3, <1>4, <1>5, VerdictStays
<1>12. /\ told' = told /\ told' \subseteq 1 .. Len(inbox) /\ asked' \subseteq Reviewers
       /\ faults' \in 0 .. MaxFaults /\ slaOver' \in BOOLEAN
  BY <1>0 DEF TypeOK, deskVars, FinalizePrompt
<1> QED
  BY <1>2, <1>3, <1>7, <1>9, <1>10, <1>11, <1>12, StageStep DEF FinalizePrompt, deskVars

LEMMA PromptGoesOutKeeps ==
    ASSUME DeskInv, NEW h \in Handlers, PromptGoesOut(h)
    PROVE  DeskInv'
<1>0. /\ TypeOK /\ EstablishedFor(h) /\ OnePromptInForce /\ handler[h].at = "prompting"
      /\ Message(h).does = "choose" /\ review.state # "dispatched"
      /\ handler[h].update \in 1 .. Len(inbox) /\ By(h) \in Users
  BY UsersAssumption
  DEF DeskInv, WorkflowInv, Established, EstablishedFor, PromptGoesOut
<1>1. Len(prompts) \in Nat /\ prompts \in Seq(Prompt) /\ DOMAIN prompts = 1 .. Len(prompts)
  BY <1>0, Messages, BoundsAssumption
<1> DEFINE new == [by |-> By(h), status |-> "unrecorded", says |-> Message(h).says]
<1>2. new \in Prompt /\ new.status = "unrecorded"
  <2>1. Message(h).says \in Decisions
    BY <1>0, Messages DEF Message, Update
  <2> QED
    BY <1>0, <2>1 DEF Prompt, PromptStatus
<1>3. prompts' = Append(prompts, new)
  BY DEF PromptGoesOut, Message
<1> HIDE DEF new
<1>4. /\ prompts' \in Seq(Prompt) /\ Len(prompts') = Len(prompts) + 1
      /\ \A k \in 1 .. Len(prompts) : prompts'[k] = prompts[k]
      /\ prompts'[Len(prompts) + 1] = new /\ DOMAIN prompts' = 1 .. Len(prompts')
  BY <1>1, <1>2, <1>3, AppendProperties, LenProperties
<1>5. PromptsOnward /\ Len(prompts') \in 0 .. MaxPrompts
  BY <1>1, <1>4, BoundsAssumption DEF PromptsOnward, PromptGoesOut
<1>6. UsedAsDecided
  BY <1>1, <1>2, <1>4 DEF UsedAsDecided
<1>7. ReviewOnward /\ review' = review
  BY <1>0, SameReview DEF PromptGoesOut
<1>8. Onward
  BY <1>5, <1>7 DEF Onward, LedgerOnward, PromptGoesOut, deskVars
<1>9. /\ handler' \in [Handlers -> Handling]
      /\ handler'[h].at = "prompted" /\ handler'[h].update = handler[h].update
      /\ handler'[h].prompt = Len(prompts')
      /\ \A g \in Handlers \ {h} : handler'[g] = handler[g]
  <2>1. "prompted" \in Stages
    BY DEF Stages
  <2>2. PICK p \in 0 .. MaxPrompts : p = Len(prompts')
    BY <1>5
  <2>3. handler' = [handler EXCEPT ![h].at = "prompted", ![h].prompt = p]
    BY <2>2 DEF PromptGoesOut
  <2> QED
    BY <1>0, <2>1, <2>2, <2>3, AdvanceFacts
<1>10. EstablishedFor(h)'
  BY <1>0, <1>1, <1>4, <1>7, <1>9
  DEF EstablishedFor, PromptGoesOut, By, Message, deskVars
<1>11. \A g \in Handlers : EstablishedFor(g)'
  BY <1>8, <1>9, <1>10, OthersStay
<1>12. OnePromptInForce'
  <2> SUFFICES ASSUME review.state = "claimed", ~slaOver,
                      NEW k \in DOMAIN prompts', prompts'[k].status # "unrecorded"
               PROVE  \E i \in DOMAIN prompts' :
                         \A j \in DOMAIN prompts' : prompts'[j].status = "active" <=> j = i
    BY <1>7 DEF OnePromptInForce, PromptGoesOut, deskVars
  <2>1. k \in DOMAIN prompts /\ prompts[k].status # "unrecorded"
    BY <1>1, <1>2, <1>4
  <2>2. PICK i \in DOMAIN prompts : \A j \in DOMAIN prompts : prompts[j].status = "active" <=> j = i
    BY <1>0, <2>1 DEF OnePromptInForce
  <2>3. i \in DOMAIN prompts'
    BY <1>1, <1>4
  <2>4. \A j \in DOMAIN prompts' : prompts'[j].status = "active" <=> j = i
    BY <1>1, <1>2, <1>4, <2>2
  <2> QED
    BY <2>3, <2>4
<1>13. VerdictWasMeant' /\ Unclaimed'
  BY <1>0, <1>6, <1>7, <1>8, VerdictStays DEF Unclaimed
<1>14. /\ told' = told /\ told' \subseteq 1 .. Len(inbox) /\ asked' \subseteq Reviewers
       /\ faults' \in 0 .. MaxFaults /\ slaOver' \in BOOLEAN /\ busy' \in Handlers \cup {NoOne}
  BY <1>0 DEF TypeOK, deskVars, PromptGoesOut
<1> QED
  BY <1>5, <1>7, <1>9, <1>11, <1>12, <1>13, <1>14, StageStep DEF PromptGoesOut, deskVars

LEMMA CreatePromptKeeps ==
    ASSUME DeskInv, NEW h \in Handlers, CreatePrompt(h)
    PROVE  DeskInv'
<1>0. /\ TypeOK /\ EstablishedFor(h) /\ handler[h].at = "prompted"
      /\ review.state # "dispatched" /\ handler[h].prompt \in 1 .. Len(prompts)
  BY DEF DeskInv, WorkflowInv, Established, EstablishedFor, CreatePrompt
<1>1. PICK p \in 1 .. Len(prompts) : p = handler[h].prompt
  BY <1>0
<1>2. /\ prompts' \in [1 .. Len(prompts) -> Prompt]
      /\ prompts'[p].by = prompts[p].by /\ prompts'[p].says = prompts[p].says
      /\ prompts'[p].status = "active"
      /\ \A j \in 1 .. Len(prompts) : j # p => prompts'[j] = SupersedeActive[j]
  <2>1. SupersedeActive \in [1 .. Len(prompts) -> Prompt] /\ "active" \in PromptStatus
        /\ SupersedeActive[p].by = prompts[p].by /\ SupersedeActive[p].says = prompts[p].says
    BY <1>0, Superseding DEF PromptStatus
  <2>2. prompts' = [SupersedeActive EXCEPT ![p].status = "active"]
    BY <1>1 DEF CreatePrompt
  <2> QED
    BY <1>0, <2>1, <2>2, OneRewritten
<1>3. \A j \in 1 .. Len(prompts) :
         /\ prompts'[j].by = prompts[j].by /\ prompts'[j].says = prompts[j].says
         /\ prompts'[j].status = "active" <=> j = p
         /\ prompts'[j].status = "consumed" => prompts[j].status = "consumed"
  BY <1>0, <1>2, Superseding
<1>4. PromptsOnward /\ Len(prompts') = Len(prompts) /\ DOMAIN prompts' = 1 .. Len(prompts)
  BY <1>0, <1>2, <1>3, PromptsRewritten
<1>5. UsedAsDecided
  BY <1>3, <1>4 DEF UsedAsDecided
<1>6. ReviewOnward /\ review' = review
  BY <1>0, SameReview DEF CreatePrompt
<1>7. Onward
  BY <1>4, <1>6 DEF Onward, LedgerOnward, CreatePrompt, deskVars
<1>8. /\ handler' \in [Handlers -> Handling]
      /\ handler'[h].at = "confirming" /\ handler'[h].update = handler[h].update
      /\ \A g \in Handlers \ {h} : handler'[g] = handler[g]
  <2>1. "confirming" \in Stages /\ 0 \in 0 .. MaxPrompts
    BY BoundsAssumption DEF Stages
  <2>2. handler' = [handler EXCEPT ![h].at = "confirming", ![h].prompt = 0]
    BY DEF CreatePrompt
  <2> QED
    BY <1>0, <2>1, <2>2, AdvanceFacts
<1>9. EstablishedFor(h)'
  BY <1>0, <1>8 DEF EstablishedFor, CreatePrompt, By, deskVars
<1>10. \A g \in Handlers : EstablishedFor(g)'
  BY <1>7, <1>8, <1>9, OthersStay
<1>11. OnePromptInForce'
  BY <1>3, <1>4 DEF OnePromptInForce
<1>12. VerdictWasMeant' /\ Unclaimed'
  BY <1>0, <1>5, <1>6, <1>7, VerdictStays DEF Unclaimed
<1>13. /\ told' = told /\ told' \subseteq 1 .. Len(inbox) /\ asked' \subseteq Reviewers
       /\ faults' \in 0 .. MaxFaults /\ slaOver' \in BOOLEAN /\ busy' \in Handlers \cup {NoOne}
  BY <1>0 DEF TypeOK, deskVars, CreatePrompt
<1> QED
  BY <1>4, <1>6, <1>8, <1>10, <1>11, <1>12, <1>13, StageStep DEF CreatePrompt, deskVars

-----------------------------------------------------------------------------
(* The rest of the system.                                                 *)

LEMMA TimesOutKeeps ==
    ASSUME DeskInv, TimesOut
    PROVE  DeskInv'
<1>0. TypeOK
  BY DEF DeskInv, WorkflowInv
<1>1. /\ review' \in Case /\ review'.state = "over"
      /\ review.state \in {"dispatched", "claimed"}
  BY <1>0 DEF TimesOut, TypeOK, Case
<1>2. PromptsOnward /\ UsedAsDecided /\ ReviewOnward
  BY <1>0, <1>1, SamePrompts DEF ReviewOnward, TimesOut
<1>3. Onward
  BY <1>2 DEF Onward, LedgerOnward, TimesOut, deskVars
<1>4. \A g \in Handlers : EstablishedFor(g)'
  BY <1>3, OthersStay DEF TimesOut
<1>5. OnePromptInForce' /\ VerdictWasMeant' /\ Unclaimed'
  BY <1>1, <1>2, <1>3, VerdictStays DEF OnePromptInForce, Unclaimed
<1>6. /\ told' = told /\ told' \subseteq 1 .. Len(inbox) /\ asked' \subseteq Reviewers
      /\ faults' \in 0 .. MaxFaults /\ slaOver' \in BOOLEAN
      /\ busy' \in Handlers \cup {NoOne} /\ handler' \in [Handlers -> Handling]
  BY <1>0 DEF TypeOK, deskVars, TimesOut, Handling
<1> QED
  BY <1>2, <1>4, <1>5, <1>6, StageStep DEF TimesOut, deskVars

LEMMA SlaElapsesKeeps ==
    ASSUME DeskInv, SlaElapses
    PROVE  DeskInv'
<1>0. TypeOK /\ Unclaimed
  BY DEF DeskInv, WorkflowInv
<1>1. PromptsOnward /\ UsedAsDecided /\ ReviewOnward
  BY <1>0, SamePrompts, SameReview DEF SlaElapses
<1>2. Onward
  BY <1>1 DEF Onward, LedgerOnward, SlaElapses
<1>3. \A g \in Handlers : EstablishedFor(g)'
  BY <1>2, OthersStay DEF SlaElapses
<1>4. OnePromptInForce' /\ VerdictWasMeant' /\ Unclaimed'
  BY <1>0, <1>1, <1>2, VerdictStays DEF OnePromptInForce, Unclaimed, SlaElapses
<1>5. /\ told' = told /\ told' \subseteq 1 .. Len(inbox) /\ asked' \subseteq Reviewers
      /\ faults' \in 0 .. MaxFaults /\ slaOver' \in BOOLEAN
      /\ busy' \in Handlers \cup {NoOne} /\ handler' \in [Handlers -> Handling]
  BY <1>0 DEF TypeOK, SlaElapses, Handling
<1> QED
  BY <1>1, <1>3, <1>4, <1>5, StageStep DEF SlaElapses

LEMMA CrashKeeps ==
    ASSUME DeskInv, Crash
    PROVE  DeskInv'
<1>0. TypeOK /\ Unclaimed
  BY DEF DeskInv, WorkflowInv
<1>1. PromptsOnward /\ UsedAsDecided /\ ReviewOnward
  BY <1>0, SamePrompts, SameReview DEF Crash
<1>2. Onward
  BY <1>1 DEF Onward, LedgerOnward, Crash
<1>3. Idle \in Handling
  BY BoundsAssumption DEF Idle, Handling, Stages
<1>4. handler' \in [Handlers -> Handling] /\ \A g \in Handlers : handler'[g] = Idle
  BY <1>3 DEF Crash
<1>5. \A g \in Handlers : EstablishedFor(g)'
  BY <1>4, IdleStays
<1>6. OnePromptInForce' /\ VerdictWasMeant' /\ Unclaimed'
  BY <1>0, <1>1, <1>2, VerdictStays, PromptInForceStays DEF Unclaimed, Crash
<1>7. faults' \in 0 .. MaxFaults
  BY <1>0, BoundsAssumption DEF TypeOK, Crash, GoesWrong
<1>8. /\ told' = told /\ told' \subseteq 1 .. Len(inbox) /\ asked' \subseteq Reviewers
      /\ slaOver' \in BOOLEAN /\ busy' \in Handlers \cup {NoOne}
  BY <1>0 DEF TypeOK, Crash
<1> QED
  BY <1>1, <1>4, <1>5, <1>6, <1>7, <1>8, StageStep DEF Crash

LEMMA StutterKeeps ==
    ASSUME DeskInv, UNCHANGED vars
    PROVE  DeskInv'
<1>1. Established'
  BY DEF DeskInv, Established, EstablishedFor, By, Message, vars
<1>2. VerdictWasMeant'
  <2>1. \A u \in 1 .. Len(inbox) : Meant(u)' = Meant(u)
    BY DEF Meant, vars
  <2> QED
    BY <2>1 DEF DeskInv, VerdictWasMeant, vars
<1>3. WorkflowInv' /\ RepliesArePossible' /\ ClosedWereTold' /\ Unclaimed'
  BY DEF DeskInv, WorkflowInv, TypeOK, OnePromptInForce, NoUpdateForgotten,
         RepliesArePossible, ClosedWereTold, Unclaimed, vars
<1> QED
  BY <1>1, <1>2, <1>3 DEF DeskInv

LEMMA NextKeeps == DeskInv /\ [Next]_vars => DeskInv'
<1> SUFFICES ASSUME DeskInv, [Next]_vars PROVE DeskInv'
  OBVIOUS
<1>1. ASSUME NEW m \in Repertoire, Write(m) PROVE DeskInv'
  BY <1>1, WriteKeeps
<1>2. ASSUME NEW u \in 1 .. Len(inbox), Webhook(u) \/ LeaseEnds(u) PROVE DeskInv'
  BY <1>2, DuplicateKeeps, DeliverKeeps, LeaseEndsKeeps DEF Webhook
<1>3. ASSUME NEW h \in Handlers, HandlerStep(h) \/ CallFails(h) \/ ExcuseFails(h)
      PROVE  DeskInv'
  BY <1>3, TurnAwayKeeps, ClaimKeeps, ChooseKeeps, CommandKeeps, ReplyKeeps,
     FinalizePromptKeeps, PromptGoesOutKeeps, CreatePromptKeeps, LastAnsweredKeeps,
     ClaimAnsweredKeeps, ButtonsSentKeeps, PromptRefusedKeeps, CallFailsKeeps,
     ExcuseFailsKeeps
  DEF HandlerStep
<1>4. CASE TimesOut \/ SlaElapses \/ Crash
  BY <1>4, TimesOutKeeps, SlaElapsesKeeps, CrashKeeps
<1>5. CASE UNCHANGED vars
  BY <1>5, StutterKeeps
<1> QED
  BY <1>1, <1>2, <1>3, <1>4, <1>5 DEF Next

LEMMA DeskInvHolds == Spec => []DeskInv
<1> QED
  BY InitInv, NextKeeps, PTL DEF Spec

-----------------------------------------------------------------------------
(***************************************************************************)
(* However choices, replies, redeliveries, leases and crashes overlap, the *)
(* rows keep their types, from the first recorded prompt to the verdict    *)
(* there is exactly one to reply to, and every update that Telegram may    *)
(* forget was answered to its sender.                                      *)
(***************************************************************************)
THEOREM Invariance == Spec => []WorkflowInv
<1>1. DeskInv => WorkflowInv
  BY DEF DeskInv
<1> QED
  BY <1>1, DeskInvHolds, PTL

(***************************************************************************)
(* submitVerdict records what a message of the assigned reviewer meant,    *)
(* and finalizing uses up no prompt with another decision.                 *)
(***************************************************************************)
THEOREM VerdictMeant == Spec => []VerdictWasMeant
<1>1. DeskInv => VerdictWasMeant
  BY DEF DeskInv
<1> QED
  BY <1>1, DeskInvHolds, PTL

(***************************************************************************)
(* completeTelegramUpdate closes an update only for the handler whose      *)
(* token is in its row, and that handler is done.                          *)
(***************************************************************************)
ClosesAsHolder ==
    \A u \in 1 .. MaxUpdates :
       (ledger[u].status = "processing" /\ ledger'[u].status = "processed")
          => ledger[u].holder \in Handlers
             /\ handler[ledger[u].holder].update = u
             /\ handler'[ledger[u].holder] = Idle

LEMMA CompleteAsHolder ==
    ASSUME DeskInv, NEW h \in Handlers, handler[h].at # "idle", Complete(h)
    PROVE  ClosesAsHolder
<1>0. TypeOK /\ EstablishedFor(h)
  BY DEF DeskInv, WorkflowInv, Established
<1>1. handler[h].update \in 1 .. MaxUpdates
  BY <1>0, Messages DEF EstablishedFor
<1>2. handler'[h] = Idle
  BY <1>0 DEF Complete, TypeOK
<1> SUFFICES ASSUME NEW u \in 1 .. MaxUpdates,
                    ledger[u].status = "processing", ledger'[u].status = "processed"
             PROVE  ledger[u].holder = h /\ handler[h].update = u
  BY <1>2 DEF ClosesAsHolder
<1>3. ledger' # ledger
  BY SMT
<1>4. Holds(h, handler[h].update)
  BY <1>3 DEF Complete
<1>5. u = handler[h].update
  <2>1. ledger' = [ledger EXCEPT ![handler[h].update].status = "processed",
                                 ![handler[h].update].holder = NoOne,
                                 ![handler[h].update].leaseOver = FALSE]
    BY <1>4 DEF Complete
  <2>2. ledger[handler[h].update].status # "unseen"
    BY <1>4 DEF Holds
  <2> QED
    BY <1>0, <1>1, <2>1, <2>2, RowCloses
<1> QED
  BY <1>4, <1>5 DEF Holds

THEOREM HolderCloses == Spec => OnlyHolderCloses
<1>1. DeskInv /\ [Next]_vars => [ClosesAsHolder]_vars
  <2> SUFFICES ASSUME DeskInv, Next PROVE ClosesAsHolder
    OBVIOUS
  <2>0. TypeOK
    BY DEF DeskInv, WorkflowInv
  <2>1. CASE UNCHANGED ledger
    BY <2>1 DEF ClosesAsHolder
  <2>2. ASSUME NEW h \in Handlers, NEW u \in 1 .. Len(inbox), Deliver(h, u)
        PROVE  ClosesAsHolder
    BY <2>0, <2>2, Messages DEF Deliver, ClosesAsHolder, TypeOK, Reservation
  <2>3. ASSUME NEW u \in 1 .. Len(inbox), LeaseEnds(u) PROVE ClosesAsHolder
    BY <2>0, <2>3, Messages DEF LeaseEnds, ClosesAsHolder, TypeOK, Reservation
  <2>4. ASSUME NEW h \in Handlers, LastAnswered(h) \/ ButtonsSent(h) PROVE ClosesAsHolder
    BY <2>4, CompleteAsHolder DEF LastAnswered, ButtonsSent
  <2>5. ASSUME NEW h \in Handlers, ExcuseFails(h) PROVE ClosesAsHolder
    <3>1. CASE ledger' = ledger
      BY <3>1 DEF ClosesAsHolder
    <3>2. CASE Holds(h, handler[h].update)
      <4>1. EstablishedFor(h) /\ handler[h].at = "excuse" /\ Fail(h)
        BY <2>5 DEF DeskInv, Established, ExcuseFails
      <4>2. handler[h].update \in 1 .. MaxUpdates
        BY <2>0, <4>1, Messages DEF EstablishedFor
      <4>3. ledger' = [ledger EXCEPT ![handler[h].update].status = "failed",
                                     ![handler[h].update].holder = NoOne,
                                     ![handler[h].update].leaseOver = FALSE]
        BY <3>2, <4>1 DEF Fail
      <4>4. /\ ledger'[handler[h].update].status = "failed"
            /\ \A v \in 1 .. MaxUpdates \ {handler[h].update} : ledger'[v] = ledger[v]
        BY <2>0, <3>2, <4>2, <4>3, RowCloses DEF Holds
      <4> QED
        BY <4>4 DEF ClosesAsHolder
    <3> QED
      BY <2>5, <3>1, <3>2 DEF ExcuseFails, Fail
  <2> QED
    BY <2>1, <2>2, <2>3, <2>4, <2>5
    DEF Next, Write, Webhook, Duplicate, HandlerStep, TurnAway, Claim, Choose, Command,
        Reply, FinalizePrompt, PromptGoesOut, CreatePrompt, ClaimAnswered, PromptRefused,
        CallFails, TimesOut, SlaElapses, Crash
<1> QED
  BY <1>1, DeskInvHolds, PTL DEF Spec, OnlyHolderCloses, ClosesAsHolder

=============================================================================
