---------------------------- MODULE DisputePanel ----------------------------
(***************************************************************************)
(* DisputePanel: one case per disputed escrow, decided by reviewers who    *)
(* commit to sealed votes in one window and open them in the next.         *)
(* A commitment is the hash of escrow, reviewer, vote and salt; here it is *)
(* the triple the hash binds, which only its reviewer can open, and only   *)
(* in that escrow's case.  Commitments are public, so a reviewer may also  *)
(* submit a copy of one already on chain.                                  *)
(***************************************************************************)
EXTENDS Token, ArbiterRegistry

CONSTANTS
    Escrows,        \* the clone addresses the factory may create
    EvidenceWindow, \* the three windows of a case, all immutable
    CommitWindow,
    RevealWindow,
    NoCommitment    \* bytes32(0)

Votes == {"RELEASE", "REFUND", "SPLIT"}

PanelSize == 3

Seals == Escrows \X Arbiters \X Votes

ASSUME PanelAssumption ==
    /\ {EvidenceWindow, CommitWindow, RevealWindow} \subseteq Nat \ {0}
    /\ Escrows \subseteq Accounts
    /\ NoCommitment \notin Seals

VARIABLES
    factorySet,     \* factory # address(0)
    cases,          \* _cases
    commitments,    \* _commitments
    revealed        \* _revealed, as the set of reviewers per escrow

panelVars == <<factorySet, cases, commitments, revealed>>

Case == [commitStart : Nat, commitDeadline : Nat, revealDeadline : Nat,
         revealCount : Nat, releaseVotes : Nat, refundVotes : Nat,
         splitVotes : Nat, executed : BOOLEAN]

NoCase == [commitStart |-> 0, commitDeadline |-> 0, revealDeadline |-> 0,
           revealCount |-> 0, releaseVotes |-> 0, refundVotes |-> 0,
           splitVotes |-> 0, executed |-> FALSE]

PanelTypeOK ==
    /\ factorySet \in BOOLEAN
    /\ cases \in [Escrows -> Case]
    /\ commitments \in [Escrows -> [Arbiters -> Seals \cup {NoCommitment}]]
    /\ revealed \in [Escrows -> SUBSET Arbiters]

PanelInit ==
    /\ factorySet = FALSE
    /\ cases = [e \in Escrows |-> NoCase]
    /\ commitments = [e \in Escrows |-> [a \in Arbiters |-> NoCommitment]]
    /\ revealed = [e \in Escrows |-> {}]

-----------------------------------------------------------------------------
Opened(e) == cases[e].commitDeadline # 0

Unexecuted(e) == ~cases[e].executed

\* fault: commitments are taken until the reveal window ends.
CommitOpenTooLong(e, a) ==
    /\ cases[e].commitStart <= now
    /\ now < cases[e].revealDeadline

CommitOpen(e, a) ==
    /\ cases[e].commitStart <= now
    /\ now < cases[e].commitDeadline

RevealOpen(e, a) ==
    /\ cases[e].commitDeadline <= now
    /\ now < cases[e].revealDeadline

Uncommitted(e, a) == commitments[e][a] = NoCommitment

\* fault: a vote can be shown twice.
RevealUnchecked(e, a) == TRUE

NotRevealed(e, a) == a \notin revealed[e]

\* What a reviewer can put on chain: a vote of its own, or a copy.
Submittable(e, a) ==
    LET onChain == {commitments[f][b] : f \in Escrows, b \in Arbiters}
    IN  {<<e, a, v>> : v \in Votes} \cup (onChain \ {NoCommitment})

Opens(e, a, v) == commitments[e][a] = <<e, a, v>>

\* setFactory, once, by the panel's owner.
SetFactory ==
    /\ ~factorySet
    /\ factorySet' = TRUE
    /\ UNCHANGED <<cases, commitments, revealed>>

\* open, called by the escrow; isEscrow is what the factory answers for it.
Open(e, isEscrow) ==
    LET commitStart    == Deadline(EvidenceWindow)
        commitDeadline == commitStart + CommitWindow
        revealDeadline == commitDeadline + RevealWindow
    IN /\ factorySet
       /\ isEscrow
       /\ ~Opened(e)
       /\ revealDeadline <= MaxUint64
       /\ cases' = [cases EXCEPT ![e] =
                [@ EXCEPT !.commitStart = commitStart,
                          !.commitDeadline = commitDeadline,
                          !.revealDeadline = revealDeadline]]
       /\ UNCHANGED <<factorySet, commitments, revealed>>

Commit(e, a) ==
    /\ IsArbiter(a)
    /\ Opened(e)
    /\ Unexecuted(e)
    /\ CommitOpen(e, a)
    /\ Uncommitted(e, a)
    /\ \E seal \in Submittable(e, a) :
            commitments' = [commitments EXCEPT ![e][a] = seal]
    /\ UNCHANGED <<factorySet, cases, revealed>>

One(vote, v) == IF vote = v THEN 1 ELSE 0

Counted(c, v) ==
    [c EXCEPT !.revealCount = c.revealCount + 1,
              !.releaseVotes = c.releaseVotes + One("RELEASE", v),
              !.refundVotes = c.refundVotes + One("REFUND", v),
              !.splitVotes = c.splitVotes + One("SPLIT", v)]

Reveal(e, a, v) ==
    /\ IsArbiter(a)
    /\ Opened(e)
    /\ Unexecuted(e)
    /\ RevealOpen(e, a)
    /\ NotRevealed(e, a)
    /\ Opens(e, a, v)
    /\ revealed' = [revealed EXCEPT ![e] = @ \cup {a}]
    /\ cases' = [cases EXCEPT ![e] = Counted(cases[e], v)]
    /\ UNCHANGED <<factorySet, commitments>>

Executable(e) ==
    \/ cases[e].revealCount >= PanelSize
    \/ now >= cases[e].revealDeadline

\* fault: a single vote is enough.
AnyVoteOutcome(c) ==
    CASE c.releaseVotes >= 1 -> "RELEASE"
      [] c.releaseVotes < 1 /\ c.refundVotes >= 1 -> "REFUND"
      [] OTHER -> "SPLIT"

Outcome(c) ==
    CASE c.releaseVotes >= 2 -> "RELEASE"
      [] c.releaseVotes < 2 /\ c.refundVotes >= 2 -> "REFUND"
      [] OTHER -> "SPLIT"

\* execute up to the call of resolveDispute, which reverts it as a whole.
MarkExecuted(e) ==
    /\ Opened(e)
    /\ Unexecuted(e)
    /\ Executable(e)
    /\ cases' = [cases EXCEPT ![e].executed = TRUE]
    /\ UNCHANGED <<factorySet, commitments, revealed>>

=============================================================================
