--------------------------- MODULE DashboardProofs ---------------------------
(***************************************************************************)
(* For any number of jobs, pinned jobs, window, failures and restarts: the *)
(* feed shows what its events settled, the queue is what waits for a human *)
(* and the index never goes back.                                          *)
(*                                                                         *)
(* The argument: an event of the log stands for something the router never *)
(* takes back (HistoryInv); what a refresh has read is no older than its   *)
(* head, so that it agrees with the events up to there (FlightInv); and no *)
(* two refreshes are in flight (OneInFlight).                              *)
(***************************************************************************)
EXTENDS DashboardSnapshot, RouterProofs, WellFoundedInduction

Said(b, j, names) == log[b].job = j /\ log[b].name \in names

Verdicts == {"AIVerdict", "HumanVerdict"}

Waits == {"Escalated"} \cup HumanResolutions

\* What the events say of the router, then and ever after.
HistoryInv ==
    \A j \in Jobs :
        /\ \A b \in 1..Len(log) :
              /\ Said(b, j, {"JobSubmitted"}) => status[j] # "open"
              /\ Said(b, j, {"AIVerdict"}) => resolutions[j] \in AutoResolutions
              /\ Said(b, j, {"HumanVerdict"}) => resolutions[j] \in HumanResolutions
              /\ Said(b, j, {"Escalated"}) => resolutions[j] \in Waits /\ log[b].arg \in Evidence
              /\ Said(b, j, {"LaneSet"}) =>
                    /\ log[b].arg = lanes[j] \/ \E c \in (b + 1)..Len(log) : Said(c, j, {"LaneSet"})
                    /\ \A c \in 1..b : ~Said(c, j, {"AIVerdict"})
        /\ resolutions[j] = "Escalated" =>
              \E b \in 1..Len(log) :
                  log[b] = [name |-> "Escalated", job |-> j, arg |-> evidence[j]]

SettledBy(head, j) == \E b \in 1..head : Said(b, j, Verdicts)

\* The status read of a job, after the events up to head.
StatusRead(head, j, read) ==
    /\ SettledBy(head, j) => read \in {"completed", "rejected"}
    /\ Since(head, j, "JobSubmitted") /\ status[j] = "submitted" => read = "submitted"

ReceiptShows(row) ==
    row.receipt /\ row.provenance \in {"AI auto", "human"} =>
        /\ row.status \in {"completed", "rejected"}
        /\ row.provenance = "AI auto" => row.lane = "AI"

\* The provenance of a row; blank: while it is not yet backfilled.
Origin(head, j, row, blank) ==
    /\ row.receipt => row.provenance # "none"
    /\ Swept(head, j, {"Escalated"}) # {} /\ Swept(head, j, {"HumanVerdict"}) = {} =>
          row.provenance = "escalated"
    /\ row.provenance = "escalated" => resolutions[j] \in Waits
    /\ Since(head, j, "Escalated") /\ resolutions[j] = "Escalated" =>
          row.provenance \in {"escalated"} \cup blank

RowInv(head, j, row, blank) ==
    StatusRead(head, j, row.status) /\ ReceiptShows(row) /\ Origin(head, j, row, blank)

\* The jobs that the index has to look at are read.
Covers(head, jobs) ==
    \A j \in Evaluated :
        j \in Pinned \/ Swept(head, j, EventNames) # {} => j \in jobs

Blank(phase) == IF phase = "lanes" THEN {"none"} ELSE {}

FlightOK(r) ==
    /\ r.phase \in {"swept", "jobs", "lanes", "rows"}
    /\ r.head \in 0..Len(log) /\ stored.head <= r.head
    /\ r.phase = "jobs" =>
          /\ MapOf(r.jobs, JobStatus) /\ Covers(r.head, DOMAIN r.jobs)
          /\ \A j \in DOMAIN r.jobs : StatusRead(r.head, j, r.jobs[j])
    /\ r.phase \in {"lanes", "rows"} =>
          /\ MapOf(r.rows, FeedRow) /\ Covers(r.head, DOMAIN r.rows)
          /\ \A j \in DOMAIN r.rows : RowInv(r.head, j, r.rows[j], Blank(r.phase))

FlightInv ==
    /\ refresh = [s \in Slots |-> refresh[s]]
    /\ \A s \in Slots : refresh[s] = Idle \/ FlightOK(refresh[s])

OneInFlight == \A s, t \in Slots : refresh[s] # Idle /\ refresh[t] # Idle => s = t

StoredOK ==
    /\ stored = [status |-> stored.status, head |-> stored.head, feed |-> stored.feed,
                 queue |-> stored.queue]
    /\ stored.status \in {"syncing", "ready", "degraded"}
    /\ stored.head \in {NoBlock} \cup 0..Len(log)
    /\ MapOf(stored.feed, FeedRow) /\ MapOf(stored.queue, Evidence)

LogOK == log \in Seq(Event) /\ HistoryInv

DashboardInv ==
    /\ RouterInv /\ LogOK
    /\ StoredOK /\ VerdictsShowTheirSettlement /\ QueueIsTrue
    /\ FlightInv /\ OneInFlight
    /\ age \in 0..(StaleAfter + 1) /\ running \in BOOLEAN /\ failures \in 0..MaxFailures

LEMMA InvImplies == DashboardInv => FeedInv
  BY DEF DashboardInv, FeedInv, DashboardTypeOK, LogOK, StoredOK, FlightInv, FlightOK, RouterInv

LEMMA InitDashboardInv == DashboardInit => DashboardInv
<1> SUFFICES ASSUME DashboardInit PROVE DashboardInv
  OBVIOUS
<1> USE DEF DashboardInit
<1>1. RouterInv
  BY InitRouterInv
<1>2. log \in Seq(Event) /\ Len(log) = 0
  OBVIOUS
<1>3. HistoryInv
  <2>1. 1..Len(log) = {} /\ \A j \in Jobs : resolutions[j] # "Escalated"
    BY <1>2 DEF RouterInit
  <2> HIDE DEF DashboardInit
  <2> QED  BY <2>1 DEF HistoryInv
<1>4. StoredOK /\ VerdictsShowTheirSettlement /\ QueueIsTrue
  BY <1>2 DEF StoredOK, VerdictsShowTheirSettlement, QueueIsTrue, QueueAgreesWithFeed,
     QueuedForItsReason, WaitingIsListed, InitialSnapshot, NoBlock, MapOf
<1>5. FlightInv /\ OneInFlight
  BY DEF FlightInv, OneInFlight
<1> QED  BY <1>1, <1>2, <1>3, <1>4, <1>5, DashboardAssumption DEF DashboardInv, LogOK

-----------------------------------------------------------------------------
(* The latest of some events.                                              *)

LEMMA MaxOfSome ==
    ASSUME NEW n \in Nat, NEW S \in SUBSET (1..n), S # {}
    PROVE  Max(S) \in S /\ \A x \in S : x <= Max(S)
<1> DEFINE T == {n - x : x \in S}
<1>1. T \subseteq Nat /\ T # {}
  <2>1. \A x \in S : x \in 1..n /\ n - x \in Nat
    OBVIOUS
  <2>2. PICK x \in S : TRUE
    OBVIOUS
  <2>3. n - x \in T
    OBVIOUS
  <2> QED  BY <2>1, <2>3
<1> DEFINE R == OpToRel(<, Nat)
<1>2. \E m \in T : \A y \in T : ~(<<y, m>> \in R)
  <2> HIDE DEF T
  <2> QED  BY <1>1, WFMin, NatLessThanWellFounded
<1>3. PICK m \in T : \A y \in T : ~(<<y, m>> \in R)
  BY <1>2
<1>4. PICK x \in S : m = n - x
  OBVIOUS
<1>5. \A y \in S : x >= y
  <2> SUFFICES ASSUME NEW y \in S, ~(x >= y) PROVE FALSE
    OBVIOUS
  <2>1. n - y \in T /\ n - y < m /\ n - y \in Nat /\ m \in Nat
    BY <1>4
  <2> QED  BY <1>3, <2>1 DEF OpToRel
<1>6. Max(S) \in S /\ \A y \in S : Max(S) >= y
  BY <1>5 DEF Max
<1> QED  BY <1>6

LEMMA LatestIs ==
    ASSUME NEW head \in 0..Len(log), log \in Seq(Event), NEW j \in Jobs, NEW names,
           Swept(head, j, names) # {}
    PROVE  \E b \in Swept(head, j, names) :
              /\ LatestOf(head, j, names) = log[b]
              /\ \A c \in Swept(head, j, names) : c <= b
<1>1. head \in Nat
  OBVIOUS
<1>2. Swept(head, j, names) \in SUBSET (1..head)
  BY DEF Swept, Window
<1> QED  BY <1>1, <1>2, MaxOfSome DEF LatestOf

-----------------------------------------------------------------------------
(* What the chain does.                                                    *)

\* A resolution stands, except that a human may follow an escalation, and a job
\* goes from open over submitted to its end.
Onward ==
    /\ \A k \in Jobs : \/ resolutions'[k] = resolutions[k]
                       \/ resolutions[k] = "None"
                       \/ resolutions[k] = "Escalated" /\ resolutions'[k] \in HumanResolutions
    /\ \A k \in Jobs : \/ status'[k] = status[k]
                       \/ status[k] = "open" /\ status'[k] \in {"submitted", "ended"}
                       \/ /\ status[k] = "submitted"
                          /\ status'[k] \in {"completed", "rejected", "ended"}
    /\ expired \subseteq expired'

\* What the event of a block says of the step that mined it.
News(e) ==
    /\ e.name = "JobSubmitted" => status'[e.job] # "open"
    /\ e.name = "AIVerdict" => resolutions'[e.job] \in AutoResolutions
    /\ e.name = "HumanVerdict" => resolutions'[e.job] \in HumanResolutions
    /\ e.name = "Escalated" => resolutions'[e.job] \in Waits /\ e.arg \in Evidence
    /\ e.name = "LaneSet" => lanes'[e.job] = e.arg /\ resolutions[e.job] = "None"
    /\ \A k \in Jobs :
          /\ lanes'[k] = lanes[k] \/ (e.name = "LaneSet" /\ e.job = k)
          /\ resolutions'[k] = "Escalated" =>
                \/ resolutions[k] = "Escalated" /\ evidence'[k] = evidence[k]
                \/ e = [name |-> "Escalated", job |-> k, arg |-> evidence'[k]]

LogGrows == log' = log \/ \E e \in Event : log' = Append(log, e)

LEMMA Appended ==
    ASSUME log \in Seq(Event), NEW e \in Event, log' = Append(log, e)
    PROVE  /\ log' \in Seq(Event) /\ Len(log') = Len(log) + 1 /\ Len(log) \in Nat
           /\ log'[Len(log')] = e
           /\ \A b \in 1..Len(log) : log'[b] = log[b]
  OBVIOUS

LEMMA HistoryGrows ==
    ASSUME RouterInv, LogOK, RouterInv', Onward,
           NEW e \in Event, log' = Append(log, e), News(e)
    PROVE  LogOK'
<1>1. /\ log' \in Seq(Event) /\ Len(log') = Len(log) + 1 /\ Len(log) \in Nat
      /\ log'[Len(log')] = e
      /\ \A b \in 1..Len(log) : log'[b] = log[b]
  BY Appended DEF LogOK
<1>n. PICK n : n = Len(log)
  OBVIOUS
<1>2. n \in Nat /\ Len(log') = n + 1 /\ log'[n + 1] = e
  BY <1>1, <1>n
<1>s. ASSUME NEW j, NEW names
      PROVE  /\ \A b \in 1..n : Said(b, j, names)' <=> Said(b, j, names)
             /\ Said(n + 1, j, names)' <=> e.job = j /\ e.name \in names
  BY <1>1, <1>2, <1>n DEF Said
<1>3. ASSUME NEW j \in Jobs PROVE
        /\ \A b \in 1..(n + 1) :
              /\ Said(b, j, {"JobSubmitted"})' => status'[j] # "open"
              /\ Said(b, j, {"AIVerdict"})' => resolutions'[j] \in AutoResolutions
              /\ Said(b, j, {"HumanVerdict"})' => resolutions'[j] \in HumanResolutions
              /\ Said(b, j, {"Escalated"})' => resolutions'[j] \in Waits /\ log'[b].arg \in Evidence
              /\ Said(b, j, {"LaneSet"})' =>
                    /\ \/ log'[b].arg = lanes'[j]
                       \/ \E c \in (b + 1)..(n + 1) : Said(c, j, {"LaneSet"})'
                    /\ \A c \in 1..b : ~Said(c, j, {"AIVerdict"})'
        /\ resolutions'[j] = "Escalated" =>
              \E b \in 1..(n + 1) :
                  log'[b] = [name |-> "Escalated", job |-> j, arg |-> evidence'[j]]
  <2>o. /\ \/ resolutions'[j] = resolutions[j]
           \/ resolutions[j] = "None"
           \/ resolutions[j] = "Escalated" /\ resolutions'[j] \in HumanResolutions
        /\ status'[j] = "open" => status[j] = "open"
    BY DEF Onward
  <2>h. /\ \A b \in 1..n :
              /\ Said(b, j, {"JobSubmitted"}) => status[j] # "open"
              /\ Said(b, j, {"AIVerdict"}) => resolutions[j] \in AutoResolutions
              /\ Said(b, j, {"HumanVerdict"}) => resolutions[j] \in HumanResolutions
              /\ Said(b, j, {"Escalated"}) => resolutions[j] \in Waits /\ log[b].arg \in Evidence
              /\ Said(b, j, {"LaneSet"}) =>
                    /\ log[b].arg = lanes[j] \/ \E c \in (b + 1)..n : Said(c, j, {"LaneSet"})
                    /\ \A c \in 1..b : ~Said(c, j, {"AIVerdict"})
        /\ resolutions[j] = "Escalated" =>
              \E b \in 1..n : log[b] = [name |-> "Escalated", job |-> j, arg |-> evidence[j]]
    BY <1>n DEF LogOK, HistoryInv
  <2>1. ASSUME NEW b \in 1..(n + 1) PROVE
              /\ Said(b, j, {"JobSubmitted"})' => status'[j] # "open"
              /\ Said(b, j, {"AIVerdict"})' => resolutions'[j] \in AutoResolutions
              /\ Said(b, j, {"HumanVerdict"})' => resolutions'[j] \in HumanResolutions
              /\ Said(b, j, {"Escalated"})' => resolutions'[j] \in Waits /\ log'[b].arg \in Evidence
    <3>1. CASE b = n + 1
      BY <1>2, <1>s, <3>1 DEF News
    <3>2. CASE b \in 1..n
      BY <1>1, <1>n, <1>s, <2>o, <2>h, <3>2 DEF AutoResolutions, HumanResolutions, Waits
    <3> QED  BY <1>2, <3>1, <3>2
  <2>2. ASSUME NEW b \in 1..(n + 1), Said(b, j, {"LaneSet"})'
        PROVE  /\ \/ log'[b].arg = lanes'[j]
                  \/ \E c \in (b + 1)..(n + 1) : Said(c, j, {"LaneSet"})'
               /\ \A c \in 1..b : ~Said(c, j, {"AIVerdict"})'
    <3>1. CASE b = n + 1
      <4>1. e.job = j /\ e.name = "LaneSet"
        BY <1>s, <2>2, <3>1
      <4>2. lanes'[j] = e.arg /\ resolutions[j] = "None"
        BY <4>1 DEF News
      <4>3. \A c \in 1..n : ~Said(c, j, {"AIVerdict"})
        BY <2>h, <4>2 DEF AutoResolutions
      <4>4. ASSUME NEW c \in 1..b PROVE ~Said(c, j, {"AIVerdict"})'
        <5>1. CASE c = n + 1
          BY <1>s, <4>1, <5>1
        <5>2. CASE c \in 1..n
          BY <1>s, <4>3, <5>2
        <5> QED  BY <1>2, <3>1, <5>1, <5>2
      <4> QED  BY <1>2, <3>1, <4>2, <4>4
    <3>2. CASE b \in 1..n
      <4>1. Said(b, j, {"LaneSet"}) /\ log'[b] = log[b]
        BY <1>1, <1>s, <2>2, <3>2, <1>n
      <4>2. ASSUME NEW c \in 1..b PROVE ~Said(c, j, {"AIVerdict"})'
        <5>1. ~Said(c, j, {"AIVerdict"})
          BY <2>h, <3>2, <4>1
        <5>2. c \in 1..n
          BY <1>2, <3>2
        <5> QED  BY <1>s, <5>1, <5>2
      <4>3. CASE e.name = "LaneSet" /\ e.job = j
        <5>1. Said(n + 1, j, {"LaneSet"})' /\ n + 1 \in (b + 1)..(n + 1)
          BY <1>2, <1>s, <3>2, <4>3
        <5> QED  BY <4>2, <5>1
      <4>4. CASE lanes'[j] = lanes[j]
        BY <1>2, <1>s, <2>h, <3>2, <4>1, <4>2, <4>4
      <4> QED  BY <4>3, <4>4 DEF News
    <3> QED  BY <1>2, <3>1, <3>2
  <2>3. ASSUME resolutions'[j] = "Escalated"
        PROVE  \E b \in 1..(n + 1) :
                  log'[b] = [name |-> "Escalated", job |-> j, arg |-> evidence'[j]]
    <3>1. CASE resolutions[j] = "Escalated" /\ evidence'[j] = evidence[j]
      BY <1>1, <1>2, <2>h, <3>1, <1>n
    <3>2. CASE e = [name |-> "Escalated", job |-> j, arg |-> evidence'[j]]
      BY <1>2, <3>2
    <3> QED  BY <2>3, <3>1, <3>2 DEF News
  <2> QED  BY <2>1, <2>2, <2>3
<1> QED  BY <1>1, <1>2, <1>3 DEF LogOK, HistoryInv

LEMMA HistoryStays ==
    ASSUME RouterInv, LogOK, Onward, log' = log, UNCHANGED <<recordVars, lanes>>
    PROVE  LogOK'
  BY DEF LogOK, HistoryInv, Onward, Said, recordVars

\* What the index holds of the events it has seen stays as true as it was.
LEMMA SweptStays ==
    ASSUME log \in Seq(Event), LogGrows, NEW head \in 0..Len(log), NEW j \in Jobs
    PROVE  /\ head \in 0..Len(log')
           /\ \A names : Swept(head, j, names)' = Swept(head, j, names)
           /\ \A name : Since(head, j, name)' <=> Since(head, j, name)
           /\ SettledBy(head, j)' <=> SettledBy(head, j)
<1>1. /\ Len(log) \in Nat /\ Len(log') \in Nat /\ Len(log) <= Len(log')
      /\ \A b \in 1..Len(log) : log'[b] = log[b]
  BY Appended DEF LogGrows
<1>2. \A b \in 1..head : log'[b] = log[b]
  BY <1>1
<1>3. ASSUME NEW names PROVE Swept(head, j, names)' = Swept(head, j, names)
  BY <1>2 DEF Swept, Window
<1> QED  BY <1>1, <1>2, <1>3 DEF Since, SettledBy, Said

LEMMA OnwardOf ==
    ASSUME Onward, NEW j \in Jobs
    PROVE  /\ resolutions[j] \in Waits => resolutions'[j] \in Waits
           /\ resolutions[j] \in HumanResolutions => resolutions'[j] \in HumanResolutions
           /\ resolutions[j] \in Waits /\ resolutions'[j] = "Escalated" =>
                 resolutions[j] = "Escalated"
           /\ status[j] # "open" /\ status'[j] = "submitted" => status[j] = "submitted"
  BY DEF Onward, Waits, HumanResolutions

\* An event that has been seen says something of the router.
LEMMA SinceSays ==
    ASSUME LogOK, NEW head \in 0..Len(log), NEW j \in Jobs
    PROVE  /\ Since(head, j, "JobSubmitted") => status[j] # "open"
           /\ Since(head, j, "Escalated") => resolutions[j] \in Waits
<1>1. \A b \in 1..head : b \in 1..Len(log)
  OBVIOUS
<1> QED  BY <1>1 DEF LogOK, HistoryInv, Since, Said

LEMMA ReadStays ==
    ASSUME LogOK, Onward, LogGrows, NEW head \in 0..Len(log), NEW j \in Jobs, NEW read,
           StatusRead(head, j, read)
    PROVE  StatusRead(head, j, read)'
<1>1. log \in Seq(Event)
  BY DEF LogOK
<1>2. /\ Since(head, j, "JobSubmitted")' <=> Since(head, j, "JobSubmitted")
      /\ SettledBy(head, j)' <=> SettledBy(head, j)
  BY <1>1, SweptStays
<1>3. Since(head, j, "JobSubmitted") /\ status'[j] = "submitted" => status[j] = "submitted"
  BY SinceSays, OnwardOf
<1> QED  BY <1>2, <1>3 DEF StatusRead

LEMMA RowStays ==
    ASSUME LogOK, Onward, LogGrows, NEW head \in 0..Len(log), NEW j \in Jobs, NEW row,
           NEW blank, RowInv(head, j, row, blank)
    PROVE  RowInv(head, j, row, blank)'
<1>1. StatusRead(head, j, row.status)'
  BY ReadStays DEF RowInv
<1>2. log \in Seq(Event)
  BY DEF LogOK
<1>3. /\ \A names : Swept(head, j, names)' = Swept(head, j, names)
      /\ Since(head, j, "Escalated")' <=> Since(head, j, "Escalated")
  BY <1>2, SweptStays
<1>4. /\ resolutions[j] \in Waits => resolutions'[j] \in Waits
      /\ Since(head, j, "Escalated") /\ resolutions'[j] = "Escalated" =>
            resolutions[j] = "Escalated"
  BY SinceSays, OnwardOf
<1> QED  BY <1>1, <1>3, <1>4 DEF RowInv, Origin, ReceiptShows

LEMMA CoversStays ==
    ASSUME LogOK, LogGrows, NEW head \in 0..Len(log), NEW jobs, Covers(head, jobs)
    PROVE  Covers(head, jobs)'
<1>1. log \in Seq(Event)
  BY DEF LogOK
<1>2. \A j \in Evaluated : Swept(head, j, EventNames)' = Swept(head, j, EventNames)
  BY <1>1, SweptStays, RouterAssumption
<1> QED  BY <1>2 DEF Covers

LEMMA FlightStays ==
    ASSUME LogOK, Onward, LogGrows, stored' = stored, NEW r, FlightOK(r)
    PROVE  FlightOK(r)'
<1>0. r.head \in 0..Len(log) /\ log \in Seq(Event)
  BY DEF FlightOK, LogOK
<1>1. r.head \in 0..Len(log') /\ stored'.head <= r.head
  <2>1. Len(log) \in Nat /\ Len(log') \in Nat /\ Len(log) <= Len(log')
    BY <1>0, Appended DEF LogGrows
  <2> QED  BY <1>0, <2>1 DEF FlightOK
<1>2. ASSUME r.phase = "jobs"
      PROVE  /\ MapOf(r.jobs, JobStatus)' /\ Covers(r.head, DOMAIN r.jobs)'
             /\ \A j \in DOMAIN r.jobs : StatusRead(r.head, j, r.jobs[j])'
  <2>1. MapOf(r.jobs, JobStatus) /\ Covers(r.head, DOMAIN r.jobs)
    BY <1>2 DEF FlightOK
  <2>2. ASSUME NEW j \in DOMAIN r.jobs PROVE StatusRead(r.head, j, r.jobs[j])'
    <3>1. j \in Jobs /\ StatusRead(r.head, j, r.jobs[j])
      BY <1>2, <2>1 DEF FlightOK, MapOf
    <3> QED  BY <1>0, <3>1, ReadStays
  <2> QED  BY <1>0, <2>1, <2>2, CoversStays DEF MapOf
<1>3. ASSUME r.phase \in {"lanes", "rows"}
      PROVE  /\ MapOf(r.rows, FeedRow)' /\ Covers(r.head, DOMAIN r.rows)'
             /\ \A j \in DOMAIN r.rows : RowInv(r.head, j, r.rows[j], Blank(r.phase))'
  <2>1. MapOf(r.rows, FeedRow) /\ Covers(r.head, DOMAIN r.rows)
    BY <1>3 DEF FlightOK
  <2>2. ASSUME NEW j \in DOMAIN r.rows PROVE RowInv(r.head, j, r.rows[j], Blank(r.phase))'
    <3>1. j \in Jobs /\ RowInv(r.head, j, r.rows[j], Blank(r.phase))
      BY <1>3, <2>1 DEF FlightOK, MapOf
    <3> QED  BY <1>0, <3>1, RowStays DEF Blank
  <2> QED  BY <1>0, <2>1, <2>2, CoversStays DEF MapOf, FeedRow
<1> QED  BY <1>1, <1>2, <1>3 DEF FlightOK

\* What is asked of the stored feed and queue besides the shape of the row.
QueueStays == LogOK /\ Onward /\ LogGrows /\ stored' = stored

LEMMA StoredStays ==
    ASSUME QueueStays, StoredOK, VerdictsShowTheirSettlement, QueueIsTrue
    PROVE  StoredOK' /\ VerdictsShowTheirSettlement' /\ QueueIsTrue'
<1>0. /\ log \in Seq(Event) /\ Len(log) \in Nat /\ Len(log') \in Nat /\ Len(log) <= Len(log')
      /\ \A b \in 1..Len(log) : log'[b] = log[b]
  BY Appended DEF LogOK, QueueStays, LogGrows
<1>1. StoredOK'
  BY <1>0 DEF StoredOK, MapOf, QueueStays
<1>2. VerdictsShowTheirSettlement' /\ QueueAgreesWithFeed'
  BY DEF VerdictsShowTheirSettlement, QueueAgreesWithFeed, QueueIsTrue, QueueStays
<1>3. QueuedForItsReason'
  <2>1. ASSUME NEW j \in DOMAIN stored.queue
        PROVE  \/ \E b \in 1..Len(log') : log'[b] = [name |-> "Escalated", job |-> j,
                                                   arg |-> stored.queue[j]]
               \/ resolutions'[j] \in HumanResolutions
    <3>1. j \in Jobs
      BY DEF StoredOK, MapOf
    <3>2. CASE \E b \in 1..Len(log) : log[b] = [name |-> "Escalated", job |-> j,
                                              arg |-> stored.queue[j]]
      BY <1>0, <3>2
    <3>3. CASE resolutions[j] \in HumanResolutions
      BY <3>1, <3>3, OnwardOf DEF QueueStays
    <3> QED  BY <3>2, <3>3 DEF QueueIsTrue, QueuedForItsReason
  <2> QED  BY <2>1 DEF QueuedForItsReason, QueueStays
<1>4. WaitingIsListed'
  <2>1. ASSUME NEW j \in Evaluated, NEW head \in 0..Len(log), head = stored.head,
               j \in Pinned \/ Swept(head, j, EventNames)' # {},
               Since(head, j, "JobSubmitted")', Since(head, j, "Escalated")', AwaitsHuman(j)'
        PROVE  j \in DOMAIN stored.queue
    <3>1. j \in Jobs
      BY RouterAssumption
    <3>2. /\ Swept(head, j, EventNames)' = Swept(head, j, EventNames)
          /\ Since(head, j, "JobSubmitted") /\ Since(head, j, "Escalated")
      BY <1>0, <2>1, <3>1, SweptStays DEF QueueStays
    <3>3. resolutions[j] = "Escalated" /\ status[j] = "submitted"
      BY <2>1, <3>1, <3>2, SinceSays, OnwardOf DEF QueueStays, AwaitsHuman
    <3>4. AwaitsHuman(j)
      BY <2>1, <3>1, <3>3 DEF AwaitsHuman, QueueStays, Onward
    <3>5. head # NoBlock
      BY <1>0 DEF NoBlock
    <3> QED  BY <2>1, <3>2, <3>4, <3>5 DEF QueueIsTrue, WaitingIsListed
  <2>2. stored.head # NoBlock => stored.head \in 0..Len(log)
    BY DEF StoredOK
  <2>3. stored' = stored
    BY DEF QueueStays
  <2>4. PICK head : head = stored.head
    OBVIOUS
  <2> QED  BY <2>1, <2>2, <2>3, <2>4 DEF WaitingIsListed
<1> QED  BY <1>1, <1>2, <1>3, <1>4 DEF QueueIsTrue

LEMMA OutsideKeeps ==
    ASSUME DashboardInv, RouterInv', LogOK', Onward, LogGrows, UNCHANGED indexVars
    PROVE  DashboardInv'
<1>1. StoredOK' /\ VerdictsShowTheirSettlement' /\ QueueIsTrue'
  BY StoredStays DEF DashboardInv, QueueStays, indexVars
<1>2. FlightInv'
  <2>1. ASSUME NEW s \in Slots PROVE refresh'[s] = Idle \/ FlightOK(refresh[s])'
    <3>1. PICK r : r = refresh[s]
      OBVIOUS
    <3>2. refresh'[s] = r
      BY <3>1 DEF indexVars
    <3>3. r = Idle \/ FlightOK(r)'
      BY <3>1, FlightStays DEF DashboardInv, FlightInv, indexVars
    <3> QED  BY <3>2, <3>3
  <2> QED  BY <2>1 DEF DashboardInv, FlightInv, indexVars
<1>3. OneInFlight' /\ UNCHANGED <<age, running, failures>>
  BY DEF DashboardInv, OneInFlight, indexVars
<1> QED  BY <1>1, <1>2, <1>3 DEF DashboardInv

LEMMA MinedKeeps ==
    ASSUME DashboardInv, RouterInv', Onward, NEW name \in EventNames, NEW j \in Jobs,
           NEW arg \in Evidence \cup Lanes \cup {Nothing}, Mine(name, j, arg),
           News([name |-> name, job |-> j, arg |-> arg])
    PROVE  DashboardInv'
<1> DEFINE e == [name |-> name, job |-> j, arg |-> arg]
<1>1. e \in Event
  BY DEF Event
<1>2. log' = Append(log, e) /\ UNCHANGED indexVars
  BY DEF Mine
<1> HIDE DEF e
<1>3. LogOK'
  BY <1>1, <1>2, HistoryGrows DEF DashboardInv, e
<1> QED  BY <1>1, <1>2, <1>3, OutsideKeeps DEF LogGrows

LEMMA SubmittedKeeps ==
    ASSUME DashboardInv, NEW j \in Jobs, SubmitDeliverable(j), Mine("JobSubmitted", j, Nothing)
    PROVE  DashboardInv'
<1>1. RouterInv' /\ UNCHANGED <<recordVars, lanes>>
  BY EscrowKeeps DEF DashboardInv, EscrowStep
<1>2. Onward
  BY DEF Onward, SubmitDeliverable, DashboardInv, RouterInv, RouterTypeOK, recordVars
<1>3. News([name |-> "JobSubmitted", job |-> j, arg |-> Nothing])
  BY <1>1 DEF News, SubmitDeliverable, DashboardInv, RouterInv, RouterTypeOK, recordVars
<1> QED  BY <1>1, <1>2, <1>3, MinedKeeps DEF EventNames

LEMMA LaneSetKeeps ==
    ASSUME DashboardInv, NEW a \in Accounts, NEW j \in Jobs, NEW l \in Lanes,
           SetLane(a, j, l), Mine("LaneSet", j, l)
    PROVE  DashboardInv'
<1>1. RouterInv'
  BY SetLaneKeeps DEF DashboardInv
<1>2. Onward
  BY DEF Onward, SetLane, recordVars, escrowVars
<1>3. News([name |-> "LaneSet", job |-> j, arg |-> l])
  BY DEF News, SetLane, LaneOpen, DashboardInv, RouterInv, RouterTypeOK, recordVars
<1> QED  BY <1>1, <1>2, <1>3, MinedKeeps DEF EventNames

LEMMA EscalatedKeeps ==
    ASSUME DashboardInv, NEW a \in Accounts, NEW j \in Jobs, NEW r \in Evidence,
           Escalate(a, j, r), Mine("Escalated", j, r)
    PROVE  DashboardInv'
<1>1. RouterInv'
  BY EscalateKeeps DEF DashboardInv
<1>2. Onward
  BY DEF Onward, Escalate, Escalatable, escrowVars, DashboardInv, RouterInv, RouterTypeOK
<1>3. News([name |-> "Escalated", job |-> j, arg |-> r])
  BY DEF News, Escalate, DashboardInv, RouterInv, RouterTypeOK, Waits
<1> QED  BY <1>1, <1>2, <1>3, MinedKeeps DEF EventNames, VerdictEvents

LEMMA AIKeeps ==
    ASSUME DashboardInv, NEW a \in Accounts, NEW j \in Jobs, NEW ok \in BOOLEAN, NEW c,
           NEW h \in Evidence, SubmitAIVerdict(a, j, ok, c, h), Mine("AIVerdict", j, h)
    PROVE  DashboardInv'
<1>1. RouterInv'
  BY AIVerdictKeeps DEF DashboardInv
<1>2. Onward
  BY DEF Onward, SubmitAIVerdict, Settle, CheckedJob, DashboardInv, RouterInv, RouterTypeOK
<1>3. News([name |-> "AIVerdict", job |-> j, arg |-> h])
  BY DEF News, SubmitAIVerdict, AutoResolutions, DashboardInv, RouterInv, RouterTypeOK
<1> QED  BY <1>1, <1>2, <1>3, MinedKeeps DEF EventNames, VerdictEvents

LEMMA HumanKeeps ==
    ASSUME DashboardInv, NEW a \in Accounts, NEW j \in Jobs, NEW ok \in BOOLEAN,
           NEW h \in Evidence, NEW p \in Evidence \cup {Nothing},
           HumanResolve(a, j, a, ok, 1, h, p), Mine("HumanVerdict", j, h)
    PROVE  DashboardInv'
<1>1. RouterInv'
  BY HumanResolveKeeps DEF DashboardInv
<1>2. Onward
  BY DEF Onward, HumanResolve, Resolvable, Settle, CheckedJob, HumanResolutions, DashboardInv,
     RouterInv, RouterTypeOK
<1>3. News([name |-> "HumanVerdict", job |-> j, arg |-> h])
  BY DEF News, HumanResolve, HumanResolutions, DashboardInv, RouterInv, RouterTypeOK
<1> QED  BY <1>1, <1>2, <1>3, MinedKeeps DEF EventNames, VerdictEvents

LEMMA ChainKeeps ==
    ASSUME DashboardInv, NEW a \in Accounts, NEW j \in Jobs, ChainStep(a, j)
    PROVE  DashboardInv'
<1>1. CASE SubmitDeliverable(j) /\ Mine("JobSubmitted", j, Nothing)
  BY <1>1, SubmittedKeeps
<1>2. CASE \E l \in Lanes \ {lanes[j]} : SetLane(a, j, l) /\ Mine("LaneSet", j, l)
  BY <1>2, LaneSetKeeps
<1>3. CASE \E r \in Reasons : Escalate(a, j, r) /\ Mine("Escalated", j, r)
  BY <1>3, EscalatedKeeps, DashboardAssumption
<1>4. ASSUME NEW ok \in BOOLEAN, NEW e \in Evidence \ Reasons,
             NEW payout \in Evidence \cup {Nothing},
             \/ /\ SubmitAIVerdict(a, j, ok, config.minConfidenceBP, e)
                /\ Mine("AIVerdict", j, e)
             \/ /\ HumanResolve(a, j, a, ok, 1, e, payout)
                /\ Mine("HumanVerdict", j, e)
      PROVE  DashboardInv'
  BY <1>4, AIKeeps, HumanKeeps
<1>5. CASE (Expires(j) \/ ClaimRefund(j)) /\ UNCHANGED <<log, indexVars>>
  <2>1. RouterInv' /\ UNCHANGED <<recordVars, lanes>>
    BY <1>5, EscrowKeeps DEF DashboardInv, EscrowStep
  <2>2. Onward
    BY <1>5, <2>1 DEF Onward, Expires, ClaimRefund, recordVars, DashboardInv, RouterInv,
       RouterTypeOK
  <2>3. LogOK'
    BY <1>5, <2>1, <2>2, HistoryStays DEF DashboardInv
  <2> QED  BY <1>5, <2>1, <2>2, <2>3, OutsideKeeps DEF LogGrows
<1> QED  BY <1>1, <1>2, <1>3, <1>4, <1>5 DEF ChainStep

LEMMA QuietKeeps == ASSUME DashboardInv, QuietBlock PROVE DashboardInv'
<1>1. /\ UNCHANGED <<recordVars, lanes, status, expired>>
      /\ log' = Append(log, Quiet) /\ Quiet \in Event /\ UNCHANGED indexVars
  BY DEF QuietBlock, routerVars, escrowVars, SetConfig, TransferOwnership, Sweep, Event
<1>2. RouterInv'
  <2>1. owner \in Accounts
    BY DEF DashboardInv, RouterInv, RouterTypeOK
  <2>2. CASE UNCHANGED routerVars
    BY <2>2, NextKeeps DEF DashboardInv
  <2>3. CASE \/ \E c \in Configs : SetConfig(owner, c)
             \/ \E b \in Accounts : TransferOwnership(owner, b)
             \/ Sweep(owner)
    BY <2>1, <2>3, OwnerKeeps DEF DashboardInv
  <2> QED  BY <2>2, <2>3 DEF QuietBlock
<1>3. Onward
  BY <1>1 DEF Onward, recordVars
<1>4. News(Quiet)
  BY <1>1 DEF News, Quiet, recordVars
<1>5. LogOK'
  BY <1>1, <1>2, <1>3, <1>4, HistoryGrows DEF DashboardInv
<1> QED  BY <1>1, <1>2, <1>3, <1>5, OutsideKeeps DEF LogGrows

-----------------------------------------------------------------------------
(* What a refresh does.                                                    *)

Stands == UNCHANGED <<routerVars, log>>

LEMMA ChainStands ==
    ASSUME DashboardInv, Stands
    PROVE  /\ RouterInv' /\ LogOK' /\ Onward /\ LogGrows
           /\ UNCHANGED <<resolutions, evidence, lanes, status, expired, log>>
<1>1. UNCHANGED <<recordVars, lanes, status, expired, log>>
  BY DEF Stands, routerVars, escrowVars
<1>2. Onward /\ LogGrows
  BY <1>1 DEF Onward, LogGrows, recordVars
<1>3. RouterInv'
  BY NextKeeps DEF DashboardInv, Stands
<1>4. LogOK'
  BY <1>1, <1>2, HistoryStays DEF DashboardInv
<1> QED  BY <1>1, <1>2, <1>3, <1>4 DEF recordVars

\* A refresh goes on.
LEMMA GoesOn ==
    ASSUME DashboardInv, Stands, UNCHANGED <<stored, age, running, failures>>,
           NEW s \in Slots, refresh[s] # Idle, NEW r, FlightOK(r),
           refresh' = [refresh EXCEPT ![s] = r]
    PROVE  DashboardInv'
<1>1. RouterInv' /\ LogOK' /\ Onward /\ LogGrows
  BY ChainStands
<1>2. StoredOK' /\ VerdictsShowTheirSettlement' /\ QueueIsTrue'
  BY <1>1, StoredStays DEF DashboardInv, QueueStays
<1>3. /\ refresh' = [t \in Slots |-> refresh'[t]]
      /\ \A t \in Slots : refresh'[t] = IF t = s THEN r ELSE refresh[t]
  BY DEF DashboardInv, FlightInv
<1>4. FlightInv'
  <2>1. ASSUME NEW t \in Slots PROVE refresh'[t] = Idle \/ FlightOK(refresh[t])'
    <3>1. PICK q : q = refresh'[t]
      OBVIOUS
    <3>2. q = Idle \/ FlightOK(q)
      BY <1>3, <3>1 DEF DashboardInv, FlightInv
    <3>3. q = Idle \/ FlightOK(q)'
      BY <1>1, <3>2, FlightStays DEF DashboardInv
    <3> QED  BY <3>1, <3>3
  <2> QED  BY <1>3, <2>1 DEF FlightInv
<1>5. OneInFlight'
  BY <1>3 DEF DashboardInv, OneInFlight
<1> QED  BY <1>1, <1>2, <1>4, <1>5 DEF DashboardInv

\* A refresh ends, and nothing else is in flight.
LEMMA NoneLeft ==
    ASSUME DashboardInv, \A t \in Slots : refresh'[t] = Idle,
           refresh' = [t \in Slots |-> refresh'[t]]
    PROVE  FlightInv' /\ OneInFlight'
  BY DEF FlightInv, OneInFlight

LEMMA EndsAlone ==
    ASSUME DashboardInv, NEW s \in Slots, refresh[s] # Idle,
           refresh' = [refresh EXCEPT ![s] = Idle]
    PROVE  FlightInv' /\ OneInFlight'
<1>1. /\ \A t \in Slots : refresh'[t] = Idle
      /\ refresh' = [t \in Slots |-> refresh'[t]]
  BY DEF DashboardInv, FlightInv, OneInFlight
<1> QED  BY <1>1, NoneLeft

LEMMA BeginKeeps == ASSUME DashboardInv, NEW s \in Slots, Begin(s) PROVE DashboardInv'
<1>1. RouterInv' /\ LogOK' /\ Onward /\ LogGrows /\ log' = log
  BY ChainStands DEF Begin, Stands
<1>2. StoredOK' /\ VerdictsShowTheirSettlement' /\ QueueIsTrue'
  BY <1>1, StoredStays DEF DashboardInv, QueueStays, Begin
<1>3. PICK r : r = [phase |-> "swept", head |-> Len(log)]
  OBVIOUS
<1>4. /\ refresh' = [t \in Slots |-> refresh'[t]]
      /\ \A t \in Slots : refresh'[t] = IF t = s THEN r ELSE Idle
  BY <1>3 DEF DashboardInv, FlightInv, Begin, NoneInFlight
<1>5. FlightOK(r)'
  <2>1. Len(log) \in Nat /\ stored.head \in {NoBlock} \cup 0..Len(log)
    BY DEF DashboardInv, LogOK, StoredOK
  <2>2. stored' = stored /\ log' = log
    BY <1>1 DEF Begin
  <2> QED  BY <1>3, <2>1, <2>2 DEF FlightOK, NoBlock
<1>6. FlightInv'
  <2>1. ASSUME NEW t \in Slots PROVE refresh'[t] = Idle \/ FlightOK(refresh[t])'
    <3>1. CASE t = s
      BY <1>4, <1>5, <3>1
    <3>2. CASE t # s
      BY <1>4, <3>2
    <3> QED  BY <3>1, <3>2
  <2> QED  BY <1>4, <2>1 DEF FlightInv
<1>7. OneInFlight'
  BY <1>4 DEF OneInFlight
<1>8. UNCHANGED <<age, running, failures>>
  BY DEF Begin
<1> QED  BY <1>1, <1>2, <1>6, <1>7, <1>8 DEF DashboardInv

\* What a settlement that has been seen says of its job, by now.
LEMMA SettledSays ==
    ASSUME RouterInv, LogOK, NEW head \in 0..Len(log), NEW j \in Jobs, SettledBy(head, j)
    PROVE  status[j] \in {"completed", "rejected"}
<1>1. PICK b \in 1..head : Said(b, j, Verdicts)
  BY DEF SettledBy
<1>2. b \in 1..Len(log) /\ (Said(b, j, {"AIVerdict"}) \/ Said(b, j, {"HumanVerdict"}))
  BY <1>1 DEF Said, Verdicts
<1>3. resolutions[j] \in Terminal
  BY <1>2 DEF LogOK, HistoryInv, Terminal
<1> QED  BY <1>3 DEF RouterInv, RecordMatchesEscrow, Terminal, AutoResolutions, HumanResolutions

LEMMA ReadJobsKeeps == ASSUME DashboardInv, NEW s \in Slots, ReadJobs(s) PROVE DashboardInv'
<1> DEFINE head == refresh[s].head
           ids == Pinned \cup {j \in Jobs : Swept(head, j, EventNames) # {}}
           jobs == GetJobs(ids \cap Evaluated)
<1>1. PICK r : r = [phase |-> "jobs", head |-> head, jobs |-> jobs]
  OBVIOUS
<1>2. /\ refresh[s].phase = "swept" /\ refresh' = [refresh EXCEPT ![s] = r]
      /\ UNCHANGED <<routerVars, log, stored, age, running, failures>>
  BY <1>1 DEF ReadJobs
<1>3. refresh[s] # Idle /\ FlightOK(refresh[s])
  BY <1>2 DEF DashboardInv, FlightInv, Idle
<1>4. /\ DOMAIN jobs = ids \cap Evaluated
      /\ \A j \in DOMAIN jobs : j \in Jobs /\ jobs[j] = status[j]
  BY RouterAssumption DEF GetJobs
<1>5. MapOf(jobs, JobStatus) /\ Covers(head, DOMAIN jobs)
  BY <1>4, RouterAssumption DEF MapOf, Covers, DashboardInv, RouterInv, RouterTypeOK
<1>6. \A j \in DOMAIN jobs : StatusRead(head, j, jobs[j])
  BY <1>3, <1>4, SettledSays DEF StatusRead, FlightOK, DashboardInv
<1> HIDE DEF jobs
<1>7. FlightOK(r)
  BY <1>1, <1>3, <1>5, <1>6 DEF FlightOK
<1> QED  BY <1>2, <1>3, <1>7, GoesOn DEF Stands

LEMMA ProvenanceNames ==
    /\ ProvenanceOf("HumanVerdict") = "human"
    /\ ProvenanceOf("Escalated") = "escalated"
    /\ ProvenanceOf("AIVerdict") = "AI auto"
  BY Zenon DEF ProvenanceOf

\* The lane shown with an AI verdict is the one it was given on: the router locks
\* it, and no event in the window is later.
LEMMA LaneRead ==
    ASSUME RouterInv, LogOK, NEW head \in 0..Len(log), NEW j \in Jobs,
           NEW b \in 1..head, Said(b, j, {"AIVerdict"})
    PROVE  LaneName(IF Swept(head, j, {"LaneSet"}) # {}
                    THEN LatestOf(head, j, {"LaneSet"}).arg ELSE lanes[j]) = "AI"
<1>1. log \in Seq(Event) /\ Len(log) \in Nat /\ b \in 1..Len(log)
  BY DEF LogOK
<1>2. lanes[j] = "AIAllowed"
  BY <1>1 DEF LogOK, HistoryInv, RouterInv, HumanLaneHonoured
<1>3. CASE Swept(head, j, {"LaneSet"}) = {}
  BY <1>2, <1>3 DEF LaneName
<1>4. CASE Swept(head, j, {"LaneSet"}) # {}
  <2>1. PICK c \in Swept(head, j, {"LaneSet"}) :
            /\ LatestOf(head, j, {"LaneSet"}) = log[c]
            /\ \A d \in Swept(head, j, {"LaneSet"}) : d <= c
    BY <1>1, <1>4, LatestIs
  <2>2. c \in 1..head /\ c >= head - Lookback /\ Said(c, j, {"LaneSet"}) /\ c \in 1..Len(log)
    BY <1>1, <2>1 DEF Swept, Window, Said
  <2>3. log[c].arg = lanes[j] \/ \E d \in (c + 1)..Len(log) : Said(d, j, {"LaneSet"})
    BY <2>2 DEF LogOK, HistoryInv
  <2>4. ASSUME NEW d \in (c + 1)..Len(log), Said(d, j, {"LaneSet"}) PROVE FALSE
    <3>1. d \in 1..Len(log) /\ c < d
      BY <1>1, <2>2
    <3>2. \A a \in 1..d : ~Said(a, j, {"AIVerdict"})
      BY <2>4, <3>1 DEF LogOK, HistoryInv
    <3>3. d < b
      BY <1>1, <3>1, <3>2
    <3>4. d \in Swept(head, j, {"LaneSet"})
      BY <1>1, <2>2, <2>4, <3>1, <3>3, DashboardAssumption DEF Swept, Window, Said
    <3> QED  BY <2>1, <2>2, <3>1, <3>4
  <2> QED  BY <1>2, <1>4, <2>1, <2>3, <2>4 DEF LaneName
<1> QED  BY <1>3, <1>4

\* The verdict event that a row is built from.
LEMMA VerdictRead ==
    ASSUME LogOK, NEW head \in 0..Len(log), NEW j \in Jobs,
           Swept(head, j, VerdictEvents) # {}
    PROVE  \E b \in 1..head :
              /\ LatestOf(head, j, VerdictEvents) = log[b]
              /\ b \in Swept(head, j, VerdictEvents)
              /\ b \in 1..Len(log)
              /\ log[b].job = j /\ log[b].name \in VerdictEvents
<1>1. log \in Seq(Event)
  BY DEF LogOK
<1> QED  BY <1>1, LatestIs DEF Swept, Window

LEMMA RowBuilt ==
    ASSUME RouterInv, LogOK, NEW head \in 0..Len(log), NEW j \in Jobs, NEW read \in JobStatus,
           StatusRead(head, j, read)
    PROVE  /\ BuildFeedRow(head, j, read) \in FeedRow
           /\ RowInv(head, j, BuildFeedRow(head, j, read), {"none"})
<1>0. PICK row : row = BuildFeedRow(head, j, read)
  OBVIOUS
<1> SUFFICES row \in FeedRow /\ RowInv(head, j, row, {"none"})
  BY <1>0
<1> DEFINE seen == Swept(head, j, VerdictEvents) # {}
           lane == LaneName(IF Swept(head, j, {"LaneSet"}) # {}
                            THEN LatestOf(head, j, {"LaneSet"}).arg ELSE lanes[j])
           name == LatestOf(head, j, VerdictEvents).name
<1>1. /\ row.status = read /\ row.receipt = seen /\ row.lane = lane
      /\ row.provenance = IF seen THEN ProvenanceOf(name) ELSE "none"
      /\ row = [status |-> row.status, receipt |-> row.receipt,
                provenance |-> row.provenance, lane |-> row.lane]
  BY <1>0 DEF BuildFeedRow
<1>2. lane \in {"AI", "human"} /\ seen \in BOOLEAN
  BY DEF LaneName
<1> HIDE DEF lane
<1>3. CASE ~seen
  <2>1. row.provenance = "none" /\ row.receipt = FALSE
    BY <1>1, <1>3
  <2>2. Swept(head, j, {"Escalated"}) = {}
    BY <1>3 DEF Swept, VerdictEvents
  <2> QED  BY <1>1, <1>2, <2>1, <2>2 DEF FeedRow, RowInv, ReceiptShows, Origin
<1>4. CASE seen
  <2>1. PICK b \in 1..head : /\ LatestOf(head, j, VerdictEvents) = log[b]
                             /\ b \in Swept(head, j, VerdictEvents)
                             /\ b \in 1..Len(log)
                             /\ log[b].job = j /\ log[b].name \in VerdictEvents
    BY <1>4, VerdictRead
  <2>2. name = log[b].name
    BY <2>1
  <2> HIDE DEF name
  <2>3. row.provenance = ProvenanceOf(name) /\ row.receipt = TRUE
    BY <1>1, <1>4
  <2>4. CASE name = "AIVerdict"
    <3>1. row.provenance = "AI auto" /\ Said(b, j, {"AIVerdict"})
      BY <2>1, <2>2, <2>3, <2>4, ProvenanceNames DEF Said
    <3>2. lane = "AI"
      BY <3>1, LaneRead DEF lane
    <3>3. resolutions[j] \in AutoResolutions
      BY <2>1, <3>1 DEF LogOK, HistoryInv
    <3>4. ~(\E c \in 1..Len(log) : Said(c, j, {"Escalated"}))
      BY <3>3 DEF LogOK, HistoryInv, AutoResolutions, Waits, HumanResolutions
    <3>5. SettledBy(head, j)
      BY <3>1 DEF SettledBy, Said, Verdicts
    <3>6. Swept(head, j, {"Escalated"}) = {}
      BY <3>4 DEF Swept, Window, Said
    <3> QED  BY <1>1, <1>2, <2>3, <3>1, <3>2, <3>3, <3>5, <3>6
             DEF FeedRow, RowInv, ReceiptShows, Origin, StatusRead, AutoResolutions
  <2>5. CASE name = "HumanVerdict"
    <3>1. row.provenance = "human" /\ Said(b, j, {"HumanVerdict"})
      BY <2>1, <2>2, <2>3, <2>5, ProvenanceNames DEF Said
    <3>2. resolutions[j] \in HumanResolutions
      BY <2>1, <3>1 DEF LogOK, HistoryInv
    <3>3. SettledBy(head, j)
      BY <3>1 DEF SettledBy, Said, Verdicts
    <3>4. b \in Swept(head, j, {"HumanVerdict"})
      BY <2>1, <3>1 DEF Swept, Said
    <3> QED  BY <1>1, <1>2, <2>3, <3>1, <3>2, <3>3, <3>4
             DEF FeedRow, RowInv, ReceiptShows, Origin, StatusRead, HumanResolutions
  <2>6. CASE name = "Escalated"
    <3>1. row.provenance = "escalated" /\ Said(b, j, {"Escalated"})
      BY <2>1, <2>2, <2>3, <2>6, ProvenanceNames DEF Said
    <3>2. resolutions[j] \in Waits
      BY <2>1, <3>1 DEF LogOK, HistoryInv
    <3> QED  BY <1>1, <1>2, <2>3, <3>1, <3>2 DEF FeedRow, RowInv, ReceiptShows, Origin
  <2> QED  BY <2>1, <2>2, <2>4, <2>5, <2>6 DEF VerdictEvents
<1> QED  BY <1>3, <1>4

LEMMA ReadLanesKeeps == ASSUME DashboardInv, NEW s \in Slots, ReadLanes(s) PROVE DashboardInv'
<1> DEFINE head == refresh[s].head
           jobs == refresh[s].jobs
           rows == [j \in DOMAIN jobs |-> BuildFeedRow(SweptTo(head), j, jobs[j])]
<1>1. PICK r : r = [phase |-> "lanes", head |-> head, rows |-> rows]
  OBVIOUS
<1>2. /\ refresh[s].phase = "jobs" /\ refresh' = [refresh EXCEPT ![s] = r]
      /\ UNCHANGED <<routerVars, log, stored, age, running, failures>>
  BY <1>1 DEF ReadLanes
<1>3. refresh[s] # Idle /\ FlightOK(refresh[s])
  BY <1>2 DEF DashboardInv, FlightInv, Idle
<1>4. head \in 0..Len(log) /\ MapOf(jobs, JobStatus) /\ Covers(head, DOMAIN jobs)
  BY <1>2, <1>3 DEF FlightOK
<1>5. ASSUME NEW j \in DOMAIN jobs
      PROVE  /\ rows[j] \in FeedRow /\ RowInv(head, j, rows[j], {"none"})
  <2>1. j \in Jobs /\ jobs[j] \in JobStatus /\ StatusRead(head, j, jobs[j])
    BY <1>2, <1>3, <1>4 DEF FlightOK, MapOf
  <2>2. rows[j] = BuildFeedRow(head, j, jobs[j])
    BY DEF SweptTo
  <2> QED  BY <1>4, <2>1, <2>2, RowBuilt DEF DashboardInv
<1>6. DOMAIN rows = DOMAIN jobs
  OBVIOUS
<1> HIDE DEF rows
<1>7. FlightOK(r)
  BY <1>1, <1>3, <1>4, <1>5, <1>6 DEF FlightOK, MapOf, Blank
<1> QED  BY <1>2, <1>3, <1>7, GoesOn DEF Stands

LEMMA Codes ==
    ASSUME NEW res \in Resolution
    PROVE  /\ ProvenanceCode(res) \in {"none", "AI auto", "escalated", "human"}
           /\ ProvenanceCode(res) = "escalated" <=> res = "Escalated"
<1>1. CASE res \in AutoResolutions
  <2>1. res \notin HumanResolutions /\ res # "Escalated" /\ res # "None"
    BY <1>1 DEF AutoResolutions, HumanResolutions
  <2>2. ProvenanceCode(res) = "AI auto"
    BY <1>1, <2>1, Zenon DEF ProvenanceCode
  <2> QED  BY <2>1, <2>2
<1>2. CASE res \in HumanResolutions
  <2>1. res \notin AutoResolutions /\ res # "Escalated" /\ res # "None"
    BY <1>2 DEF AutoResolutions, HumanResolutions
  <2>2. ProvenanceCode(res) = "human"
    BY <1>2, <2>1, Zenon DEF ProvenanceCode
  <2> QED  BY <2>1, <2>2
<1>3. CASE res \in {"None", "Escalated"}
  <2>1. res \notin AutoResolutions /\ res \notin HumanResolutions
    BY <1>3 DEF AutoResolutions, HumanResolutions
  <2>2. CASE res = "Escalated"
    <3>1. ProvenanceCode(res) = "escalated"
      BY <2>1, <2>2, Zenon DEF ProvenanceCode
    <3> QED  BY <2>2, <3>1
  <2>3. CASE res = "None"
    <3>1. ProvenanceCode(res) = "none"
      BY <2>1, <2>3, Zenon DEF ProvenanceCode
    <3> QED  BY <2>3, <3>1
  <2> QED  BY <1>3, <2>2, <2>3
<1> QED  BY <1>1, <1>2, <1>3 DEF Resolution, Terminal

LEMMA RowFilled ==
    ASSUME RouterInv, NEW head, NEW j \in Jobs, NEW row \in FeedRow, NEW filled,
           RowInv(head, j, row, {"none"}),
           filled = IF row.provenance = "none"
                    THEN [row EXCEPT !.provenance = ProvenanceCode(resolutions[j])] ELSE row
    PROVE  filled \in FeedRow /\ RowInv(head, j, filled, {})
<1>1. CASE row.provenance # "none"
  BY <1>1 DEF RowInv, Origin
<1>2. CASE row.provenance = "none"
  <2>0. PICK code : code = ProvenanceCode(resolutions[j])
    OBVIOUS
  <2>1. /\ code \in {"none", "AI auto", "escalated", "human"}
        /\ code = "escalated" <=> resolutions[j] = "Escalated"
    BY <2>0, Codes DEF RouterInv, RouterTypeOK
  <2>2. /\ filled \in FeedRow /\ filled.status = row.status /\ filled.provenance = code
        /\ filled.receipt = row.receipt
    BY <1>2, <2>0, <2>1 DEF FeedRow
  <2>3. ~row.receipt
    BY <1>2 DEF RowInv, Origin
  <2> QED  BY <1>2, <2>1, <2>2, <2>3 DEF RowInv, Origin, ReceiptShows, Waits
<1> QED  BY <1>1, <1>2

LEMMA BackfillKeeps ==
    ASSUME DashboardInv, NEW s \in Slots, BackfillProvenance(s)
    PROVE  DashboardInv'
<1> DEFINE head == refresh[s].head
           old == refresh[s].rows
           rows == [j \in DOMAIN old |->
                       IF old[j].provenance = "none"
                       THEN [old[j] EXCEPT !.provenance = ProvenanceCode(resolutions[j])]
                       ELSE old[j]]
<1>1. PICK r : r = [phase |-> "rows", head |-> head, rows |-> rows]
  OBVIOUS
<1>2. /\ refresh[s].phase = "lanes" /\ refresh' = [refresh EXCEPT ![s] = r]
      /\ UNCHANGED <<routerVars, log, stored, age, running, failures>>
  BY <1>1 DEF BackfillProvenance
<1>3. refresh[s] # Idle /\ FlightOK(refresh[s])
  BY <1>2 DEF DashboardInv, FlightInv, Idle
<1>4. head \in 0..Len(log) /\ MapOf(old, FeedRow) /\ Covers(head, DOMAIN old)
  BY <1>2, <1>3 DEF FlightOK
<1>5. ASSUME NEW j \in DOMAIN old
      PROVE  /\ rows[j] \in FeedRow /\ RowInv(head, j, rows[j], {})
  <2>1. j \in Jobs /\ old[j] \in FeedRow /\ RowInv(head, j, old[j], {"none"})
    BY <1>2, <1>3, <1>4 DEF FlightOK, MapOf, Blank
  <2> QED  BY <2>1, RowFilled DEF DashboardInv
<1>6. DOMAIN rows = DOMAIN old
  OBVIOUS
<1> HIDE DEF rows
<1>7. FlightOK(r)
  BY <1>1, <1>3, <1>4, <1>5, <1>6 DEF FlightOK, MapOf, Blank
<1> QED  BY <1>2, <1>3, <1>7, GoesOn DEF Stands

-----------------------------------------------------------------------------
(* What a refresh stores.                                                  *)

\* The reason of a candidate that is still escalated is in the log.
LEMMA ReasonIs ==
    ASSUME RouterInv, LogOK, NEW head \in 0..Len(log), NEW j \in Jobs, resolutions[j] \in Waits
    PROVE  /\ ReasonOf(head, j) \in Evidence
           /\ \/ \E b \in 1..Len(log) : log[b] = [name |-> "Escalated", job |-> j,
                                                 arg |-> ReasonOf(head, j)]
              \/ resolutions[j] \in HumanResolutions
<1>1. log \in Seq(Event)
  BY DEF LogOK
<1>2. CASE Swept(head, j, {"Escalated"}) # {}
  <2>1. PICK b \in Swept(head, j, {"Escalated"}) : LatestOf(head, j, {"Escalated"}) = log[b]
    BY <1>1, <1>2, LatestIs
  <2>2. b \in 1..Len(log) /\ log[b].job = j /\ log[b].name = "Escalated"
    BY <2>1 DEF Swept, Window
  <2>3. log[b].arg \in Evidence
    BY <2>2 DEF LogOK, HistoryInv, Said
  <2>4. log[b] = [name |-> "Escalated", job |-> j, arg |-> log[b].arg]
    <3>1. log[b] \in Event /\ log[b] # Quiet
      BY <1>1, <2>2 DEF Quiet
    <3> QED  BY <2>2, <3>1 DEF Event
  <2>5. ReasonOf(head, j) = log[b].arg
    BY <1>2, <2>1 DEF ReasonOf
  <2> QED  BY <2>2, <2>3, <2>4, <2>5
<1>3. CASE Swept(head, j, {"Escalated"}) = {}
  <2>1. ReasonOf(head, j) = evidence[j]
    BY <1>3 DEF ReasonOf
  <2>2. evidence[j] \in Evidence
    BY DEF RouterInv, RouterTypeOK, Waits, HumanResolutions
  <2> QED  BY <2>1, <2>2 DEF Waits, LogOK, HistoryInv
<1> QED  BY <1>2, <1>3

\* A job is a candidate exactly if its row says that it is escalated.
LEMMA CandidateIs ==
    ASSUME RouterInv, LogOK, NEW head \in 0..Len(log), NEW rows, NEW j \in DOMAIN rows,
           j \in Jobs, RowInv(head, j, rows[j], {})
    PROVE  /\ j \in Candidates(head, rows) => rows[j].provenance = "escalated"
           /\ rows[j].provenance = "escalated" => resolutions[j] \in Waits
           /\ rows[j].provenance = "escalated" /\ resolutions[j] = "Escalated" =>
                 j \in Candidates(head, rows)
<1>1. resolutions[j] = "Escalated" => Swept(head, j, {"HumanVerdict"}) = {}
  <2> SUFFICES ASSUME resolutions[j] = "Escalated", NEW b \in Swept(head, j, {"HumanVerdict"})
               PROVE  FALSE
    OBVIOUS
  <2>1. b \in 1..Len(log) /\ Said(b, j, {"HumanVerdict"})
    BY DEF Swept, Window, Said
  <2> QED  BY <2>1 DEF LogOK, HistoryInv, HumanResolutions
<1> QED  BY <1>1 DEF Candidates, RowInv, Origin

LEMMA PublishKeeps == ASSUME DashboardInv, NEW s \in Slots, Publish(s) PROVE DashboardInv'
<1> DEFINE queued(head, rows) == {j \in Candidates(head, rows) \cap DOMAIN rows :
                                     Listed(rows[j], j)}
<1>0. refresh[s].phase = "rows" /\ refresh[s] # Idle /\ FlightOK(refresh[s])
  BY DEF Publish, DashboardInv, FlightInv, Idle
<1>1. PICK head \in 0..Len(log) : head = refresh[s].head
  BY <1>0 DEF FlightOK
<1>2. PICK rows : rows = refresh[s].rows
  OBVIOUS
<1>3. /\ MapOf(rows, FeedRow) /\ Covers(head, DOMAIN rows)
      /\ \A j \in DOMAIN rows : RowInv(head, j, rows[j], {})
  BY <1>0, <1>1, <1>2 DEF FlightOK, Blank
<1>4. PICK queue : queue = [j \in queued(head, rows) |-> ReasonOf(head, j)]
  OBVIOUS
<1>5. /\ stored' = [status |-> "ready", head |-> head, feed |-> rows, queue |-> queue]
      /\ age' = 0 /\ refresh' = [refresh EXCEPT ![s] = Idle]
      /\ UNCHANGED <<routerVars, log, running, failures>>
  BY <1>1, <1>2, <1>4 DEF Publish
<1>6. /\ RouterInv' /\ LogOK'
      /\ UNCHANGED <<resolutions, evidence, lanes, status, expired, log>>
  BY <1>5, ChainStands DEF Stands
<1>7. FlightInv' /\ OneInFlight'
  BY <1>0, <1>5, EndsAlone
<1>8. ASSUME NEW j \in DOMAIN queue
      PROVE  /\ j \in Jobs /\ j \in DOMAIN rows /\ rows[j].status = "submitted"
             /\ rows[j].provenance = "escalated" /\ queue[j] = ReasonOf(head, j)
             /\ resolutions[j] \in Waits
  <2>1. /\ j \in DOMAIN rows /\ j \in Candidates(head, rows) /\ Listed(rows[j], j)
        /\ queue[j] = ReasonOf(head, j)
    BY <1>4
  <2>2. j \in Jobs
    BY <1>3, <2>1 DEF MapOf
  <2> QED  BY <1>3, <2>1, <2>2, CandidateIs DEF Listed, DashboardInv
<1>9. StoredOK'
  <2>1. MapOf(queue, Evidence)
    BY <1>8, ReasonIs DEF MapOf, DashboardInv
  <2> QED  BY <1>3, <1>5, <1>6, <2>1 DEF StoredOK, MapOf, FeedRow
<1>10. VerdictsShowTheirSettlement' /\ QueueAgreesWithFeed'
  BY <1>3, <1>5, <1>8 DEF VerdictsShowTheirSettlement, QueueAgreesWithFeed, RowInv, ReceiptShows
<1>11. QueuedForItsReason'
  <2>1. ASSUME NEW j \in DOMAIN queue
        PROVE  \/ \E b \in 1..Len(log) : log[b] = [name |-> "Escalated", job |-> j,
                                                  arg |-> queue[j]]
               \/ resolutions[j] \in HumanResolutions
    BY <1>8, ReasonIs DEF DashboardInv
  <2> QED  BY <1>5, <1>6, <2>1 DEF QueuedForItsReason
<1>12. WaitingIsListed'
  <2>1. ASSUME NEW j \in Evaluated, j \in Pinned \/ Swept(head, j, EventNames) # {},
               Since(head, j, "JobSubmitted"), Since(head, j, "Escalated"), AwaitsHuman(j)
        PROVE  j \in DOMAIN queue
    <3>1. j \in DOMAIN rows /\ j \in Jobs
      BY <1>3, <2>1, RouterAssumption DEF Covers
    <3>2. rows[j].status = "submitted" /\ rows[j].provenance = "escalated"
      BY <1>3, <2>1, <3>1 DEF RowInv, StatusRead, Origin, AwaitsHuman
    <3>3. j \in Candidates(head, rows)
      BY <1>3, <2>1, <3>1, <3>2, CandidateIs DEF AwaitsHuman, DashboardInv
    <3> QED  BY <1>4, <2>1, <3>1, <3>2, <3>3 DEF Listed, AwaitsHuman
  <2>2. /\ stored'.head = head /\ stored'.queue = queue
    BY <1>5
  <2>3. ASSUME NEW j \in Evaluated
        PROVE  /\ Swept(head, j, EventNames)' = Swept(head, j, EventNames)
               /\ Since(head, j, "JobSubmitted")' <=> Since(head, j, "JobSubmitted")
               /\ Since(head, j, "Escalated")' <=> Since(head, j, "Escalated")
               /\ AwaitsHuman(j)' <=> AwaitsHuman(j)
    BY <1>6 DEF Swept, Since, AwaitsHuman
  <2> QED  BY <2>1, <2>2, <2>3 DEF WaitingIsListed
<1>13. age' \in 0..(StaleAfter + 1)
  BY <1>5, DashboardAssumption
<1>14. QueueIsTrue'
  BY <1>10, <1>11, <1>12 DEF QueueIsTrue
<1> QED  BY <1>5, <1>6, <1>7, <1>9, <1>10, <1>13, <1>14 DEF DashboardInv

-----------------------------------------------------------------------------
(* Failures, restarts and the clock.                                       *)

LEMMA RefreshFailsKeeps ==
    ASSUME DashboardInv, NEW s \in Slots, RefreshFails(s)
    PROVE  DashboardInv'
<1>1. /\ refresh[s] # Idle /\ refresh' = [refresh EXCEPT ![s] = Idle]
      /\ failures' = failures + 1 /\ failures < MaxFailures
      /\ stored' = [stored EXCEPT !.status = "degraded"]
      /\ UNCHANGED <<routerVars, log, age, running>>
  BY DEF RefreshFails, Finished, Degraded
<1>2. /\ RouterInv' /\ LogOK'
      /\ UNCHANGED <<resolutions, evidence, lanes, status, expired, log>>
  BY <1>1, ChainStands DEF Stands
<1>3. FlightInv' /\ OneInFlight'
  BY <1>1, EndsAlone
<1>4. /\ stored' = [status |-> "degraded", head |-> stored.head, feed |-> stored.feed,
                   queue |-> stored.queue]
  BY <1>1 DEF DashboardInv, StoredOK
<1>5. /\ stored'.status = "degraded" /\ stored'.head = stored.head
      /\ stored'.feed = stored.feed /\ stored'.queue = stored.queue
  BY <1>4
<1>6. StoredOK' /\ VerdictsShowTheirSettlement' /\ QueueAgreesWithFeed'
  BY <1>2, <1>4, <1>5 DEF DashboardInv, StoredOK, MapOf, VerdictsShowTheirSettlement,
     QueueIsTrue, QueueAgreesWithFeed
<1>7. QueuedForItsReason'
  BY <1>2, <1>5 DEF DashboardInv, QueueIsTrue, QueuedForItsReason
<1>8. WaitingIsListed'
  BY <1>2, <1>5 DEF DashboardInv, QueueIsTrue, WaitingIsListed, Swept, Since, AwaitsHuman
<1>9. failures' \in 0..MaxFailures
  BY <1>1, DashboardAssumption DEF DashboardInv
<1> QED  BY <1>1, <1>2, <1>3, <1>6, <1>7, <1>8, <1>9 DEF DashboardInv, QueueIsTrue

LEMMA IdleKeeps ==
    ASSUME DashboardInv, Stands, stored' = stored,
           refresh' = refresh \/ refresh' = [s \in Slots |-> Idle],
           age' \in 0..(StaleAfter + 1), running' \in BOOLEAN, failures' \in 0..MaxFailures
    PROVE  DashboardInv'
<1>1. RouterInv' /\ LogOK' /\ Onward /\ LogGrows
  BY ChainStands
<1>2. StoredOK' /\ VerdictsShowTheirSettlement' /\ QueueIsTrue'
  BY <1>1, StoredStays DEF DashboardInv, QueueStays
<1>3. FlightInv' /\ OneInFlight'
  <2>1. CASE refresh' = [s \in Slots |-> Idle]
    BY <2>1, NoneLeft
  <2>2. CASE refresh' = refresh
    <3>1. ASSUME NEW s \in Slots PROVE refresh'[s] = Idle \/ FlightOK(refresh[s])'
      <4>1. PICK r : r = refresh[s]
        OBVIOUS
      <4>2. r = Idle \/ FlightOK(r)'
        BY <1>1, <4>1, FlightStays DEF DashboardInv, FlightInv
      <4> QED  BY <2>2, <4>1, <4>2
    <3> QED  BY <2>2, <3>1 DEF DashboardInv, FlightInv, OneInFlight
  <2> QED  BY <2>1, <2>2
<1> QED  BY <1>1, <1>2, <1>3 DEF DashboardInv

LEMMA ProcessKeeps == ASSUME DashboardInv, Stop \/ Restart \/ ClockTicks PROVE DashboardInv'
<1>1. /\ Stands /\ stored' = stored /\ running' \in BOOLEAN
      /\ refresh' = refresh \/ refresh' = [s \in Slots |-> Idle]
  BY DEF Stop, Restart, ClockTicks, DashboardInv, Stands
<1>2. age' \in 0..(StaleAfter + 1) /\ failures' \in 0..MaxFailures
  BY DashboardAssumption DEF Stop, Restart, ClockTicks, DashboardInv
<1> QED  BY <1>1, <1>2, IdleKeeps

LEMMA DashboardStep ==
    ASSUME DashboardInv, [DashboardNext]_dashboardVars
    PROVE  DashboardInv'
<1>1. ASSUME NEW a \in Accounts, NEW j \in Jobs, ChainStep(a, j) PROVE DashboardInv'
  BY <1>1, ChainKeeps
<1>2. ASSUME NEW s \in Slots, RefreshStep(s) \/ RefreshFails(s) PROVE DashboardInv'
  BY <1>2, BeginKeeps, ReadJobsKeeps, ReadLanesKeeps, BackfillKeeps, PublishKeeps,
     RefreshFailsKeeps DEF RefreshStep
<1>3. CASE QuietBlock \/ Stop \/ Restart \/ ClockTicks
  BY <1>3, QuietKeeps, ProcessKeeps
<1>4. CASE UNCHANGED dashboardVars
  BY <1>4, IdleKeeps DEF dashboardVars, indexVars, Stands, DashboardInv
<1> QED  BY <1>1, <1>2, <1>3, <1>4 DEF DashboardNext

(***************************************************************************)
(* The index is true of the chain through every refresh, block, failure    *)
(* and restart: one invariant carries the properties below.                *)
(***************************************************************************)
THEOREM DashboardInvariance == DashboardSpec => []DashboardInv
  BY InitDashboardInv, DashboardStep, PTL DEF DashboardSpec

(***************************************************************************)
(* A feed row with the receipt of a verdict shows its settlement, and an   *)
(* AI verdict the lane that allows it (dashboard-snapshot.ts refreshUnsafe *)
(* sweeps before it reads).                                                *)
(***************************************************************************)
THEOREM FeedIsTrue == DashboardSpec => []FeedInv
  BY DashboardInvariance, InvImplies, PTL

(***************************************************************************)
(* The queue is what waits for a human: nothing stands in it that does not *)
(* belong there, and no escalated job that was looked at is missing.       *)
(***************************************************************************)
THEOREM QueueIsTrueOfChain == DashboardSpec => []QueueIsTrue
<1>1. DashboardInv => QueueIsTrue
  BY DEF DashboardInv
<1> QED  BY <1>1, DashboardInvariance, PTL

-----------------------------------------------------------------------------
(* No write takes the index back.                                          *)

Ahead ==
    /\ stored'.head >= stored.head
    /\ stored'.status = "degraded" => stored'.feed = stored.feed /\ stored'.queue = stored.queue

LEMMA StepIsAhead == DashboardInv /\ [DashboardNext]_dashboardVars => Ahead
<1> SUFFICES ASSUME DashboardInv, [DashboardNext]_dashboardVars PROVE Ahead
  OBVIOUS
<1>0. stored.head \in Int
  <2>1. Len(log) \in Nat /\ stored.head \in {NoBlock} \cup 0..Len(log)
    BY DEF DashboardInv, StoredOK, LogOK
  <2> QED  BY <2>1 DEF NoBlock
<1>1. CASE stored' = stored
  BY <1>0, <1>1 DEF Ahead
<1>2. ASSUME NEW s \in Slots, Publish(s) PROVE Ahead
  <2>1. FlightOK(refresh[s])
    BY <1>2 DEF Publish, DashboardInv, FlightInv, Idle
  <2>2. stored'.head = refresh[s].head /\ stored'.status = "ready"
    BY <1>2 DEF Publish
  <2> QED  BY <1>0, <2>1, <2>2 DEF FlightOK, Ahead
<1>3. ASSUME NEW s \in Slots, RefreshFails(s) PROVE Ahead
  BY <1>0, <1>3 DEF RefreshFails, Degraded, DashboardInv, StoredOK, Ahead
<1>4. ASSUME NEW a \in Accounts, NEW j \in Jobs, ChainStep(a, j) PROVE stored' = stored
  BY <1>4 DEF ChainStep, Mine, indexVars
<1>5. ASSUME NEW s \in Slots, Begin(s) \/ ReadJobs(s) \/ ReadLanes(s) \/ BackfillProvenance(s)
      PROVE  stored' = stored
  BY <1>5 DEF Begin, ReadJobs, ReadLanes, BackfillProvenance
<1>6. ASSUME QuietBlock \/ Stop \/ Restart \/ ClockTicks \/ UNCHANGED dashboardVars
      PROVE  stored' = stored
  BY <1>6 DEF QuietBlock, Stop, Restart, ClockTicks, indexVars, dashboardVars
<1> QED  BY <1>1, <1>2, <1>3, <1>4, <1>5, <1>6 DEF DashboardNext, RefreshStep

(***************************************************************************)
(* The last verified data survives failures, and refreshes are coalesced   *)
(* so that no late one overwrites a later head.                            *)
(***************************************************************************)
THEOREM IndexOnlyAdvances == DashboardSpec => IndexNeverGoesBack
<1>1. DashboardInv /\ [DashboardNext]_dashboardVars =>
          [/\ stored'.head >= stored.head
           /\ stored'.status = "degraded" =>
                 stored'.feed = stored.feed /\ stored'.queue = stored.queue]_dashboardVars
  BY StepIsAhead DEF Ahead
<1> QED  BY <1>1, DashboardInvariance, PTL DEF DashboardSpec, IndexNeverGoesBack

-----------------------------------------------------------------------------
(* The chain that the index looks at is the router.                        *)

LEMMA StepOfRouter ==
    DashboardInv /\ [DashboardNext]_dashboardVars => [RouterNext]_routerVars
<1> SUFFICES ASSUME DashboardInv, [DashboardNext]_dashboardVars PROVE [RouterNext]_routerVars
  OBVIOUS
<1>0. owner \in Accounts /\ config \in Configs /\ Reasons \subseteq Evidence /\ {0, 1} = {1, 0}
  BY DashboardAssumption DEF DashboardInv, RouterInv, RouterTypeOK
<1>1. ASSUME NEW a \in Accounts, NEW j \in Jobs, ChainStep(a, j) PROVE RouterNext
  <2>1. CASE SubmitDeliverable(j) \/ Expires(j) \/ ClaimRefund(j)
    BY <2>1 DEF RouterNext, EscrowStep
  <2>2. ASSUME NEW l \in Lanes, SetLane(a, j, l) PROVE RouterNext
    BY <2>2 DEF RouterNext
  <2>3. ASSUME NEW r \in Evidence, Escalate(a, j, r) PROVE RouterNext
    BY <2>3 DEF RouterNext
  <2>4. ASSUME NEW ok \in BOOLEAN, NEW e \in Evidence,
               SubmitAIVerdict(a, j, ok, config.minConfidenceBP, e)
        PROVE RouterNext
    BY <1>0, <2>4 DEF RouterNext
  <2>5. ASSUME NEW ok \in BOOLEAN, NEW e \in Evidence, NEW p \in Evidence \cup {Nothing},
               HumanResolve(a, j, a, ok, 1, e, p)
        PROVE RouterNext
    <3>1. HumanResolveAny(a, j)
      BY <2>5 DEF HumanResolveAny
    <3> QED  BY <3>1 DEF RouterNext
  <2> QED  BY <1>0, <1>1, <2>1, <2>2, <2>3, <2>4, <2>5 DEF ChainStep
<1>2. CASE QuietBlock
  BY <1>0, <1>2 DEF QuietBlock, RouterNext
<1>3. ASSUME \/ \E s \in Slots : RefreshStep(s) \/ RefreshFails(s)
             \/ Stop \/ Restart \/ ClockTicks \/ UNCHANGED dashboardVars
      PROVE UNCHANGED routerVars
  BY <1>3 DEF RefreshStep, Begin, ReadJobs, ReadLanes, BackfillProvenance, Publish, RefreshFails,
     Stop, Restart, ClockTicks, dashboardVars
<1> QED  BY <1>1, <1>2, <1>3 DEF DashboardNext

(***************************************************************************)
(* The contract seen through the dashboard's log is EvaluationRouter: what *)
(* is proved of it holds here.                                             *)
(***************************************************************************)
THEOREM DashboardShowsRouter == DashboardSpec => RouterSpec
<1>1. DashboardInit => RouterInit
  BY DEF DashboardInit
<1> QED  BY <1>1, StepOfRouter, DashboardInvariance, PTL DEF DashboardSpec, RouterSpec

(***************************************************************************)
(* What the index shows of a settled job stays so: no step of the chain it *)
(* is refreshed from replaces a terminal resolution.                       *)
(***************************************************************************)
THEOREM ShownVerdictsAreFinal == DashboardSpec => VerdictsAreFinal
  BY DashboardShowsRouter, FinalForAll
=============================================================================
