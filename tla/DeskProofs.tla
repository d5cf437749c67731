----------------------------- MODULE DeskProofs -----------------------------
(***************************************************************************)
(* Proofs about what waits at the desk of the staff and of a player: the   *)
(* ways a 50v50 begins (EventStart), the applicants' round through Discord *)
(* and Steam (Applying), the approvals that the dashboard sends as a batch *)
(* (BulkApproval), a supporter's record beside Patreon's history           *)
(* (SupporterRecord), the PayPal entries of two desks (PaypalEntry), what  *)
(* has to happen next on a record (NextSteps), the voting form             *)
(* (VotingControls) and the drafts of the server's document (ServerDrafts). *)
(* Each part states its inductive invariant (StartInv, ApplyingInv,        *)
(* BulkInv, RecordInv, EntryInv, ControlsInv, DraftsInv; the type          *)
(* invariant of NextSteps) and shows that every step keeps it; the parts   *)
(* are composed over all of MCDesk's steps.                                *)
(***************************************************************************)
EXTENDS MCDesk, FiniteSetTheorems, SequenceTheorems, WellFoundedInduction, TLAPS

-----------------------------------------------------------------------------
(* Least and greatest numbers *)

LEMMA LeastOf ==
  ASSUME NEW T, T \subseteq Nat, T # {}
  PROVE  \E n \in T : \A k \in T : n <= k
<1> DEFINE R == OpToRel(<, Nat)
<1>1. IsWellFoundedOn(R, Nat)
  BY NatLessThanWellFounded
<1>2. \E n \in T : \A k \in T : ~ (<<k, n>> \in R)
  <2> HIDE DEF R
  <2> QED BY <1>1, WFMin, Zenon
<1>3. \A k, n \in T : <<k, n>> \notin R => n <= k
  <2> SUFFICES ASSUME NEW k \in T, NEW n \in T, <<k, n>> \notin R PROVE n <= k
    OBVIOUS
  <2>1. k \in Nat /\ n \in Nat
    OBVIOUS
  <2>2. k < n => <<k, n>> \in R
    BY <2>1 DEF OpToRel
  <2> HIDE DEF R
  <2> QED BY <2>1, <2>2
<1> HIDE DEF R
<1> QED BY <1>2, <1>3

LEMMA GreatestOf ==
  ASSUME NEW T, NEW N \in Nat, T \subseteq 0 .. N, T # {}
  PROVE  \E n \in T : \A k \in T : k <= n
<1> DEFINE U == {N - n : n \in T}
<1>1. U \subseteq Nat /\ U # {}
  <2>1. \A n \in T : N - n \in Nat
    OBVIOUS
  <2> QED BY <2>1
<1>2. PICK u \in U : \A k \in U : u <= k
  BY <1>1, LeastOf
<1>3. PICK n \in T : u = N - n
  BY <1>2
<1>4. ASSUME NEW k \in T PROVE k <= n
  <2>1. N - n <= N - k
    BY <1>2, <1>3
  <2>2. k \in 0 .. N /\ n \in 0 .. N
    BY <1>3
  <2> HIDE DEF U
  <2> QED BY <2>1, <2>2
<1> QED BY <1>4

-----------------------------------------------------------------------------
(* How a 50v50 begins *)

Voted(v) == [id |-> v, offered |-> TRUE]
Answered == {"idle", "done"}
BeforeRow == {"looked", "read", "ready"}

\* One row per ID; a start that has not inserted its own has none, and an answer is about that row.
EventsUnique ==
  /\ \A i, j \in 1..Len(events) : events[i].id = events[j].id => i = j
  /\ \A s \in EventStarts : begin[s].at \in BeforeRow => Recorded(s) = {}
  /\ \A s \in EventStarts :
       /\ told[s] # NoOne => begin[s].at = "done"
       /\ told[s] = "started" => Recorded(s) # {}
       /\ told[s] = "refused" => Recorded(s) = {}

\* Settings of one revision are the same settings.
AsSaved(taken) == taken.rev <= serverSettings.rev /\ (taken.rev = serverSettings.rev => taken.lock = serverSettings.lock)

\* A draft sends what was reviewed, goes on only with those settings and records their lock.
ReviewsFollowed ==
  \A d \in Dialogs :
    /\ settings[d].data # Unread => AsSaved(settings[d].data)
    /\ review[d] # NoReview => AsSaved(review[d])
    /\ begin[d].at # "idle" \/ Recorded(d) # {} => review[d] # NoReview
    /\ begin[d].at \in {"asked", "looked"} => begin[d].rev = review[d].rev
    /\ begin[d].at \in {"read", "ready"} => begin[d].lock = review[d].lock
    /\ \A i \in Recorded(d) : events[i].lock = review[d].lock

\* One event after the other.
EventsInOrder ==
  /\ \A i \in 1..Len(events) : events[i].mark <= Len(ballotsOpened)
  /\ \A i, j \in 1..Len(events) : i < j => events[i].state = "complete" /\ events[i].mark <= events[j].mark

\* Ballots are of different rounds, and only the one opened last is under way.
BallotsInOrder ==
  /\ \A p, q \in 1..Len(ballotsOpened) : ballotsOpened[p].id = ballotsOpened[q].id => p = q
  /\ \A v \in Ballots : begin[v].at \notin Answered =>
       ballotsOpened # <<>> /\ ballotsOpened[Len(ballotsOpened)] = Voted(v)

\* A voted event is of an offered ballot, in the order of the ballots, and a ballot offers 50v50 only when
\* those before it are over and the cooldown is.
VotesInOrder ==
  /\ \A i \in VoteEvents : \E q \in 1..Len(ballotsOpened) : ballotsOpened[q] = Voted(events[i].id)
  /\ \A i, j \in VoteEvents : \A p, q \in 1..Len(ballotsOpened) :
       i < j /\ ballotsOpened[p].id = events[i].id /\ ballotsOpened[q].id = events[j].id => p < q
  /\ \A i \in VoteEvents : \A p, q \in 1..Len(ballotsOpened) :
       ballotsOpened[p].offered /\ ballotsOpened[q].id = events[i].id /\ q < p
         => events[i].state = "complete" /\ p > events[i].mark + Cooldown

\* Nothing remembered outlives a refusal.
RefusalForgets == ActsConfirmed /\ (doubt.refused => confirmed = AccessForgotten)

StartInv ==
  /\ StartTypeOK /\ EventsUnique /\ ReviewsFollowed /\ EventsInOrder /\ BallotsInOrder /\ VotesInOrder
  /\ RefusalForgets

RowSet == [id : EventStarts, lock : BOOLEAN, state : {"going", "review", "complete"}, mark : Nat]
RowsKept ==
  /\ events' \in Seq(RowSet) /\ Len(events') = Len(events)
  /\ \A i \in 1..Len(events) :
       /\ events'[i].id = events[i].id /\ events'[i].lock = events[i].lock
       /\ events[i].state = "complete" => events'[i].state = "complete" /\ events'[i].mark = events[i].mark
       /\ events'[i].mark = events[i].mark \/ events'[i].mark = Len(ballotsOpened)
RowAdded(s) ==
  /\ events' \in Seq(RowSet) /\ Len(events') = Len(events) + 1
  /\ events'[Len(events) + 1] = NewEvent(s) /\ \A i \in 1..Len(events) : events'[i] = events[i]

LEMMA RowFields ==
  ASSUME NEW r \in RowSet
  PROVE  /\ r.id \in EventStarts /\ r.lock \in BOOLEAN /\ r.state \in {"going", "review", "complete"} /\ r.mark \in Nat
BY DEF RowSet

LEMMA RowTypes ==
  ASSUME StartTypeOK
  PROVE  /\ events \in Seq(RowSet) /\ Len(events) \in Nat /\ DOMAIN events = 1..Len(events)
         /\ \A i \in 1..Len(events) : events[i] \in RowSet
         /\ ballotsOpened \in Seq([id : Ballots, offered : BOOLEAN]) /\ Len(ballotsOpened) \in Nat
         /\ \A p \in 1..Len(ballotsOpened) : /\ ballotsOpened[p] \in [id : Ballots, offered : BOOLEAN]
                                              /\ ballotsOpened[p].id \in Ballots /\ ballotsOpened[p].offered \in BOOLEAN
<1> DEFINE B == [id : Ballots, offered : BOOLEAN]
<1>1. events \in Seq(RowSet) /\ ballotsOpened \in Seq(B)
  BY DEF StartTypeOK, RowSet
<1>2. Len(events) \in Nat /\ DOMAIN events = 1..Len(events) /\ Len(ballotsOpened) \in Nat
  BY <1>1, LenProperties
<1>3. /\ \A i \in 1..Len(events) : events[i] \in RowSet
      /\ \A p \in 1..Len(ballotsOpened) : ballotsOpened[p] \in B
  BY <1>1, ElementOfSeq
<1>4. \A b \in B : b.id \in Ballots /\ b.offered \in BOOLEAN
  OBVIOUS
<1> QED BY <1>1, <1>2, <1>3, <1>4

LEMMA RowMoved ==
  ASSUME StartTypeOK, NEW i \in Current, NEW to \in {"going", "review", "complete"}, UNCHANGED ballotsOpened,
         events' = [events EXCEPT ![i].state = to, ![i].mark = Len(ballotsOpened)]
  PROVE  RowsKept
<1>1. /\ events \in Seq(RowSet) /\ i \in 1..Len(events) /\ Len(ballotsOpened) \in Nat /\ events[i] \in RowSet
      /\ events[i].state # "complete"
  BY RowTypes DEF Current
<1>2. PICK r : r = [events[i] EXCEPT !.state = to, !.mark = Len(ballotsOpened)]
  OBVIOUS
<1>3. r \in RowSet /\ r.id = events[i].id /\ r.lock = events[i].lock /\ r.mark = Len(ballotsOpened)
  BY <1>1, <1>2 DEF RowSet
<1>4. events' = [events EXCEPT ![i] = r]
  BY <1>1, <1>2
<1>5. /\ events' \in Seq(RowSet) /\ Len(events') = Len(events)
      /\ \A j \in 1..Len(events) : events'[j] = IF j = i THEN r ELSE events[j]
  BY <1>1, <1>3, <1>4, ExceptSeq
<1> QED BY <1>1, <1>3, <1>5 DEF RowsKept

LEMMA RowsReviewed ==
  ASSUME StartTypeOK, NEW reply \in {"yes", "no", "outage"}, CheckAccess(reply)
  PROVE  RowsKept
<1>1. /\ events \in Seq(RowSet) /\ Len(events) \in Nat /\ DOMAIN events = 1..Len(events) /\ Len(ballotsOpened) \in Nat
      /\ \A i \in 1..Len(events) : events[i] \in RowSet
  BY RowTypes
<1>2. CASE reply # "no"
  <2>1. events' = events
    BY <1>2 DEF CheckAccess
  <2> QED BY <2>1, <1>1 DEF RowsKept
<1>3. CASE reply = "no"
  <2>1. events' = [i \in 1..Len(events) |-> IF i \in Current
                     THEN [events[i] EXCEPT !.state = "review", !.mark = Len(ballotsOpened)] ELSE events[i]]
    BY <1>1, <1>3 DEF CheckAccess
  <2>2. ASSUME NEW i \in 1..Len(events)
        PROVE  /\ events'[i] \in RowSet /\ events'[i].id = events[i].id /\ events'[i].lock = events[i].lock
               /\ events[i].state = "complete" => events'[i] = events[i]
               /\ events'[i].mark = events[i].mark \/ events'[i].mark = Len(ballotsOpened)
    <3>1. CASE i \in Current
      <4>1. events'[i] = [events[i] EXCEPT !.state = "review", !.mark = Len(ballotsOpened)]
        BY <2>1, <3>1
      <4> QED BY <4>1, <3>1, <1>1 DEF RowSet, Current
    <3>2. CASE i \notin Current
      <4>1. events'[i] = events[i]
        BY <2>1, <3>2
      <4> QED BY <4>1, <1>1
    <3> QED BY <3>1, <3>2
  <2>3. events' \in [1..Len(events) -> RowSet]
    <3>1. \A i \in 1..Len(events) : events'[i] \in RowSet
      BY <2>2
    <3> QED BY <2>1, <3>1
  <2>4. events' \in Seq(RowSet)
    BY <2>3, <1>1, SeqDef
  <2>5. Len(events') = Len(events)
    <3>1. Len(events') \in Nat /\ DOMAIN events' = 1..Len(events')
      BY <2>4, LenProperties
    <3>2. 1..Len(events') = 1..Len(events)
      BY <2>3, <3>1
    <3>3. \A m, n \in Nat : 1..m = 1..n => m <= n
      <4> SUFFICES ASSUME NEW m \in Nat, NEW n \in Nat, 1..m = 1..n, ~(m <= n) PROVE FALSE
        OBVIOUS
      <4>1. m \in 1..m /\ m \notin 1..n
        OBVIOUS
      <4> QED BY <4>1
    <3>4. Len(events') <= Len(events) /\ Len(events) <= Len(events')
      BY <3>1, <3>2, <3>3, <1>1
    <3>5. \A m, n \in Nat : m <= n /\ n <= m => m = n
      OBVIOUS
    <3>6. Len(events) \in Nat /\ Len(events') \in Nat
      BY <3>1, <1>1
    <3> QED BY <3>4, <3>5, <3>6
  <2> QED BY <2>2, <2>4, <2>5 DEF RowsKept
<1> QED BY <1>2, <1>3

LEMMA RowInserted ==
  ASSUME StartTypeOK, NEW s \in EventStarts, events' = Append(events, NewEvent(s)), begin[s].lock \in BOOLEAN
  PROVE  RowAdded(s)
<1>1. events \in Seq(RowSet) /\ Len(ballotsOpened) \in Nat
  BY RowTypes
<1>2. NewEvent(s) \in RowSet
  BY <1>1 DEF NewEvent, RowSet
<1> QED BY <1>1, <1>2 DEF RowAdded

\* A step inserts one row, or changes at most how far the unfinished ones are.
LEMMA StepRows ==
  ASSUME StartTypeOK, [StartNext]_startVars
  PROVE  \/ RowsKept
         \/ \E s \in EventStarts : /\ CreateEvent(s) /\ Current = {} /\ Recorded(s) = {} /\ RowAdded(s)
                                   /\ begin[s].at = "ready"
<1>1. CASE UNCHANGED events
  BY <1>1, RowTypes DEF RowsKept
<1>2. CASE EventMoves
  <2>1. PICK i \in Current : \E to \in StateMoves[events[i].state] :
          /\ events' = [events EXCEPT ![i].state = to, ![i].mark = Len(ballotsOpened)] /\ UNCHANGED ballotsOpened
    BY <1>2 DEF EventMoves
  <2>2. events[i].state \in {"going", "review"}
    BY RowTypes, RowFields DEF Current
  <2>3. \A to \in StateMoves[events[i].state] : to \in {"going", "review", "complete"}
    BY <2>2 DEF StateMoves
  <2> QED BY <2>1, <2>3, RowMoved
<1>3. ASSUME NEW s \in EventStarts, CreateEvent(s), events' # events PROVE \E t \in EventStarts :
        CreateEvent(t) /\ Current = {} /\ Recorded(t) = {} /\ RowAdded(t) /\ begin[t].at = "ready"
  <2>1. Current = {} /\ Recorded(s) = {} /\ events' = Append(events, NewEvent(s)) /\ begin[s].at = "ready"
    BY <1>3 DEF CreateEvent
  <2>2. begin[s].lock \in BOOLEAN
    BY DEF StartTypeOK, Begins
  <2> QED BY <1>3, <2>1, <2>2, RowInserted
<1>4. ASSUME NEW reply \in {"yes", "no", "outage"}, CheckAccess(reply) PROVE RowsKept
  BY <1>4, RowsReviewed
<1> QED
  BY <1>1, <1>2, <1>3, <1>4 DEF StartNext, Drafts, Starting, ReadSettings, RefreshPage, Fill, ReviewDraft, Arm, OpenBallot,
     VoteWon, FindEvent, Configuration, Prepare, CrashStart, GameChanges, AccessAges, startVars

LEMMA RowsKeptSame ==
  ASSUME StartTypeOK, RowsKept
  PROVE  /\ \A s : Recorded(s)' = Recorded(s)
         /\ VoteEvents' = VoteEvents
<1>1. Len(events') = Len(events) /\ \A i \in 1..Len(events) : events'[i].id = events[i].id
  BY DEF RowsKept
<1>2. ASSUME NEW s PROVE Recorded(s)' = Recorded(s)
  <2>1. \A i : i \in Recorded(s)' <=> i \in 1..Len(events') /\ events'[i].id = s
    BY DEF Recorded
  <2>2. \A i : i \in Recorded(s) <=> i \in 1..Len(events) /\ events[i].id = s
    BY DEF Recorded
  <2>3. \A i : i \in Recorded(s)' <=> i \in Recorded(s)
    BY <1>1, <2>1, <2>2
  <2> QED BY <2>3
<1>3. VoteEvents' = VoteEvents
  <2>1. \A i : i \in VoteEvents' <=> i \in 1..Len(events') /\ events'[i].id \in Ballots
    BY DEF VoteEvents
  <2>2. \A i : i \in VoteEvents <=> i \in 1..Len(events) /\ events[i].id \in Ballots
    BY DEF VoteEvents
  <2>3. \A i : i \in VoteEvents' <=> i \in VoteEvents
    BY <1>1, <2>1, <2>2
  <2> QED BY <2>3
<1> QED BY <1>2, <1>3

LEMMA RowAddedSame ==
  ASSUME StartTypeOK, NEW s \in EventStarts, RowAdded(s)
  PROVE  /\ Len(events) \in Nat /\ events'[Len(events) + 1].id = s
         /\ \A t : t # s => Recorded(t)' = Recorded(t)
         /\ Recorded(s)' = Recorded(s) \cup {Len(events) + 1}
         /\ VoteEvents' = IF s \in Ballots THEN VoteEvents \cup {Len(events) + 1} ELSE VoteEvents
<1>1. /\ Len(events) \in Nat /\ Len(events') = Len(events) + 1 /\ events'[Len(events) + 1].id = s
      /\ \A i \in 1..Len(events) : events'[i] = events[i]
  BY RowTypes DEF RowAdded, NewEvent
<1>2. \A i : i \in 1..Len(events') <=> i \in 1..Len(events) \/ i = Len(events) + 1
  BY <1>1
<1>3. Len(events) + 1 \notin 1..Len(events)
  BY <1>1
<1>4. ASSUME NEW t
      PROVE  \A i : i \in Recorded(t)' <=> i \in Recorded(t) \/ (t = s /\ i = Len(events) + 1)
  <2>1. \A i : i \in Recorded(t)' <=> i \in 1..Len(events') /\ events'[i].id = t
    BY DEF Recorded
  <2>2. \A i : i \in Recorded(t) <=> i \in 1..Len(events) /\ events[i].id = t
    BY DEF Recorded
  <2> QED BY <1>1, <1>2, <1>3, <2>1, <2>2
<1>5. \A i : i \in VoteEvents' <=> i \in VoteEvents \/ (s \in Ballots /\ i = Len(events) + 1)
  <2>1. \A i : i \in VoteEvents' <=> i \in 1..Len(events') /\ events'[i].id \in Ballots
    BY DEF VoteEvents
  <2>2. \A i : i \in VoteEvents <=> i \in 1..Len(events) /\ events[i].id \in Ballots
    BY DEF VoteEvents
  <2> QED BY <1>1, <1>2, <1>3, <2>1, <2>2
<1>6. ASSUME NEW t, t # s PROVE Recorded(t)' = Recorded(t)
  <2>1. \A i : i \in Recorded(t)' <=> i \in Recorded(t)
    BY <1>4, <1>6
  <2> QED BY <2>1
<1>7. Recorded(s)' = Recorded(s) \cup {Len(events) + 1}
  BY <1>4
<1>8. VoteEvents' = IF s \in Ballots THEN VoteEvents \cup {Len(events) + 1} ELSE VoteEvents
  BY <1>5
<1> QED BY <1>1, <1>6, <1>7, <1>8

-----------------------------------------------------------------------------
(* The parts, step by step *)

\* What a step does to the starts and their answers.
LEMMA StartSteps ==
  ASSUME StartTypeOK, [StartNext]_startVars
  PROVE  \/ UNCHANGED <<begin, told>>
         \/ \E d \in Dialogs : Arm(d)
         \/ \E v \in Ballots : VoteWon(v)
         \/ \E s \in EventStarts : Starting(s)
BY DEF StartNext, Drafts, ReadSettings, RefreshPage, Fill, ReviewDraft, OpenBallot, EventMoves, GameChanges, AccessAges,
     CheckAccess, startVars

LEMMA StartTyped ==
  ASSUME StartTypeOK, [StartNext]_startVars
  PROVE  StartTypeOK'
<1> DEFINE B == [id : Ballots, offered : BOOLEAN]
<1>1. events' \in Seq(RowSet)
  BY StepRows DEF RowsKept, RowAdded
<1>2. ballotsOpened' \in Seq(B)
  <2>1. CASE UNCHANGED ballotsOpened
    BY <2>1, RowTypes
  <2>2. ASSUME NEW v \in Ballots, OpenBallot(v) PROVE ballotsOpened' \in Seq(B)
    <3>1. PICK live \in BOOLEAN : ballotsOpened' = Append(ballotsOpened, [id |-> v, offered |-> live /\ OfferAllowed])
      BY <2>2 DEF OpenBallot
    <3>2. (live /\ OfferAllowed) \in BOOLEAN
      OBVIOUS
    <3>3. [id |-> v, offered |-> live /\ OfferAllowed] \in B
      BY <3>2
    <3> QED BY <3>1, <3>3, RowTypes
  <2> QED BY <2>1, <2>2 DEF StartNext, Drafts, Starting, ReadSettings, RefreshPage, Fill, ReviewDraft, Arm, VoteWon, FindEvent,
      Configuration, Prepare, CreateEvent, CrashStart, EventMoves, GameChanges, CheckAccess, AccessAges, startVars
<1>3. begin' \in [EventStarts -> Begins] /\ told' \in [EventStarts -> {NoOne, "started", "refused"}]
  <2>1. CASE UNCHANGED <<begin, told>>
    BY <2>1 DEF StartTypeOK
  <2>2. ASSUME NEW d \in Dialogs, Arm(d) PROVE <1>3!1 /\ <1>3!2
    <3>1. review[d].rev \in 0..MaxRevision
      BY <2>2, StartBounds DEF Arm, StartTypeOK, SettingsReads, NoReview
    <3> QED BY <2>2, <3>1 DEF Arm, StartTypeOK, Begins, EventStarts
  <2>3. ASSUME NEW v \in Ballots, VoteWon(v) PROVE <1>3!1 /\ <1>3!2
    BY <2>3, StartBounds DEF VoteWon, StartTypeOK, Begins, EventStarts
  <2>4. ASSUME NEW s \in EventStarts, Starting(s) PROVE <1>3!1 /\ <1>3!2
    <3>1. serverSettings.rev \in 0..MaxRevision /\ serverSettings.lock \in BOOLEAN /\ begin[s] \in Begins
      BY StartBounds DEF StartTypeOK, SettingsReads
    <3>2. \A x \in {"done", "looked", "ready"} : [begin[s] EXCEPT !.at = x] \in Begins
      BY <3>1 DEF Begins
    <3>3. /\ [at |-> "read", rev |-> serverSettings.rev, lock |-> serverSettings.lock] \in Begins
          /\ NotBegun \in Begins
      BY <3>1, StartBounds DEF Begins, NotBegun
    <3>4. \E b \in Begins : begin' = [begin EXCEPT ![s] = b]
      <4>1. CASE FindEvent(s)
        BY <4>1, <3>2 DEF FindEvent, AnswerStart
      <4>2. CASE Configuration(s)
        BY <4>2, <3>2, <3>3 DEF Configuration, AnswerStart
      <4>3. CASE Prepare(s) \/ CreateEvent(s)
        BY <4>3, <3>2 DEF Prepare, CreateEvent, AnswerStart
      <4>4. CASE CrashStart(s)
        BY <4>4, <3>2, <3>3 DEF CrashStart
      <4> QED BY <2>4, <4>1, <4>2, <4>3, <4>4 DEF Starting
    <3>5. \E a \in {NoOne, "started", "refused"} : told' = told \/ told' = [told EXCEPT ![s] = a]
      BY <2>4 DEF Starting, FindEvent, Configuration, Prepare, CreateEvent, CrashStart, AnswerStart
    <3> QED BY <3>4, <3>5 DEF StartTypeOK
  <2> QED BY <2>1, <2>2, <2>3, <2>4, StartSteps
<1>4. serverSettings' \in SettingsReads
  <2>1. CASE GameChanges
    <3>1. serverSettings.rev \in 1..MaxRevision /\ serverSettings.lock \in BOOLEAN
      BY DEF StartTypeOK, SettingsReads
    <3>2. serverSettings.rev + 1 \in 1..MaxRevision
      BY <3>1, <2>1, StartBounds DEF GameChanges
    <3> QED BY <3>1, <3>2, <2>1 DEF GameChanges, SettingsReads
  <2>2. CASE UNCHANGED serverSettings
    BY <2>2 DEF StartTypeOK
  <2> QED BY <2>1, <2>2 DEF StartNext, Drafts, Starting, ReadSettings, RefreshPage, Fill, ReviewDraft, Arm,
     VoteWon, OpenBallot, FindEvent, Configuration, Prepare, CreateEvent, CrashStart, EventMoves, CheckAccess,
     AccessAges, startVars
<1>5. /\ settings' \in [Dialogs -> PageReads(SettingsReads)]
      /\ pinned' \in [Dialogs -> 0..MaxRevision] /\ review' \in [Dialogs -> SettingsReads \cup {NoReview}]
  <2>1. CASE UNCHANGED <<settings, pinned, review>>
    BY <2>1 DEF StartTypeOK
  <2>2. ASSUME NEW d \in Dialogs, ReadSettings(d) \/ RefreshPage(d) PROVE <1>5!1 /\ <1>5!2
    <3>1. settings[d] \in PageReads(SettingsReads)
      BY DEF StartTypeOK
    <3>2. AskedAgain(settings[d]) \in PageReads(SettingsReads) /\ ShownNow(serverSettings) \in PageReads(SettingsReads)
      BY <3>1 DEF AskedAgain, ShownNow, PageReads, StartTypeOK
    <3>3. \E r \in PageReads(SettingsReads) : settings' = [settings EXCEPT ![d] = r]
      <4>1. CASE ReadSettings(d)
        BY <4>1, <3>2 DEF ReadSettings
      <4>2. CASE RefreshPage(d)
        BY <4>2, <3>2 DEF RefreshPage
      <4> QED BY <2>2, <4>1, <4>2
    <3>4. /\ pinned' \in {pinned, [pinned EXCEPT ![d] = 0]} /\ review' = review
      BY <2>2 DEF ReadSettings, RefreshPage
    <3>5. settings' \in [Dialogs -> PageReads(SettingsReads)] /\ review' \in [Dialogs -> SettingsReads \cup {NoReview}]
      <4> HIDE DEF NoReview, PageReads, SettingsReads
      <4> QED BY <3>3, <3>4 DEF StartTypeOK
    <3>6. pinned' \in [Dialogs -> 0..MaxRevision]
      <4>1. pinned \in [Dialogs -> 0..MaxRevision] /\ 0 \in 0..MaxRevision
        BY StartBounds DEF StartTypeOK
      <4>2. pinned' = pinned \/ pinned' = [pinned EXCEPT ![d] = 0]
        BY <3>4
      <4> QED BY <4>1, <4>2
    <3> QED BY <3>5, <3>6
  <2>3. ASSUME NEW d \in Dialogs, Fill(d) \/ ReviewDraft(d) PROVE <1>5!1 /\ <1>5!2
    <3>1. settings[d].data \in SettingsReads
      BY <2>3 DEF StartTypeOK, Fill, ReviewDraft, Drafting, Shown, PageReads
    <3>2. settings[d].data.rev \in 0..MaxRevision
      BY <3>1, StartBounds DEF SettingsReads
    <3> QED BY <2>3, <3>1, <3>2 DEF Fill, ReviewDraft, StartTypeOK
  <2> QED BY <2>1, <2>2, <2>3 DEF StartNext, Drafts, Starting, Arm, VoteWon, OpenBallot, FindEvent,
      Configuration, Prepare, CreateEvent, CrashStart, EventMoves, GameChanges, CheckAccess, AccessAges, startVars
<1>6. confirmed' \in 0..AccessGrace + 1 /\ doubt' \in [refused : BOOLEAN, acted : BOOLEAN]
  <2>1. CASE UNCHANGED <<confirmed, doubt>>
    BY <2>1 DEF StartTypeOK
  <2>2. CASE AccessAges
    BY <2>2, StartBounds DEF AccessAges, Usable, StartTypeOK
  <2>3. ASSUME NEW reply \in {"yes", "no", "outage"}, CheckAccess(reply) PROVE <1>6!1 /\ <1>6!2
    <3>1. confirmed' \in 0..AccessGrace + 1
      <4>1. confirmed' \in {0, AccessForgotten, confirmed}
        BY <2>3 DEF CheckAccess
      <4> QED BY <4>1, StartBounds DEF AccessForgotten, StartTypeOK
    <3>2. doubt' \in [refused : BOOLEAN, acted : BOOLEAN]
      BY <2>3 DEF CheckAccess
    <3> QED BY <3>1, <3>2
  <2> QED BY <2>1, <2>2, <2>3 DEF StartNext, Drafts, Starting, ReadSettings, RefreshPage, Fill, ReviewDraft, Arm, VoteWon,
      OpenBallot, FindEvent, Configuration, Prepare, CreateEvent, CrashStart, EventMoves, GameChanges, startVars
<1> HIDE DEF B
<1>7. ballotsOpened' \in Seq([id : Ballots, offered : BOOLEAN])
  BY <1>2 DEF B
<1> QED BY <1>1, <1>3, <1>4, <1>5, <1>6, <1>7 DEF StartTypeOK, RowSet

LEMMA UniqueStep ==
  ASSUME StartTypeOK, EventsUnique, [StartNext]_startVars
  PROVE  EventsUnique'
<1>1. /\ Len(events) \in Nat /\ begin \in [EventStarts -> Begins] /\ told \in [EventStarts -> {NoOne, "started", "refused"}]
  BY RowTypes DEF StartTypeOK
<1>2. \A i, j \in 1..Len(events') : events'[i].id = events'[j].id => i = j
  <2>1. CASE RowsKept
    BY <2>1 DEF RowsKept, EventsUnique
  <2>2. ASSUME NEW s \in EventStarts, Recorded(s) = {}, RowAdded(s),
               NEW i \in 1..Len(events'), NEW j \in 1..Len(events'), events'[i].id = events'[j].id
        PROVE  i = j
    <3>1. \A m \in 1..Len(events) : events[m].id # s
      BY <2>2 DEF Recorded
    <3>2. /\ Len(events') = Len(events) + 1 /\ events'[Len(events) + 1].id = s
          /\ \A m \in 1..Len(events) : events'[m] = events[m]
      BY <2>2, RowAddedSame DEF RowAdded
    <3>3. \A m \in 1..Len(events') : m \in 1..Len(events) \/ m = Len(events) + 1
      BY <1>1, <3>2
    <3>4. CASE i \in 1..Len(events) /\ j \in 1..Len(events)
      BY <2>2, <3>2, <3>4 DEF EventsUnique
    <3>5. CASE i = Len(events) + 1 /\ j \in 1..Len(events)
      BY <2>2, <3>1, <3>2, <3>5
    <3>6. CASE i \in 1..Len(events) /\ j = Len(events) + 1
      BY <2>2, <3>1, <3>2, <3>6
    <3> QED BY <3>3, <3>4, <3>5, <3>6
  <2> QED BY <2>1, <2>2, StepRows
<1>3. ASSUME NEW s \in EventStarts
      PROVE  /\ begin'[s].at \in BeforeRow => Recorded(s)' = {}
             /\ told'[s] # NoOne => begin'[s].at = "done"
             /\ told'[s] = "started" => Recorded(s)' # {}
             /\ told'[s] = "refused" => Recorded(s)' = {}
  <2> DEFINE StartHolds == <1>3!2
  <2>1. /\ begin[s].at \in BeforeRow => Recorded(s) = {}
        /\ told[s] # NoOne => begin[s].at = "done"
        /\ told[s] = "started" => Recorded(s) # {}
        /\ told[s] = "refused" => Recorded(s) = {}
    BY DEF EventsUnique
  <2>2. ASSUME RowsKept, UNCHANGED <<begin, told>> PROVE StartHolds
    BY <2>1, <2>2, RowsKeptSame
  <2>3. ASSUME NEW t \in EventStarts, CreateEvent(t), Current = {} /\ Recorded(t) = {}, RowAdded(t), begin[t].at = "ready"
        PROVE  StartHolds
    <3>1. /\ begin' = [begin EXCEPT ![t].at = "done"] /\ told' = [told EXCEPT ![t] = "started"]
      BY <2>3 DEF CreateEvent, AnswerStart
    <3>2. CASE t = s
      <4>1. Recorded(s)' # {}
        BY <2>3, <3>2, RowAddedSame
      <4>2. begin'[s].at = "done" /\ told'[s] = "started"
        BY <1>1, <3>1, <3>2 DEF Begins
      <4> QED BY <4>1, <4>2 DEF BeforeRow
    <3>3. CASE t # s
      <4>1. Recorded(s)' = Recorded(s)
        BY <2>3, <3>3, RowAddedSame
      <4>2. begin'[s] = begin[s] /\ told'[s] = told[s]
        BY <1>1, <3>1, <3>3
      <4> QED BY <2>1, <4>1, <4>2
    <3> QED BY <3>2, <3>3
  <2>4. ASSUME NEW t \in EventStarts, Starting(t), RowsKept PROVE StartHolds
    <3>1. Recorded(s)' = Recorded(s)
      BY <2>4, RowsKeptSame
    <3>2. CASE t # s
      <4>1. begin'[s] = begin[s] /\ told'[s] = told[s]
        BY <1>1, <2>4, <3>2 DEF Starting, FindEvent, Configuration, Prepare, CreateEvent, CrashStart, AnswerStart
      <4> QED BY <2>1, <3>1, <4>1
    <3>3. CASE t = s
      <4>1. CASE FindEvent(s)
        BY <1>1, <2>1, <3>1, <4>1 DEF FindEvent, KnownEvent, AnswerStart, BeforeRow, NoOne, Begins
      <4>2. CASE Configuration(s)
        BY <1>1, <2>1, <3>1, <4>2 DEF Configuration, AnswerStart, BeforeRow, NoOne, Begins
      <4>3. CASE Prepare(s)
        BY <1>1, <2>1, <3>1, <4>3 DEF Prepare, AnswerStart, BeforeRow, NoOne, Begins
      <4>4. CASE CreateEvent(s)
        <5>1. /\ begin[s].at = "ready" /\ Recorded(s) = {}
          BY <2>1, <4>4 DEF CreateEvent, BeforeRow
        <5>2. events' = events
          <6>1. events' # Append(events, NewEvent(s))
            BY <1>1, <2>4, RowTypes DEF RowsKept
          <6> QED BY <4>4, <6>1 DEF CreateEvent
        <5>3. begin' = [begin EXCEPT ![s].at = "done"] /\ told' = [told EXCEPT ![s] = "refused"]
          <6>1. events' # Append(events, NewEvent(s))
            BY <1>1, <2>4, RowTypes DEF RowsKept
          <6> QED BY <4>4, <5>1, <6>1 DEF CreateEvent, AnswerStart
        <5>4. begin'[s].at = "done" /\ told'[s] = "refused"
          BY <1>1, <5>3 DEF Begins
        <5> QED BY <3>1, <5>1, <5>4 DEF BeforeRow
      <4>5. CASE CrashStart(s)
        BY <1>1, <2>1, <3>1, <4>5 DEF CrashStart, NotBegun, BeforeRow, NoOne, Begins
      <4> QED BY <2>4, <3>3, <4>1, <4>2, <4>3, <4>4, <4>5 DEF Starting
    <3> QED BY <3>2, <3>3
  <2>5. ASSUME NEW t \in EventStarts, RowsKept, UNCHANGED told, begin[t].at = "idle",
               NEW b, begin' = [begin EXCEPT ![t] = b], b.at = "asked" PROVE StartHolds
    <3>1. Recorded(s)' = Recorded(s) /\ told'[s] = told[s]
      BY <2>5, RowsKeptSame
    <3>2. CASE t = s
      <4>1. begin'[s].at = "asked" /\ begin[s].at = "idle"
        BY <1>1, <2>5, <3>2
      <4> QED BY <2>1, <3>1, <4>1 DEF BeforeRow
    <3>3. CASE t # s
      <4>1. begin'[s] = begin[s]
        BY <1>1, <2>5, <3>3
      <4> QED BY <2>1, <3>1, <4>1
    <3> QED BY <3>2, <3>3
  <2>6. ASSUME NEW d \in Dialogs, Arm(d) PROVE StartHolds
    <3>1. RowsKept
      BY <2>6, RowTypes DEF Arm, RowsKept
    <3>2. PICK b : b = [at |-> "asked", rev |-> review[d].rev, lock |-> FALSE]
      OBVIOUS
    <3>3. /\ b.at = "asked" /\ begin' = [begin EXCEPT ![d] = b] /\ begin[d].at = "idle" /\ UNCHANGED told
          /\ d \in EventStarts
      BY <2>6, <3>2 DEF Arm, EventStarts
    <3> QED BY <2>5, <3>1, <3>3
  <2>7. ASSUME NEW v \in Ballots, VoteWon(v) PROVE StartHolds
    <3>1. RowsKept
      BY <2>7, RowTypes DEF VoteWon, RowsKept
    <3>2. PICK b : b = [at |-> "asked", rev |-> 0, lock |-> FALSE]
      OBVIOUS
    <3>3. /\ b.at = "asked" /\ begin' = [begin EXCEPT ![v] = b] /\ begin[v].at = "idle" /\ UNCHANGED told
          /\ v \in EventStarts
      BY <2>7, <3>2 DEF VoteWon, EventStarts
    <3> QED BY <2>5, <3>1, <3>3
  <2> HIDE DEF StartHolds
  <2>8. StartHolds
    <3>1. CASE RowsKept
      <4>1. CASE UNCHANGED <<begin, told>>
        BY <2>2, <3>1, <4>1
      <4>2. ASSUME NEW t \in EventStarts, Starting(t) PROVE StartHolds
        BY <2>4, <3>1, <4>2
      <4> QED BY <2>6, <2>7, <4>1, <4>2, StartSteps, Zenon
    <3> QED BY <2>3, <3>1, StepRows
  <2> QED BY <2>8 DEF StartHolds
<1> QED BY <1>2, <1>3 DEF EventsUnique

\* What a start in Dialogs does to what it read.
LEMMA ReviewsStep ==
  ASSUME StartTypeOK, ReviewsFollowed, [StartNext]_startVars
  PROVE  ReviewsFollowed'
<1>1. /\ Len(events) \in Nat /\ begin \in [EventStarts -> Begins] /\ settings \in [Dialogs -> PageReads(SettingsReads)]
      /\ review \in [Dialogs -> SettingsReads \cup {NoReview}] /\ serverSettings \in SettingsReads
      /\ \A d \in Dialogs : d \in EventStarts /\ d \notin Ballots
  BY RowTypes, StartKinds DEF StartTypeOK, EventStarts
<1>2. SUFFICES ASSUME NEW d \in Dialogs
               PROVE  /\ settings'[d].data # Unread => AsSaved(settings[d].data)'
                      /\ review'[d] # NoReview => AsSaved(review[d])'
                      /\ begin'[d].at # "idle" \/ Recorded(d)' # {} => review'[d] # NoReview
                      /\ begin'[d].at \in {"asked", "looked"} => begin'[d].rev = review'[d].rev
                      /\ begin'[d].at \in {"read", "ready"} => begin'[d].lock = review'[d].lock
                      /\ \A i \in Recorded(d)' : events'[i].lock = review'[d].lock
  BY DEF ReviewsFollowed
<1> DEFINE Pages == /\ settings'[d].data # Unread => AsSaved(settings[d].data)'
                    /\ review'[d] # NoReview => AsSaved(review[d])'
           Begun == /\ begin'[d].at # "idle" => review'[d] # NoReview
                    /\ begin'[d].at \in {"asked", "looked"} => begin'[d].rev = review'[d].rev
                    /\ begin'[d].at \in {"read", "ready"} => begin'[d].lock = review'[d].lock
           TypeRows == /\ Recorded(d)' # {} => review'[d] # NoReview
                   /\ \A i \in Recorded(d)' : events'[i].lock = review'[d].lock
<1>3. /\ settings[d].data # Unread => AsSaved(settings[d].data)
      /\ review[d] # NoReview => AsSaved(review[d])
      /\ begin[d].at # "idle" \/ Recorded(d) # {} => review[d] # NoReview
      /\ begin[d].at \in {"asked", "looked"} => begin[d].rev = review[d].rev
      /\ begin[d].at \in {"read", "ready"} => begin[d].lock = review[d].lock
      /\ \A i \in Recorded(d) : events[i].lock = review[d].lock
  BY DEF ReviewsFollowed
\* A review stays.
<1>4. review[d] # NoReview => review'[d] = review[d]
  BY <1>1 DEF StartNext, Drafts, Starting, ReadSettings, RefreshPage, Fill, ReviewDraft, Drafting, Arm, VoteWon, OpenBallot,
     FindEvent, Configuration, Prepare, CreateEvent, CrashStart, EventMoves, GameChanges, CheckAccess, AccessAges, startVars
<1>5. Pages
  <2>1. CASE UNCHANGED <<settings, review, serverSettings>>
    BY <2>1, <1>3 DEF AsSaved
  <2>2. ASSUME NEW e \in Dialogs, ReadSettings(e) PROVE Pages
    <3>1. UNCHANGED <<serverSettings, review>> /\ settings' = [settings EXCEPT ![e] = ShownNow(serverSettings)]
      BY <2>2 DEF ReadSettings
    <3>2. settings'[d] = settings[d] \/ settings'[d].data = serverSettings
      BY <1>1, <3>1 DEF ShownNow
    <3>3. AsSaved(serverSettings)
      BY <1>1 DEF AsSaved, SettingsReads
    <3> QED BY <3>1, <3>2, <3>3, <1>3 DEF AsSaved
  <2>3. ASSUME NEW e \in Dialogs, RefreshPage(e) PROVE Pages
    <3>1. UNCHANGED <<serverSettings, review>> /\ settings' = [settings EXCEPT ![e] = AskedAgain(settings[e])]
      BY <2>3 DEF RefreshPage
    <3>2. settings'[d].data = settings[d].data
      BY <1>1, <3>1 DEF AskedAgain, PageReads
    <3> QED BY <3>1, <3>2, <1>3 DEF AsSaved
  <2>4. ASSUME NEW e \in Dialogs, ReviewDraft(e) PROVE Pages
    <3>1. UNCHANGED <<serverSettings, settings>> /\ review' = [review EXCEPT ![e] = settings[e].data]
          /\ settings[e].data # Unread
      BY <2>4 DEF ReviewDraft, Drafting, Shown
    <3>2. AsSaved(settings[e].data)
      BY <3>1 DEF ReviewsFollowed
    <3>3. review'[d] = review[d] \/ review'[d] = settings[e].data
      BY <1>1, <3>1
    <3> QED BY <3>1, <3>2, <3>3, <1>3 DEF AsSaved
  <2>5. CASE GameChanges
    <3>1. UNCHANGED <<review, settings>> /\ serverSettings'.rev = serverSettings.rev + 1
      BY <2>5 DEF GameChanges
    <3>2. \A taken : AsSaved(taken) /\ taken.rev \in Nat => AsSaved(taken)'
      BY <1>1, <3>1 DEF AsSaved, SettingsReads
    <3>3. /\ settings[d].data # Unread => settings[d].data.rev \in Nat
          /\ review[d] # NoReview => review[d].rev \in Nat
      BY <1>1 DEF PageReads, SettingsReads
    <3> QED BY <3>1, <3>2, <3>3, <1>3 DEF AsSaved
  <2> HIDE DEF Pages
  <2> QED BY <2>1, <2>2, <2>3, <2>4, <2>5 DEF StartNext, Drafts, Starting, Fill, Arm, VoteWon, OpenBallot,
     FindEvent, Configuration, Prepare, CreateEvent, CrashStart, EventMoves, CheckAccess, AccessAges, startVars
<1>6. TypeRows
  <2>1. CASE RowsKept
    <3>1. Recorded(d)' = Recorded(d)
      BY <2>1, RowsKeptSame
    <3>2. \A i \in Recorded(d) : events'[i].lock = events[i].lock
      BY <2>1 DEF RowsKept, Recorded
    <3> QED BY <3>1, <3>2, <1>3, <1>4
  <2>2. ASSUME NEW s \in EventStarts, CreateEvent(s), RowAdded(s), begin[s].at = "ready" PROVE TypeRows
    <3>1. review' = review
      BY <2>2 DEF CreateEvent
    <3>2. \A i \in Recorded(d) : events'[i].lock = events[i].lock
      BY <2>2 DEF RowAdded, Recorded
    <3>3. CASE s # d
      <4>1. Recorded(d)' = Recorded(d)
        BY <2>2, <3>3, RowAddedSame
      <4> QED BY <3>1, <3>2, <4>1, <1>3
    <3>4. CASE s = d
      <4>1. Recorded(d)' = Recorded(d) \cup {Len(events) + 1}
        BY <2>2, <3>4, RowAddedSame
      <4>2. events'[Len(events) + 1].lock = begin[d].lock
        BY <2>2, <3>4 DEF RowAdded, NewEvent
      <4> QED BY <2>2, <3>1, <3>2, <3>4, <4>1, <4>2, <1>3
    <3> QED BY <3>3, <3>4
  <2> HIDE DEF TypeRows
  <2> QED BY <2>1, <2>2, StepRows
<1>7. Begun
  <2>1. CASE begin'[d] = begin[d]
    BY <2>1, <1>3, <1>4
  <2>2. ASSUME NEW e \in Dialogs, Arm(e), begin'[d] # begin[d] PROVE Begun
    <3>1. e = d /\ review' = review /\ review[d] # NoReview
          /\ begin'[d] = [at |-> "asked", rev |-> review[d].rev, lock |-> FALSE]
      BY <1>1, <2>2 DEF Arm
    <3> QED BY <3>1
  <2>3. ASSUME NEW v \in Ballots, VoteWon(v) PROVE begin'[d] = begin[d]
    BY <1>1, <2>3 DEF VoteWon, EventStarts
  <2>4. ASSUME NEW s \in EventStarts, Starting(s), begin'[d] # begin[d] PROVE Begun
    <3>1. s = d /\ UNCHANGED review
      BY <1>1, <2>4 DEF Starting, FindEvent, Configuration, Prepare, CreateEvent, CrashStart, AnswerStart
    <3>2. CASE FindEvent(d)
      BY <1>1, <1>3, <3>1, <3>2 DEF FindEvent, AnswerStart, Begins
    <3>3. CASE Configuration(d)
      <4>1. CASE SettingsMatch(d)
        <5>1. /\ begin'[d].at = "read" /\ begin'[d].lock = serverSettings.lock /\ begin[d].at = "looked"
              /\ begin[d].rev = serverSettings.rev
          BY <1>1, <3>3, <4>1 DEF Configuration, SettingsMatch
        <5>2. review[d] # NoReview /\ review[d].lock = serverSettings.lock
          BY <1>3, <5>1 DEF AsSaved
        <5> QED BY <3>1, <5>1, <5>2
      <4>2. CASE ~SettingsMatch(d)
        BY <1>1, <1>3, <3>1, <3>3, <4>2 DEF Configuration, AnswerStart, Begins
      <4> QED BY <4>1, <4>2
    <3>4. CASE Prepare(d)
      BY <1>1, <1>3, <3>1, <3>4 DEF Prepare, AnswerStart, Begins
    <3>5. CASE CreateEvent(d)
      BY <1>1, <1>3, <3>1, <3>5 DEF CreateEvent, AnswerStart, Begins
    <3>6. CASE CrashStart(d)
      <4>1. begin'[d].at = "done" /\ begin[d].at # "idle"
        BY <1>1, <3>6 DEF CrashStart, Begins
      <4> QED BY <1>3, <3>1, <4>1
    <3> QED BY <2>4, <3>1, <3>2, <3>3, <3>4, <3>5, <3>6 DEF Starting
  <2>5. CASE UNCHANGED <<begin, told>>
    BY <2>1, <2>5
  <2> HIDE DEF Begun
  <2> QED BY <2>1, <2>2, <2>3, <2>4, <2>5, StartSteps, Zenon
<1> QED BY <1>5, <1>6, <1>7

\* Ballots are only added, each behind the others.
LEMMA BallotsGrow ==
  ASSUME StartTypeOK, [StartNext]_startVars
  PROVE  \/ UNCHANGED ballotsOpened
         \/ /\ UNCHANGED <<events, begin>> /\ Len(ballotsOpened') = Len(ballotsOpened) + 1
            /\ \A p \in 1..Len(ballotsOpened) :
                 /\ ballotsOpened'[p] = ballotsOpened[p]
                 /\ begin[ballotsOpened[p].id].at \in Answered
                 /\ ballotsOpened[p].id # ballotsOpened'[Len(ballotsOpened) + 1].id
            /\ ballotsOpened'[Len(ballotsOpened) + 1].offered => OfferAllowed
<1>1. CASE UNCHANGED ballotsOpened
  BY <1>1
<1>2. ASSUME NEW v \in Ballots, OpenBallot(v)
      PROVE  /\ UNCHANGED <<events, begin>> /\ Len(ballotsOpened') = Len(ballotsOpened) + 1
             /\ \A p \in 1..Len(ballotsOpened) :
                  /\ ballotsOpened'[p] = ballotsOpened[p]
                  /\ begin[ballotsOpened[p].id].at \in Answered
                  /\ ballotsOpened[p].id # ballotsOpened'[Len(ballotsOpened) + 1].id
             /\ ballotsOpened'[Len(ballotsOpened) + 1].offered => OfferAllowed
  <2>1. PICK b : ballotsOpened' = Append(ballotsOpened, b) /\ b.id = v /\ (b.offered => OfferAllowed)
    <3>1. PICK live \in BOOLEAN : ballotsOpened' = Append(ballotsOpened, [id |-> v, offered |-> live /\ OfferAllowed])
      BY <1>2 DEF OpenBallot
    <3>2. PICK b : b = [id |-> v, offered |-> live /\ OfferAllowed]
      OBVIOUS
    <3>3. b.id = v /\ (b.offered => OfferAllowed)
      BY <3>2
    <3> QED BY <3>1, <3>2, <3>3
  <2>2. /\ Len(ballotsOpened') = Len(ballotsOpened) + 1 /\ ballotsOpened'[Len(ballotsOpened) + 1] = b
        /\ \A p \in 1..Len(ballotsOpened) : ballotsOpened'[p] = ballotsOpened[p]
    BY <2>1, RowTypes
  <2>3. /\ UNCHANGED <<events, begin>>
        /\ \A p \in 1..Len(ballotsOpened) : ballotsOpened[p].id # v /\ begin[ballotsOpened[p].id].at \in Answered
    BY <1>2 DEF OpenBallot, Answered
  <2> QED BY <2>1, <2>2, <2>3
<1> QED
  BY <1>1, <1>2 DEF StartNext, Drafts, Starting, ReadSettings, RefreshPage, Fill, ReviewDraft, Arm, VoteWon, FindEvent,
     Configuration, Prepare, CreateEvent, CrashStart, EventMoves, GameChanges, CheckAccess, AccessAges, startVars

\* A row is inserted only while the ballots stand.
LEMMA RowsMeetBallots ==
  ASSUME StartTypeOK, [StartNext]_startVars
  PROVE  Len(ballotsOpened') \in Nat /\ Len(ballotsOpened) \in Nat /\ Len(ballotsOpened) <= Len(ballotsOpened')
BY BallotsGrow, RowTypes

LEMMA EventsOrderStep ==
  ASSUME StartTypeOK, EventsInOrder, [StartNext]_startVars
  PROVE  EventsInOrder'
<1>1. /\ Len(events) \in Nat /\ Len(ballotsOpened) \in Nat /\ Len(ballotsOpened') \in Nat
      /\ Len(ballotsOpened) <= Len(ballotsOpened')
      /\ \A i \in 1..Len(events) : events[i].mark \in Nat /\ events[i].mark <= Len(ballotsOpened)
      /\ \A i, j \in 1..Len(events) : i < j => events[i].state = "complete" /\ events[i].mark <= events[j].mark
  BY RowTypes, RowFields, RowsMeetBallots DEF EventsInOrder
<1>2. CASE RowsKept
  <2>1. /\ Len(events') = Len(events)
        /\ \A i \in 1..Len(events) :
             /\ events[i].state = "complete" => events'[i].state = "complete" /\ events'[i].mark = events[i].mark
             /\ events'[i].mark = events[i].mark \/ events'[i].mark = Len(ballotsOpened)
    BY <1>2 DEF RowsKept
  <2>2. ASSUME NEW i \in 1..Len(events), NEW j \in 1..Len(events), i < j
        PROVE  events'[i].state = "complete" /\ events'[i].mark <= events'[j].mark
    <3>1. events[i].state = "complete" /\ events[i].mark <= events[j].mark /\ events[i].mark <= Len(ballotsOpened)
      BY <1>1, <2>2
    <3>2. events'[i].state = "complete" /\ events'[i].mark = events[i].mark
      BY <2>1, <3>1
    <3> QED BY <2>1, <3>1, <3>2
  <2>3. ASSUME NEW i \in 1..Len(events) PROVE events'[i].mark <= Len(ballotsOpened')
    BY <1>1, <2>1
  <2> QED BY <2>1, <2>2, <2>3 DEF EventsInOrder
<1>3. ASSUME NEW s \in EventStarts, CreateEvent(s), Current = {}, RowAdded(s) PROVE EventsInOrder'
  <2>1. /\ Len(events') = Len(events) + 1 /\ events'[Len(events) + 1].mark = Len(ballotsOpened)
        /\ \A i \in 1..Len(events) : events'[i] = events[i]
    BY <1>3 DEF RowAdded, NewEvent
  <2>2. \A i \in 1..Len(events) : events[i].state = "complete"
    BY <1>3 DEF Current
  <2>3. \A i \in 1..Len(events') : i \in 1..Len(events) \/ i = Len(events) + 1
    BY <1>1, <2>1
  <2>4. ASSUME NEW i \in 1..Len(events'), NEW j \in 1..Len(events'), i < j
        PROVE  events'[i].state = "complete" /\ events'[i].mark <= events'[j].mark
    <3>1. i \in 1..Len(events)
      BY <1>1, <2>1, <2>4
    <3>2. CASE j \in 1..Len(events)
      BY <1>1, <2>1, <2>4, <3>1, <3>2
    <3>3. CASE j = Len(events) + 1
      BY <1>1, <2>1, <2>2, <3>1, <3>3
    <3> QED BY <2>3, <3>2, <3>3
  <2>5. ASSUME NEW i \in 1..Len(events') PROVE events'[i].mark <= Len(ballotsOpened')
    BY <1>1, <2>1, <2>3
  <2> QED BY <2>4, <2>5 DEF EventsInOrder
<1> QED BY <1>2, <1>3, StepRows

LEMMA BallotsOrderStep ==
  ASSUME StartTypeOK, BallotsInOrder, [StartNext]_startVars
  PROVE  BallotsInOrder'
<1>1. /\ Len(ballotsOpened) \in Nat /\ begin \in [EventStarts -> Begins]
      /\ \A v \in Ballots : v \in EventStarts /\ v \notin Dialogs
      /\ \A p \in 1..Len(ballotsOpened) : ballotsOpened[p].id \in Ballots
  BY RowTypes, StartKinds DEF StartTypeOK, EventStarts
<1>2. CASE UNCHANGED ballotsOpened
  <2>1. ASSUME NEW v \in Ballots, begin'[v].at \notin Answered, begin[v].at \in Answered
        PROVE  ballotsOpened # <<>> /\ ballotsOpened[Len(ballotsOpened)] = Voted(v)
    <3>1. CASE UNCHANGED <<begin, told>>
      BY <2>1, <3>1
    <3>2. ASSUME NEW d \in Dialogs, Arm(d) PROVE FALSE
      BY <1>1, <2>1, <3>2 DEF Arm, EventStarts
    <3>3. ASSUME NEW w \in Ballots, VoteWon(w)
          PROVE  ballotsOpened # <<>> /\ ballotsOpened[Len(ballotsOpened)] = Voted(v)
      <4>1. w = v
        BY <1>1, <2>1, <3>3 DEF VoteWon
      <4> QED BY <3>3, <4>1 DEF VoteWon, Voted
    <3>4. ASSUME NEW s \in EventStarts, Starting(s) PROVE FALSE
      <4>1. CASE s # v
        BY <1>1, <2>1, <3>4, <4>1 DEF Starting, FindEvent, Configuration, Prepare, CreateEvent, CrashStart, AnswerStart
      <4>2. CASE s = v
        BY <1>1, <2>1, <3>4, <4>2
           DEF Starting, FindEvent, Configuration, Prepare, CreateEvent, CrashStart, AnswerStart, Answered, NotBegun
      <4> QED BY <4>1, <4>2
    <3> QED BY <3>1, <3>2, <3>3, <3>4, StartSteps
  <2> QED BY <1>2, <2>1 DEF BallotsInOrder
<1>3. ASSUME UNCHANGED <<events, begin>>, Len(ballotsOpened') = Len(ballotsOpened) + 1,
             \A p \in 1..Len(ballotsOpened) :
                 /\ ballotsOpened'[p] = ballotsOpened[p]
                 /\ begin[ballotsOpened[p].id].at \in Answered
                 /\ ballotsOpened[p].id # ballotsOpened'[Len(ballotsOpened) + 1].id
      PROVE  BallotsInOrder'
  <2>1. ASSUME NEW p \in 1..Len(ballotsOpened'), NEW q \in 1..Len(ballotsOpened'),
               ballotsOpened'[p].id = ballotsOpened'[q].id PROVE p = q
    <3>1. \A r \in 1..Len(ballotsOpened') : r \in 1..Len(ballotsOpened) \/ r = Len(ballotsOpened) + 1
      BY <1>1, <1>3
    <3>2. CASE p \in 1..Len(ballotsOpened) /\ q \in 1..Len(ballotsOpened)
      BY <1>3, <2>1, <3>2 DEF BallotsInOrder
    <3>3. CASE p \in 1..Len(ballotsOpened) /\ q = Len(ballotsOpened) + 1
      BY <1>3, <2>1, <3>3
    <3>4. CASE p = Len(ballotsOpened) + 1 /\ q \in 1..Len(ballotsOpened)
      BY <1>3, <2>1, <3>4
    <3> QED BY <3>1, <3>2, <3>3, <3>4
  <2>2. \A v \in Ballots : begin[v].at \in Answered
    <3> SUFFICES ASSUME NEW v \in Ballots, begin[v].at \notin Answered PROVE FALSE
      OBVIOUS
    <3>1. ballotsOpened # <<>> /\ ballotsOpened[Len(ballotsOpened)] = Voted(v)
      BY DEF BallotsInOrder
    <3>2. Len(ballotsOpened) \in 1..Len(ballotsOpened) /\ ballotsOpened[Len(ballotsOpened)].id = v
      BY <3>1, RowTypes, EmptySeq DEF Voted
    <3> QED BY <1>3, <3>2
  <2>3. begin' = begin
    BY <1>3
  <2> QED BY <2>1, <2>2, <2>3 DEF BallotsInOrder
<1> QED BY <1>2, <1>3, BallotsGrow

\* When 50v50 may be offered, every voted event is over and the cooldown after it is.
LEMMA OfferedLate ==
  ASSUME StartTypeOK, EventsInOrder, OfferAllowed, NEW i \in VoteEvents
  PROVE  events[i].state = "complete" /\ Len(ballotsOpened) >= events[i].mark + Cooldown
<1>1. /\ Len(events) \in Nat /\ Len(ballotsOpened) \in Nat /\ i \in 1..Len(events) /\ VoteEvents \subseteq 1..Len(events)
      /\ \A j \in 1..Len(events) : events[j].mark \in Nat
  BY RowTypes, RowFields DEF VoteEvents
<1>2. events[i].state = "complete"
  BY <1>1 DEF OfferAllowed, Current
<1>3. \E n \in VoteEvents : \A k \in VoteEvents : k <= n
  <2>1. VoteEvents \subseteq 0..Len(events)
    BY <1>1
  <2> QED BY <1>1, <2>1, GreatestOf
<1>4. PICK last : last = CHOOSE n \in VoteEvents : \A k \in VoteEvents : k <= n
  OBVIOUS
<1>5. last \in VoteEvents /\ i <= last
  BY <1>3, <1>4
<1>6. Len(ballotsOpened) - events[last].mark >= Cooldown
  BY <1>4, <1>5 DEF OfferAllowed, CooledDown, Played
<1>7. events[i].mark <= events[last].mark
  <2>1. i = last \/ i < last
    BY <1>1, <1>5
  <2> QED BY <1>1, <1>5, <2>1 DEF EventsInOrder
<1>8. events[i].mark \in Nat /\ events[last].mark \in Nat
  BY <1>1, <1>5
<1> QED BY <1>1, <1>2, <1>6, <1>7, <1>8, StartBounds

LEMMA VotesOrderStep ==
  ASSUME StartTypeOK, EventsUnique, EventsInOrder, BallotsInOrder, VotesInOrder, [StartNext]_startVars
  PROVE  VotesInOrder'
<1>1. /\ Len(events) \in Nat /\ Len(ballotsOpened) \in Nat /\ VoteEvents \subseteq 1..Len(events)
  BY RowTypes DEF VoteEvents
<1>2. CASE UNCHANGED ballotsOpened /\ RowsKept
  <2>1. VoteEvents' = VoteEvents
    BY <1>2, RowsKeptSame
  <2>2. \A i \in VoteEvents :
          /\ events'[i].id = events[i].id
          /\ events[i].state = "complete" => events'[i].state = "complete" /\ events'[i].mark = events[i].mark
    BY <1>1, <1>2 DEF RowsKept
  <2>3. \A i \in VoteEvents' : \E q \in 1..Len(ballotsOpened') : ballotsOpened'[q] = Voted(events'[i].id)
    BY <1>2, <2>1, <2>2 DEF VotesInOrder
  <2>4. \A i, j \in VoteEvents' : \A p, q \in 1..Len(ballotsOpened') :
          i < j /\ ballotsOpened'[p].id = events'[i].id /\ ballotsOpened'[q].id = events'[j].id => p < q
    BY <1>2, <2>1, <2>2 DEF VotesInOrder
  <2>5. \A i \in VoteEvents' : \A p, q \in 1..Len(ballotsOpened') :
          ballotsOpened'[p].offered /\ ballotsOpened'[q].id = events'[i].id /\ q < p
            => events'[i].state = "complete" /\ p > events'[i].mark + Cooldown
    BY <1>2, <2>1, <2>2 DEF VotesInOrder
  <2> QED BY <2>3, <2>4, <2>5 DEF VotesInOrder, Voted
<1>3. ASSUME NEW s \in EventStarts, CreateEvent(s), Recorded(s) = {}, RowAdded(s), begin[s].at = "ready"
      PROVE  VotesInOrder'
  <2> DEFINE n == Len(events) + 1
             o == Len(ballotsOpened)
  <2>1. /\ UNCHANGED ballotsOpened /\ events'[n].id = s
        /\ VoteEvents' = IF s \in Ballots THEN VoteEvents \cup {n} ELSE VoteEvents
        /\ \A i \in VoteEvents : events'[i] = events[i] /\ events[i].id # s /\ i < n
    <3>1. ballotsOpened' = ballotsOpened
      BY <1>3 DEF CreateEvent
    <3>2. \A i \in 1..Len(events) : events'[i] = events[i] /\ events[i].id # s /\ i < n
      BY <1>1, <1>3 DEF RowAdded, Recorded
    <3> QED BY <1>1, <1>3, <3>1, <3>2, RowAddedSame
  <2>2. s \in Ballots => /\ o \in 1..o /\ ballotsOpened[o] = Voted(s)
                         /\ \A p \in 1..o : ballotsOpened[p].id = s => p = o
    <3> SUFFICES ASSUME s \in Ballots PROVE <2>2!2
      OBVIOUS
    <3>1. ballotsOpened # <<>> /\ ballotsOpened[o] = Voted(s)
      BY <1>3 DEF BallotsInOrder, Answered
    <3>2. o \in 1..o
      BY <1>1, <3>1, RowTypes, EmptySeq
    <3>3. ballotsOpened[o].id = s
      BY <3>1 DEF Voted
    <3> QED BY <3>1, <3>2, <3>3 DEF BallotsInOrder
  <2> HIDE DEF n, o
  <2>3. ASSUME NEW i \in VoteEvents'
        PROVE  i \in VoteEvents \/ (i = n /\ s \in Ballots)
    BY <2>1, <2>3
  <2>4. \A i \in VoteEvents' : \E q \in 1..Len(ballotsOpened') : ballotsOpened'[q] = Voted(events'[i].id)
    <3> SUFFICES ASSUME NEW i \in VoteEvents'
                 PROVE  \E q \in 1..Len(ballotsOpened) : ballotsOpened[q] = Voted(events'[i].id)
      BY <2>1
    <3>1. CASE i \in VoteEvents
      BY <2>1, <3>1 DEF VotesInOrder
    <3>2. CASE i = n /\ s \in Ballots
      BY <2>1, <2>2, <3>2 DEF o
    <3> QED BY <2>3, <3>1, <3>2
  <2>5. \A i, j \in VoteEvents' : \A p, q \in 1..Len(ballotsOpened') :
          i < j /\ ballotsOpened'[p].id = events'[i].id /\ ballotsOpened'[q].id = events'[j].id => p < q
    <3> SUFFICES ASSUME NEW i \in VoteEvents', NEW j \in VoteEvents', NEW p \in 1..o, NEW q \in 1..o,
                        i < j, ballotsOpened[p].id = events'[i].id, ballotsOpened[q].id = events'[j].id
                 PROVE  p < q
      BY <2>1 DEF o
    <3>1. i \in VoteEvents
      <4>1. ~ (n < n) /\ \A k \in VoteEvents : ~ (n < k)
        BY <1>1 DEF n
      <4> QED BY <2>3, <4>1
    <3>2. CASE j \in VoteEvents
      BY <2>1, <3>1, <3>2 DEF VotesInOrder, o
    <3>3. CASE j = n /\ s \in Ballots
      <4>1. q = o
        BY <2>1, <2>2, <3>3
      <4>2. p # o
        <5>1. ballotsOpened[o].id = s /\ events'[i].id # s
          BY <2>1, <2>2, <3>1, <3>3 DEF Voted
        <5> QED BY <5>1
      <4> QED BY <1>1, <4>1, <4>2 DEF o
    <3> QED BY <2>3, <3>2, <3>3
  <2>6. \A i \in VoteEvents' : \A p, q \in 1..Len(ballotsOpened') :
          ballotsOpened'[p].offered /\ ballotsOpened'[q].id = events'[i].id /\ q < p
            => events'[i].state = "complete" /\ p > events'[i].mark + Cooldown
    <3> SUFFICES ASSUME NEW i \in VoteEvents', NEW p \in 1..o, NEW q \in 1..o,
                        ballotsOpened[p].offered, ballotsOpened[q].id = events'[i].id, q < p
                 PROVE  events'[i].state = "complete" /\ p > events'[i].mark + Cooldown
      BY <2>1 DEF o
    <3>1. CASE i \in VoteEvents
      BY <2>1, <3>1 DEF VotesInOrder, o
    <3>2. CASE i = n /\ s \in Ballots
      <4>1. q = o
        BY <2>1, <2>2, <3>2
      <4> QED BY <1>1, <4>1 DEF o
    <3> QED BY <2>3, <3>1, <3>2
  <2> QED BY <2>4, <2>5, <2>6 DEF VotesInOrder, Voted
<1>4. ASSUME UNCHANGED <<events, begin>>, Len(ballotsOpened') = Len(ballotsOpened) + 1,
             \A p \in 1..Len(ballotsOpened) :
                 /\ ballotsOpened'[p] = ballotsOpened[p]
                 /\ begin[ballotsOpened[p].id].at \in Answered
                 /\ ballotsOpened[p].id # ballotsOpened'[Len(ballotsOpened) + 1].id,
             ballotsOpened'[Len(ballotsOpened) + 1].offered => OfferAllowed
      PROVE  VotesInOrder'
  <2> DEFINE o == Len(ballotsOpened)
  <2>1. /\ VoteEvents' = VoteEvents /\ events' = events
        /\ \A p \in 1..Len(ballotsOpened') : p \in 1..o \/ p = o + 1
        /\ \A p \in 1..o : p \in 1..Len(ballotsOpened')
    BY <1>1, <1>4 DEF VoteEvents
  <2>2. \A i \in VoteEvents : events[i].id # ballotsOpened'[o + 1].id
    <3> SUFFICES ASSUME NEW i \in VoteEvents PROVE events[i].id # ballotsOpened'[o + 1].id
      OBVIOUS
    <3>1. PICK q \in 1..o : ballotsOpened[q] = Voted(events[i].id)
      BY DEF VotesInOrder
    <3>2. ballotsOpened[q].id = events[i].id
      BY <3>1 DEF Voted
    <3> QED BY <1>4, <3>1, <3>2
  <2>3. \A i \in VoteEvents' : \E q \in 1..Len(ballotsOpened') : ballotsOpened'[q] = Voted(events'[i].id)
    <3> SUFFICES ASSUME NEW i \in VoteEvents
                 PROVE  \E q \in 1..Len(ballotsOpened') : ballotsOpened'[q] = Voted(events[i].id)
      BY <2>1
    <3>1. PICK q \in 1..o : ballotsOpened[q] = Voted(events[i].id)
      BY DEF VotesInOrder
    <3> QED BY <1>4, <2>1, <3>1
  <2>4. \A i, j \in VoteEvents' : \A p, q \in 1..Len(ballotsOpened') :
          i < j /\ ballotsOpened'[p].id = events'[i].id /\ ballotsOpened'[q].id = events'[j].id => p < q
    <3> SUFFICES ASSUME NEW i \in VoteEvents, NEW j \in VoteEvents, NEW p \in 1..Len(ballotsOpened'),
                        NEW q \in 1..Len(ballotsOpened'),
                        i < j, ballotsOpened'[p].id = events[i].id, ballotsOpened'[q].id = events[j].id
                 PROVE  p < q
      BY <2>1
    <3>1. p \in 1..o /\ q \in 1..o
      BY <2>1, <2>2
    <3> QED BY <1>4, <3>1 DEF VotesInOrder
  <2>5. \A i \in VoteEvents' : \A p, q \in 1..Len(ballotsOpened') :
          ballotsOpened'[p].offered /\ ballotsOpened'[q].id = events'[i].id /\ q < p
            => events'[i].state = "complete" /\ p > events'[i].mark + Cooldown
    <3> SUFFICES ASSUME NEW i \in VoteEvents, NEW p \in 1..Len(ballotsOpened'), NEW q \in 1..Len(ballotsOpened'),
                        ballotsOpened'[p].offered, ballotsOpened'[q].id = events[i].id, q < p
                 PROVE  events[i].state = "complete" /\ p > events[i].mark + Cooldown
      BY <2>1
    <3>1. q \in 1..o
      BY <2>1, <2>2
    <3>2. CASE p \in 1..o
      BY <1>4, <3>1, <3>2 DEF VotesInOrder
    <3>3. CASE p = o + 1
      <4>1. OfferAllowed
        BY <1>4, <3>3
      <4>2. events[i].state = "complete" /\ o >= events[i].mark + Cooldown
        BY <4>1, OfferedLate
      <4>3. events[i].mark \in Nat
        BY <1>1, RowTypes, RowFields
      <4> QED BY <1>1, <3>3, <4>2, <4>3, StartBounds
    <3> QED BY <2>1, <3>2, <3>3
  <2> QED BY <2>3, <2>4, <2>5 DEF VotesInOrder, Voted
<1>5. ASSUME NEW s \in EventStarts, CreateEvent(s) PROVE UNCHANGED ballotsOpened
  BY <1>5 DEF CreateEvent
<1>6. UNCHANGED events => RowsKept
  BY RowTypes DEF RowsKept
<1>7. CASE UNCHANGED ballotsOpened
  BY <1>2, <1>3, <1>7, StepRows
<1> QED BY <1>4, <1>7, BallotsGrow

LEMMA RefusalStep ==
  ASSUME StartTypeOK, RefusalForgets, [StartNext]_startVars
  PROVE  RefusalForgets'
<1>1. confirmed \in 0..AccessGrace + 1 /\ doubt \in [refused : BOOLEAN, acted : BOOLEAN]
  BY DEF StartTypeOK
<1>2. CASE UNCHANGED <<confirmed, doubt>>
  BY <1>2 DEF RefusalForgets, ActsConfirmed, AccessForgotten
<1>3. CASE AccessAges
  BY <1>1, <1>3, StartBounds DEF AccessAges, Usable, RefusalForgets, ActsConfirmed, AccessForgotten
<1>4. ASSUME NEW reply \in {"yes", "no", "outage"}, CheckAccess(reply) PROVE RefusalForgets'
  <2>1. CASE reply = "outage"
    <3>1. confirmed' = confirmed /\ doubt'.refused = doubt.refused
      BY <1>1, <1>4, <2>1 DEF CheckAccess
    <3>2. ~ (Usable /\ doubt.refused)
      BY StartBounds DEF Usable, RefusalForgets, AccessForgotten
    <3>3. doubt'.acted = doubt.acted
      BY <1>1, <1>4, <2>1, <3>2 DEF CheckAccess
    <3> QED BY <3>1, <3>3 DEF RefusalForgets, ActsConfirmed, AccessForgotten
  <2>2. CASE reply = "no"
    BY <1>1, <1>4, <2>2 DEF CheckAccess, RefusalForgets, ActsConfirmed, AccessForgotten
  <2>3. CASE reply = "yes"
    BY <1>1, <1>4, <2>3 DEF CheckAccess, RefusalForgets, ActsConfirmed, AccessForgotten
  <2> QED BY <2>1, <2>2, <2>3
<1> QED BY <1>2, <1>3, <1>4 DEF StartNext, Drafts, Starting, ReadSettings, RefreshPage, Fill, ReviewDraft, Arm, VoteWon,
  OpenBallot, FindEvent, Configuration, Prepare, CreateEvent, CrashStart, EventMoves, GameChanges, startVars

-----------------------------------------------------------------------------
(* The theorems *)

LEMMA StartInitial == StartInit => StartInv
<1> SUFFICES ASSUME StartInit PROVE StartInv
  OBVIOUS
<1>1. /\ events = <<>> /\ ballotsOpened = <<>> /\ begin = [s \in EventStarts |-> NotBegun]
      /\ told = [s \in EventStarts |-> NoOne] /\ settings = [d \in Dialogs |-> FirstRead]
      /\ review = [d \in Dialogs |-> NoReview]
  BY DEF StartInit
<1>2. StartTypeOK
  BY StartBounds DEF StartInit, StartTypeOK, SettingsReads, Begins, NotBegun, FirstRead, PageReads
<1>3. Len(events) = 0 /\ Len(ballotsOpened) = 0 /\ VoteEvents = {} /\ \A s : Recorded(s) = {}
  BY <1>1 DEF VoteEvents, Recorded
<1>4. EventsUnique
  BY <1>1, <1>3 DEF EventsUnique, NotBegun, BeforeRow, NoOne
<1>5. ReviewsFollowed
  BY <1>1, <1>3 DEF ReviewsFollowed, NotBegun, FirstRead, EventStarts
<1>6. EventsInOrder /\ BallotsInOrder /\ VotesInOrder
  BY <1>1, <1>3 DEF EventsInOrder, BallotsInOrder, VotesInOrder, NotBegun, Answered, EventStarts
<1>7. RefusalForgets
  BY DEF StartInit, RefusalForgets, ActsConfirmed
<1> QED BY <1>2, <1>4, <1>5, <1>6, <1>7 DEF StartInv

LEMMA StartInductive == StartInv /\ [StartNext]_startVars => StartInv'
BY StartTyped, UniqueStep, ReviewsStep, EventsOrderStep, BallotsOrderStep, VotesOrderStep, RefusalStep DEF StartInv

LEMMA StartInvariant == StartSpec => []StartInv
BY StartInitial, StartInductive, PTL DEF StartSpec

\* The settings, the events, the ballots and every start keep their types.
THEOREM StartTypeCorrect == StartSpec => []StartTypeOK
<1>1. StartInv => StartTypeOK
  BY DEF StartInv
<1> QED BY <1>1, StartInvariant, PTL

LEMMA OneRow ==
  ASSUME StartTypeOK, EventsUnique, NEW s
  PROVE  Cardinality(Recorded(s)) <= 1
<1>1. CASE Recorded(s) = {}
  BY <1>1, FS_EmptySet
<1>2. ASSUME NEW i \in Recorded(s) PROVE Cardinality(Recorded(s)) <= 1
  <2>1. \A j \in Recorded(s) : j = i
    BY <1>2 DEF Recorded, EventsUnique
  <2>2. Recorded(s) = {i}
    BY <1>2, <2>1
  <2> QED BY <2>2, FS_Singleton
<1> QED BY <1>1, <1>2

LEMMA CooldownFollows ==
  ASSUME StartTypeOK, BallotsInOrder, VotesInOrder
  PROVE  EventCooldownKept
<1> SUFFICES ASSUME NEW i \in VoteEvents, NEW j \in VoteEvents, i < j
             PROVE  Place(events[j].id) > events[i].mark + Cooldown
  BY DEF EventCooldownKept
<1>1. PICK p \in 1..Len(ballotsOpened) : ballotsOpened[p] = Voted(events[i].id)
  BY DEF VotesInOrder
<1>2. PICK q \in 1..Len(ballotsOpened) : ballotsOpened[q] = Voted(events[j].id)
  BY DEF VotesInOrder
<1>3. ballotsOpened[p].id = events[i].id /\ ballotsOpened[q].id = events[j].id /\ ballotsOpened[q].offered
  BY <1>1, <1>2 DEF Voted
<1>4. p < q
  BY <1>3 DEF VotesInOrder
<1>5. q > events[i].mark + Cooldown
  BY <1>3, <1>4 DEF VotesInOrder
<1>6. Place(events[j].id) = q
  BY <1>3 DEF Place, BallotsInOrder
<1> QED BY <1>5, <1>6

\* For any drafts, ballots, processes' deaths and edits of the settings: a ballot hears the truth of its event, at
\* most one row carries its ID, the lock put back is the reviewed one, the cooldown between voted events is kept and
\* nobody acts on a confirmation that was refused since (server-events.service.ts, start, startFromVote).
THEOREM EventsBeginTrue == StartSpec => []EventsBegunTrue
<1>1. StartInv => EventsBegunTrue
  <2> SUFFICES ASSUME StartInv PROVE EventsBegunTrue
    OBVIOUS
  <2>1. VotesToldTrue
    BY OneRow DEF StartInv, EventsUnique, VotesToldTrue, EventStarts
  <2>2. LockReviewed
    BY DEF StartInv, ReviewsFollowed, LockReviewed
  <2>3. EventCooldownKept
    BY CooldownFollows DEF StartInv
  <2>4. ActsConfirmed
    BY DEF StartInv, RefusalForgets
  <2> QED BY <2>1, <2>2, <2>3, <2>4 DEF EventsBegunTrue
<1> QED BY <1>1, StartInvariant, PTL

-----------------------------------------------------------------------------
(* Applicants *)

Cookies == [nonce : Nat, at : Nat]
Sessions == {NoSession} \cup [account : Applicants, issued : Nat, until : Nat]
ApplyingShape ==
  /\ now \in 0 .. LastInstant /\ signIns \in 0 .. MaxSignIns
  /\ member \in [Applicants -> {"in", "screening", "out"}]
  /\ oauth \in [Browsers -> Cookies] /\ session \in [Browsers -> Sessions] /\ behind \in [Browsers -> Browsers]
  /\ returns \subseteq [nonce : Nat, account : Applicants, began : Browsers]
  /\ rows \subseteq [account : Applicants, steam : ApplicantSteams]

\* The nonce of a sign-in is its browser's: no return with it began elsewhere. A callback is on its way for a
\* return that its browser began.
NoncesKnown ==
  /\ \A r \in returns : r.nonce \in 1 .. signIns
  /\ \A c \in Browsers : oauth[c].nonce <= signIns
  /\ \A c \in Browsers, r \in returns : oauth[c].nonce = r.nonce => r.began = c
CallbacksOwn ==
  \A c \in Browsers :
    callback[c] = NoRequest \/ callback[c] \in [at : {"asking"}, account : Applicants, began : {c}]

Submissions == [at : {"asking", "received", "refused"}, account : Applicants, steam : ApplicantSteams]
RequestsShaped ==
  /\ callback = [c \in Browsers |-> callback[c]]
  /\ request \in [Browsers -> {NoRequest} \cup Submissions]

ApplyingInv == ApplyingShape /\ NoncesKnown /\ CallbacksOwn /\ RequestsShaped /\ OwnSignIn /\ OnePerPerson

LEMMA ApplyingNumbers ==
  /\ {FlowFor, SessionFor, CountFor, TryLimit, MaxTracked, MaxSignIns, LastInstant} \subseteq Nat
  /\ NoRequest \notin Submissions /\ NoRequest.at = "idle" /\ NoOauth \in Cookies /\ NoOauth.nonce = 0
<1>1. NoRequest.at = "idle" /\ \A r \in Submissions : r.at # "idle" BY DEF NoRequest, Submissions
<1> QED BY <1>1, ApplyingAssumption DEF NoOauth, Cookies

LEMMA ApplyingStarts == ApplyingInit => ApplyingInv
<1> SUFFICES ASSUME ApplyingInit PROVE ApplyingInv OBVIOUS
<1> USE ApplyingNumbers DEF ApplyingInit
<1>1. ApplyingShape BY DEF ApplyingShape, Sessions, Cookies, NoOauth
<1>2. NoncesKnown BY DEF NoncesKnown
<1>3. CallbacksOwn /\ RequestsShaped BY DEF CallbacksOwn, RequestsShaped
<1>4. OwnSignIn BY DEF OwnSignIn
<1>5. OnePerPerson BY DEF OnePerPerson
<1> QED BY <1>1, <1>2, <1>3, <1>4, <1>5 DEF ApplyingInv

\* A sign-in begins: its nonce is new.
LEMMA LoginKeeps ==
  ASSUME ApplyingInv, NEW c \in Browsers, NEW d \in Applicants, Login(c, d)
  PROVE  ApplyingInv'
<1>1. /\ signIns' = signIns + 1 /\ signIns \in Nat /\ signIns' \in 0 .. MaxSignIns
      /\ oauth' = [oauth EXCEPT ![c] = [nonce |-> signIns + 1, at |-> now]]
      /\ returns' = returns \cup {[nonce |-> signIns + 1, account |-> d, began |-> c]}
      /\ UNCHANGED <<now, member, callback, session, request, rows, behind>> /\ now \in Nat
  BY ApplyingNumbers DEF ApplyingInv, ApplyingShape, Login
<1>2. [nonce |-> signIns + 1, at |-> now] \in Cookies BY <1>1 DEF Cookies
<1>3. ApplyingShape' BY <1>1, <1>2 DEF ApplyingInv, ApplyingShape
<1>4. NoncesKnown'
  <2>1. \A r \in returns' : r.nonce \in 1 .. signIns' BY <1>1 DEF ApplyingInv, NoncesKnown
  <2>2. \A b \in Browsers : oauth'[b] = IF b = c THEN [nonce |-> signIns + 1, at |-> now] ELSE oauth[b]
    BY <1>1 DEF ApplyingInv, ApplyingShape
  <2>3. \A b \in Browsers : oauth[b].nonce \in Nat BY DEF ApplyingInv, ApplyingShape, Cookies
  <2>4. \A b \in Browsers : oauth'[b].nonce <= signIns' BY <1>1, <2>2, <2>3 DEF ApplyingInv, NoncesKnown
  <2>5. ASSUME NEW b \in Browsers, NEW r \in returns', oauth'[b].nonce = r.nonce PROVE r.began = b
    <3>1. CASE r \in returns
      <4>1. r.nonce \in 1 .. signIns BY <3>1 DEF ApplyingInv, NoncesKnown
      <4>2. b # c BY <4>1, <2>2, <2>5, <1>1
      <4> QED BY <4>2, <2>2, <2>5, <3>1 DEF ApplyingInv, NoncesKnown
    <3>2. CASE r = [nonce |-> signIns + 1, account |-> d, began |-> c]
      <4>1. b = c BY <3>2, <2>2, <2>3, <2>5, <1>1 DEF ApplyingInv, NoncesKnown
      <4> QED BY <4>1, <3>2
    <3> QED BY <3>1, <3>2, <1>1
  <2> QED BY <2>1, <2>4, <2>5 DEF NoncesKnown
<1>5. CallbacksOwn' /\ RequestsShaped' BY <1>1 DEF ApplyingInv, CallbacksOwn, RequestsShaped
<1>6. OwnSignIn' BY <1>1 DEF ApplyingInv, OwnSignIn
<1>7. OnePerPerson' BY <1>1 DEF ApplyingInv, OnePerPerson
<1> QED BY <1>3, <1>4, <1>5, <1>6, <1>7 DEF ApplyingInv

\* A way back from Discord: only the browser that began it gets past the nonce.
LEMMA CodeReturnKeeps ==
  ASSUME ApplyingInv, NEW c \in Browsers, NEW r \in returns, Return(c, r)
  PROVE  ApplyingInv'
<1>1. /\ oauth' = [oauth EXCEPT ![c] = NoOauth] /\ returns' \subseteq returns
      /\ UNCHANGED <<now, member, signIns, session, request, rows, behind>>
  BY DEF Return
<1>2. ApplyingShape' BY <1>1, ApplyingNumbers DEF ApplyingInv, ApplyingShape
<1>3. NoncesKnown'
  <2>1. \A b \in Browsers : oauth'[b] = IF b = c THEN NoOauth ELSE oauth[b] BY <1>1 DEF ApplyingInv, ApplyingShape
  <2>2. signIns \in Nat BY DEF ApplyingInv, ApplyingShape
  <2>3. \A b \in Browsers : oauth'[b].nonce <= signIns
    BY <2>1, <2>2, ApplyingNumbers DEF ApplyingInv, NoncesKnown
  <2>4. \A q \in returns' : q.nonce \in 1 .. signIns BY <1>1 DEF ApplyingInv, NoncesKnown
  <2>5. \A b \in Browsers, q \in returns' : oauth'[b].nonce = q.nonce => q.began = b
    BY <1>1, <2>1, <2>4, ApplyingNumbers DEF ApplyingInv, NoncesKnown
  <2> QED BY <1>1, <2>3, <2>4, <2>5 DEF NoncesKnown
<1>4. CallbacksOwn' /\ RequestsShaped'
  <2>1. CASE UNCHANGED callback BY <1>1, <2>1 DEF ApplyingInv, CallbacksOwn, RequestsShaped
  <2>2. CASE ~UNCHANGED callback
    <3>1. OwnState(c, r)
          /\ callback' = [callback EXCEPT ![c] = [at |-> "asking", account |-> r.account, began |-> r.began]]
      BY <2>2 DEF Return
    <3>2. r.began = c BY <3>1 DEF OwnState, ApplyingInv, NoncesKnown
    <3>3. r.account \in Applicants BY DEF ApplyingInv, ApplyingShape
    <3>4. [at |-> "asking", account |-> r.account, began |-> r.began]
            \in [at : {"asking"}, account : Applicants, began : {c}]
      BY <3>2, <3>3
    <3>5. callback = [b \in Browsers |-> callback[b]] BY DEF ApplyingInv, RequestsShaped
    <3>6. callback' = [b \in Browsers |-> callback'[b]] /\ \A b \in Browsers : b # c => callback'[b] = callback[b]
      BY <3>1, <3>5
    <3>7. callback'[c] = [at |-> "asking", account |-> r.account, began |-> r.began] BY <3>1, <3>5
    <3>8. CallbacksOwn' BY <3>4, <3>6, <3>7 DEF ApplyingInv, CallbacksOwn
    <3> QED BY <3>6, <3>8, <1>1 DEF ApplyingInv, RequestsShaped
  <2> QED BY <2>1, <2>2
<1>5. OwnSignIn' BY <1>1 DEF ApplyingInv, OwnSignIn
<1>6. OnePerPerson' BY <1>1 DEF ApplyingInv, OnePerPerson
<1> QED BY <1>2, <1>3, <1>4, <1>5, <1>6 DEF ApplyingInv

\* The callback ends: a session, if there is one, is the browser's own.
LEMMA SignedInKeeps ==
  ASSUME ApplyingInv, NEW c \in Browsers, SignedIn(c)
  PROVE  ApplyingInv'
<1>1. /\ callback[c] # NoRequest /\ callback' = [callback EXCEPT ![c] = NoRequest]
      /\ UNCHANGED <<now, member, signIns, oauth, returns, request, rows>>
  BY DEF SignedIn
<1>2. callback[c].account \in Applicants /\ callback[c].began = c BY <1>1 DEF ApplyingInv, CallbacksOwn
<1>3. callback = [b \in Browsers |-> callback[b]] BY DEF ApplyingInv, RequestsShaped
<1>4. callback' = [b \in Browsers |-> callback'[b]]
      /\ \A b \in Browsers : callback'[b] = IF b = c THEN NoRequest ELSE callback[b]
  BY <1>1, <1>3
<1>5. CallbacksOwn' /\ RequestsShaped' BY <1>1, <1>4 DEF ApplyingInv, CallbacksOwn, RequestsShaped
<1>6. NoncesKnown' BY <1>1 DEF ApplyingInv, NoncesKnown
<1>7. OnePerPerson' BY <1>1 DEF ApplyingInv, OnePerPerson
<1>8. ApplyingShape' /\ OwnSignIn'
  <2>1. CASE UNCHANGED <<session, behind>> BY <1>1, <2>1 DEF ApplyingInv, ApplyingShape, OwnSignIn
  <2>2. CASE /\ session' = [session EXCEPT ![c] =
                  [account |-> callback[c].account, issued |-> now, until |-> now + SessionFor]]
             /\ behind' = [behind EXCEPT ![c] = callback[c].began]
    <3>1. now \in Nat /\ now + SessionFor \in Nat BY ApplyingNumbers DEF ApplyingInv, ApplyingShape
    <3>2. PICK new : new = [account |-> callback[c].account, issued |-> now, until |-> now + SessionFor] OBVIOUS
    <3>3. new \in Sessions /\ new.issued = now /\ new.until = now + SessionFor BY <3>1, <3>2, <1>2 DEF Sessions
    <3>4. session' = [session EXCEPT ![c] = new] /\ behind' = [behind EXCEPT ![c] = c] BY <2>2, <3>2, <1>2
    <3>5. session \in [Browsers -> Sessions] /\ behind \in [Browsers -> Browsers] BY DEF ApplyingInv, ApplyingShape
    <3>6. session' \in [Browsers -> Sessions] /\ behind' \in [Browsers -> Browsers] BY <3>3, <3>4, <3>5
    <3>7. ApplyingShape' BY <1>1, <3>6 DEF ApplyingInv, ApplyingShape
    <3>8. \A b \in Browsers : session'[b] = (IF b = c THEN new ELSE session[b])
                              /\ behind'[b] = (IF b = c THEN c ELSE behind[b])
      BY <3>4, <3>5
    <3>9. OwnSignIn' BY <1>1, <3>1, <3>3, <3>8 DEF ApplyingInv, OwnSignIn
    <3> QED BY <3>7, <3>9
  <2> QED BY <2>1, <2>2 DEF SignedIn
<1> QED BY <1>5, <1>6, <1>7, <1>8 DEF ApplyingInv

\* Submissions and their answers.
LEMMA SubmissionsKeep ==
  ASSUME ApplyingInv, NEW c \in Browsers,
         request' \in [Browsers -> {NoRequest} \cup Submissions],
         \A b \in Browsers : b # c => request'[b] = request[b],
         rows' \subseteq [account : Applicants, steam : ApplicantSteams], rows \subseteq rows',
         \A r, q \in rows' : r.account = q.account \/ r.steam = q.steam => r = q,
         request'[c].at = "received" => [account |-> request'[c].account, steam |-> request'[c].steam] \in rows',
         UNCHANGED <<now, member, signIns, oauth, returns, callback, session, behind>>
  PROVE  ApplyingInv'
<1>1. ApplyingShape' BY DEF ApplyingInv, ApplyingShape
<1>2. NoncesKnown' BY DEF ApplyingInv, NoncesKnown
<1>3. CallbacksOwn' /\ RequestsShaped' BY DEF ApplyingInv, CallbacksOwn, RequestsShaped
<1>4. OwnSignIn' BY DEF ApplyingInv, OwnSignIn
<1>5. OnePerPerson' BY DEF ApplyingInv, OnePerPerson
<1> QED BY <1>1, <1>2, <1>3, <1>4, <1>5 DEF ApplyingInv

LEMMA SubmitKeeps ==
  ASSUME ApplyingInv, NEW c \in Browsers, NEW steam \in ApplicantSteams, Submit(c, steam)
  PROVE  ApplyingInv'
<1>1. request \in [Browsers -> {NoRequest} \cup Submissions] /\ session \in [Browsers -> Sessions]
  BY DEF ApplyingInv, RequestsShaped, ApplyingShape
<1>2. session[c].account \in Applicants BY <1>1 DEF Submit, ValidSession, Sessions
<1>3. PICK new : new = [at |-> "asking", account |-> session[c].account, steam |-> steam] OBVIOUS
<1>4. new \in Submissions /\ new.at = "asking" BY <1>2, <1>3 DEF Submissions
<1>5. request' = [request EXCEPT ![c] = new]
      /\ UNCHANGED <<now, member, signIns, oauth, returns, callback, session, behind, rows>>
  BY <1>3 DEF Submit
<1>6. request' \in [Browsers -> {NoRequest} \cup Submissions] /\ request'[c] = new
      /\ \A b \in Browsers : b # c => request'[b] = request[b]
  BY <1>1, <1>4, <1>5
<1>7. /\ rows' \subseteq [account : Applicants, steam : ApplicantSteams]
      /\ \A r, q \in rows' : r.account = q.account \/ r.steam = q.steam => r = q
  BY <1>5 DEF ApplyingInv, ApplyingShape, OnePerPerson
<1> QED BY <1>4, <1>5, <1>6, <1>7, SubmissionsKeep

LEMMA PageRefusedKeeps ==
  ASSUME ApplyingInv, NEW c \in Browsers, PageRefused(c)
  PROVE  ApplyingInv'
<1>1. request \in [Browsers -> {NoRequest} \cup Submissions] BY DEF ApplyingInv, RequestsShaped
<1>2. request' = [request EXCEPT ![c] = NoRequest]
      /\ UNCHANGED <<now, member, signIns, oauth, returns, callback, session, behind, rows>>
  BY DEF PageRefused
<1>3. request' \in [Browsers -> {NoRequest} \cup Submissions] /\ request'[c] = NoRequest
      /\ \A b \in Browsers : b # c => request'[b] = request[b]
  BY <1>1, <1>2
<1>4. /\ rows' \subseteq [account : Applicants, steam : ApplicantSteams]
      /\ \A r, q \in rows' : r.account = q.account \/ r.steam = q.steam => r = q
  BY <1>2 DEF ApplyingInv, ApplyingShape, OnePerPerson
<1> QED BY <1>2, <1>3, <1>4, ApplyingNumbers, SubmissionsKeep

LEMMA CreateKeeps ==
  ASSUME ApplyingInv, NEW c \in Browsers, CreateSession(c)
  PROVE  ApplyingInv'
<1>1. request \in [Browsers -> {NoRequest} \cup Submissions] BY DEF ApplyingInv, RequestsShaped
<1>2. request[c].at = "asking" BY DEF CreateSession
<1>3. request[c] \in Submissions BY <1>1, <1>2, ApplyingNumbers
<1>4. PICK d \in Applicants, steam \in ApplicantSteams : d = request[c].account /\ steam = request[c].steam
  BY <1>3 DEF Submissions
<1>5. PICK new : new = [account |-> d, steam |-> steam] OBVIOUS
<1>6. rows' = rows \/ (rows' = rows \cup {new} /\ ~Taken(d, steam)) BY <1>4, <1>5 DEF CreateSession
<1>7. PICK reply : reply = [at |-> IF rows' # rows THEN "received" ELSE "refused", account |-> d, steam |-> steam] OBVIOUS
<1>8. reply \in Submissions /\ (reply.at = "received" => rows' # rows) /\ reply.account = d /\ reply.steam = steam
  BY <1>7 DEF Submissions
<1>9. request' = [request EXCEPT ![c] = reply]
      /\ UNCHANGED <<now, member, signIns, oauth, returns, callback, session, behind>>
  BY <1>4, <1>7 DEF CreateSession
<1>10. request' \in [Browsers -> {NoRequest} \cup Submissions] /\ request'[c] = reply
       /\ \A b \in Browsers : b # c => request'[b] = request[b]
  BY <1>1, <1>8, <1>9
<1>11. new \in [account : Applicants, steam : ApplicantSteams] /\ new.account = d /\ new.steam = steam BY <1>5
<1>12. rows \subseteq [account : Applicants, steam : ApplicantSteams]
       /\ \A r, q \in rows : r.account = q.account \/ r.steam = q.steam => r = q
  BY DEF ApplyingInv, ApplyingShape, OnePerPerson
<1>13. rows' \subseteq [account : Applicants, steam : ApplicantSteams] /\ rows \subseteq rows' BY <1>6, <1>11, <1>12
<1>14. \A r, q \in rows' : r.account = q.account \/ r.steam = q.steam => r = q
  BY <1>6, <1>11, <1>12 DEF Taken
<1>15. reply.at = "received" => [account |-> reply.account, steam |-> reply.steam] \in rows' BY <1>5, <1>6, <1>8
<1> QED BY <1>9, <1>10, <1>13, <1>14, <1>15, SubmissionsKeep

\* Signing out, members who come and go, time, and restarts.
LEMMA OtherApplicantsKeep ==
  ASSUME ApplyingInv,
         \/ \E c \in Browsers : Logout(c)
         \/ \E d \in Applicants : MemberChanges(d)
         \/ Elapse \/ ProcessRestarts \/ UNCHANGED applyingVars
  PROVE  ApplyingInv'
<1> USE ApplyingNumbers
<1>1. ASSUME NEW c \in Browsers, Logout(c) PROVE ApplyingInv'
  <2>1. /\ session' = [session EXCEPT ![c] = NoSession] /\ oauth' = [oauth EXCEPT ![c] = NoOauth]
        /\ UNCHANGED <<now, member, signIns, returns, callback, request, rows, behind>>
    BY <1>1 DEF Logout
  <2>2. session \in [Browsers -> Sessions] /\ oauth \in [Browsers -> Cookies] /\ signIns \in Nat
    BY DEF ApplyingInv, ApplyingShape
  <2>3. ApplyingShape' BY <2>1, <2>2 DEF ApplyingInv, ApplyingShape, Sessions
  <2>4. \A b \in Browsers : oauth'[b] = IF b = c THEN NoOauth ELSE oauth[b] BY <2>1, <2>2
  <2>5. \A b \in Browsers : oauth'[b].nonce <= signIns BY <2>2, <2>4 DEF ApplyingInv, NoncesKnown
  <2>6. \A b \in Browsers, q \in returns : oauth'[b].nonce = q.nonce => q.began = b
    BY <2>4 DEF ApplyingInv, NoncesKnown
  <2>7. NoncesKnown' BY <2>1, <2>5, <2>6 DEF ApplyingInv, NoncesKnown
  <2>8. CallbacksOwn' /\ RequestsShaped' BY <2>1 DEF ApplyingInv, CallbacksOwn, RequestsShaped
  <2>9. OwnSignIn' BY <2>1, <2>2 DEF ApplyingInv, OwnSignIn
  <2>10. OnePerPerson' BY <2>1 DEF ApplyingInv, OnePerPerson
  <2> QED BY <2>3, <2>7, <2>8, <2>9, <2>10 DEF ApplyingInv
<1>2. ASSUME NEW d \in Applicants, MemberChanges(d) PROVE ApplyingInv'
  <2>1. PICK m \in {"in", "out"} : member' = [member EXCEPT ![d] = m] BY <1>2 DEF MemberChanges
  <2>2. UNCHANGED <<now, signIns, oauth, returns, callback, session, request, rows, behind>> BY <1>2 DEF MemberChanges
  <2>3. ApplyingShape' BY <2>1, <2>2 DEF ApplyingInv, ApplyingShape
  <2>4. NoncesKnown' BY <2>2 DEF ApplyingInv, NoncesKnown
  <2>5. CallbacksOwn' /\ RequestsShaped' BY <2>2 DEF ApplyingInv, CallbacksOwn, RequestsShaped
  <2>6. OwnSignIn' BY <2>2 DEF ApplyingInv, OwnSignIn
  <2>7. OnePerPerson' BY <2>2 DEF ApplyingInv, OnePerPerson
  <2> QED BY <2>3, <2>4, <2>5, <2>6, <2>7 DEF ApplyingInv
<1>3. CASE Elapse
  <2>1. now' = now + 1 /\ now \in Nat /\ now' \in 0 .. LastInstant BY <1>3 DEF Elapse, ApplyingInv, ApplyingShape
  <2>2. UNCHANGED <<member, signIns, oauth, returns, callback, session, request, rows, behind>> BY <1>3 DEF Elapse
  <2>3. ApplyingShape' BY <2>1, <2>2 DEF ApplyingInv, ApplyingShape
  <2>4. NoncesKnown' BY <2>2 DEF ApplyingInv, NoncesKnown
  <2>5. CallbacksOwn' /\ RequestsShaped' BY <2>2 DEF ApplyingInv, CallbacksOwn, RequestsShaped
  <2>6. \A c \in Browsers : session[c] # NoSession => session[c].issued \in Nat
    BY DEF ApplyingInv, ApplyingShape, Sessions
  <2>7. OwnSignIn' BY <2>1, <2>2, <2>6 DEF ApplyingInv, OwnSignIn
  <2>8. OnePerPerson' BY <2>2 DEF ApplyingInv, OnePerPerson
  <2> QED BY <2>3, <2>4, <2>5, <2>7, <2>8 DEF ApplyingInv
<1>4. CASE ProcessRestarts
  <2>1. /\ callback' = [c \in Browsers |-> NoRequest] /\ request' = [c \in Browsers |-> NoRequest]
        /\ UNCHANGED <<now, member, signIns, oauth, returns, session, rows, behind>>
    BY <1>4 DEF ProcessRestarts
  <2>2. ApplyingShape' BY <2>1 DEF ApplyingInv, ApplyingShape
  <2>3. NoncesKnown' BY <2>1 DEF ApplyingInv, NoncesKnown
  <2>4. CallbacksOwn' /\ RequestsShaped' BY <2>1 DEF CallbacksOwn, RequestsShaped
  <2>5. OwnSignIn' BY <2>1 DEF ApplyingInv, OwnSignIn
  <2>6. OnePerPerson' BY <2>1 DEF ApplyingInv, OnePerPerson
  <2> QED BY <2>2, <2>3, <2>4, <2>5, <2>6 DEF ApplyingInv
<1>5. CASE UNCHANGED applyingVars
  BY <1>5 DEF applyingVars, ApplyingInv, ApplyingShape, NoncesKnown, CallbacksOwn, RequestsShaped, OwnSignIn, OnePerPerson
<1> QED BY <1>1, <1>2, <1>3, <1>4, <1>5

LEMMA ApplyingKeeps == ApplyingInv /\ [ApplyingNext]_applyingVars => ApplyingInv'
<1> SUFFICES ASSUME ApplyingInv, [ApplyingNext]_applyingVars PROVE ApplyingInv' OBVIOUS
<1>1. ASSUME NEW c \in Browsers, NEW d \in Applicants, Login(c, d) PROVE ApplyingInv' BY <1>1, LoginKeeps
<1>2. ASSUME NEW c \in Browsers, NEW r \in returns, Return(c, r) PROVE ApplyingInv' BY <1>2, CodeReturnKeeps
<1>3. ASSUME NEW c \in Browsers, SignedIn(c) PROVE ApplyingInv' BY <1>3, SignedInKeeps
<1>4. ASSUME NEW c \in Browsers, NEW steam \in ApplicantSteams, Submit(c, steam) PROVE ApplyingInv' BY <1>4, SubmitKeeps
<1>5. ASSUME NEW c \in Browsers, PageRefused(c) PROVE ApplyingInv' BY <1>5, PageRefusedKeeps
<1>6. ASSUME NEW c \in Browsers, CreateSession(c) PROVE ApplyingInv' BY <1>6, CreateKeeps
<1> QED BY <1>1, <1>2, <1>3, <1>4, <1>5, <1>6, OtherApplicantsKeep DEF ApplyingNext

LEMMA ApplyingGives == ApplyingInv => ApplicantsTrue /\ ApplyingTypeOK
BY DEF ApplyingInv, ApplicantsTrue, ApplyingTypeOK, ApplyingShape, Sessions

-----------------------------------------------------------------------------
(* Approvals *)

ItemStates == {"queued", "sending", "paused", "approved", "attention"}
OfItems(S) == UNION {[some -> S] : some \in SUBSET Apps}
Batches ==
  [phase : {"review", "running", "done"}, items : Seq(Apps), state : OfItems(ItemStates), ids : OfItems(Nat),
   next : Nat, wait : Nat, tries : Nat, stopping : BOOLEAN]
Dialogues ==
  [at : {"open", "sending", "approved", "declined", "unconfirmed"}, app : Apps, status : AppStatuses, id : Nat]
ReviewCalls ==
  [app : Apps, id : Nat, decision : {"approve", "decline", "recheck"}, at : {"sent", "claimed", "answered"},
   said : {"nothing", "conflict"} \cup AppStatuses]
Lists == [version : {0}, list : [Apps -> AppStatuses]]
PageLists == [data : {Unread} \cup Lists, asked : BOOLEAN]

PageShaped ==
  /\ ticked \subseteq Apps /\ listPage \in PageLists
  /\ single \in {NoDialog} \cup Dialogues /\ batch \in {NoBatch} \cup Batches
  /\ single = NoDialog \/ batch = NoBatch
  /\ requests \in Nat /\ awaited \in Nat /\ awaited <= requests
AppRows == [status : AppStatuses, by : Int]
ServerShaped ==
  /\ app \in [Apps -> AppRows] /\ \A c \in Apps : app[c].by <= requests
  /\ reviewCalls \subseteq ReviewCalls /\ \A call \in reviewCalls : call.id >= 1 /\ call.id <= requests
  /\ rest \in {0, 1}

\* One request has an ID at a time, and before its claim nothing at the server bears the ID; what an answer says
\* of a decision stays so.
CallsKnown ==
  /\ \A call, d \in reviewCalls : call.id = d.id => call = d
  /\ \A call \in reviewCalls : call.at = "sent" => \A c \in Apps : app[c].by # call.id
  /\ \A call \in reviewCalls :
       call.at = "answered" /\ call.said \in {"approved", "declined"} => app[call.app].status = call.said

\* The dialog waits for its own request.
DialogKnown ==
  /\ single.at = "sending" => awaited = single.id /\ awaited # 0
  /\ awaited # 0 => single.at = "sending" \/ batch.phase = "running"
  /\ single.at = "sending" => \A call \in reviewCalls : call.id = awaited => call.app = single.app
  /\ single.at \in {"approved", "declined"} => app[single.app].status = single.at

\* What is before the present item of a batch was approved, and what is behind it was not sent.
Arranged(items, state, ids, next) ==
  /\ DOMAIN ids = DOMAIN state /\ next \in 1 .. Len(items)
  /\ \A i \in 1 .. Len(items) : items[i] \in DOMAIN state
  /\ \A i, j \in 1 .. Len(items) : items[i] = items[j] => i = j
  /\ \A i \in 1 .. Len(items) : i < next => state[items[i]] = "approved"
  /\ \A i \in 1 .. Len(items) : i > next => state[items[i]] = "queued" /\ ids[items[i]] = 0
\* The present item: not sent, waiting for another try, or sent and awaited.
AtItem(phase, state, id, tries, awaiting) ==
  IF phase = "done" THEN state \notin {"paused", "sending"}
  ELSE IF awaiting # 0 THEN phase = "running" /\ state = "sending" /\ id = awaiting
  ELSE IF tries = 0 THEN state = "queued" /\ id = 0
  ELSE phase = "running" /\ state = "paused" /\ id # 0
\* Nothing at the server bears the ID.
Unclaimed(id, marks, reviews) == (\A c \in Apps : marks[c].by # id) /\ \A call \in reviews : call.id # id
ItemsTrue(state, ids, marks, reviews, sent) ==
  /\ \A c \in DOMAIN state : state[c] = "approved" => marks[c].status = "approved"
  /\ \A c \in DOMAIN state : state[c] \in {"queued", "paused"} /\ ids[c] # 0 => Unclaimed(ids[c], marks, reviews)
  /\ \A c \in DOMAIN state : ids[c] <= sent
  /\ \A c, d \in DOMAIN state : ids[c] = ids[d] /\ ids[c] # 0 => c = d
TicksTrue(phase, state, ticks) ==
  /\ phase # "done" => DOMAIN state \subseteq ticks
  /\ phase = "done" => \A c \in DOMAIN state : c \in ticks <=> state[c] = "queued"
BatchKnown ==
  batch # NoBatch =>
    /\ Arranged(batch.items, batch.state, batch.ids, batch.next)
    /\ AtItem(batch.phase, batch.state[Item], batch.ids[Item], batch.tries, awaited)
    /\ ItemsTrue(batch.state, batch.ids, app, reviewCalls, requests)
    /\ TicksTrue(batch.phase, batch.state, ticked)
    /\ batch.phase = "running" => \A call \in reviewCalls : call.id = awaited => call.app = Item

\* As long as no answer was lost, the server has only the awaited request, and an approval of a batch is sent
\* when the cooldown is over.
RestKnown ==
  ~lost =>
    /\ ~tooSoon /\ \A call \in reviewCalls : call.id = awaited
    /\ batch.phase \in {"review", "running"} /\ awaited = 0 /\ rest = 0 => batch.wait >= 1
    /\ batch.phase = "running" /\ rest = 0 => \A call \in reviewCalls : call.at = "answered"

BulkInv == PageShaped /\ ServerShaped /\ CallsKnown /\ DialogKnown /\ BatchKnown /\ RestKnown

LEMMA BulkNumbers ==
  /\ {AppCount, BusyRetries, MaxRequests} \subseteq Nat /\ {FirstGap, Spacing} \subseteq Nat \ {0}
  /\ Apps \subseteq Nat \ {0} /\ OtherStaff = -1 /\ ReviewCooldown = 1
  /\ NoBatch.phase = "none" /\ NoDialog.at = "none"
  /\ NoBatch \notin Batches /\ NoDialog \notin Dialogues
<1>1. NoBatch.phase = "none" /\ NoDialog.at = "none" BY DEF NoBatch, NoDialog
<1>2. \A r \in Batches : r.phase # "none" BY DEF Batches
<1>3. \A r \in Dialogues : r.at # "none" BY DEF Dialogues
<1>4. OtherStaff = -1 BY DEF OtherStaff
<1> QED BY <1>1, <1>2, <1>3, <1>4, BulkAssumption DEF Apps, ReviewCooldown

LEMMA BulkStarts == BulkInit => BulkInv
<1> SUFFICES ASSUME BulkInit PROVE BulkInv OBVIOUS
<1> USE BulkNumbers DEF BulkInit
<1>1. [status |-> "pending", by |-> 0] \in AppRows BY DEF AppRows, AppStatuses
<1>2. FirstRead \in PageLists BY DEF FirstRead, PageLists
<1>3. PageShaped BY <1>2 DEF PageShaped
<1>4. ServerShaped BY <1>1 DEF ServerShaped
<1>5. CallsKnown BY DEF CallsKnown
<1>6. DialogKnown BY DEF DialogKnown
<1>7. BatchKnown BY DEF BatchKnown
<1>8. RestKnown BY DEF RestKnown
<1> QED BY <1>3, <1>4, <1>5, <1>6, <1>7, <1>8 DEF BulkInv

-----------------------------------------------------------------------------
(* Batches and their items *)

LEMMA ItemFields ==
  ASSUME NEW S, NEW f \in OfItems(S)
  PROVE  DOMAIN f \subseteq Apps /\ f \in [DOMAIN f -> S] /\ \A c \in DOMAIN f : f[c] \in S
BY DEF OfItems

LEMMA ItemChanged ==
  ASSUME NEW S, NEW f \in OfItems(S), NEW c, NEW v \in S
  PROVE  /\ [f EXCEPT ![c] = v] \in OfItems(S) /\ DOMAIN [f EXCEPT ![c] = v] = DOMAIN f
         /\ \A d \in DOMAIN f : [f EXCEPT ![c] = v][d] = IF d = c THEN v ELSE f[d]
<1>1. f \in [DOMAIN f -> S] /\ DOMAIN f \in SUBSET Apps BY ItemFields
<1>2. [f EXCEPT ![c] = v] \in [DOMAIN f -> S] BY <1>1
<1> QED BY <1>1, <1>2 DEF OfItems

LEMMA BatchFields ==
  ASSUME NEW r \in Batches
  PROVE  /\ r.phase \in {"review", "running", "done"} /\ r.items \in Seq(Apps) /\ r.state \in OfItems(ItemStates)
         /\ r.ids \in OfItems(Nat) /\ r.next \in Nat /\ r.wait \in Nat /\ r.tries \in Nat /\ r.stopping \in BOOLEAN
BY DEF Batches

\* A batch with some of its fields changed.
LEMMA BatchChanged ==
  ASSUME NEW r \in Batches, NEW q, NEW phase \in {"review", "running", "done"}, NEW state \in OfItems(ItemStates),
         NEW ids \in OfItems(Nat), NEW next \in Nat, NEW wait \in Nat, NEW tries \in Nat,
         q = [r EXCEPT !.phase = phase, !.state = state, !.ids = ids, !.next = next, !.wait = wait, !.tries = tries]
  PROVE  /\ q \in Batches /\ q.phase = phase /\ q.items = r.items /\ q.state = state /\ q.ids = ids
         /\ q.next = next /\ q.wait = wait /\ q.tries = tries
BY DEF Batches

LEMMA ItemHere ==
  ASSUME NEW items, NEW state, NEW ids, NEW next, Arranged(items, state, ids, next)
  PROVE  items[next] \in DOMAIN state /\ items[next] \in DOMAIN ids
BY DEF Arranged

LEMMA ArrangedAgain ==
  ASSUME NEW items, NEW state, NEW ids, NEW next, Arranged(items, state, ids, next), NEW now2, NEW ids2,
         DOMAIN now2 = DOMAIN state, DOMAIN ids2 = DOMAIN ids,
         \A c \in DOMAIN state : c # items[next] => now2[c] = state[c] /\ ids2[c] = ids[c]
  PROVE  Arranged(items, now2, ids2, next)
BY DEF Arranged

LEMMA ArrangedNext ==
  ASSUME NEW items, NEW state, NEW ids, NEW next \in Nat, Arranged(items, state, ids, next),
         Len(items) \in Nat, next < Len(items), NEW now2,
         DOMAIN now2 = DOMAIN state, \A c \in DOMAIN state : now2[c] = IF c = items[next] THEN "approved" ELSE state[c]
  PROVE  /\ Arranged(items, now2, ids, next + 1)
         /\ now2[items[next + 1]] = "queued" /\ ids[items[next + 1]] = 0
<1>1. next + 1 \in 1 .. Len(items) /\ next \in 1 .. Len(items) BY DEF Arranged
<1>2. \A i \in 1 .. Len(items) : items[i] \in DOMAIN state /\ (i # next => items[i] # items[next]) BY <1>1 DEF Arranged
<1>3. \A i \in 1 .. Len(items) : now2[items[i]] = IF i = next THEN "approved" ELSE state[items[i]] BY <1>2
<1>4. \A i \in 1 .. Len(items) : i < next + 1 => now2[items[i]] = "approved"
  <2> SUFFICES ASSUME NEW i \in 1 .. Len(items), i < next + 1 PROVE now2[items[i]] = "approved" OBVIOUS
  <2>1. i = next \/ i < next OBVIOUS
  <2> QED BY <2>1, <1>3 DEF Arranged
<1>5. \A i \in 1 .. Len(items) : i > next => now2[items[i]] = "queued" /\ ids[items[i]] = 0 BY <1>3 DEF Arranged
<1>6. \A i \in 1 .. Len(items) : i > next + 1 => i > next OBVIOUS
<1> QED BY <1>1, <1>2, <1>4, <1>5, <1>6 DEF Arranged

\* What was at the server before, or comes of a request that was there, leaves the items' records true.
LEMMA ItemsKept ==
  ASSUME NEW state, NEW ids \in OfItems(Nat), DOMAIN ids = DOMAIN state, NEW marks, NEW reviews, NEW sent \in Int,
         ItemsTrue(state, ids, marks, reviews, sent),
         NEW marks2, NEW reviews2, NEW sent2 \in Int, sent <= sent2,
         \A c \in Apps : marks[c].status = "approved" => marks2[c].status = "approved",
         \A c \in Apps : marks2[c].by \in {marks[c].by, OtherStaff} \/ \E call \in reviews : marks2[c].by = call.id,
         \A call \in reviews2 : \E d \in reviews : d.id = call.id
  PROVE  ItemsTrue(state, ids, marks2, reviews2, sent2)
<1>1. DOMAIN state \subseteq Apps /\ \A c \in DOMAIN state : ids[c] \in Nat BY ItemFields
<1>2. \A c \in DOMAIN state : state[c] = "approved" => marks2[c].status = "approved" BY <1>1 DEF ItemsTrue
<1>3. ASSUME NEW c \in DOMAIN state, state[c] \in {"queued", "paused"}, ids[c] # 0
      PROVE  Unclaimed(ids[c], marks2, reviews2)
  <2>1. Unclaimed(ids[c], marks, reviews) /\ ids[c] \in Nat BY <1>1, <1>3 DEF ItemsTrue
  <2>2. \A d \in Apps : marks2[d].by # ids[c] BY <2>1, BulkNumbers DEF Unclaimed
  <2>3. \A call \in reviews2 : call.id # ids[c] BY <2>1 DEF Unclaimed
  <2> QED BY <2>2, <2>3 DEF Unclaimed
<1>4. \A c \in DOMAIN state : ids[c] <= sent2 BY <1>1 DEF ItemsTrue
<1> QED BY <1>2, <1>3, <1>4 DEF ItemsTrue

LEMMA ItemsSet ==
  ASSUME NEW state, NEW ids, NEW marks, NEW reviews, NEW sent, ItemsTrue(state, ids, marks, reviews, sent),
         NEW c \in DOMAIN state, NEW now2, DOMAIN now2 = DOMAIN state,
         \A d \in DOMAIN state : d # c => now2[d] = state[d],
         now2[c] = "approved" => marks[c].status = "approved",
         now2[c] \in {"queued", "paused"} /\ ids[c] # 0 => Unclaimed(ids[c], marks, reviews)
  PROVE  ItemsTrue(now2, ids, marks, reviews, sent)
BY DEF ItemsTrue

-----------------------------------------------------------------------------
(* The page *)

LEMMA ReadListKeeps == BulkInv /\ ReadList => BulkInv'
<1> SUFFICES ASSUME BulkInv, ReadList PROVE BulkInv' OBVIOUS
<1>1. listPage' = ShownNow([version |-> 0, list |-> [c \in Apps |-> app[c].status]])
      /\ UNCHANGED <<app, ticked, single, batch, reviewCalls, awaited, requests, rest, lost, tooSoon>>
  BY DEF ReadList
<1>2. [c \in Apps |-> app[c].status] \in [Apps -> AppStatuses] BY DEF BulkInv, ServerShaped, AppRows
<1>3. listPage' \in PageLists BY <1>1, <1>2 DEF ShownNow, PageLists, Lists
<1>4. PageShaped' BY <1>1, <1>3 DEF BulkInv, PageShaped
<1>5. ServerShaped' BY <1>1 DEF BulkInv, ServerShaped
<1>6. CallsKnown' BY <1>1 DEF BulkInv, CallsKnown
<1>7. DialogKnown' BY <1>1 DEF BulkInv, DialogKnown
<1>8. BatchKnown' BY <1>1 DEF BulkInv, BatchKnown, Item
<1>9. RestKnown' BY <1>1 DEF BulkInv, RestKnown
<1> QED BY <1>4, <1>5, <1>6, <1>7, <1>8, <1>9 DEF BulkInv

\* With no dialog open nothing is awaited.
LEMMA NothingAwaited ==
  ASSUME BulkInv
  PROVE  /\ batch = NoBatch /\ single.at # "sending" => awaited = 0
         /\ single # NoDialog => batch = NoBatch
         /\ batch # NoBatch => batch \in Batches /\ single = NoDialog
         /\ batch.phase \in {"review", "running", "done"} => batch # NoBatch
         /\ single.at \in {"open", "sending", "approved", "declined", "unconfirmed"} => single \in Dialogues
<1>1. batch = NoBatch => batch.phase = "none" BY BulkNumbers
<1>2. single = NoDialog => single.at = "none" BY BulkNumbers
<1> QED BY <1>1, <1>2 DEF BulkInv, PageShaped, DialogKnown

LEMMA TickKeeps ==
  ASSUME BulkInv, NEW c \in Apps, Tick(c)
  PROVE  BulkInv'
<1>1. ticked' = SymDiff(Selection, {c}) /\ batch = NoBatch /\ c \in PendingApps
      /\ UNCHANGED <<app, listPage, single, batch, reviewCalls, awaited, requests, rest, lost, tooSoon>>
  BY DEF Tick, Dialog
<1>2. ticked' \subseteq Apps BY <1>1 DEF SymDiff, Selection, PendingApps
<1>3. PageShaped' BY <1>1, <1>2 DEF BulkInv, PageShaped
<1>4. ServerShaped' BY <1>1 DEF BulkInv, ServerShaped
<1>5. CallsKnown' BY <1>1 DEF BulkInv, CallsKnown
<1>6. DialogKnown' BY <1>1 DEF BulkInv, DialogKnown
<1>7. BatchKnown' BY <1>1 DEF BatchKnown
<1>8. RestKnown' BY <1>1 DEF BulkInv, RestKnown
<1> QED BY <1>3, <1>4, <1>5, <1>6, <1>7, <1>8 DEF BulkInv

\* A dialog opens or closes while nothing is awaited and no batch is there.
LEMMA DialogMoves ==
  ASSUME BulkInv, single' \in {NoDialog} \cup Dialogues, batch' = NoBatch, awaited = 0,
         single'.at \notin {"sending", "approved", "declined"},
         UNCHANGED <<app, listPage, ticked, reviewCalls, awaited, requests, rest, lost, tooSoon>>
  PROVE  BulkInv'
<1>1. PageShaped' BY DEF BulkInv, PageShaped
<1>2. ServerShaped' BY DEF BulkInv, ServerShaped
<1>3. CallsKnown' BY DEF BulkInv, CallsKnown
<1>4. DialogKnown' BY DEF DialogKnown
<1>5. BatchKnown' BY DEF BatchKnown
<1>6. batch'.phase = "none" BY BulkNumbers
<1>7. RestKnown' BY <1>6 DEF BulkInv, RestKnown
<1> QED BY <1>1, <1>2, <1>3, <1>4, <1>5, <1>7 DEF BulkInv

LEMMA OpenReviewKeeps ==
  ASSUME BulkInv, NEW c \in Apps, OpenReview(c)
  PROVE  BulkInv'
<1>1. Steady(listPage) /\ ~busy /\ ~Dialog /\ single' = [at |-> "open", app |-> c, status |-> ListedApps[c], id |-> 0]
      /\ UNCHANGED <<app, listPage, ticked, batch, reviewCalls, awaited, requests, rest, lost, tooSoon>>
  BY DEF OpenReview
<1>2. listPage \in PageLists /\ listPage.data # Unread BY <1>1 DEF BulkInv, PageShaped, Steady, Shown
<1>3. listPage.data \in Lists BY <1>2 DEF PageLists
<1>4. ListedApps[c] \in AppStatuses BY <1>3 DEF ListedApps, Lists
<1>5. single' \in Dialogues /\ single'.at = "open" BY <1>1, <1>4 DEF Dialogues
<1>6. batch' = NoBatch /\ awaited = 0 BY <1>1 DEF busy, Dialog
<1> QED BY <1>1, <1>5, <1>6, DialogMoves

LEMMA CloseKeeps == BulkInv /\ Close => BulkInv'
<1> SUFFICES ASSUME BulkInv, Close PROVE BulkInv' OBVIOUS
<1>1. Closable /\ single' = NoDialog /\ batch' = NoBatch
      /\ UNCHANGED <<app, listPage, ticked, reviewCalls, awaited, requests, rest, lost, tooSoon>>
  BY DEF Close
<1>2. awaited = 0
  <2>1. CASE single.at \in {"open", "approved", "declined", "unconfirmed"}
    <3>1. single \in Dialogues BY <2>1, NothingAwaited
    <3>2. batch = NoBatch BY <3>1, NothingAwaited, BulkNumbers
    <3> QED BY <2>1, <3>2, NothingAwaited
  <2>2. CASE batch.phase \in {"review", "done"}
    <3>1. single = NoDialog BY <2>2, NothingAwaited
    <3> QED BY <2>2, <3>1, BulkNumbers DEF BulkInv, DialogKnown
  <2> QED BY <2>1, <2>2, <1>1 DEF Closable
<1> QED BY <1>1, <1>2, DialogMoves, BulkNumbers

LEMMA LeaveKeeps == BulkInv /\ Leave => BulkInv'
<1> SUFFICES ASSUME BulkInv, Leave PROVE BulkInv' OBVIOUS
<1>1. /\ single' = NoDialog /\ batch' = NoBatch /\ ticked' = {} /\ listPage' = FirstRead
      /\ lost' = (lost \/ awaited # 0) /\ awaited' = 0
      /\ UNCHANGED <<app, reviewCalls, requests, rest, tooSoon>>
  BY DEF Leave
<1>2. FirstRead \in PageLists BY DEF FirstRead, PageLists
<1>3. PageShaped' BY <1>1, <1>2 DEF BulkInv, PageShaped
<1>4. ServerShaped' BY <1>1 DEF BulkInv, ServerShaped
<1>5. CallsKnown' BY <1>1 DEF BulkInv, CallsKnown
<1>6. single'.at = "none" /\ batch'.phase = "none" BY <1>1, BulkNumbers
<1>7. DialogKnown' BY <1>1, <1>6 DEF DialogKnown
<1>8. BatchKnown' BY <1>1 DEF BatchKnown
<1>9. RestKnown'
  <2>1. CASE lost' BY <2>1 DEF RestKnown
  <2>2. CASE ~lost'
    <3>1. ~lost /\ awaited = 0 BY <2>2, <1>1
    <3> QED BY <3>1, <1>1, <1>6 DEF BulkInv, RestKnown
  <2> QED BY <2>1, <2>2
<1> QED BY <1>3, <1>4, <1>5, <1>7, <1>8, <1>9 DEF BulkInv

LEMMA OpenBatchKeeps == BulkInv /\ OpenBatch => BulkInv'
<1> SUFFICES ASSUME BulkInv, OpenBatch PROVE BulkInv' OBVIOUS
<1>1. PICK items \in OldestFirst(Selection) :
        batch' = [phase |-> "review", items |-> items, state |-> [c \in Selection |-> "queued"],
                  ids |-> [c \in Selection |-> 0], next |-> 1, wait |-> FirstGap, tries |-> 0, stopping |-> FALSE]
  BY DEF OpenBatch
<1>2. /\ Selection # {} /\ ~busy /\ single = NoDialog /\ batch = NoBatch
      /\ UNCHANGED <<app, listPage, ticked, single, reviewCalls, awaited, requests, rest, lost, tooSoon>>
  BY DEF OpenBatch, Dialog
<1>3. Selection \subseteq ticked /\ Selection \in SUBSET Apps /\ IsFiniteSet(Selection)
  <2>1. Selection \subseteq 1 .. AppCount BY DEF Selection, PendingApps, Apps
  <2>2. IsFiniteSet(1 .. AppCount) BY BulkNumbers, FS_Interval
  <2> QED BY <2>1, <2>2, FS_Subset DEF Selection, Apps
<1> PICK chosen : chosen = Selection OBVIOUS
<1>4. chosen # {} /\ chosen \subseteq ticked /\ chosen \in SUBSET Apps /\ IsFiniteSet(chosen) BY <1>2, <1>3
<1>5. Cardinality(chosen) \in Nat \ {0} BY <1>4, FS_CardinalityType, FS_EmptySet
<1> PICK n \in Nat \ {0} : n = Cardinality(chosen) BY <1>5
<1>6. items \in [1 .. n -> chosen] /\ \A i, j \in 1 .. n : i # j => items[i] # items[j]
  BY <1>1 DEF OldestFirst, SetToSeqs
<1>7. Len(items) = n /\ items \in Seq(Apps)
  <2>1. \A S : \A m \in Nat : \A f \in [1 .. m -> S] : Len(f) = m /\ f \in Seq(S) OBVIOUS
  <2>2. items \in Seq(chosen) /\ Len(items) = n BY <2>1, <1>6
  <2>3. items \in [1 .. n -> Apps] BY <1>4, <1>6
  <2> QED BY <2>1, <2>2, <2>3
<1>8. PICK state : state = [c \in chosen |-> "queued"] OBVIOUS
<1>9. PICK ids : ids = [c \in chosen |-> 0] OBVIOUS
<1>10. batch' = [phase |-> "review", items |-> items, state |-> state, ids |-> ids, next |-> 1, wait |-> FirstGap,
                 tries |-> 0, stopping |-> FALSE]
  BY <1>1, <1>8, <1>9
<1>11. state \in OfItems(ItemStates) /\ ids \in OfItems(Nat)
  <2>1. state \in [chosen -> ItemStates] /\ ids \in [chosen -> Nat] BY <1>8, <1>9 DEF ItemStates
  <2> QED BY <2>1, <1>4 DEF OfItems
<1>12. batch' \in Batches BY <1>7, <1>10, <1>11, BulkNumbers DEF Batches
<1>13. batch' # NoBatch /\ batch'.phase = "review" BY <1>10, <1>12, BulkNumbers
<1>14. awaited = 0 BY <1>2 DEF busy
<1>15. PageShaped' BY <1>2, <1>12 DEF BulkInv, PageShaped
<1>16. ServerShaped' BY <1>2 DEF BulkInv, ServerShaped
<1>17. CallsKnown' BY <1>2 DEF BulkInv, CallsKnown
<1>18. DialogKnown' BY <1>2, <1>14, BulkNumbers DEF DialogKnown
<1>19. BatchKnown'
  <2>1. Arranged(items, state, ids, 1) BY <1>6, <1>7, <1>8, <1>9 DEF Arranged
  <2>2. items[1] \in chosen BY <1>6
  <2>3. AtItem("review", state[items[1]], ids[items[1]], 0, 0) BY <2>2, <1>8, <1>9 DEF AtItem
  <2>4. requests \in Nat BY DEF BulkInv, PageShaped
  <2>5. ItemsTrue(state, ids, app, reviewCalls, requests) BY <1>8, <1>9, <2>4 DEF ItemsTrue
  <2>6. TicksTrue("review", state, ticked) BY <1>4, <1>8 DEF TicksTrue
  <2> QED BY <2>1, <2>3, <2>5, <2>6, <1>2, <1>10, <1>14 DEF BatchKnown, Item
<1>20. batch'.wait >= 1 BY <1>10, BulkNumbers
<1>21. RestKnown' BY <1>2, <1>13, <1>20 DEF BulkInv, RestKnown
<1> QED BY <1>15, <1>16, <1>17, <1>18, <1>19, <1>21 DEF BulkInv

\* The batch begins, or is to stop.
LEMMA BatchTurns ==
  ASSUME BulkInv, batch # NoBatch, batch' \in Batches,
         \/ batch.phase = "review" /\ awaited = 0 /\ batch'.phase = "running"
         \/ batch.phase = "running" /\ batch'.phase = "running",
         batch'.items = batch.items, batch'.state = batch.state, batch'.ids = batch.ids, batch'.next = batch.next,
         batch'.wait = batch.wait, batch'.tries = batch.tries,
         UNCHANGED <<app, listPage, ticked, single, reviewCalls, awaited, requests, rest, lost, tooSoon>>
  PROVE  BulkInv'
<1>1. PageShaped' BY NothingAwaited DEF BulkInv, PageShaped
<1>2. ServerShaped' BY DEF BulkInv, ServerShaped
<1>3. CallsKnown' BY DEF BulkInv, CallsKnown
<1>4. DialogKnown' BY DEF BulkInv, DialogKnown
<1>5. AtItem(batch.phase, batch.state[Item], batch.ids[Item], batch.tries, awaited)
        => AtItem("running", batch.state[Item], batch.ids[Item], batch.tries, awaited)
  BY DEF AtItem
<1>6. \A call \in reviewCalls : call.id # 0 BY DEF BulkInv, ServerShaped
<1>7. BatchKnown' BY <1>5, <1>6 DEF BulkInv, BatchKnown, Item, TicksTrue
<1>8. RestKnown'
  <2>1. CASE batch.phase = "running" BY <2>1 DEF BulkInv, RestKnown
  <2>2. CASE batch.phase = "review" BY <2>2, <1>6 DEF BulkInv, RestKnown
  <2> QED BY <2>1, <2>2
<1> QED BY <1>1, <1>2, <1>3, <1>4, <1>7, <1>8 DEF BulkInv

LEMMA SubmitBatchKeeps == BulkInv /\ SubmitBatch => BulkInv'
<1> SUFFICES ASSUME BulkInv, SubmitBatch PROVE BulkInv' OBVIOUS
<1>1. batch.phase = "review" /\ awaited = 0 /\ batch' = [batch EXCEPT !.phase = "running"]
      /\ UNCHANGED <<app, listPage, ticked, single, reviewCalls, awaited, requests, rest, lost, tooSoon>>
  BY DEF SubmitBatch, busy
<1>2. batch \in Batches /\ batch # NoBatch BY <1>1, NothingAwaited
<1>3. /\ batch' \in Batches /\ batch'.phase = "running" /\ batch'.items = batch.items /\ batch'.state = batch.state
      /\ batch'.ids = batch.ids /\ batch'.next = batch.next /\ batch'.wait = batch.wait /\ batch'.tries = batch.tries
  BY <1>1, <1>2 DEF Batches
<1> QED BY <1>1, <1>2, <1>3, BatchTurns

LEMMA StopBatchKeeps == BulkInv /\ StopBatch => BulkInv'
<1> SUFFICES ASSUME BulkInv, StopBatch PROVE BulkInv' OBVIOUS
<1>1. batch.phase = "running" /\ batch' = [batch EXCEPT !.stopping = TRUE]
      /\ UNCHANGED <<app, listPage, ticked, single, reviewCalls, awaited, requests, rest, lost, tooSoon>>
  BY DEF StopBatch
<1>2. batch \in Batches /\ batch # NoBatch BY <1>1, NothingAwaited
<1>3. /\ batch' \in Batches /\ batch'.phase = "running" /\ batch'.items = batch.items /\ batch'.state = batch.state
      /\ batch'.ids = batch.ids /\ batch'.next = batch.next /\ batch'.wait = batch.wait /\ batch'.tries = batch.tries
  BY <1>1, <1>2 DEF Batches
<1> QED BY <1>1, <1>2, <1>3, BatchTurns

-----------------------------------------------------------------------------
(* Requests and answers *)

\* The batch and its present item.
LEMMA BatchFacts ==
  ASSUME BulkInv, batch # NoBatch
  PROVE  /\ batch \in Batches /\ single = NoDialog
         /\ batch.state \in OfItems(ItemStates) /\ batch.ids \in OfItems(Nat)
         /\ DOMAIN batch.ids = DOMAIN batch.state /\ Item \in DOMAIN batch.state /\ Item \in Apps
         /\ Arranged(batch.items, batch.state, batch.ids, batch.next)
         /\ AtItem(batch.phase, batch.state[Item], batch.ids[Item], batch.tries, awaited)
         /\ ItemsTrue(batch.state, batch.ids, app, reviewCalls, requests)
         /\ TicksTrue(batch.phase, batch.state, ticked)
<1>1. batch \in Batches /\ single = NoDialog BY NothingAwaited
<1>2. Arranged(batch.items, batch.state, batch.ids, batch.next)
      /\ AtItem(batch.phase, batch.state[Item], batch.ids[Item], batch.tries, awaited)
      /\ ItemsTrue(batch.state, batch.ids, app, reviewCalls, requests) /\ TicksTrue(batch.phase, batch.state, ticked)
  BY DEF BulkInv, BatchKnown
<1>3. Item \in DOMAIN batch.state /\ DOMAIN batch.ids = DOMAIN batch.state
  <2>1. DOMAIN batch.ids = DOMAIN batch.state BY <1>2 DEF Arranged
  <2>2. batch.items[batch.next] \in DOMAIN batch.state BY <1>2, ItemHere
  <2> QED BY <2>1, <2>2 DEF Item
<1>4. batch.state \in OfItems(ItemStates) /\ batch.ids \in OfItems(Nat) BY <1>1, BatchFields
<1>5. DOMAIN batch.state \subseteq Apps BY <1>4, ItemFields
<1> QED BY <1>1, <1>2, <1>3, <1>4, <1>5

\* A request that nothing at the server bears yet.
LEMMA CallAdded ==
  ASSUME BulkInv, NEW call \in ReviewCalls, call.at = "sent", call.id >= 1, call.id <= requests', requests' \in Nat,
         requests <= requests', Unclaimed(call.id, app, reviewCalls), reviewCalls' = reviewCalls \cup {call},
         UNCHANGED <<app, rest>>
  PROVE  ServerShaped' /\ CallsKnown'
<1>1. requests \in Nat /\ \A d \in reviewCalls : d.id # call.id BY DEF BulkInv, PageShaped, Unclaimed
<1>2. \A d \in reviewCalls' : d = call \/ d \in reviewCalls OBVIOUS
<1>3. reviewCalls' \subseteq ReviewCalls BY DEF BulkInv, ServerShaped
<1>4. \A d \in reviewCalls' : d.id >= 1 /\ d.id <= requests'
  <2> SUFFICES ASSUME NEW d \in reviewCalls' PROVE d.id >= 1 /\ d.id <= requests' OBVIOUS
  <2>1. CASE d = call BY <2>1
  <2>2. CASE d \in reviewCalls
    <3>1. d.id >= 1 /\ d.id <= requests /\ d.id \in Nat BY <2>2 DEF BulkInv, ServerShaped, ReviewCalls
    <3> QED BY <3>1, <1>1
  <2> QED BY <2>1, <2>2, <1>2
<1>5. \A c \in Apps : app'[c].by <= requests'
  <2>1. \A c \in Apps : app[c].by \in Int /\ app[c].by <= requests BY DEF BulkInv, ServerShaped, AppRows
  <2> QED BY <2>1, <1>1
<1>6. ServerShaped' BY <1>3, <1>4, <1>5 DEF BulkInv, ServerShaped
<1>7. \A d, e \in reviewCalls' : d.id = e.id => d = e BY <1>1, <1>2 DEF BulkInv, CallsKnown
<1>8. \A d \in reviewCalls' : d.at = "sent" => \A c \in Apps : app'[c].by # d.id
  BY <1>2 DEF BulkInv, CallsKnown, Unclaimed
<1>9. \A d \in reviewCalls' :
        d.at = "answered" /\ d.said \in {"approved", "declined"} => app'[d.app].status = d.said
  BY <1>2 DEF BulkInv, CallsKnown
<1> QED BY <1>6, <1>7, <1>8, <1>9 DEF CallsKnown

LEMMA NewId == ASSUME BulkInv PROVE requests \in Nat /\ Unclaimed(requests + 1, app, reviewCalls)
<1>1. requests \in Nat BY DEF BulkInv, PageShaped
<1>2. \A c \in Apps : app[c].by \in Int /\ app[c].by <= requests BY DEF BulkInv, ServerShaped, AppRows
<1>3. \A call \in reviewCalls : call.id \in Nat /\ call.id <= requests BY DEF BulkInv, ServerShaped, ReviewCalls
<1>4. \A c \in Apps : app[c].by # requests + 1 BY <1>1, <1>2
<1>5. \A call \in reviewCalls : call.id # requests + 1 BY <1>1, <1>3
<1> QED BY <1>1, <1>4, <1>5 DEF Unclaimed

\* While nothing is awaited and no answer was lost, nothing is at the server.
LEMMA NothingSent == ASSUME BulkInv, ~lost, awaited = 0 PROVE reviewCalls = {}
BY DEF BulkInv, RestKnown, ServerShaped

LEMMA SubmitReviewKeeps ==
  ASSUME BulkInv, NEW decision \in {"approve", "decline", "recheck"}, SubmitReview(decision)
  PROVE  BulkInv'
<1> PICK call : call = [app |-> single.app, id |-> requests + 1, decision |-> decision, at |-> "sent", said |-> "nothing"]
  OBVIOUS
<1>1. /\ single.at = "open" /\ awaited = 0 /\ requests' = requests + 1 /\ reviewCalls' = reviewCalls \cup {call}
      /\ awaited' = requests + 1 /\ single' = [single EXCEPT !.at = "sending", !.id = requests + 1]
      /\ UNCHANGED <<app, listPage, ticked, batch, rest, lost, tooSoon>>
  BY DEF SubmitReview, NewRequest, Send, busy
<1>2. requests \in Nat /\ Unclaimed(requests + 1, app, reviewCalls) BY NewId
<1>3. single \in Dialogues /\ batch = NoBatch BY <1>1, NothingAwaited, BulkNumbers
<1>4. call \in ReviewCalls /\ call.at = "sent" /\ call.id = requests + 1 /\ call.app = single.app
  BY <1>2, <1>3 DEF ReviewCalls, Dialogues
<1>5. requests' \in Nat /\ requests <= requests' BY <1>1, <1>2
<1>6. call.id >= 1 /\ call.id <= requests' BY <1>1, <1>2, <1>4
<1>7. Unclaimed(call.id, app, reviewCalls) BY <1>2, <1>4
<1>8. ServerShaped' /\ CallsKnown' BY <1>1, <1>4, <1>5, <1>6, <1>7, CallAdded
<1>9. single' \in Dialogues /\ single'.at = "sending" /\ single'.id = requests + 1 /\ single'.app = single.app
  <2>1. PICK newId \in Nat : newId = requests + 1 BY <1>2
  <2>2. single' = [single EXCEPT !.at = "sending", !.id = newId] BY <1>1, <2>1
  <2>3. single' \in Dialogues /\ single'.at = "sending" /\ single'.id = newId /\ single'.app = single.app
    BY <1>3, <2>2 DEF Dialogues
  <2> QED BY <2>1, <2>3
<1>10. PageShaped' BY <1>1, <1>2, <1>3, <1>9 DEF BulkInv, PageShaped
<1>11. \A d \in reviewCalls' : d.id = awaited' => d = call BY <1>1, <1>2 DEF Unclaimed
<1>12. DialogKnown' BY <1>1, <1>2, <1>4, <1>9, <1>11 DEF DialogKnown
<1>13. BatchKnown' BY <1>1, <1>3 DEF BatchKnown
<1>14. RestKnown'
  <2> SUFFICES ASSUME ~lost' PROVE RestKnown' BY DEF RestKnown
  <2>1. ~lost /\ reviewCalls = {} BY <1>1, NothingSent
  <2>2. \A d \in reviewCalls' : d.id = awaited' BY <1>1, <1>4, <2>1
  <2>3. ~tooSoon' BY <1>1, <2>1 DEF BulkInv, RestKnown
  <2>4. batch'.phase = "none" BY <1>1, <1>3, BulkNumbers
  <2> QED BY <2>2, <2>3, <2>4 DEF RestKnown
<1> QED BY <1>8, <1>10, <1>12, <1>13, <1>14 DEF BulkInv

LEMMA SendNextKeeps == BulkInv /\ SendNext => BulkInv'
<1> SUFFICES ASSUME BulkInv, SendNext PROVE BulkInv' OBVIOUS
<1> PICK id : id = IF batch.tries = 0 THEN requests + 1 ELSE batch.ids[Item] OBVIOUS
<1> PICK call : call = [app |-> Item, id |-> id, decision |-> "approve", at |-> "sent", said |-> "nothing"] OBVIOUS
<1>1. /\ batch.phase = "running" /\ awaited = 0 /\ batch.wait = 0 /\ awaited' = id
      /\ reviewCalls' = reviewCalls \cup {call}
      /\ requests' = IF batch.tries = 0 THEN requests + 1 ELSE requests
      /\ batch' = [batch EXCEPT !.state[Item] = "sending", !.ids[Item] = IF batch.tries = 0 THEN requests + 1 ELSE @]
      /\ UNCHANGED <<app, listPage, ticked, single, rest, lost, tooSoon>>
  BY DEF SendNext, NewRequest, Send
<1>2. batch # NoBatch BY <1>1, NothingAwaited
<1>3. /\ batch \in Batches /\ single = NoDialog /\ batch.state \in OfItems(ItemStates) /\ batch.ids \in OfItems(Nat)
      /\ DOMAIN batch.ids = DOMAIN batch.state /\ Item \in DOMAIN batch.state /\ Item \in Apps
      /\ Arranged(batch.items, batch.state, batch.ids, batch.next)
      /\ AtItem("running", batch.state[Item], batch.ids[Item], batch.tries, 0)
      /\ ItemsTrue(batch.state, batch.ids, app, reviewCalls, requests)
      /\ TicksTrue("running", batch.state, ticked)
  BY <1>1, <1>2, BatchFacts
<1>4. requests \in Nat /\ Unclaimed(requests + 1, app, reviewCalls) BY NewId
<1>5. \A c \in DOMAIN batch.state : batch.ids[c] \in Nat /\ batch.ids[c] <= requests
  <2>1. \A c \in DOMAIN batch.ids : batch.ids[c] \in Nat BY <1>3, ItemFields
  <2> QED BY <2>1, <1>3 DEF ItemsTrue
<1>6. /\ id \in Nat /\ id >= 1 /\ id <= requests' /\ requests' \in Nat /\ requests <= requests'
      /\ Unclaimed(id, app, reviewCalls) /\ \A c \in DOMAIN batch.state : c # Item => batch.ids[c] # id
  <2>1. CASE batch.tries = 0
    <3>1. id = requests + 1 /\ requests' = requests + 1 BY <2>1, <1>1
    <3>2. \A c \in DOMAIN batch.state : batch.ids[c] # id BY <3>1, <1>4, <1>5
    <3>3. id \in Nat /\ id >= 1 /\ id <= requests' /\ requests' \in Nat /\ requests <= requests' BY <3>1, <1>4
    <3>4. Unclaimed(id, app, reviewCalls) BY <3>1, <1>4
    <3> QED BY <3>2, <3>3, <3>4
  <2>2. CASE batch.tries # 0
    <3>1. id = batch.ids[Item] /\ requests' = requests BY <2>2, <1>1
    <3>2. batch.state[Item] = "paused" /\ batch.ids[Item] # 0 BY <2>2, <1>3 DEF AtItem
    <3>3. Unclaimed(id, app, reviewCalls) /\ \A c \in DOMAIN batch.state : c # Item => batch.ids[c] # id
      BY <3>1, <3>2, <1>3 DEF ItemsTrue
    <3>4. id \in Nat /\ id # 0 /\ id <= requests BY <3>1, <3>2, <1>3, <1>5
    <3> QED BY <3>1, <3>3, <3>4, <1>4
  <2> QED BY <2>1, <2>2
<1>7. call \in ReviewCalls /\ call.at = "sent" /\ call.id = id /\ call.app = Item BY <1>3, <1>6 DEF ReviewCalls
<1>8. ServerShaped' /\ CallsKnown' BY <1>1, <1>6, <1>7, CallAdded
<1>9. PICK state : state = [batch.state EXCEPT ![Item] = "sending"] OBVIOUS
<1>10. PICK ids : ids = [batch.ids EXCEPT ![Item] = id] OBVIOUS
<1>11. /\ state \in OfItems(ItemStates) /\ DOMAIN state = DOMAIN batch.state
       /\ \A c \in DOMAIN batch.state : state[c] = IF c = Item THEN "sending" ELSE batch.state[c]
  BY <1>3, <1>9, ItemChanged DEF ItemStates
<1>12. /\ ids \in OfItems(Nat) /\ DOMAIN ids = DOMAIN batch.state
       /\ \A c \in DOMAIN batch.state : ids[c] = IF c = Item THEN id ELSE batch.ids[c]
  BY <1>3, <1>6, <1>10, ItemChanged
<1>13. batch' \in Batches /\ batch'.phase = "running" /\ batch'.items = batch.items /\ batch'.state = state
       /\ batch'.ids = ids /\ batch'.next = batch.next /\ batch'.wait = batch.wait /\ batch'.tries = batch.tries
  <2>1. [batch.ids EXCEPT ![Item] = IF batch.tries = 0 THEN requests + 1 ELSE @] = ids BY <1>3, <1>10
  <2>2. batch' = [batch EXCEPT !.state = state, !.ids = ids] BY <1>1, <1>3, <1>9, <2>1 DEF Batches
  <2> QED BY <2>2, <1>1, <1>3, <1>11, <1>12 DEF Batches
<1>14. batch' # NoBatch BY <1>13, BulkNumbers
<1>15. PageShaped' BY <1>1, <1>3, <1>6, <1>13 DEF BulkInv, PageShaped
<1>16. \A d \in reviewCalls' : d.id = awaited' => d = call BY <1>1, <1>6 DEF Unclaimed
<1>17. DialogKnown' BY <1>1, <1>3, <1>13, BulkNumbers DEF DialogKnown
<1>18. BatchKnown'
  <2>1. Arranged(batch.items, state, ids, batch.next)
    <3>1. \A c \in DOMAIN batch.state : c # batch.items[batch.next] => state[c] = batch.state[c] /\ ids[c] = batch.ids[c]
      BY <1>11, <1>12 DEF Item
    <3> QED BY <3>1, <1>3, <1>11, <1>12, ArrangedAgain
  <2>2. AtItem("running", state[Item], ids[Item], batch.tries, id) BY <1>3, <1>6, <1>11, <1>12 DEF AtItem
  <2>3. ItemsTrue(state, ids, app, reviewCalls', requests')
    <3>1. \A c \in DOMAIN state : state[c] = "approved" => app[c].status = "approved" BY <1>3, <1>11 DEF ItemsTrue
    <3>2. \A c \in DOMAIN state : state[c] \in {"queued", "paused"} /\ ids[c] # 0 => Unclaimed(ids[c], app, reviewCalls')
      <4> SUFFICES ASSUME NEW c \in DOMAIN state, state[c] \in {"queued", "paused"}, ids[c] # 0
                   PROVE  Unclaimed(ids[c], app, reviewCalls')
        OBVIOUS
      <4>1. c # Item /\ c \in DOMAIN batch.state BY <1>11
      <4>2. ids[c] = batch.ids[c] /\ state[c] = batch.state[c] /\ ids[c] # id BY <4>1, <1>6, <1>11, <1>12
      <4>3. Unclaimed(ids[c], app, reviewCalls) BY <4>1, <4>2, <1>3 DEF ItemsTrue
      <4> QED BY <4>2, <4>3, <1>1, <1>7 DEF Unclaimed
    <3>3. \A c \in DOMAIN state : ids[c] <= requests'
      <4> SUFFICES ASSUME NEW c \in DOMAIN state PROVE ids[c] <= requests' OBVIOUS
      <4>1. c \in DOMAIN batch.state BY <1>11
      <4>2. batch.ids[c] \in Nat /\ batch.ids[c] <= requests BY <4>1, <1>5
      <4>3. ids[c] = IF c = Item THEN id ELSE batch.ids[c] BY <4>1, <1>12
      <4> QED BY <4>2, <4>3, <1>4, <1>6
    <3>4. \A c, d \in DOMAIN state : ids[c] = ids[d] /\ ids[c] # 0 => c = d
      BY <1>3, <1>6, <1>11, <1>12 DEF ItemsTrue
    <3> QED BY <3>1, <3>2, <3>3, <3>4 DEF ItemsTrue
  <2>4. TicksTrue("running", state, ticked) BY <1>3, <1>11 DEF TicksTrue
  <2>5. batch'.items[batch'.next] = Item BY <1>13 DEF Item
  <2> QED BY <2>1, <2>2, <2>3, <2>4, <2>5, <1>1, <1>7, <1>13, <1>16 DEF BatchKnown, Item
<1>19. RestKnown'
  <2> SUFFICES ASSUME ~lost' PROVE RestKnown' BY DEF RestKnown
  <2>1. ~lost /\ reviewCalls = {} BY <1>1, NothingSent
  <2>2. \A d \in reviewCalls' : d.id = awaited' BY <1>1, <1>7, <2>1
  <2>3. ~tooSoon' BY <1>1, <2>1 DEF BulkInv, RestKnown
  <2>4. rest # 0 BY <1>1, <2>1 DEF BulkInv, RestKnown
  <2>5. awaited' # 0 /\ rest' # 0 BY <2>4, <1>1, <1>6
  <2> QED BY <2>2, <2>3, <2>5 DEF RestKnown
<1> QED BY <1>8, <1>15, <1>17, <1>18, <1>19 DEF BulkInv

\* The single review's answer, or that there was none.
LEMMA ReviewEnds ==
  ASSUME BulkInv, single.at = "sending", NEW reply \in {"approved", "declined", "unconfirmed"}, ReviewAnswered(reply),
         reply # "unconfirmed" => app[single.app].status = reply, awaited' = 0, reviewCalls' \subseteq reviewCalls,
         UNCHANGED <<app, requests, rest, tooSoon>>, ~lost' => ~lost /\ reviewCalls' = {}
  PROVE  BulkInv'
<1>1. single' = [single EXCEPT !.at = reply] /\ listPage' = AskedAgain(listPage) /\ UNCHANGED <<ticked, batch>>
  BY DEF ReviewAnswered
<1>2. single \in Dialogues /\ batch = NoBatch BY NothingAwaited, BulkNumbers
<1>3. single' \in Dialogues /\ single'.at = reply /\ single'.app = single.app BY <1>1, <1>2 DEF Dialogues
<1>4. listPage' \in PageLists BY <1>1 DEF BulkInv, PageShaped, AskedAgain, PageLists
<1>5. PageShaped' BY <1>1, <1>2, <1>3, <1>4 DEF BulkInv, PageShaped
<1>6. ServerShaped' BY DEF BulkInv, ServerShaped
<1>7. CallsKnown' BY DEF BulkInv, CallsKnown
<1>8. DialogKnown' BY <1>3 DEF DialogKnown
<1>9. BatchKnown' BY <1>1, <1>2 DEF BatchKnown
<1>10. batch'.phase = "none" BY <1>1, <1>2, BulkNumbers
<1>11. RestKnown' BY <1>10 DEF BulkInv, RestKnown
<1> QED BY <1>5, <1>6, <1>7, <1>8, <1>9, <1>11 DEF BulkInv

LEMMA Returned ==
  ASSUME BulkInv, reviewCalls' \subseteq reviewCalls, UNCHANGED <<app, requests, rest>>
  PROVE  ServerShaped' /\ CallsKnown' /\ \A call \in reviewCalls' : call.id # 0
<1>1. ServerShaped' BY DEF BulkInv, ServerShaped
<1>2. CallsKnown' BY DEF BulkInv, CallsKnown
<1> QED BY <1>1, <1>2 DEF ServerShaped

\* The batch ends: what was sent leaves the selection.
LEMMA BatchEnds ==
  ASSUME BulkInv, batch.phase = "running", NEW newState \in {"queued", "approved", "attention"},
         BatchDone([batch.state EXCEPT ![Item] = newState]), newState = "approved" => app[Item].status = "approved",
         awaited' = 0, reviewCalls' \subseteq reviewCalls,
         newState = "queued" /\ batch.ids[Item] # 0 => Unclaimed(batch.ids[Item], app, reviewCalls'),
         UNCHANGED <<app, single, requests, rest, tooSoon>>, ~lost' => ~lost /\ reviewCalls' = {}
  PROVE  BulkInv'
<1>1. batch # NoBatch BY NothingAwaited
<1>2. PICK state : state = [batch.state EXCEPT ![Item] = newState] OBVIOUS
<1>3. /\ batch \in Batches /\ single = NoDialog /\ batch.state \in OfItems(ItemStates) /\ batch.ids \in OfItems(Nat)
      /\ DOMAIN batch.ids = DOMAIN batch.state /\ Item \in DOMAIN batch.state /\ Item \in Apps
      /\ Arranged(batch.items, batch.state, batch.ids, batch.next)
      /\ ItemsTrue(batch.state, batch.ids, app, reviewCalls, requests)
      /\ TicksTrue("running", batch.state, ticked)
  BY <1>1, BatchFacts
<1>4. /\ batch' = [batch EXCEPT !.phase = "done", !.state = state]
      /\ ticked' = {a \in ticked : a \notin DOMAIN state \/ state[a] = "queued"}
      /\ listPage' = AskedAgain(listPage)
  BY <1>2 DEF BatchDone
<1>5. /\ state \in OfItems(ItemStates) /\ DOMAIN state = DOMAIN batch.state
      /\ \A c \in DOMAIN batch.state : state[c] = IF c = Item THEN newState ELSE batch.state[c]
  BY <1>2, <1>3, ItemChanged DEF ItemStates
<1>6. batch' \in Batches /\ batch'.phase = "done" /\ batch'.items = batch.items /\ batch'.state = state
      /\ batch'.ids = batch.ids /\ batch'.next = batch.next /\ batch'.wait = batch.wait /\ batch'.tries = batch.tries
  BY <1>3, <1>4, <1>5 DEF Batches
<1>7. listPage' \in PageLists BY <1>4 DEF BulkInv, PageShaped, AskedAgain, PageLists
<1>8. PageShaped' BY <1>3, <1>4, <1>6, <1>7 DEF BulkInv, PageShaped
<1>9. ServerShaped' /\ CallsKnown' /\ \A call \in reviewCalls' : call.id # 0 BY Returned
<1>10. DialogKnown' BY <1>3, BulkNumbers DEF DialogKnown
<1>11. requests \in Nat BY DEF BulkInv, PageShaped
<1>12. ItemsTrue(batch.state, batch.ids, app, reviewCalls', requests) BY <1>3, <1>11, ItemsKept
<1>13. ItemsTrue(state, batch.ids, app, reviewCalls', requests)
  <2>1. \A d \in DOMAIN batch.state : d # Item => state[d] = batch.state[d] BY <1>5
  <2>2. state[Item] = newState BY <1>3, <1>5
  <2> QED BY <2>1, <2>2, <1>3, <1>5, <1>12, ItemsSet
<1>14. Arranged(batch.items, state, batch.ids, batch.next)
  <2>1. \A c \in DOMAIN batch.state : c # batch.items[batch.next] => state[c] = batch.state[c]
    BY <1>5 DEF Item
  <2> QED BY <2>1, <1>3, <1>5, ArrangedAgain
<1>15. AtItem("done", state[Item], batch.ids[Item], batch.tries, 0) BY <1>3, <1>5 DEF AtItem
<1>16. TicksTrue("done", state, ticked') BY <1>3, <1>4, <1>5 DEF TicksTrue
<1>17. BatchKnown' BY <1>6, <1>9, <1>13, <1>14, <1>15, <1>16 DEF BatchKnown, Item
<1>18. RestKnown' BY <1>6 DEF BulkInv, RestKnown
<1> QED BY <1>8, <1>9, <1>10, <1>17, <1>18 DEF BulkInv

\* The batch goes on, with the next item or with another try of this one.
LEMMA BatchGoesOn ==
  ASSUME BulkInv, batch.phase = "running", NEW newState \in {"paused", "approved"}, NEW next \in Nat,
         NEW wait \in Nat \ {0}, NEW tries \in Nat,
         batch' = [batch EXCEPT !.state = [batch.state EXCEPT ![Item] = newState], !.next = next, !.wait = wait,
                                !.tries = tries],
         \/ newState = "approved" /\ app[Item].status = "approved" /\ next = batch.next + 1
            /\ batch.next < Len(batch.items) /\ tries = 0
         \/ newState = "paused" /\ batch.ids[Item] # 0 /\ Unclaimed(batch.ids[Item], app, reviewCalls')
            /\ next = batch.next /\ tries # 0,
         awaited' = 0, reviewCalls' \subseteq reviewCalls,
         UNCHANGED <<app, listPage, ticked, single, requests, rest, tooSoon>>, ~lost' => ~lost /\ reviewCalls' = {}
  PROVE  BulkInv'
<1>1. batch # NoBatch BY NothingAwaited
<1>2. PICK state : state = [batch.state EXCEPT ![Item] = newState] OBVIOUS
<1>3. /\ batch \in Batches /\ single = NoDialog /\ batch.state \in OfItems(ItemStates) /\ batch.ids \in OfItems(Nat)
      /\ DOMAIN batch.ids = DOMAIN batch.state /\ Item \in DOMAIN batch.state /\ Item \in Apps
      /\ Arranged(batch.items, batch.state, batch.ids, batch.next)
      /\ ItemsTrue(batch.state, batch.ids, app, reviewCalls, requests)
      /\ TicksTrue("running", batch.state, ticked)
  BY <1>1, BatchFacts
<1>4. /\ state \in OfItems(ItemStates) /\ DOMAIN state = DOMAIN batch.state
      /\ \A c \in DOMAIN batch.state : state[c] = IF c = Item THEN newState ELSE batch.state[c]
  BY <1>2, <1>3, ItemChanged DEF ItemStates
<1>5. batch' \in Batches /\ batch'.phase = "running" /\ batch'.items = batch.items /\ batch'.state = state
      /\ batch'.ids = batch.ids /\ batch'.next = next /\ batch'.wait = wait /\ batch'.tries = tries
  BY <1>2, <1>3, <1>4 DEF Batches
<1>6. PageShaped' BY <1>3, <1>5 DEF BulkInv, PageShaped
<1>7. ServerShaped' /\ CallsKnown' /\ \A call \in reviewCalls' : call.id # 0 BY Returned
<1>8. DialogKnown' BY <1>3, BulkNumbers DEF DialogKnown
<1>9. requests \in Nat BY DEF BulkInv, PageShaped
<1>10. ItemsTrue(batch.state, batch.ids, app, reviewCalls', requests) BY <1>3, <1>9, ItemsKept
<1>11. ItemsTrue(state, batch.ids, app, reviewCalls', requests)
  <2>1. \A d \in DOMAIN batch.state : d # Item => state[d] = batch.state[d] BY <1>4
  <2>2. state[Item] = newState BY <1>3, <1>4
  <2> QED BY <2>1, <2>2, <1>3, <1>4, <1>10, ItemsSet
<1>12. TicksTrue("running", state, ticked) BY <1>3, <1>4 DEF TicksTrue
<1>13. Arranged(batch.items, state, batch.ids, next)
       /\ AtItem("running", state[batch.items[next]], batch.ids[batch.items[next]], tries, 0)
  <2>1. CASE newState = "approved"
    <3>1. batch.items \in Seq(Apps) /\ Len(batch.items) \in Nat /\ batch.next \in Nat BY <1>3, BatchFields
    <3>2. \A c \in DOMAIN batch.state : state[c] = IF c = batch.items[batch.next] THEN "approved" ELSE batch.state[c]
      BY <2>1, <1>4 DEF Item
    <3>3. /\ Arranged(batch.items, state, batch.ids, batch.next + 1)
          /\ state[batch.items[batch.next + 1]] = "queued" /\ batch.ids[batch.items[batch.next + 1]] = 0
      BY <2>1, <3>1, <3>2, <1>3, <1>4, ArrangedNext
    <3> QED BY <2>1, <3>3 DEF AtItem
  <2>2. CASE newState = "paused"
    <3>1. \A c \in DOMAIN batch.state : c # batch.items[batch.next] => state[c] = batch.state[c]
      BY <1>4 DEF Item
    <3>2. Arranged(batch.items, state, batch.ids, next) BY <2>2, <3>1, <1>3, <1>4, ArrangedAgain
    <3>3. state[Item] = "paused" /\ batch.ids[Item] # 0 /\ tries # 0 BY <2>2, <1>3, <1>4
    <3>4. batch.items[next] = Item BY <2>2 DEF Item
    <3> QED BY <3>2, <3>3, <3>4 DEF AtItem
  <2> QED BY <2>1, <2>2
<1>14. BatchKnown' BY <1>5, <1>7, <1>11, <1>12, <1>13 DEF BatchKnown, Item
<1>15. RestKnown' BY <1>5 DEF BulkInv, RestKnown
<1> QED BY <1>6, <1>7, <1>8, <1>14, <1>15 DEF BulkInv

LEMMA HaltKeeps == BulkInv /\ Halt => BulkInv'
<1> SUFFICES ASSUME BulkInv, Halt PROVE BulkInv' OBVIOUS
<1>1. batch.phase = "running" /\ awaited = 0 /\ BatchDone([batch.state EXCEPT ![Item] = "queued"])
      /\ UNCHANGED <<app, single, reviewCalls, awaited, requests, rest, lost, tooSoon>>
  BY DEF Halt
<1>2. batch # NoBatch BY <1>1, NothingAwaited
<1>3. batch.ids[Item] # 0 => Unclaimed(batch.ids[Item], app, reviewCalls)
  <2>1. AtItem("running", batch.state[Item], batch.ids[Item], batch.tries, 0) /\ Item \in DOMAIN batch.state
        /\ ItemsTrue(batch.state, batch.ids, app, reviewCalls, requests)
    BY <1>1, <1>2, BatchFacts
  <2>2. batch.state[Item] \in {"queued", "paused"} BY <2>1 DEF AtItem
  <2> QED BY <2>1, <2>2 DEF ItemsTrue
<1>4. ~lost' => ~lost /\ reviewCalls' = {} BY <1>1, NothingSent
<1> QED BY <1>1, <1>3, <1>4, BatchEnds

\* The awaited request at the server.
LEMMA AwaitedCall ==
  ASSUME BulkInv, NEW call \in reviewCalls, call.id = awaited
  PROVE  /\ call.id # 0 /\ call \in ReviewCalls /\ (lost \/ reviewCalls \ {call} = {})
         /\ \A d \in reviewCalls \ {call} : d.id # call.id
<1>1. call.id # 0 /\ call \in ReviewCalls BY DEF BulkInv, ServerShaped
<1>2. \A d \in reviewCalls \ {call} : d.id # call.id BY DEF BulkInv, CallsKnown
<1>3. ~lost => reviewCalls \ {call} = {} BY <1>2 DEF BulkInv, RestKnown
<1> QED BY <1>1, <1>2, <1>3

LEMMA AwaitedItem ==
  ASSUME BulkInv, awaited # 0, single.at # "sending"
  PROVE  /\ batch # NoBatch /\ batch.phase = "running" /\ batch.ids[Item] = awaited
         /\ \A call \in reviewCalls : call.id = awaited => call.app = Item
<1>1. batch.phase = "running" BY DEF BulkInv, DialogKnown
<1>2. batch # NoBatch BY <1>1, NothingAwaited
<1>3. AtItem("running", batch.state[Item], batch.ids[Item], batch.tries, awaited) BY <1>1, <1>2, BatchFacts
<1>4. batch.ids[Item] = awaited BY <1>3 DEF AtItem
<1> QED BY <1>1, <1>2, <1>4 DEF BulkInv, BatchKnown

LEMMA BusyKeeps ==
  ASSUME BulkInv, NEW call \in reviewCalls, Busy(call)
  PROVE  BulkInv'
<1>1. /\ call.at = "sent" /\ call.id = awaited /\ reviewCalls' = reviewCalls \ {call} /\ awaited' = 0
      /\ UNCHANGED <<app, requests, rest, lost, tooSoon>>
  BY DEF Busy
<1>2. awaited # 0 /\ (~lost' => ~lost /\ reviewCalls' = {}) /\ \A d \in reviewCalls' : d.id # awaited
  BY <1>1, AwaitedCall
<1>3. reviewCalls' \subseteq reviewCalls BY <1>1
<1>4. CASE single.at = "sending"
  <2>1. ReviewAnswered("unconfirmed") BY <1>4 DEF Busy
  <2> QED BY <2>1, <1>1, <1>2, <1>3, <1>4, ReviewEnds
<1>5. CASE single.at # "sending"
  <2>1. batch # NoBatch /\ batch.phase = "running" /\ batch.ids[Item] = awaited BY <1>2, <1>5, AwaitedItem
  <2>2. Unclaimed(batch.ids[Item], app, reviewCalls')
    <3>1. \A c \in Apps : app[c].by # awaited BY <1>1 DEF BulkInv, CallsKnown
    <3> QED BY <3>1, <2>1, <1>2 DEF Unclaimed
  <2>3. UNCHANGED single /\ \/ BatchDone([batch.state EXCEPT ![Item] = "queued"])
                            \/ /\ batch' = [batch EXCEPT !.state[Item] = "paused", !.tries = @ + 1, !.wait = 1]
                               /\ UNCHANGED <<ticked, listPage>>
    BY <1>5 DEF Busy
  <2>4. CASE BatchDone([batch.state EXCEPT ![Item] = "queued"])
    BY <2>1, <2>2, <2>3, <2>4, <1>1, <1>2, <1>3, BatchEnds
  <2>5. CASE batch' = [batch EXCEPT !.state[Item] = "paused", !.tries = @ + 1, !.wait = 1]
             /\ UNCHANGED <<ticked, listPage>>
    <3>1. batch \in Batches /\ batch.tries \in Nat /\ batch.next \in Nat /\ batch.state \in OfItems(ItemStates)
      BY <2>1, BatchFacts, BatchFields
    <3>2. batch.tries + 1 \in Nat /\ batch.tries + 1 # 0 /\ 1 \in Nat \ {0} BY <3>1
    <3>3. batch' = [batch EXCEPT !.state = [batch.state EXCEPT ![Item] = "paused"], !.next = batch.next, !.wait = 1,
                                 !.tries = batch.tries + 1]
      BY <2>5, <3>1 DEF Batches
    <3>4. PICK tries \in Nat : tries = batch.tries + 1 /\ tries # 0 BY <3>2
    <3>5. PICK next \in Nat : next = batch.next BY <3>1
    <3>6. batch' = [batch EXCEPT !.state = [batch.state EXCEPT ![Item] = "paused"], !.next = next, !.wait = 1,
                                 !.tries = tries]
      BY <3>3, <3>4, <3>5
    <3>7. batch.ids[Item] # 0 /\ UNCHANGED <<app, listPage, ticked, single, requests, rest, tooSoon>>
      BY <2>1, <2>3, <2>5, <1>1, <1>2
    <3> QED BY <2>1, <2>2, <3>2, <3>4, <3>5, <3>6, <3>7, <1>1, <1>2, <1>3, BatchGoesOn
  <2> QED BY <2>3, <2>4, <2>5
<1> QED BY <1>4, <1>5

\* The answer to a batch's request, or that there was none.
LEMMA ItemEnds ==
  ASSUME BulkInv, single.at # "sending", awaited # 0, NEW reply, ItemAnswered(reply),
         reply = "approved" => app[Item].status = "approved", awaited' = 0, reviewCalls' \subseteq reviewCalls,
         UNCHANGED <<app, requests, rest, tooSoon>>, ~lost' => ~lost /\ reviewCalls' = {}
  PROVE  BulkInv'
<1>1. batch # NoBatch /\ batch.phase = "running" BY AwaitedItem
<1>2. batch \in Batches /\ batch.next \in Nat BY <1>1, BatchFacts, BatchFields
<1>3. PICK newState \in {"approved", "attention"} :
        /\ newState = "approved" <=> reply = "approved"
        /\ newState = IF reply = "approved" THEN "approved" ELSE "attention"
  OBVIOUS
<1>4. /\ IF GoesOn(reply)
         THEN /\ batch' = [batch EXCEPT !.state = [batch.state EXCEPT ![Item] = newState], !.next = @ + 1,
                                        !.wait = Spacing, !.tries = 0]
              /\ UNCHANGED <<ticked, listPage>>
         ELSE BatchDone([batch.state EXCEPT ![Item] = newState])
      /\ UNCHANGED single
  BY <1>3 DEF ItemAnswered
<1>5. CASE GoesOn(reply)
  <2>1. reply = "approved" /\ batch.next < Len(batch.items) BY <1>5 DEF GoesOn
  <2>2. batch' = [batch EXCEPT !.state = [batch.state EXCEPT ![Item] = "approved"], !.next = batch.next + 1,
                               !.wait = Spacing, !.tries = 0]
    BY <1>2, <1>3, <1>4, <1>5, <2>1 DEF Batches
  <2>3. batch.next + 1 \in Nat /\ Spacing \in Nat \ {0} /\ 0 \in Nat BY <1>2, BulkNumbers
  <2>4. UNCHANGED <<listPage, ticked, single>> BY <1>4, <1>5
  <2> QED BY <1>1, <2>1, <2>2, <2>3, <2>4, BatchGoesOn
<1>6. CASE ~GoesOn(reply)
  <2>1. BatchDone([batch.state EXCEPT ![Item] = newState]) /\ UNCHANGED single BY <1>4, <1>6
  <2>2. newState \in {"queued", "approved", "attention"} /\ newState # "queued" OBVIOUS
  <2> QED BY <1>1, <1>3, <2>1, <2>2, BatchEnds
<1> QED BY <1>5, <1>6

LEMMA GiveUpKeeps == BulkInv /\ GiveUp => BulkInv'
<1> SUFFICES ASSUME BulkInv, GiveUp PROVE BulkInv' OBVIOUS
<1>1. awaited # 0 /\ awaited' = 0 /\ lost' = TRUE /\ UNCHANGED <<app, reviewCalls, requests, rest, tooSoon>>
  BY DEF GiveUp
<1>2. CASE single.at = "sending"
  <2>1. ReviewAnswered("unconfirmed") BY <1>2 DEF GiveUp
  <2> QED BY <2>1, <1>1, <1>2, ReviewEnds
<1>3. CASE single.at # "sending"
  <2>1. ItemAnswered("unconfirmed") BY <1>3 DEF GiveUp
  <2> QED BY <2>1, <1>1, <1>3, ItemEnds
<1> QED BY <1>2, <1>3

LEMMA AnswerKeeps ==
  ASSUME BulkInv, NEW call \in reviewCalls, Answer(call)
  PROVE  BulkInv'
<1>1. /\ call.at = "answered" /\ reviewCalls' = reviewCalls \ {call} /\ UNCHANGED <<app, requests, rest, lost, tooSoon>>
      /\ IF call.id # awaited THEN UNCHANGED <<listPage, ticked, single, batch, awaited>>
         ELSE /\ awaited' = 0
              /\ IF single.at = "sending"
                 THEN ReviewAnswered(IF call.said \in {"approved", "declined"} THEN call.said ELSE "unconfirmed")
                 ELSE ItemAnswered(call.said)
  BY DEF Answer
<1>2. reviewCalls' \subseteq reviewCalls BY <1>1
<1>3. call.said \in {"approved", "declined"} => app[call.app].status = call.said BY <1>1 DEF BulkInv, CallsKnown
<1>4. CASE call.id # awaited
  <2>1. UNCHANGED <<listPage, ticked, single, batch, awaited>> BY <1>1, <1>4
  <2>2. PageShaped' BY <2>1, <1>1 DEF BulkInv, PageShaped
  <2>3. ServerShaped' /\ CallsKnown' BY <1>1, <1>2, Returned
  <2>4. DialogKnown' BY <2>1, <1>1, <1>2 DEF BulkInv, DialogKnown
  <2>5. BatchKnown'
    <3> SUFFICES ASSUME batch # NoBatch PROVE BatchKnown' BY <2>1 DEF BatchKnown
    <3>1. batch.ids \in OfItems(Nat) /\ DOMAIN batch.ids = DOMAIN batch.state
          /\ ItemsTrue(batch.state, batch.ids, app, reviewCalls, requests)
      BY BatchFacts
    <3>2. requests \in Int BY DEF BulkInv, PageShaped
    <3>3. ItemsTrue(batch.state, batch.ids, app, reviewCalls', requests) BY <3>1, <3>2, <1>2, ItemsKept
    <3> QED BY <3>3, <2>1, <1>1, <1>2 DEF BulkInv, BatchKnown, Item
  <2>6. RestKnown' BY <2>1, <1>1, <1>2, <1>4 DEF BulkInv, RestKnown
  <2> QED BY <2>2, <2>3, <2>4, <2>5, <2>6 DEF BulkInv
<1>5. CASE call.id = awaited
  <2>1. awaited # 0 /\ awaited' = 0 /\ (~lost' => ~lost /\ reviewCalls' = {}) BY <1>1, <1>5, AwaitedCall
  <2>2. CASE single.at = "sending"
    <3>1. call.app = single.app BY <2>2, <1>5 DEF BulkInv, DialogKnown
    <3>2. PICK reply \in {"approved", "declined", "unconfirmed"} :
            reply = IF call.said \in {"approved", "declined"} THEN call.said ELSE "unconfirmed"
      OBVIOUS
    <3>3. ReviewAnswered(reply) BY <3>2, <2>2, <1>1, <1>5
    <3>4. reply # "unconfirmed" => app[single.app].status = reply BY <3>1, <3>2, <1>3
    <3> QED BY <3>3, <3>4, <2>1, <2>2, <1>1, <1>2, ReviewEnds
  <2>3. CASE single.at # "sending"
    <3>1. call.app = Item BY <2>1, <2>3, <1>5, AwaitedItem
    <3>2. ItemAnswered(call.said) BY <2>3, <1>1, <1>5
    <3>3. call.said = "approved" => app[Item].status = "approved" BY <3>1, <1>3
    <3> QED BY <3>2, <3>3, <2>1, <2>3, <1>1, <1>2, ItemEnds
  <2> QED BY <2>2, <2>3
<1> QED BY <1>4, <1>5

-----------------------------------------------------------------------------
(* The server and the time *)

\* A step of the server: a decision once made stays, and the page sees nothing of it yet.
LEMMA ServerStep ==
  ASSUME BulkInv, app' \in [Apps -> AppRows], rest' \in {0, 1}, reviewCalls' \subseteq ReviewCalls,
         \A c \in Apps : app[c].status \in {"approved", "declined"} => app'[c].status = app[c].status,
         \A c \in Apps : app'[c].by \in {app[c].by, OtherStaff} \/ \E call \in reviewCalls : app'[c].by = call.id,
         \A call \in reviewCalls' : \E d \in reviewCalls : d.id = call.id /\ d.app = call.app,
         CallsKnown', RestKnown', UNCHANGED <<listPage, ticked, single, batch, awaited, requests, lost>>
  PROVE  BulkInv'
<1>1. PageShaped' BY DEF BulkInv, PageShaped
<1>2. requests \in Nat BY DEF BulkInv, PageShaped
<1>3. ServerShaped'
  <2>1. \A call \in reviewCalls : call.id >= 1 /\ call.id <= requests BY DEF BulkInv, ServerShaped
  <2>2. \A c \in Apps : app'[c].by <= requests'
    <3> SUFFICES ASSUME NEW c \in Apps PROVE app'[c].by <= requests OBVIOUS
    <3>1. CASE app'[c].by = app[c].by BY <3>1 DEF BulkInv, ServerShaped
    <3>2. CASE app'[c].by = OtherStaff BY <3>2, <1>2, BulkNumbers
    <3>3. CASE \E call \in reviewCalls : app'[c].by = call.id BY <3>3, <2>1
    <3> QED BY <3>1, <3>2, <3>3
  <2> QED BY <2>1, <2>2 DEF ServerShaped
<1>4. DialogKnown'
  <2>1. single.at = "sending" => \A call \in reviewCalls' : call.id = awaited => call.app = single.app
    BY DEF BulkInv, DialogKnown
  <2>2. single.at \in {"approved", "declined"} => app'[single.app].status = single.at
    <3> SUFFICES ASSUME single.at \in {"approved", "declined"} PROVE app'[single.app].status = single.at OBVIOUS
    <3>1. single \in Dialogues BY NothingAwaited
    <3>2. single.app \in Apps BY <3>1 DEF Dialogues
    <3> QED BY <3>2 DEF BulkInv, DialogKnown
  <2> QED BY <2>1, <2>2 DEF BulkInv, DialogKnown
<1>5. BatchKnown'
  <2> SUFFICES ASSUME batch # NoBatch PROVE BatchKnown' BY DEF BatchKnown
  <2>1. batch.ids \in OfItems(Nat) /\ DOMAIN batch.ids = DOMAIN batch.state
        /\ ItemsTrue(batch.state, batch.ids, app, reviewCalls, requests)
    BY BatchFacts
  <2>2. requests \in Int /\ requests <= requests BY <1>2
  <2>3. \A c \in Apps : app[c].status = "approved" => app'[c].status = "approved" OBVIOUS
  <2>4. \A call \in reviewCalls' : \E d \in reviewCalls : d.id = call.id OBVIOUS
  <2>5. ItemsTrue(batch.state, batch.ids, app', reviewCalls', requests) BY <2>1, <2>2, <2>3, <2>4, ItemsKept
  <2>6. batch.phase = "running" => \A call \in reviewCalls' : call.id = awaited => call.app = Item
    BY DEF BulkInv, BatchKnown
  <2> QED BY <2>5, <2>6 DEF BulkInv, BatchKnown, Item
<1> QED BY <1>1, <1>3, <1>4, <1>5 DEF BulkInv

\* One request goes on to its claim or to its answer.
LEMMA CallMoves ==
  ASSUME BulkInv, NEW call \in reviewCalls, NEW goal \in {"claimed", "answered"},
         NEW reply \in {"nothing", "conflict"} \cup AppStatuses, Now(call, goal, reply),
         \A c \in Apps : app[c].status \in {"approved", "declined"} => app'[c].status = app[c].status,
         \A c \in Apps : app'[c].by \in {app[c].by, call.id},
         goal = "answered" /\ reply \in {"approved", "declined"} => app'[call.app].status = reply
  PROVE  /\ reviewCalls' \subseteq ReviewCalls /\ CallsKnown'
         /\ \A d \in reviewCalls' : \E e \in reviewCalls : e.id = d.id /\ e.app = d.app
         /\ (\A d \in reviewCalls : d.id = awaited) => \A d \in reviewCalls' : d.id = awaited /\ d.at = goal
<1> PICK moved : moved = [call EXCEPT !.at = goal, !.said = reply] OBVIOUS
<1>1. reviewCalls' = (reviewCalls \ {call}) \cup {moved} BY DEF Now
<1>2. call \in ReviewCalls /\ reviewCalls \subseteq ReviewCalls BY DEF BulkInv, ServerShaped
<1>3. moved \in ReviewCalls /\ moved.id = call.id /\ moved.app = call.app /\ moved.at = goal /\ moved.said = reply
  BY <1>2 DEF ReviewCalls
<1>4. \A d \in reviewCalls' : d = moved \/ d \in reviewCalls \ {call} BY <1>1
<1>5. \A d \in reviewCalls \ {call} : d \in reviewCalls /\ d.id # call.id /\ d.app \in Apps
  BY <1>2 DEF BulkInv, CallsKnown, ReviewCalls
<1>6. reviewCalls' \subseteq ReviewCalls BY <1>1, <1>2, <1>3
<1>7. \A d, e \in reviewCalls' : d.id = e.id => d = e BY <1>3, <1>4, <1>5 DEF BulkInv, CallsKnown
<1>8. \A d \in reviewCalls' : d.at = "sent" => \A c \in Apps : app'[c].by # d.id
  <2> SUFFICES ASSUME NEW d \in reviewCalls', d.at = "sent", NEW c \in Apps PROVE app'[c].by # d.id OBVIOUS
  <2>1. d \in reviewCalls \ {call} BY <1>3, <1>4
  <2>2. d.id # call.id /\ app[c].by # d.id BY <2>1, <1>5 DEF BulkInv, CallsKnown
  <2> QED BY <2>2
<1>9. \A d \in reviewCalls' :
        d.at = "answered" /\ d.said \in {"approved", "declined"} => app'[d.app].status = d.said
  <2> SUFFICES ASSUME NEW d \in reviewCalls', d.at = "answered", d.said \in {"approved", "declined"}
               PROVE  app'[d.app].status = d.said
    OBVIOUS
  <2>1. CASE d = moved BY <2>1, <1>3
  <2>2. CASE d \in reviewCalls \ {call} BY <2>2, <1>5 DEF BulkInv, CallsKnown
  <2> QED BY <2>1, <2>2, <1>4
<1>10. CallsKnown' BY <1>7, <1>8, <1>9 DEF CallsKnown
<1>11. \A d \in reviewCalls' : \E e \in reviewCalls : e.id = d.id /\ e.app = d.app BY <1>3, <1>4, <1>5
<1>12. (\A d \in reviewCalls : d.id = awaited) => \A d \in reviewCalls' : d.id = awaited /\ d.at = goal
  BY <1>3, <1>4, <1>5
<1> QED BY <1>6, <1>10, <1>11, <1>12

LEMMA AppChanged ==
  ASSUME NEW rows1 \in [Apps -> AppRows], NEW c \in Apps, NEW row, NEW rows2, rows2 = [rows1 EXCEPT ![c] = row]
  PROVE  /\ row \in AppRows => rows2 \in [Apps -> AppRows]
         /\ \A d \in Apps : rows2[d] = IF d = c THEN row ELSE rows1[d]
OBVIOUS

LEMMA ClaimKeeps ==
  ASSUME BulkInv, NEW call \in reviewCalls, ClaimReview(call)
  PROVE  BulkInv'
<1>1. call.at = "sent" /\ UNCHANGED <<listPage, ticked, single, batch, awaited, requests, lost>>
      /\ UNCHANGED <<rest, tooSoon>>
  BY DEF ClaimReview, ServerOnly
<1>2. call \in ReviewCalls /\ app \in [Apps -> AppRows] /\ call.id <= requests BY DEF BulkInv, ServerShaped
<1>3. call.app \in Apps /\ call.id \in Nat /\ call.decision \in {"approve", "decline", "recheck"}
  BY <1>2 DEF ReviewCalls
<1>4. \E goal \in {"claimed", "answered"}, reply \in {"nothing", "conflict"} \cup AppStatuses :
        /\ Now(call, goal, reply) /\ app' \in [Apps -> AppRows]
        /\ \A c \in Apps : app[c].status \in {"approved", "declined"} => app'[c].status = app[c].status
        /\ \A c \in Apps : app'[c].by \in {app[c].by, call.id}
        /\ goal = "answered" /\ reply \in {"approved", "declined"} => app'[call.app].status = reply
  <2>1. CASE ~canReview(app[call.app].status, call.decision)
    <3>1. Now(call, "answered", "conflict") /\ app' = app BY <2>1 DEF ClaimReview
    <3> QED BY <3>1, <1>2
  <2>2. CASE canReview(app[call.app].status, call.decision)
    <3>1. PICK s \in {"processing", "declined", "approved", "needs_review"} :
            /\ app' = [app EXCEPT ![call.app] = [status |-> s, by |-> call.id]]
            /\ Now(call, IF s = "processing" THEN "claimed" ELSE "answered", s)
      BY <2>2, <1>3 DEF ClaimReview
    <3>2. [status |-> s, by |-> call.id] \in AppRows BY <1>3 DEF AppRows, AppStatuses
    <3>3. /\ app' \in [Apps -> AppRows]
          /\ \A d \in Apps : app'[d] = IF d = call.app THEN [status |-> s, by |-> call.id] ELSE app[d]
      BY <3>1, <3>2, <1>2, <1>3, AppChanged
    <3>4. app[call.app].status \notin {"approved", "declined"} BY <2>2 DEF canReview
    <3>5. \A c \in Apps : app[c].status \in {"approved", "declined"} => app'[c].status = app[c].status BY <3>3, <3>4
    <3>6. \A c \in Apps : app'[c].by \in {app[c].by, call.id} BY <3>3
    <3>7. app'[call.app].status = s BY <3>3, <1>3
    <3>8. PICK goal \in {"claimed", "answered"} : goal = IF s = "processing" THEN "claimed" ELSE "answered" OBVIOUS
    <3>9. Now(call, goal, s) /\ s \in AppStatuses BY <3>1, <3>8 DEF AppStatuses
    <3> QED BY <3>3, <3>5, <3>6, <3>7, <3>9
  <2> QED BY <2>1, <2>2
<1>5. PICK goal \in {"claimed", "answered"}, reply \in {"nothing", "conflict"} \cup AppStatuses :
        /\ Now(call, goal, reply) /\ app' \in [Apps -> AppRows]
        /\ \A c \in Apps : app[c].status \in {"approved", "declined"} => app'[c].status = app[c].status
        /\ \A c \in Apps : app'[c].by \in {app[c].by, call.id}
        /\ goal = "answered" /\ reply \in {"approved", "declined"} => app'[call.app].status = reply
  BY <1>4
<1>6. /\ reviewCalls' \subseteq ReviewCalls /\ CallsKnown'
      /\ \A d \in reviewCalls' : \E e \in reviewCalls : e.id = d.id /\ e.app = d.app
      /\ (\A d \in reviewCalls : d.id = awaited) => \A d \in reviewCalls' : d.id = awaited /\ d.at = goal
  BY <1>5, CallMoves
<1>7. RestKnown'
  <2> SUFFICES ASSUME ~lost' PROVE RestKnown' BY DEF RestKnown
  <2>1. ~lost /\ ~tooSoon /\ (\A d \in reviewCalls : d.id = awaited) /\ ~(batch.phase = "running" /\ rest = 0)
    BY <1>1 DEF BulkInv, RestKnown
  <2>2. awaited # 0 BY <2>1, AwaitedCall
  <2> QED BY <2>1, <2>2, <1>1, <1>6 DEF RestKnown
<1>8. rest' \in {0, 1} BY <1>1 DEF BulkInv, ServerShaped
<1>9. \A c \in Apps : app'[c].by \in {app[c].by, OtherStaff} \/ \E d \in reviewCalls : app'[c].by = d.id BY <1>5
<1> QED BY <1>1, <1>5, <1>6, <1>7, <1>8, <1>9, ServerStep

LEMMA ActKeeps ==
  ASSUME BulkInv, NEW call \in reviewCalls, Act(call)
  PROVE  BulkInv'
<1>1. /\ call.at = "claimed" /\ rest' = 0 /\ UNCHANGED <<listPage, ticked, single, batch, awaited, requests, lost>>
      /\ tooSoon' = (tooSoon \/ (rest < ReviewCooldown /\ batch # NoBatch /\ call.id = awaited))
  BY DEF Act, ServerOnly
<1>2. PICK s \in {"approved", "needs_review"} :
        /\ app' = (IF OwnsReview(call) THEN [app EXCEPT ![call.app].status = s] ELSE app)
        /\ Now(call, "answered", IF OwnsReview(call) THEN s ELSE "needs_review")
  BY DEF Act
<1>3. call \in ReviewCalls /\ app \in [Apps -> AppRows] BY DEF BulkInv, ServerShaped
<1>4. call.app \in Apps /\ call.id \in Nat /\ s \in AppStatuses BY <1>3 DEF ReviewCalls, AppStatuses
<1>5. PICK reply \in {"nothing", "conflict"} \cup AppStatuses :
        /\ reply = (IF OwnsReview(call) THEN s ELSE "needs_review")
        /\ Now(call, "answered", reply)
  BY <1>2, <1>4 DEF AppStatuses
<1>6. /\ app' \in [Apps -> AppRows]
      /\ \A c \in Apps : app[c].status \in {"approved", "declined"} => app'[c].status = app[c].status
      /\ \A c \in Apps : app'[c].by = app[c].by
      /\ reply \in {"approved", "declined"} => app'[call.app].status = reply
  <2>1. CASE OwnsReview(call)
    <3>1. app[call.app].status = "processing" /\ reply = s BY <2>1, <1>5 DEF OwnsReview
    <3>2. PICK row : row = [app[call.app] EXCEPT !.status = s] OBVIOUS
    <3>3. row \in AppRows /\ row.status = s /\ row.by = app[call.app].by BY <3>2, <1>3, <1>4 DEF AppRows
    <3>4. app' = [app EXCEPT ![call.app] = row] BY <2>1, <3>2, <1>2, <1>3, <1>4
    <3>5. app' \in [Apps -> AppRows] /\ \A d \in Apps : app'[d] = IF d = call.app THEN row ELSE app[d]
      BY <3>3, <3>4, <1>3, <1>4, AppChanged
    <3> QED BY <3>1, <3>3, <3>5, <1>4
  <2>2. CASE ~OwnsReview(call)
    <3>1. app' = app /\ reply = "needs_review" BY <2>2, <1>2, <1>5
    <3> QED BY <3>1, <1>3
  <2> QED BY <2>1, <2>2
<1>7. /\ reviewCalls' \subseteq ReviewCalls /\ CallsKnown'
      /\ \A d \in reviewCalls' : \E e \in reviewCalls : e.id = d.id /\ e.app = d.app
      /\ (\A d \in reviewCalls : d.id = awaited) => \A d \in reviewCalls' : d.id = awaited /\ d.at = "answered"
  BY <1>5, <1>6, CallMoves
<1>8. RestKnown'
  <2> SUFFICES ASSUME ~lost' PROVE RestKnown' BY DEF RestKnown
  <2>1. ~lost /\ ~tooSoon /\ (\A d \in reviewCalls : d.id = awaited) /\ ~(batch.phase = "running" /\ rest = 0)
    BY <1>1 DEF BulkInv, RestKnown
  <2>2. awaited # 0 BY <2>1, AwaitedCall
  <2>3. ~tooSoon'
    <3> SUFFICES ASSUME rest < ReviewCooldown, batch # NoBatch PROVE FALSE BY <2>1, <1>1
    <3>1. rest = 0 BY BulkNumbers DEF BulkInv, ServerShaped
    <3>2. single.at # "sending" BY BatchFacts, BulkNumbers
    <3>3. batch.phase = "running" BY <3>2, <2>2 DEF BulkInv, DialogKnown
    <3> QED BY <3>1, <3>3, <2>1
  <2> QED BY <2>1, <2>2, <2>3, <1>1, <1>7 DEF RestKnown
<1>9. \A c \in Apps : app'[c].by \in {app[c].by, OtherStaff} BY <1>6
<1> QED BY <1>1, <1>6, <1>7, <1>8, <1>9, ServerStep

LEMMA OthersDecideKeeps ==
  ASSUME BulkInv, NEW c \in Apps, OthersDecide(c)
  PROVE  BulkInv'
<1>1. /\ app[c].status \in {"pending", "processing", "needs_review"}
      /\ UNCHANGED <<listPage, ticked, single, batch, reviewCalls, awaited, requests, rest, lost, tooSoon>>
  BY DEF OthersDecide
<1>2. PICK s \in {"approved", "declined"} : app' = [app EXCEPT ![c] = [status |-> s, by |-> OtherStaff]]
  BY DEF OthersDecide
<1>3. app \in [Apps -> AppRows] /\ reviewCalls \subseteq ReviewCalls /\ rest \in {0, 1} BY DEF BulkInv, ServerShaped
<1>4. [status |-> s, by |-> OtherStaff] \in AppRows BY BulkNumbers DEF AppRows, AppStatuses
<1>5. /\ app' \in [Apps -> AppRows]
      /\ \A d \in Apps : app'[d] = IF d = c THEN [status |-> s, by |-> OtherStaff] ELSE app[d]
  BY <1>2, <1>3, <1>4, AppChanged
<1>6. \A d \in Apps : app[d].status \in {"approved", "declined"} => app'[d].status = app[d].status BY <1>1, <1>5
<1>7. \A d \in Apps : app'[d].by \in {app[d].by, OtherStaff} BY <1>5
<1>8. \A call \in reviewCalls : call.id # OtherStaff /\ call.app \in Apps
  BY <1>3, BulkNumbers DEF BulkInv, ServerShaped, ReviewCalls
<1>9. \A call \in reviewCalls : call.at = "sent" => \A d \in Apps : app'[d].by # call.id
  BY <1>7, <1>8 DEF BulkInv, CallsKnown
<1>10. CallsKnown' BY <1>1, <1>6, <1>8, <1>9 DEF BulkInv, CallsKnown
<1>11. RestKnown' BY <1>1 DEF BulkInv, RestKnown
<1> QED BY <1>1, <1>3, <1>5, <1>6, <1>7, <1>10, <1>11, ServerStep

LEMMA TimeKeeps == BulkInv /\ TimePasses => BulkInv'
<1> SUFFICES ASSUME BulkInv, TimePasses PROVE BulkInv' OBVIOUS
<1>1. /\ rest' = (IF rest < ReviewCooldown THEN rest + 1 ELSE rest)
      /\ batch' = (IF batch # NoBatch /\ batch.wait > 0 THEN [batch EXCEPT !.wait = @ - 1] ELSE batch)
      /\ UNCHANGED <<app, listPage, ticked, single, reviewCalls, awaited, requests, lost, tooSoon>>
  BY DEF TimePasses
<1>2. rest' = 1 BY <1>1, BulkNumbers DEF BulkInv, ServerShaped
<1>3. \/ batch' = batch
      \/ /\ batch # NoBatch /\ batch' \in Batches /\ batch'.phase = batch.phase /\ batch'.items = batch.items
         /\ batch'.state = batch.state /\ batch'.ids = batch.ids /\ batch'.next = batch.next
         /\ batch'.tries = batch.tries
  <2>1. CASE batch # NoBatch /\ batch.wait > 0
    <3>1. batch \in Batches /\ batch.wait \in Nat BY <2>1, BatchFacts, BatchFields
    <3>2. PICK wait \in Nat : wait = batch.wait - 1 BY <2>1, <3>1
    <3>3. batch' = [batch EXCEPT !.wait = wait] BY <2>1, <3>1, <3>2, <1>1 DEF Batches
    <3> QED BY <2>1, <3>1, <3>3 DEF Batches
  <2>2. CASE ~(batch # NoBatch /\ batch.wait > 0) BY <2>2, <1>1
  <2> QED BY <2>1, <2>2
<1>4. PageShaped' BY <1>1, <1>3, NothingAwaited DEF BulkInv, PageShaped
<1>5. ServerShaped' BY <1>1, <1>2 DEF BulkInv, ServerShaped
<1>6. CallsKnown' BY <1>1 DEF BulkInv, CallsKnown
<1>7. batch'.phase = batch.phase BY <1>3
<1>8. DialogKnown' BY <1>1, <1>7 DEF BulkInv, DialogKnown
<1>9. BatchKnown'
  <2>1. CASE batch' = batch BY <2>1, <1>1 DEF BulkInv, BatchKnown, Item
  <2>2. CASE batch' # batch BY <2>2, <1>1, <1>3 DEF BulkInv, BatchKnown, Item
  <2> QED BY <2>1, <2>2
<1>10. RestKnown' BY <1>1, <1>2 DEF BulkInv, RestKnown
<1> QED BY <1>4, <1>5, <1>6, <1>8, <1>9, <1>10 DEF BulkInv

LEMMA BulkKeeps == BulkInv /\ [BulkNext]_bulkVars => BulkInv'
<1> SUFFICES ASSUME BulkInv, [BulkNext]_bulkVars PROVE BulkInv' OBVIOUS
<1>1. CASE ReadList \/ OpenBatch \/ SubmitBatch \/ StopBatch \/ SendNext \/ Halt \/ Close \/ Leave \/ GiveUp \/ TimePasses
  BY <1>1, ReadListKeeps, OpenBatchKeeps, SubmitBatchKeeps, StopBatchKeeps, SendNextKeeps, HaltKeeps, CloseKeeps,
     LeaveKeeps, GiveUpKeeps, TimeKeeps
<1>2. ASSUME NEW c \in Apps, Tick(c) \/ OpenReview(c) \/ OthersDecide(c) PROVE BulkInv'
  BY <1>2, TickKeeps, OpenReviewKeeps, OthersDecideKeeps
<1>3. ASSUME NEW decision \in {"approve", "decline", "recheck"}, SubmitReview(decision) PROVE BulkInv'
  BY <1>3, SubmitReviewKeeps
<1>4. ASSUME NEW call \in reviewCalls, Busy(call) \/ ClaimReview(call) \/ Act(call) \/ Answer(call) PROVE BulkInv'
  BY <1>4, BusyKeeps, ClaimKeeps, ActKeeps, AnswerKeeps
<1>5. CASE UNCHANGED bulkVars
  <2>1. UNCHANGED <<app, listPage, ticked, single, batch, reviewCalls, awaited, requests, rest, lost, tooSoon>>
    BY <1>5 DEF bulkVars
  <2> QED BY <2>1 DEF BulkInv, PageShaped, ServerShaped, CallsKnown, DialogKnown, BatchKnown, RestKnown, Item
<1> QED BY <1>1, <1>2, <1>3, <1>4, <1>5 DEF BulkNext

LEMMA BulkGives == BulkInv => ApprovalsInOrder
<1> SUFFICES ASSUME BulkInv PROVE ApprovalsInOrder OBVIOUS
<1>1. CooldownKept BY DEF BulkInv, RestKnown, CooldownKept
<1>2. single.at \in {"approved", "declined"} => app[single.app].status = single.at BY DEF BulkInv, DialogKnown
<1>3. ASSUME batch # NoBatch
      PROVE  /\ \A a \in DOMAIN batch.state :
                  /\ batch.state[a] = "approved" => app[a].status = "approved"
                  /\ batch.state[a] = "queued" /\ batch.ids[a] # 0 =>
                       app[a].by # batch.ids[a] /\ \A call \in reviewCalls : call.id # batch.ids[a]
             /\ batch.phase = "done" => \A a \in DOMAIN batch.state : a \in ticked <=> batch.state[a] = "queued"
             /\ \A i, j \in 1 .. Len(batch.items) :
                  i < j /\ batch.ids[batch.items[j]] # 0 => batch.state[batch.items[i]] = "approved"
  <2>1. /\ Arranged(batch.items, batch.state, batch.ids, batch.next)
        /\ ItemsTrue(batch.state, batch.ids, app, reviewCalls, requests)
        /\ TicksTrue(batch.phase, batch.state, ticked)
        /\ batch.state \in OfItems(ItemStates) /\ batch \in Batches
    BY <1>3, BatchFacts
  <2>2. DOMAIN batch.state \subseteq Apps BY <2>1, ItemFields
  <2>3. \A a \in DOMAIN batch.state :
          /\ batch.state[a] = "approved" => app[a].status = "approved"
          /\ batch.state[a] = "queued" /\ batch.ids[a] # 0 =>
               app[a].by # batch.ids[a] /\ \A call \in reviewCalls : call.id # batch.ids[a]
    BY <2>1, <2>2 DEF ItemsTrue, Unclaimed
  <2>4. batch.phase = "done" => \A a \in DOMAIN batch.state : a \in ticked <=> batch.state[a] = "queued"
    BY <2>1 DEF TicksTrue
  <2>5. ASSUME NEW i \in 1 .. Len(batch.items), NEW j \in 1 .. Len(batch.items), i < j,
               batch.ids[batch.items[j]] # 0
        PROVE  batch.state[batch.items[i]] = "approved"
    <3>1. batch.next \in Nat /\ Len(batch.items) \in Nat BY <2>1, BatchFields
    <3>2. ~(j > batch.next) BY <2>1, <2>5 DEF Arranged
    <3>3. i < batch.next BY <2>5, <3>1, <3>2
    <3> QED BY <3>3, <2>1 DEF Arranged
  <2> QED BY <2>3, <2>4, <2>5
<1>4. batch = NoBatch => batch.phase = "none" BY BulkNumbers
<1>5. ApprovalsTold BY <1>2, <1>3, <1>4 DEF ApprovalsTold
<1>6. StopsAtDoubt BY <1>3, <1>4 DEF StopsAtDoubt
<1> QED BY <1>1, <1>5, <1>6 DEF ApprovalsInOrder

-----------------------------------------------------------------------------
(* The desk *)

DeskInv == ApplyingInv /\ BulkInv

LEMMA DeskStarts == Init => DeskInv
BY ApplyingStarts, BulkStarts DEF Init, DeskInv

\* The other components leave the applicants and the approvals alone.
LEMMA DeskKeeps == DeskInv /\ [Next]_vars => DeskInv'
<1> SUFFICES ASSUME DeskInv, [Next]_vars PROVE DeskInv' OBVIOUS
<1>1. CASE ApplyingNext /\ UNCHANGED bulkVars BY <1>1, ApplyingKeeps, BulkKeeps DEF DeskInv
<1>2. CASE BulkNext /\ UNCHANGED applyingVars BY <1>2, ApplyingKeeps, BulkKeeps DEF DeskInv
<1>3. CASE UNCHANGED <<applyingVars, bulkVars>>
  <2>1. UNCHANGED applyingVars /\ UNCHANGED bulkVars BY <1>3
  <2> QED BY <2>1, ApplyingKeeps, BulkKeeps DEF DeskInv
<1>4. (ApplyingNext /\ UNCHANGED bulkVars) \/ (BulkNext /\ UNCHANGED applyingVars) \/ UNCHANGED <<applyingVars, bulkVars>>
  <2>1. CASE UNCHANGED vars BY <2>1 DEF vars
  <2>2. CASE Next BY <2>2 DEF Next
  <2> QED BY <2>1, <2>2
<1> QED BY <1>1, <1>2, <1>3, <1>4

\* For any applicants, browsers and requests, and any gaps of a batch that are at least the server's cooldown: a
\* sign-in, a request and a refusal are the applicant's own and at most one request of a person is open; an approval
\* that is told is on record, a batch stops at the first doubt and keeps the cooldown, and what it calls not sent
\* nothing at the server bears (whitelist-applications, applications/index.tsx, bulk-approve.tsx).
THEOREM ApplicationsAreServed == Spec => []ApplicationsServed
<1>1. DeskInv => ApplicationsServed BY ApplyingGives, BulkGives DEF DeskInv, ApplicationsServed
<1> QED BY <1>1, DeskStarts, DeskKeeps, PTL DEF Spec

-----------------------------------------------------------------------------
(* The record of a Patreon supporter *)

ChargeStates == {"none", "Pending", "Declined", "Paid", "Refunded"}
ChargeHistories == [Charges -> ChargeStates]
Lasts == [at : 0 .. ChargeCount, status : ChargeStates]
Observations == ({"webhook"} \X Lasts) \cup ({"api"} \X Lasts \X ChargeHistories \X BOOLEAN)
MemberSnapshots == [read : {TRUE}, last : Lasts, complete : BOOLEAN, events : ChargeHistories]
SupporterRows ==
  [known : BOOLEAN, at : 0 .. ChargeCount, status : ChargeStates,
   review : {"none", "unverified", "pending", "verified"}, blind : BOOLEAN, seen : SUBSET Observations,
   pay : [Charges -> {"none", "verified", "unverified"}], first : SUBSET Charges]
RecordShape ==
  /\ truth \in ChargeHistories /\ webhooks \subseteq Lasts /\ reading \in [Readers -> {NoSnapshot} \cup MemberSnapshots]
  /\ record \in SupporterRows /\ informed \subseteq RecordDialogs
  /\ dialog \in [RecordDialogs -> [at : {"closed", "open", "sent"}, current : BOOLEAN]]

Snapshot(r) == reading[r] \in MemberSnapshots
Whole(r) == Snapshot(r) /\ reading[r].complete

\* Only charges that happened are told of, and the record has the newest it was told.
TimesKnown ==
  /\ record.at \in {0} \cup Happened(truth)
  /\ \A last \in webhooks : last.at \in {0} \cup Happened(truth)
  /\ \A r \in Readers : Snapshot(r) => reading[r].last.at \in {0} \cup Happened(truth)
NewestKnown ==
  /\ record.at \in {0} \cup {note[2].at : note \in record.seen}
  /\ \A note \in record.seen : note[2].at <= record.at

\* Charges are made in the order of their dates, one that was taken stays one that was taken, and whole histories are
\* those of the patron at different times.
Ordered(history) == \A b, c \in Charges : b <= c /\ history[c] # "none" => history[b] # "none"
NoLater(history, others) ==
  \A c \in Charges :
    (history[c] # "none" => others[c] # "none") /\ (ChargeTaken(history[c]) => ChargeTaken(others[c]))
HistoriesKnown ==
  /\ Ordered(truth)
  /\ \A r \in Readers : Snapshot(r) => NoLater(reading[r].events, truth)
  /\ \A r \in Readers : Whole(r) => Ordered(reading[r].events) /\ reading[r].last = LastCharge(reading[r].events)
  /\ \A r, q \in Readers :
       Whole(r) /\ Whole(q) => NoLater(reading[r].events, reading[q].events)
                               \/ NoLater(reading[q].events, reading[r].events)

\* A whole history that does not know the charge marked as the first is older than it: it has no charge that was taken.
MarksKnown ==
  /\ record.first \subseteq Verified /\ \A b, c \in record.first : b = c
  /\ \A c \in record.first : truth[c] # "none"
  /\ \A c \in record.first, r \in Readers :
       Whole(r) /\ reading[r].events[c] = "none" => \A b \in Charges : ~ChargeTaken(reading[r].events[b])
PaymentsKnown == \A c \in Charges : record.pay[c] # "none" => ChargeTaken(truth[c])
DialogsInformed == \A d \in RecordDialogs : dialog[d].current => d \in informed

RecordInv ==
  /\ RecordShape /\ TimesKnown /\ NewestKnown /\ HistoriesKnown /\ MarksKnown /\ PaymentsKnown
  /\ DialogsInformed /\ SyncCorrects /\ ReviewsInformed

LEMMA GreatestIs ==
  ASSUME NEW S \in SUBSET Nat, NEW m \in S, \A s \in S : s <= m
  PROVE  Max(S) = m
<1>1. \A x, y \in Nat : x >= y <=> y <= x OBVIOUS
<1>2. \A x \in S : (\A y \in S : x >= y) => x = m
  <2> SUFFICES ASSUME NEW x \in S, \A y \in S : x >= y PROVE x = m OBVIOUS
  <2>1. x >= m /\ x <= m /\ x \in Nat /\ m \in Nat OBVIOUS
  <2> QED BY <2>1
<1>3. \A y \in S : m >= y BY <1>1
<1> QED BY <1>2, <1>3 DEF Max

LEMMA LeastIs ==
  ASSUME NEW S \in SUBSET Nat, S # {}
  PROVE  Min(S) \in S /\ \A s \in S : Min(S) <= s
<1>1. PICK m \in S : \A s \in S : m <= s BY LeastOf
<1> QED BY <1>1 DEF Min

LEMMA ChargeNumbers ==
  /\ ChargeCount \in Nat /\ Charges \in SUBSET (Nat \ {0}) /\ Charges \subseteq 0 .. ChargeCount
  /\ NoSnapshot \notin MemberSnapshots
<1>1. \A s \in MemberSnapshots : s.read BY DEF MemberSnapshots
<1>2. ~NoSnapshot.read BY DEF NoSnapshot
<1> QED BY <1>1, <1>2, SupporterRecordAssumption DEF Charges

LEMMA LastChargeIs ==
  ASSUME NEW history \in ChargeHistories
  PROVE  /\ LastCharge(history) \in Lasts /\ LastCharge(history).at \in {0} \cup Happened(history)
         /\ \A c \in Happened(history) : c <= LastCharge(history).at
<1>1. Happened(history) \subseteq Charges BY DEF Happened
<1>2. CASE Happened(history) = {}
  <2>1. LastCharge(history) = [at |-> 0, status |-> "none"] BY <1>2 DEF LastCharge
  <2> QED BY <2>1, <1>2, ChargeNumbers DEF Lasts, ChargeStates
<1>3. CASE Happened(history) # {}
  <2>1. PICK m \in Happened(history) : \A c \in Happened(history) : c <= m BY <1>1, <1>3, ChargeNumbers, GreatestOf
  <2>2. Happened(history) \in SUBSET Nat BY <1>1, ChargeNumbers
  <2>3. Max(Happened(history)) = m BY <2>1, <2>2, GreatestIs
  <2>4. LastCharge(history) = [at |-> m, status |-> history[m]] BY <1>3, <2>3 DEF LastCharge
  <2>5. m \in Charges /\ m \in 0 .. ChargeCount /\ history[m] \in ChargeStates BY <1>1, <2>1, ChargeNumbers DEF ChargeHistories
  <2> QED BY <2>1, <2>4, <2>5 DEF Lasts
<1> QED BY <1>2, <1>3

LEMMA ObservedIs ==
  ASSUME record \in SupporterRows, NEW last \in Lasts
  PROVE  /\ Observed(last) \in Lasts /\ Observed(last).at \in {record.at, last.at}
         /\ record.at <= Observed(last).at /\ last.at <= Observed(last).at
         /\ record.at <= last.at => Observed(last) = last
<1>1. record.at \in Nat /\ record.at \in 0 .. ChargeCount /\ record.status \in ChargeStates
  BY ChargeNumbers DEF SupporterRows
<1>2. last.at \in Nat BY ChargeNumbers DEF Lasts
<1>3. CASE OlderCharge(last.at) \/ (last.at = 0 /\ record.at # 0)
  <2>1. Observed(last) = [at |-> record.at, status |-> record.status] BY <1>3 DEF Observed
  <2>2. last.at < record.at BY <1>1, <1>2, <1>3 DEF OlderCharge
  <2> QED BY <1>1, <1>2, <2>1, <2>2 DEF Lasts
<1>4. CASE ~(OlderCharge(last.at) \/ (last.at = 0 /\ record.at # 0))
  <2>1. Observed(last) = last BY <1>4 DEF Observed
  <2>2. record.at <= last.at BY <1>1, <1>2, <1>4 DEF OlderCharge
  <2> QED BY <1>2, <2>1, <2>2
<1> QED BY <1>3, <1>4

LEMMA RecordStarts == RecordInit => RecordInv
<1> SUFFICES ASSUME RecordInit PROVE RecordInv OBVIOUS
<1>1. truth \in ChargeHistories /\ \A c \in Charges : truth[c] \in {"none", "Paid"} /\ (truth[c] = "Paid" => c = 1)
  BY DEF RecordInit, ChargeHistories, ChargeStates
<1>2. /\ webhooks = {LastCharge(truth)} /\ reading = [r \in Readers |-> NoSnapshot] /\ record = NoRecord
      /\ dialog = [d \in RecordDialogs |-> Closed] /\ informed = {} /\ agreed = FALSE
  BY DEF RecordInit
<1>3. LastCharge(truth) \in Lasts /\ LastCharge(truth).at \in {0} \cup Happened(truth) BY <1>1, LastChargeIs
<1>4. record \in SupporterRows BY <1>2, ChargeNumbers DEF NoRecord, SupporterRows, ChargeStates
<1>5. \A r \in Readers : ~Snapshot(r) BY <1>2, ChargeNumbers DEF Snapshot
<1>6. RecordShape BY <1>1, <1>2, <1>3, <1>4 DEF RecordShape, Closed
<1>7. TimesKnown BY <1>2, <1>3, <1>5 DEF TimesKnown, NoRecord
<1>8. NewestKnown BY <1>2 DEF NewestKnown, NoRecord
<1>9. HistoriesKnown
  <2>1. \A b, c \in Charges : b <= c /\ truth[c] # "none" => b = 1 /\ c = 1
    <3> SUFFICES ASSUME NEW b \in Charges, NEW c \in Charges, b <= c, truth[c] # "none" PROVE b = 1 /\ c = 1 OBVIOUS
    <3>1. c = 1 /\ b \in Nat \ {0} BY <1>1, ChargeNumbers
    <3> QED BY <3>1
  <2>2. Ordered(truth) BY <2>1 DEF Ordered
  <2> QED BY <2>2, <1>5 DEF HistoriesKnown, Whole
<1>10. MarksKnown BY <1>2 DEF MarksKnown, NoRecord
<1>11. PaymentsKnown BY <1>2 DEF PaymentsKnown, NoRecord
<1>12. DialogsInformed BY <1>2 DEF DialogsInformed, Closed
<1>13. SyncCorrects BY <1>2 DEF SyncCorrects
<1>14. ReviewsInformed BY <1>2 DEF ReviewsInformed, NoRecord
<1> QED BY <1>6, <1>7, <1>8, <1>9, <1>10, <1>11, <1>12, <1>13, <1>14 DEF RecordInv

\* Time at Patreon: a charge is made or moves on.
LEMMA PatreonMoves ==
  ASSUME RecordInv, PatreonChanges
  PROVE  /\ UNCHANGED <<reading, record, dialog, informed>> /\ agreed' = FALSE
         /\ truth' \in ChargeHistories /\ webhooks' = webhooks \cup {LastCharge(truth')}
         /\ NoLater(truth, truth') /\ Ordered(truth')
<1>a. PICK c \in Charges : \E status \in ChargeMoves(truth[c]) :
        /\ truth[c] = "none" => \A b \in 1 .. c - 1 : truth[b] # "none"
        /\ truth' = [truth EXCEPT ![c] = status] /\ webhooks' = webhooks \cup {LastCharge(truth')} /\ agreed' = FALSE
        /\ UNCHANGED <<reading, record, dialog, informed>>
  BY DEF PatreonChanges
<1>1. PICK status \in ChargeMoves(truth[c]) :
        /\ truth[c] = "none" => \A b \in 1 .. c - 1 : truth[b] # "none"
        /\ truth' = [truth EXCEPT ![c] = status] /\ webhooks' = webhooks \cup {LastCharge(truth')} /\ agreed' = FALSE
        /\ UNCHANGED <<reading, record, dialog, informed>>
  BY <1>a
<1>2. truth \in ChargeHistories BY DEF RecordInv, RecordShape
<1>3. truth[c] \in ChargeStates BY <1>2 DEF ChargeHistories
<1>4. status \in ChargeStates \ {"none"} /\ (ChargeTaken(truth[c]) => ChargeTaken(status))
  BY <1>3 DEF ChargeMoves, ChargeStates, ChargeTaken
<1>5. truth' \in ChargeHistories BY <1>1, <1>2, <1>4 DEF ChargeHistories
<1>6. \A b \in Charges : truth'[b] = IF b = c THEN status ELSE truth[b] BY <1>1, <1>2 DEF ChargeHistories
<1>7. NoLater(truth, truth') BY <1>4, <1>6 DEF NoLater
<1>8. Ordered(truth')
  <2> SUFFICES ASSUME NEW b \in Charges, NEW d \in Charges, b <= d, truth'[d] # "none" PROVE truth'[b] # "none"
    BY DEF Ordered
  <2>1. CASE truth[d] # "none"
    <3>1. truth[b] # "none" BY <2>1 DEF RecordInv, HistoriesKnown, Ordered
    <3> QED BY <3>1, <1>7 DEF NoLater
  <2>2. CASE truth[d] = "none"
    <3>1. d = c BY <2>2, <1>6
    <3>2. b \in Nat \ {0} /\ c \in Nat BY ChargeNumbers
    <3>3. b = c \/ b \in 1 .. c - 1 BY <3>1, <3>2
    <3> QED BY <3>1, <3>3, <2>2, <1>1, <1>4, <1>6
  <2> QED BY <2>1, <2>2
<1> QED BY <1>1, <1>5, <1>7, <1>8

LEMMA PatreonKeeps == ASSUME RecordInv, PatreonChanges PROVE RecordInv'
<1>1. /\ UNCHANGED <<reading, record, dialog, informed>> /\ agreed' = FALSE
      /\ truth' \in ChargeHistories /\ webhooks' = webhooks \cup {LastCharge(truth')}
      /\ NoLater(truth, truth') /\ Ordered(truth')
  BY PatreonMoves
<1>2. RecordShape' BY <1>1, LastChargeIs DEF RecordInv, RecordShape
<1>3. Happened(truth) \subseteq Happened(truth') BY <1>1 DEF Happened, NoLater
<1>4. TimesKnown'
  <2>1. LastCharge(truth').at \in {0} \cup Happened(truth') BY <1>1, LastChargeIs
  <2>2. Happened(truth)' = Happened(truth') BY DEF Happened
  <2> QED BY <2>1, <2>2, <1>1, <1>3 DEF RecordInv, TimesKnown, Snapshot
<1>5. NewestKnown' BY <1>1 DEF RecordInv, NewestKnown
<1>6. HistoriesKnown'
  <2>1. Ordered(truth)' BY <1>1 DEF Ordered
  <2>2. \A r \in Readers : Snapshot(r) => NoLater(reading[r].events, truth')
    BY <1>1 DEF RecordInv, HistoriesKnown, NoLater
  <2>3. \A r \in Readers : Snapshot(r)' => NoLater(reading[r].events, truth)' BY <2>2, <1>1 DEF NoLater, Snapshot
  <2>4. \A r \in Readers : Whole(r)' => Ordered(reading[r].events)' /\ reading'[r].last = LastCharge(reading[r].events)'
    BY <1>1 DEF RecordInv, HistoriesKnown, Whole, Snapshot, Ordered, LastCharge, Happened
  <2>5. \A r, q \in Readers :
          Whole(r)' /\ Whole(q)' => NoLater(reading[r].events, reading[q].events)'
                                    \/ NoLater(reading[q].events, reading[r].events)'
    BY <1>1 DEF RecordInv, HistoriesKnown, Whole, Snapshot, NoLater
  <2> QED BY <2>1, <2>3, <2>4, <2>5 DEF HistoriesKnown
<1>7. MarksKnown'
  <2>1. \A c \in record.first : c \in Charges /\ truth'[c] # "none"
    BY <1>1 DEF RecordInv, MarksKnown, NoLater, Verified
  <2> QED BY <2>1, <1>1 DEF RecordInv, MarksKnown, Verified, Whole, Snapshot, ChargeTaken
<1>8. PaymentsKnown' BY <1>1 DEF RecordInv, PaymentsKnown, NoLater
<1>9. DialogsInformed' BY <1>1 DEF RecordInv, DialogsInformed
<1>10. SyncCorrects' BY <1>1 DEF SyncCorrects
<1>11. ReviewsInformed' BY <1>1 DEF RecordInv, ReviewsInformed
<1> QED BY <1>2, <1>4, <1>5, <1>6, <1>7, <1>8, <1>9, <1>10, <1>11 DEF RecordInv

\* A reader takes a snapshot.
LEMMA ReadKeeps == ASSUME RecordInv, NEW r \in Readers, ReadMember(r) PROVE RecordInv'
<1>1. PICK missed \in {{}} \cup {{c} : c \in Happened(truth)} :
        reading' = [reading EXCEPT ![r] =
          [read |-> TRUE, last |-> LastCharge(truth), complete |-> missed = {},
           events |-> [c \in Charges |-> IF c \in missed THEN "none" ELSE truth[c]]]]
  BY DEF ReadMember
<1>2. UNCHANGED <<truth, changes, webhooks, record, dialog, agreed, informed>> BY DEF ReadMember
<1> PICK history : history = [c \in Charges |-> IF c \in missed THEN "none" ELSE truth[c]] OBVIOUS
<1>3. PICK complete \in BOOLEAN : complete = (missed = {}) OBVIOUS
<1> PICK snapshot : snapshot = [read |-> TRUE, last |-> LastCharge(truth), complete |-> complete, events |-> history]
  OBVIOUS
<1>4. truth \in ChargeHistories /\ reading \in [Readers -> {NoSnapshot} \cup MemberSnapshots] BY DEF RecordInv, RecordShape
<1>5. history \in ChargeHistories BY <1>4 DEF ChargeHistories, ChargeStates
<1>6. snapshot \in MemberSnapshots /\ snapshot.last = LastCharge(truth) /\ snapshot.events = history
      /\ (snapshot.complete <=> missed = {})
  BY <1>3, <1>4, <1>5, LastChargeIs DEF MemberSnapshots
<1>7. \A q \in Readers : reading'[q] = IF q = r THEN snapshot ELSE reading[q] BY <1>1, <1>3, <1>4
<1>8. NoLater(history, truth) BY <1>5 DEF NoLater, ChargeTaken
<1>9. missed = {} => history = truth
  <2>1. ASSUME missed = {} PROVE \A c \in Charges : history[c] = truth[c] BY <2>1
  <2> QED BY <2>1, <1>4, <1>5 DEF ChargeHistories
<1>10. reading' \in [Readers -> {NoSnapshot} \cup MemberSnapshots] BY <1>1, <1>3, <1>4, <1>6
<1>11. RecordShape' BY <1>2, <1>10 DEF RecordInv, RecordShape
<1>12. \A q \in Readers : q # r => reading'[q] = reading[q] BY <1>7
<1>13. reading'[r] = snapshot BY <1>7
<1>14. TimesKnown'
  <2>1. snapshot.last.at \in {0} \cup Happened(truth) BY <1>4, <1>6, LastChargeIs
  <2>2. \A q \in Readers : Snapshot(q)' => reading'[q].last.at \in {0} \cup Happened(truth)
    BY <2>1, <1>12, <1>13 DEF RecordInv, TimesKnown, Snapshot
  <2> QED BY <2>2, <1>2 DEF RecordInv, TimesKnown, Happened
<1>15. NewestKnown' BY <1>2 DEF RecordInv, NewestKnown
<1>16. HistoriesKnown'
  <2>1. \A q \in Readers : Snapshot(q)' => NoLater(reading'[q].events, truth)
    BY <1>6, <1>8, <1>12, <1>13 DEF RecordInv, HistoriesKnown, Snapshot
  <2>2. ASSUME NEW q \in Readers, Whole(q)'
        PROVE  Ordered(reading'[q].events) /\ reading'[q].last = LastCharge(reading'[q].events)
    <3>1. CASE q = r
      <4>1. missed = {} BY <3>1, <2>2, <1>6, <1>13 DEF Whole
      <4> QED BY <3>1, <4>1, <1>6, <1>9, <1>13 DEF RecordInv, HistoriesKnown
    <3>2. CASE q # r
      <4>1. Whole(q) BY <3>2, <2>2, <1>12 DEF Whole, Snapshot
      <4> QED BY <3>2, <4>1, <1>12 DEF RecordInv, HistoriesKnown
    <3> QED BY <3>1, <3>2
  <2>3. ASSUME NEW q \in Readers, Whole(q)', Whole(r)' PROVE NoLater(reading'[q].events, reading'[r].events)
    <3>1. missed = {} BY <2>3, <1>6, <1>13 DEF Whole
    <3>2. reading'[r].events = truth BY <3>1, <1>6, <1>9, <1>13
    <3>3. Snapshot(q)' BY <2>3 DEF Whole
    <3> QED BY <3>2, <3>3, <2>1
  <2>4. ASSUME NEW q \in Readers, NEW p \in Readers, q # r, p # r, Whole(q)', Whole(p)'
        PROVE  NoLater(reading'[q].events, reading'[p].events) \/ NoLater(reading'[p].events, reading'[q].events)
    <3>1. Whole(q) /\ Whole(p) BY <2>4, <1>12 DEF Whole, Snapshot
    <3> QED BY <3>1, <2>4, <1>12 DEF RecordInv, HistoriesKnown
  <2>5. \A q, p \in Readers :
          Whole(q)' /\ Whole(p)' => NoLater(reading'[q].events, reading'[p].events)
                                    \/ NoLater(reading'[p].events, reading'[q].events)
    BY <2>3, <2>4
  <2>6. Ordered(truth)' BY <1>2 DEF RecordInv, HistoriesKnown, Ordered
  <2>7. \A q \in Readers : Snapshot(q)' => NoLater(reading[q].events, truth)' BY <2>1, <1>2 DEF NoLater
  <2>8. \A q \in Readers : Whole(q)' => Ordered(reading[q].events)' /\ reading'[q].last = LastCharge(reading[q].events)'
    BY <2>2 DEF Ordered, LastCharge, Happened
  <2>9. \A q, p \in Readers :
          Whole(q)' /\ Whole(p)' => NoLater(reading[q].events, reading[p].events)'
                                    \/ NoLater(reading[p].events, reading[q].events)'
    BY <2>5 DEF NoLater
  <2> QED BY <2>6, <2>7, <2>8, <2>9 DEF HistoriesKnown
<1>17. MarksKnown'
  <2>1. ASSUME NEW c \in record.first, NEW q \in Readers, Whole(q)', reading'[q].events[c] = "none", NEW b \in Charges
        PROVE  ~ChargeTaken(reading'[q].events[b])
    <3>1. CASE q = r
      <4>1. missed = {} BY <3>1, <2>1, <1>6, <1>13 DEF Whole
      <4>2. reading'[q].events = truth BY <3>1, <4>1, <1>6, <1>9, <1>13
      <4> QED BY <4>2, <2>1 DEF RecordInv, MarksKnown
    <3>2. CASE q # r
      <4>1. Whole(q) BY <3>2, <2>1, <1>12 DEF Whole, Snapshot
      <4> QED BY <3>2, <4>1, <2>1, <1>12 DEF RecordInv, MarksKnown
    <3> QED BY <3>1, <3>2
  <2>2. \A c \in record'.first, q \in Readers :
          Whole(q)' /\ reading'[q].events[c] = "none" => \A b \in Charges : ~ChargeTaken(reading[q].events[b])'
    BY <2>1, <1>2 DEF ChargeTaken
  <2> QED BY <2>2, <1>2 DEF RecordInv, MarksKnown, Verified
<1>18. PaymentsKnown' BY <1>2 DEF RecordInv, PaymentsKnown, ChargeTaken
<1>19. DialogsInformed' BY <1>2 DEF RecordInv, DialogsInformed
<1>20. SyncCorrects'
  BY <1>2 DEF RecordInv, SyncCorrects, LastCharge, Happened, Verified, FirstPaid, ChargePaid, ChargeTaken
<1>21. ReviewsInformed' BY <1>2 DEF RecordInv, ReviewsInformed
<1> QED BY <1>11, <1>14, <1>15, <1>16, <1>17, <1>18, <1>19, <1>20, <1>21 DEF RecordInv

\* A step that reads nothing and changes nothing at Patreon leaves what is known of the histories.
LEMMA HistoriesStay ==
  ASSUME RecordInv, truth' = truth, NEW gone \in SUBSET Readers,
         reading' = [r \in Readers |-> IF r \in gone THEN NoSnapshot ELSE reading[r]]
  PROVE  /\ HistoriesKnown' /\ reading' \in [Readers -> {NoSnapshot} \cup MemberSnapshots]
         /\ \A r \in Readers : Snapshot(r)' => Snapshot(r) /\ reading'[r] = reading[r]
         /\ \A r \in Readers : Whole(r)' => Whole(r) /\ reading'[r] = reading[r]
<1>1. \A r \in Readers : Snapshot(r)' => Snapshot(r) /\ reading'[r] = reading[r] BY ChargeNumbers DEF Snapshot
<1>2. \A r \in Readers : Whole(r)' => Whole(r) /\ reading'[r] = reading[r] BY <1>1 DEF Whole
<1>3. reading' \in [Readers -> {NoSnapshot} \cup MemberSnapshots] BY DEF RecordInv, RecordShape
<1>4. \A r \in Readers : Snapshot(r)' => NoLater(reading[r].events, truth)'
  BY <1>1 DEF RecordInv, HistoriesKnown, NoLater
<1>5. ASSUME NEW r \in Readers, Whole(r)'
      PROVE  Ordered(reading[r].events)' /\ reading'[r].last = LastCharge(reading[r].events)'
  <2>1. Whole(r) /\ reading'[r] = reading[r] BY <1>2, <1>5
  <2>2. Ordered(reading[r].events) /\ reading[r].last = LastCharge(reading[r].events) BY <2>1 DEF RecordInv, HistoriesKnown
  <2>3. LastCharge(reading[r].events)' = LastCharge(reading[r].events) BY <2>1 DEF LastCharge, Happened
  <2>4. Ordered(reading[r].events)' BY <2>1, <2>2 DEF Ordered
  <2> QED BY <2>1, <2>2, <2>3, <2>4
<1>6. \A r, q \in Readers :
        Whole(r)' /\ Whole(q)' => NoLater(reading[r].events, reading[q].events)'
                                  \/ NoLater(reading[q].events, reading[r].events)'
  BY <1>2 DEF RecordInv, HistoriesKnown, NoLater
<1>7. Ordered(truth)' BY DEF RecordInv, HistoriesKnown, Ordered
<1> QED BY <1>1, <1>2, <1>3, <1>4, <1>5, <1>6, <1>7 DEF HistoriesKnown

\* A step that leaves the charges, the payments and the marks of the record.
LEMMA ChargesStay ==
  ASSUME RecordInv, UNCHANGED <<truth, reading, webhooks>>,
         UNCHANGED <<record.pay, record.first>>, record'.at \in {0} \cup Happened(truth)
  PROVE  HistoriesKnown' /\ MarksKnown' /\ PaymentsKnown' /\ TimesKnown'
<1>1. HistoriesKnown'
      /\ \A r \in Readers : (Snapshot(r)' => Snapshot(r)) /\ (Whole(r)' => Whole(r))
  <2>1. reading \in [Readers -> {NoSnapshot} \cup MemberSnapshots] BY DEF RecordInv, RecordShape
  <2>2. reading' = [r \in Readers |-> IF r \in {} THEN NoSnapshot ELSE reading[r]] BY <2>1
  <2>3. {} \in SUBSET Readers OBVIOUS
  <2> QED BY <2>2, <2>3, HistoriesStay
<1>2. MarksKnown' BY <1>1 DEF RecordInv, MarksKnown, Verified, ChargeTaken
<1>3. PaymentsKnown' BY DEF RecordInv, PaymentsKnown, ChargeTaken
<1>4. TimesKnown' BY <1>1 DEF RecordInv, TimesKnown, Happened
<1> QED BY <1>1, <1>2, <1>3, <1>4

LEMMA SyncStays ==
  ASSUME RecordInv, truth' = truth, agreed' => agreed, UNCHANGED <<record.pay, record.first, record.at, record.status>>
  PROVE  SyncCorrects'
<1>1. LastCharge(truth)' = LastCharge(truth) BY DEF LastCharge, Happened
<1>2. Verified' = Verified BY DEF Verified
<1>3. FirstPaid([events |-> truth, complete |-> TRUE])' = FirstPaid([events |-> truth, complete |-> TRUE])
  BY DEF FirstPaid, ChargePaid, ChargeTaken
<1>4. {c \in Charges : ChargePaid(truth[c])}' = {c \in Charges : ChargePaid(truth[c])} BY DEF ChargePaid
<1> QED BY <1>1, <1>2, <1>3, <1>4 DEF RecordInv, SyncCorrects

LEMMA OutdatesIs ==
  ASSUME RecordInv
  PROVE  /\ Outdates \in [RecordDialogs -> [at : {"closed", "open", "sent"}, current : BOOLEAN]]
         /\ \A d \in RecordDialogs : ~Outdates[d].current
<1>1. \A d \in RecordDialogs : dialog[d] \in [at : {"closed", "open", "sent"}, current : BOOLEAN]
  BY DEF RecordInv, RecordShape
<1>2. \A d \in RecordDialogs :
        /\ [dialog[d] EXCEPT !.current = FALSE] \in [at : {"closed", "open", "sent"}, current : BOOLEAN]
        /\ [dialog[d] EXCEPT !.current = FALSE].current = FALSE
  BY <1>1
<1> QED BY <1>2 DEF Outdates

LEMMA IngestKeeps == ASSUME RecordInv, NEW last \in webhooks, Ingest(last) PROVE RecordInv'
<1> PICK observed : observed = Observed(last) OBVIOUS
<1>1. /\ record' = [record EXCEPT !.known = TRUE, !.at = observed.at, !.status = observed.status,
                      !.review = "pending", !.seen = @ \cup {<<"webhook", last>>}]
      /\ dialog' = Outdates /\ informed' = {} /\ agreed' = FALSE /\ UNCHANGED <<truth, webhooks, reading>>
  BY DEF Ingest
<1>2. record \in SupporterRows /\ last \in Lasts BY DEF RecordInv, RecordShape
<1>3. observed \in Lasts /\ observed.at \in {record.at, last.at} /\ record.at <= observed.at /\ last.at <= observed.at
  BY <1>2, ObservedIs
<1>4. <<"webhook", last>> \in Observations BY <1>2 DEF Observations
<1>5. observed.at \in 0 .. ChargeCount /\ observed.status \in ChargeStates BY <1>3 DEF Lasts
<1>6. record' \in SupporterRows BY <1>1, <1>2, <1>4, <1>5 DEF SupporterRows
<1>7. record'.at = observed.at /\ record'.seen = record.seen \cup {<<"webhook", last>>}
      /\ record'.pay = record.pay /\ record'.first = record.first /\ record'.review = "pending"
  BY <1>1, <1>2 DEF SupporterRows
<1>8. RecordShape' BY <1>1, <1>6, OutdatesIs DEF RecordInv, RecordShape
<1>9. HistoriesKnown' /\ MarksKnown' /\ PaymentsKnown' /\ TimesKnown'
  <2>1. observed.at \in {0} \cup Happened(truth) BY <1>3 DEF RecordInv, TimesKnown
  <2> QED BY <2>1, <1>1, <1>7, ChargesStay
<1>10. NewestKnown'
  <2>1. <<"webhook", last>>[2] = last OBVIOUS
  <2>2. record.at \in Nat /\ observed.at \in Nat /\ last.at \in Nat BY <1>2, <1>3, ChargeNumbers DEF SupporterRows, Lasts
  <2>3. ASSUME NEW note \in record.seen PROVE note[2].at <= observed.at
    <3>1. note[2].at <= record.at BY DEF RecordInv, NewestKnown
    <3>2. note[2] \in Lasts BY <1>2 DEF SupporterRows, Observations
    <3>3. note[2].at \in Nat BY <3>2, ChargeNumbers DEF Lasts
    <3> QED BY <3>1, <3>3, <2>2, <1>3
  <2>4. \A note \in record'.seen : note[2].at <= record'.at BY <2>1, <2>3, <1>3, <1>7
  <2>5. observed.at \in {0} \cup {note[2].at : note \in record'.seen}
    <3>1. CASE observed.at = record.at BY <3>1, <1>7 DEF RecordInv, NewestKnown
    <3>2. CASE observed.at = last.at BY <3>2, <2>1, <1>7
    <3> QED BY <3>1, <3>2, <1>3
  <2> QED BY <2>4, <2>5, <1>7 DEF NewestKnown
<1>11. DialogsInformed' BY <1>1, OutdatesIs DEF DialogsInformed
<1>12. SyncCorrects' BY <1>1 DEF SyncCorrects
<1>13. ReviewsInformed' BY <1>7 DEF ReviewsInformed
<1> QED BY <1>8, <1>9, <1>10, <1>11, <1>12, <1>13 DEF RecordInv

LEMMA FirstPaidIs ==
  ASSUME NEW snapshot, snapshot.events \in ChargeHistories, NEW f \in FirstPaid(snapshot)
  PROVE  /\ snapshot.complete /\ FirstPaid(snapshot) = {f} /\ f \in Charges /\ ChargePaid(snapshot.events[f])
         /\ \A c \in Charges : ChargeTaken(snapshot.events[c]) => f <= c
<1> PICK taken : taken = {c \in Charges : ChargeTaken(snapshot.events[c])} OBVIOUS
<1>1. snapshot.complete /\ taken # {} /\ ChargePaid(snapshot.events[Min(taken)]) /\ FirstPaid(snapshot) = {Min(taken)}
  BY DEF FirstPaid
<1>2. taken \in SUBSET Nat BY ChargeNumbers
<1>3. Min(taken) \in taken /\ \A c \in taken : Min(taken) <= c BY <1>1, <1>2, LeastIs
<1> QED BY <1>1, <1>3

\* What an import makes of the payments and the marks.
LEMMA ImportMarks ==
  ASSUME RecordInv, NEW r \in Readers, Snapshot(r), NEW marks, marks = Marks(reading[r]),
         NEW pays, pays = RecordPayments(reading[r])
  PROVE  /\ pays \in [Charges -> {"none", "verified", "unverified"}]
         /\ \A c \in Charges : pays[c] # "none" => ChargeTaken(truth[c])
         /\ marks \subseteq Charges /\ \A c \in marks : pays[c] = "verified" /\ truth[c] # "none"
         /\ \A b, c \in marks : b = c
         /\ \A c \in marks, q \in Readers :
              Whole(q) /\ reading[q].events[c] = "none" => \A b \in Charges : ~ChargeTaken(reading[q].events[b])
<1> PICK snapshot : snapshot = reading[r] OBVIOUS
<1>1. snapshot \in MemberSnapshots /\ snapshot.events \in ChargeHistories /\ NoLater(snapshot.events, truth)
  BY DEF Snapshot, MemberSnapshots, RecordInv, HistoriesKnown
<1>2. record \in SupporterRows BY DEF RecordInv, RecordShape
<1>3. record.pay \in [Charges -> {"none", "verified", "unverified"}] BY <1>2 DEF SupporterRows
<1>4. \A c \in Charges :
        pays[c] = IF snapshot.events[c] = "none" \/ (record.pay[c] = "none" /\ ~ChargeTaken(snapshot.events[c]))
                    THEN record.pay[c] ELSE IF ChargePaid(snapshot.events[c]) THEN "verified" ELSE "unverified"
  BY DEF RecordPayments
<1>5. pays \in [Charges -> {"none", "verified", "unverified"}] BY <1>3 DEF RecordPayments
<1>6. ASSUME NEW c \in Charges, pays[c] # "none" PROVE ChargeTaken(truth[c])
  <2>1. record.pay[c] # "none" \/ ChargeTaken(snapshot.events[c]) BY <1>4, <1>6
  <2> QED BY <2>1, <1>1 DEF NoLater, RecordInv, PaymentsKnown
<1>7. \A c \in record.first : c \in Charges /\ record.pay[c] = "verified" /\ truth[c] # "none"
  BY DEF RecordInv, MarksKnown, Verified
<1>8. ASSUME NEW c \in MarksKept(snapshot) PROVE c \in record.first /\ c \in Charges /\ pays[c] = "verified" /\ truth[c] # "none"
  <2>1. c \in record.first /\ (snapshot.events[c] = "none" \/ ChargePaid(snapshot.events[c])) BY DEF MarksKept
  <2>2. CASE snapshot.events[c] = "none" BY <2>1, <2>2, <1>4, <1>7
  <2>3. CASE ChargePaid(snapshot.events[c])
    <3>1. snapshot.events[c] = "Paid" BY <2>3 DEF ChargePaid
    <3>2. pays[c] = "verified" BY <2>1, <2>3, <3>1, <1>4, <1>7
    <3> QED BY <2>1, <3>2, <1>7
  <2> QED BY <2>1, <2>2, <2>3
<1>9. ASSUME NEW f \in FirstPaid(snapshot) PROVE f \in Charges /\ pays[f] = "verified" /\ truth[f] # "none"
  <2>1. f \in Charges /\ ChargePaid(snapshot.events[f]) BY <1>1, <1>9, FirstPaidIs
  <2>2. snapshot.events[f] = "Paid" /\ ChargeTaken(snapshot.events[f]) BY <2>1 DEF ChargePaid, ChargeTaken
  <2>3. pays[f] = "verified" BY <2>1, <2>2, <1>4
  <2> QED BY <2>1, <2>2, <2>3, <1>1 DEF NoLater
<1>10. marks \subseteq Charges /\ \A c \in marks : pays[c] = "verified" /\ truth[c] # "none"
  BY <1>8, <1>9 DEF Marks
<1>11. ASSUME NEW f \in FirstPaid(snapshot), NEW q \in Readers, Whole(q), reading[q].events[f] = "none", NEW b \in Charges
       PROVE  ~ChargeTaken(reading[q].events[b])
  <2> SUFFICES ASSUME ChargeTaken(reading[q].events[b]) PROVE FALSE OBVIOUS
  <2>1. snapshot.complete /\ f \in Charges /\ ChargePaid(snapshot.events[f])
        /\ \A c \in Charges : ChargeTaken(snapshot.events[c]) => f <= c
    BY <1>1, <1>11, FirstPaidIs
  <2>2. Whole(r) BY <2>1 DEF Whole
  <2>3. snapshot.events[f] # "none" BY <2>1 DEF ChargePaid
  <2>4. NoLater(snapshot.events, reading[q].events) \/ NoLater(reading[q].events, snapshot.events)
    BY <2>2, <1>11 DEF RecordInv, HistoriesKnown
  <2>5. ~NoLater(snapshot.events, reading[q].events) BY <2>1, <2>3, <1>11 DEF NoLater
  <2>6. ChargeTaken(snapshot.events[b]) BY <2>4, <2>5 DEF NoLater
  <2>7. f <= b BY <2>1, <2>6
  <2>8. reading[q].events[b] # "none" BY DEF ChargeTaken
  <2>9. Ordered(reading[q].events) BY <1>11 DEF RecordInv, HistoriesKnown
  <2> QED BY <2>1, <2>7, <2>8, <2>9, <1>11 DEF Ordered
<1>12. ASSUME NEW c \in MarksKept(snapshot), NEW f \in FirstPaid(snapshot) PROVE FALSE
  <2>1. snapshot.complete /\ f \in Charges /\ ChargePaid(snapshot.events[f]) BY <1>1, <1>12, FirstPaidIs
  <2>2. c \in record.first /\ snapshot.events[c] = "none" BY <2>1, <1>12 DEF MarksKept
  <2>3. Whole(r) BY <2>1 DEF Whole
  <2>4. ~ChargeTaken(snapshot.events[f]) BY <2>1, <2>2, <2>3 DEF RecordInv, MarksKnown
  <2> QED BY <2>1, <2>4 DEF ChargePaid, ChargeTaken
<1>13. \A b, c \in marks : b = c
  <2>1. \A b, c \in MarksKept(snapshot) : b = c BY <1>8 DEF RecordInv, MarksKnown
  <2>2. \A b, c \in FirstPaid(snapshot) : b = c
    <3> SUFFICES ASSUME NEW b \in FirstPaid(snapshot), NEW c \in FirstPaid(snapshot) PROVE b = c OBVIOUS
    <3>1. FirstPaid(snapshot) = {b} BY <1>1, FirstPaidIs
    <3> QED BY <3>1
  <2> QED BY <2>1, <2>2, <1>12 DEF Marks
<1>14. \A c \in marks, q \in Readers :
         Whole(q) /\ reading[q].events[c] = "none" => \A b \in Charges : ~ChargeTaken(reading[q].events[b])
  BY <1>8, <1>11 DEF Marks, RecordInv, MarksKnown
<1> QED BY <1>5, <1>6, <1>10, <1>13, <1>14

\* A whole history that is still true is told as it is.
LEMMA ImportAgrees ==
  ASSUME RecordInv, NEW r \in Readers, Whole(r), reading[r].events = truth,
         record'.pay = RecordPayments(reading[r]), record'.first = Marks(reading[r]), truth' = truth,
         [at |-> record'.at, status |-> record'.status] = Observed(reading[r].last)
  PROVE  SyncCorrects'
<1> PICK snapshot : snapshot = reading[r] OBVIOUS
<1>1. snapshot \in MemberSnapshots /\ snapshot.complete /\ snapshot.events = truth /\ snapshot.last \in Lasts
      /\ snapshot.last = LastCharge(truth)
  BY DEF Whole, Snapshot, MemberSnapshots, RecordInv, HistoriesKnown
<1>2. truth \in ChargeHistories /\ record \in SupporterRows BY DEF RecordInv, RecordShape
<1>3. Observed(snapshot.last) = snapshot.last
  <2>1. record.at \in Nat /\ snapshot.last.at \in Nat BY <1>1, <1>2, ChargeNumbers DEF SupporterRows, Lasts
  <2>2. record.at <= snapshot.last.at
    <3>1. \A c \in Happened(truth) : c <= snapshot.last.at BY <1>1, <1>2, LastChargeIs
    <3> QED BY <3>1, <2>1 DEF RecordInv, TimesKnown
  <2> QED BY <2>2, <1>1, <1>2, ObservedIs
<1>4. [at |-> record'.at, status |-> record'.status] = LastCharge(truth) BY <1>1, <1>3
<1>5. \A c \in Charges : record'.pay[c] = "verified" <=> ChargePaid(truth[c])
  <2> SUFFICES ASSUME NEW c \in Charges PROVE record'.pay[c] = "verified" <=> ChargePaid(truth[c]) OBVIOUS
  <2>1. record'.pay[c] =
          IF truth[c] = "none" \/ (record.pay[c] = "none" /\ ~ChargeTaken(truth[c]))
            THEN record.pay[c] ELSE IF ChargePaid(truth[c]) THEN "verified" ELSE "unverified"
    BY <1>1 DEF RecordPayments
  <2>2. CASE truth[c] = "none"
    <3>1. record.pay[c] = "none" BY <2>2 DEF RecordInv, PaymentsKnown, ChargeTaken
    <3> QED BY <2>1, <2>2, <3>1 DEF ChargePaid
  <2>3. CASE truth[c] # "none" /\ record.pay[c] = "none" /\ ~ChargeTaken(truth[c])
    BY <2>1, <2>3 DEF ChargePaid, ChargeTaken
  <2>4. CASE truth[c] # "none" /\ ~(record.pay[c] = "none" /\ ~ChargeTaken(truth[c])) BY <2>1, <2>4
  <2> QED BY <2>2, <2>3, <2>4
<1>6. MarksKept(snapshot) = {} BY <1>1 DEF MarksKept, RecordInv, MarksKnown
<1>7. FirstPaid(snapshot) = FirstPaid([events |-> truth, complete |-> TRUE]) BY <1>1 DEF FirstPaid
<1>8. record'.first = FirstPaid([events |-> truth, complete |-> TRUE]) BY <1>6, <1>7 DEF Marks
<1>9. Verified' = {c \in Charges : ChargePaid(truth[c])} BY <1>5 DEF Verified
<1>10. LastCharge(truth)' = LastCharge(truth) BY DEF LastCharge, Happened
<1>11. FirstPaid([events |-> truth, complete |-> TRUE])' = FirstPaid([events |-> truth, complete |-> TRUE])
  BY DEF FirstPaid, ChargePaid, ChargeTaken
<1>12. {c \in Charges : ChargePaid(truth[c])}' = {c \in Charges : ChargePaid(truth[c])} BY DEF ChargePaid
<1> QED BY <1>4, <1>8, <1>9, <1>10, <1>11, <1>12 DEF SyncCorrects

LEMMA ImportKeeps == ASSUME RecordInv, NEW r \in Readers, ImportMember(r) PROVE RecordInv'
<1> PICK snapshot : snapshot = reading[r] OBVIOUS
<1> PICK observed : observed = Observed(snapshot.last) OBVIOUS
<1> PICK hash : hash = <<"api", snapshot.last, snapshot.events, snapshot.complete>> OBVIOUS
<1> PICK pays : pays = RecordPayments(snapshot) OBVIOUS
<1> PICK marks : marks = Marks(snapshot) OBVIOUS
<1>1. PICK pending \in BOOLEAN : pending = (hash \notin record.seen \/ Stale(snapshot.last)) OBVIOUS
<1>2. PICK same \in BOOLEAN : same = (~pending /\ pays = record.pay /\ marks = record.first) OBVIOUS
<1>3. /\ snapshot.read
      /\ record' = [record EXCEPT !.known = TRUE, !.pay = pays, !.first = marks, !.seen = @ \cup {hash},
                      !.at = IF pending THEN observed.at ELSE @,
                      !.status = IF pending THEN observed.status ELSE @,
                      !.review = IF pending THEN "pending" ELSE @]
      /\ dialog' = (IF same THEN dialog ELSE Outdates)
      /\ informed' = (IF pending THEN {} ELSE informed)
      /\ reading' = [reading EXCEPT ![r] = NoSnapshot]
      /\ UNCHANGED <<truth, changes, webhooks>>
  BY <1>1, <1>2 DEF ImportMember
<1>4. agreed' => snapshot.complete /\ snapshot.events = truth BY DEF ImportMember
<1>5. record \in SupporterRows /\ reading \in [Readers -> {NoSnapshot} \cup MemberSnapshots] BY DEF RecordInv, RecordShape
<1>6. snapshot \in MemberSnapshots /\ Snapshot(r) BY <1>3, <1>5 DEF NoSnapshot, Snapshot
<1>7. snapshot.last \in Lasts /\ snapshot.complete \in BOOLEAN /\ snapshot.events \in ChargeHistories BY <1>6 DEF MemberSnapshots
<1>8. observed \in Lasts /\ observed.at \in {record.at, snapshot.last.at} /\ record.at <= observed.at
      /\ snapshot.last.at <= observed.at
  BY <1>5, <1>7, ObservedIs
<1>9. ~pending => hash \in record.seen /\ observed = [at |-> record.at, status |-> record.status]
  BY <1>1 DEF Stale, Corrects
<1>10. /\ pays \in [Charges -> {"none", "verified", "unverified"}]
       /\ \A c \in Charges : pays[c] # "none" => ChargeTaken(truth[c])
       /\ marks \subseteq Charges /\ \A c \in marks : pays[c] = "verified" /\ truth[c] # "none"
       /\ \A b, c \in marks : b = c
       /\ \A c \in marks, q \in Readers :
            Whole(q) /\ reading[q].events[c] = "none" => \A b \in Charges : ~ChargeTaken(reading[q].events[b])
  BY <1>6, ImportMarks
<1>11. hash \in Observations /\ hash[2] = snapshot.last BY <1>7 DEF Observations
<1>12. PICK newAt \in 0 .. ChargeCount : newAt = (IF pending THEN observed.at ELSE record.at)
  BY <1>5, <1>8 DEF SupporterRows, Lasts
<1>13. PICK newStatus \in ChargeStates : newStatus = (IF pending THEN observed.status ELSE record.status)
  BY <1>5, <1>8 DEF SupporterRows, Lasts
<1>14. PICK newReview \in {"none", "unverified", "pending", "verified"} :
         newReview = (IF pending THEN "pending" ELSE record.review)
  BY <1>5 DEF SupporterRows
<1>15. record' = [record EXCEPT !.known = TRUE, !.pay = pays, !.first = marks, !.seen = @ \cup {hash},
                    !.at = newAt, !.status = newStatus, !.review = newReview]
  BY <1>3, <1>12, <1>13, <1>14
<1> DEFINE written == [known |-> TRUE, at |-> newAt, status |-> newStatus, review |-> newReview, blind |-> record.blind,
                       seen |-> record.seen \cup {hash}, pay |-> pays, first |-> marks]
<1>w. record' = written BY <1>15, <1>5 DEF SupporterRows
<1>16. record' \in SupporterRows
  <2>1. record.seen \cup {hash} \in SUBSET Observations /\ record.blind \in BOOLEAN BY <1>5, <1>11 DEF SupporterRows
  <2>2. pays \in [Charges -> {"none", "verified", "unverified"}] /\ marks \in SUBSET Charges BY <1>10
  <2>3. written \in SupporterRows BY <2>1, <2>2 DEF SupporterRows
  <2> QED BY <1>w, <2>3
<1>17. /\ record'.pay = pays /\ record'.first = marks /\ record'.seen = record.seen \cup {hash}
       /\ record'.at = newAt /\ record'.status = newStatus /\ record'.review = newReview /\ record'.blind = record.blind
  BY <1>w
<1> HIDE DEF written
<1>18. newAt = observed.at /\ newStatus = observed.status BY <1>9, <1>12, <1>13
<1>19. reading' = [q \in Readers |-> IF q \in {r} THEN NoSnapshot ELSE reading[q]] BY <1>3, <1>5
<1>20. /\ HistoriesKnown' /\ reading' \in [Readers -> {NoSnapshot} \cup MemberSnapshots]
       /\ \A q \in Readers : Snapshot(q)' => Snapshot(q) /\ reading'[q] = reading[q]
       /\ \A q \in Readers : Whole(q)' => Whole(q) /\ reading'[q] = reading[q]
  <2>1. {r} \in SUBSET Readers OBVIOUS
  <2> QED BY <2>1, <1>3, <1>19, HistoriesStay
<1>21. RecordShape'
  <2>1. dialog' \in [RecordDialogs -> [at : {"closed", "open", "sent"}, current : BOOLEAN]]
    BY <1>3, OutdatesIs DEF RecordInv, RecordShape
  <2>2. informed' \subseteq RecordDialogs BY <1>3 DEF RecordInv, RecordShape
  <2> QED BY <2>1, <2>2, <1>3, <1>16, <1>20 DEF RecordInv, RecordShape
<1>22. TimesKnown'
  <2>1. observed.at \in {0} \cup Happened(truth) BY <1>6, <1>8 DEF RecordInv, TimesKnown
  <2>2. Happened(truth)' = Happened(truth) BY <1>3 DEF Happened
  <2> QED BY <2>1, <2>2, <1>3, <1>17, <1>18, <1>20 DEF RecordInv, TimesKnown
<1>23. NewestKnown'
  <2>1. record.at \in Nat /\ observed.at \in Nat BY <1>5, <1>8, ChargeNumbers DEF SupporterRows, Lasts
  <2>2. ASSUME NEW note \in record.seen PROVE note[2].at <= observed.at
    <3>1. note[2].at <= record.at BY DEF RecordInv, NewestKnown
    <3>2. note[2] \in Lasts BY <1>5 DEF SupporterRows, Observations
    <3>3. note[2].at \in Nat BY <3>2, ChargeNumbers DEF Lasts
    <3> QED BY <3>1, <3>3, <2>1, <1>8
  <2>3. \A note \in record'.seen : note[2].at <= record'.at BY <2>2, <1>8, <1>11, <1>17, <1>18
  <2>4. record'.at \in {0} \cup {note[2].at : note \in record'.seen}
    <3>1. CASE observed.at = record.at BY <3>1, <1>17, <1>18 DEF RecordInv, NewestKnown
    <3>2. CASE observed.at = snapshot.last.at BY <3>2, <1>11, <1>17, <1>18
    <3> QED BY <3>1, <3>2, <1>8
  <2> QED BY <2>3, <2>4 DEF NewestKnown
<1>24. MarksKnown'
  <2>1. record'.first \subseteq Verified' BY <1>10, <1>17 DEF Verified
  <2>2. \A c \in record'.first, q \in Readers :
          Whole(q)' /\ reading'[q].events[c] = "none" => \A b \in Charges : ~ChargeTaken(reading[q].events[b])'
    BY <1>10, <1>17, <1>20 DEF ChargeTaken
  <2> QED BY <2>1, <2>2, <1>3, <1>10, <1>17 DEF MarksKnown
<1>25. PaymentsKnown' BY <1>3, <1>10, <1>17 DEF PaymentsKnown, ChargeTaken
<1>26. DialogsInformed'
  <2>1. CASE pending BY <2>1, <1>2, <1>3, OutdatesIs DEF DialogsInformed
  <2>2. CASE ~pending BY <2>2, <1>3, OutdatesIs DEF DialogsInformed, RecordInv
  <2> QED BY <2>1, <2>2
<1>27. SyncCorrects'
  <2>1. CASE ~agreed' BY <2>1 DEF SyncCorrects
  <2>2. CASE agreed'
    <3>1. Whole(r) /\ snapshot.events = truth BY <2>2, <1>4, <1>6 DEF Whole
    <3>2. [at |-> record'.at, status |-> record'.status] = observed
      <4>1. \A l \in Lasts : l = [at |-> l.at, status |-> l.status] BY DEF Lasts
      <4> QED BY <4>1, <1>8, <1>17, <1>18
    <3> QED BY <3>1, <3>2, <1>3, <1>17, ImportAgrees
  <2> QED BY <2>1, <2>2
<1>28. ReviewsInformed' BY <1>14, <1>17 DEF RecordInv, ReviewsInformed
<1> QED BY <1>20, <1>21, <1>22, <1>23, <1>24, <1>25, <1>26, <1>27, <1>28 DEF RecordInv

LEMMA StaffKeeps ==
  ASSUME RecordInv, Register \/ StaffChange \/ \E d \in RecordDialogs : OpenDialog(d) \/ Review(d)
  PROVE  RecordInv'
<1>1. record \in SupporterRows /\ dialog \in [RecordDialogs -> [at : {"closed", "open", "sent"}, current : BOOLEAN]]
      /\ informed \subseteq RecordDialogs
  BY DEF RecordInv, RecordShape
<1>2. StaffOnly BY DEF Register, StaffChange, OpenDialog, Review
<1>3. /\ record' \in SupporterRows
      /\ UNCHANGED <<record.pay, record.first, record.at, record.status, record.seen>>
      /\ dialog' \in [RecordDialogs -> [at : {"closed", "open", "sent"}, current : BOOLEAN]]
      /\ informed' \subseteq RecordDialogs /\ DialogsInformed' /\ ReviewsInformed'
  <2>1. CASE Register
    <3>1. record' = [record EXCEPT !.known = TRUE, !.review = "unverified"] /\ UNCHANGED <<dialog, informed>>
      BY <2>1 DEF Register
    <3>2. record' \in SupporterRows /\ record'.review = "unverified"
          /\ UNCHANGED <<record.pay, record.first, record.at, record.status, record.seen>>
      BY <3>1, <1>1 DEF SupporterRows
    <3> QED BY <3>1, <3>2, <1>1 DEF RecordInv, DialogsInformed, ReviewsInformed
  <2>2. CASE StaffChange
    BY <2>2, <1>1, OutdatesIs DEF StaffChange, RecordInv, DialogsInformed, ReviewsInformed
  <2>3. ASSUME NEW d \in RecordDialogs, OpenDialog(d)
        PROVE  /\ record' = record /\ DialogsInformed' /\ informed' \subseteq RecordDialogs
               /\ dialog' \in [RecordDialogs -> [at : {"closed", "open", "sent"}, current : BOOLEAN]]
    <3>1. dialog' = [dialog EXCEPT ![d] = [at |-> "open", current |-> TRUE]] /\ informed' = informed \cup {d}
          /\ record' = record
      BY <2>3 DEF OpenDialog
    <3>2. \A e \in RecordDialogs : e # d => dialog'[e] = dialog[e] BY <3>1, <1>1
    <3>3. DialogsInformed' BY <3>1, <3>2 DEF RecordInv, DialogsInformed
    <3> QED BY <3>1, <3>3, <1>1
  <2>4. ASSUME NEW d \in RecordDialogs, Review(d), SameRecord(d)
        PROVE  /\ record' \in SupporterRows
               /\ UNCHANGED <<record.pay, record.first, record.at, record.status, record.seen>>
               /\ DialogsInformed' /\ ReviewsInformed' /\ informed' \subseteq RecordDialogs
               /\ dialog' \in [RecordDialogs -> [at : {"closed", "open", "sent"}, current : BOOLEAN]]
    <3>1. d \in informed BY <2>4 DEF SameRecord, RecordInv, DialogsInformed
    <3>2. record' = [record EXCEPT !.review = "verified", !.blind = FALSE]
          /\ dialog' = [Outdates EXCEPT ![d].at = "sent"] /\ informed' = informed
      <4>1. (d \notin informed) = FALSE BY <3>1
      <4> QED BY <4>1, <2>4 DEF Review
    <3>3. record' \in SupporterRows /\ record'.blind = FALSE
          /\ UNCHANGED <<record.pay, record.first, record.at, record.status, record.seen>>
      BY <3>2, <1>1 DEF SupporterRows
    <3>4. \A e \in RecordDialogs : Outdates[e] \in [at : {"closed", "open", "sent"}, current : BOOLEAN]
                                   /\ Outdates[e].current = FALSE
      BY OutdatesIs
    <3> PICK sent : sent = [Outdates[d] EXCEPT !.at = "sent"] OBVIOUS
    <3>5. sent \in [at : {"closed", "open", "sent"}, current : BOOLEAN] /\ sent.current = FALSE BY <3>4
    <3>6. dialog' = [Outdates EXCEPT ![d] = sent] BY <3>2, OutdatesIs
    <3>7. dialog' \in [RecordDialogs -> [at : {"closed", "open", "sent"}, current : BOOLEAN]]
      BY <3>5, <3>6, OutdatesIs
    <3>8. \A e \in RecordDialogs : dialog'[e].current = FALSE BY <3>4, <3>5, <3>6, OutdatesIs
    <3> QED BY <3>2, <3>3, <3>7, <3>8, <1>1 DEF DialogsInformed, ReviewsInformed
  <2>5. ASSUME NEW d \in RecordDialogs, Review(d), ~SameRecord(d)
        PROVE  /\ record' = record /\ DialogsInformed' /\ informed' \subseteq RecordDialogs
               /\ dialog' \in [RecordDialogs -> [at : {"closed", "open", "sent"}, current : BOOLEAN]]
    <3>1. dialog' = [dialog EXCEPT ![d].at = "sent"] /\ record' = record /\ informed' = informed BY <2>5 DEF Review
    <3>2. \A e \in RecordDialogs : dialog[e] \in [at : {"closed", "open", "sent"}, current : BOOLEAN] BY <1>1
    <3> PICK sent : sent = [dialog[d] EXCEPT !.at = "sent"] OBVIOUS
    <3>3. sent \in [at : {"closed", "open", "sent"}, current : BOOLEAN] /\ sent.current = dialog[d].current BY <3>2
    <3>4. dialog' = [dialog EXCEPT ![d] = sent] BY <3>1, <1>1
    <3>5. \A e \in RecordDialogs : dialog'[e].current = dialog[e].current BY <3>3, <3>4, <1>1
    <3>6. dialog' \in [RecordDialogs -> [at : {"closed", "open", "sent"}, current : BOOLEAN]] BY <3>3, <3>4, <1>1
    <3> QED BY <3>1, <3>5, <3>6, <1>1 DEF RecordInv, DialogsInformed
  <2>6. ASSUME record' = record
        PROVE  record' \in SupporterRows /\ ReviewsInformed'
               /\ UNCHANGED <<record.pay, record.first, record.at, record.status, record.seen>>
    BY <2>6, <1>1 DEF RecordInv, ReviewsInformed
  <2> QED BY <2>1, <2>2, <2>3, <2>4, <2>5, <2>6
<1>4. RecordShape' BY <1>2, <1>3 DEF StaffOnly, RecordInv, RecordShape
<1>5. HistoriesKnown' /\ MarksKnown' /\ PaymentsKnown' /\ TimesKnown'
  <2>1. record.at \in {0} \cup Happened(truth) BY DEF RecordInv, TimesKnown
  <2> QED BY <2>1, <1>2, <1>3, ChargesStay DEF StaffOnly
<1>6. NewestKnown' BY <1>3 DEF RecordInv, NewestKnown
<1>7. SyncCorrects' BY <1>2, <1>3, SyncStays DEF StaffOnly
<1> QED BY <1>3, <1>4, <1>5, <1>6, <1>7 DEF RecordInv

LEMMA RecordKeeps == RecordInv /\ [RecordNext]_recordVars => RecordInv'
<1> SUFFICES ASSUME RecordInv, [RecordNext]_recordVars PROVE RecordInv' OBVIOUS
<1>1. CASE UNCHANGED recordVars
  <2>1. UNCHANGED <<truth, changes, webhooks, reading, record, dialog, agreed, informed>> BY <1>1 DEF recordVars
  <2>2. RecordShape' BY <2>1 DEF RecordInv, RecordShape
  <2>3. HistoriesKnown' /\ MarksKnown' /\ PaymentsKnown' /\ TimesKnown'
    <3>1. record.at \in {0} \cup Happened(truth) BY DEF RecordInv, TimesKnown
    <3> QED BY <3>1, <2>1, ChargesStay
  <2>4. NewestKnown' BY <2>1 DEF RecordInv, NewestKnown
  <2>5. SyncCorrects' BY <2>1, SyncStays
  <2>6. DialogsInformed' /\ ReviewsInformed' BY <2>1 DEF RecordInv, DialogsInformed, ReviewsInformed
  <2> QED BY <2>2, <2>3, <2>4, <2>5, <2>6 DEF RecordInv
<1>2. CASE PatreonChanges BY <1>2, PatreonKeeps
<1>3. CASE Register \/ StaffChange \/ \E d \in RecordDialogs : OpenDialog(d) \/ Review(d) BY <1>3, StaffKeeps
<1>4. ASSUME NEW last \in webhooks, Ingest(last) PROVE RecordInv' BY <1>4, IngestKeeps
<1>5. ASSUME NEW r \in Readers, ReadMember(r) \/ ImportMember(r) PROVE RecordInv' BY <1>5, ReadKeeps, ImportKeeps
<1> QED BY <1>1, <1>2, <1>3, <1>4, <1>5 DEF RecordNext

LEMMA RecordGives == RecordInv => RecordTrue
<1> SUFFICES ASSUME RecordInv PROVE RecordTrue OBVIOUS
<1>1. record \in SupporterRows BY DEF RecordInv, RecordShape
<1>2. record.at = Max({0} \cup {note[2].at : note \in record.seen})
  <2> PICK S : S = {0} \cup {note[2].at : note \in record.seen} OBVIOUS
  <2>1. \A note \in record.seen : note[2].at \in Nat
    <3>1. \A note \in record.seen : note[2] \in Lasts BY <1>1 DEF SupporterRows, Observations
    <3> QED BY <3>1, ChargeNumbers DEF Lasts
  <2>2. S \in SUBSET Nat BY <2>1
  <2>3. record.at \in S /\ \A s \in S : s <= record.at
    <3>1. record.at \in Nat BY <1>1, ChargeNumbers DEF SupporterRows
    <3> QED BY <3>1 DEF RecordInv, NewestKnown
  <2> QED BY <2>2, <2>3, GreatestIs
<1>3. Cardinality(record.first) <= 1
  <2>1. CASE record.first = {}
    <3>1. Cardinality({}) = 0 BY FS_EmptySet
    <3> QED BY <2>1, <3>1
  <2>2. ASSUME NEW c \in record.first PROVE Cardinality(record.first) <= 1
    <3>1. record.first = {c} BY DEF RecordInv, MarksKnown
    <3>2. Cardinality({c}) = 1 BY FS_Singleton, Zenon
    <3> QED BY <3>1, <3>2
  <2> QED BY <2>1, <2>2
<1>4. NewestCharge BY <1>2, <1>3 DEF NewestCharge, RecordInv, MarksKnown
<1> QED BY <1>4 DEF RecordInv, RecordTrue

-----------------------------------------------------------------------------
(* Entries of PayPal payments *)

EntryBodies == [entry : Entries, award : BOOLEAN]
EntryForms ==
  [entry : Entries, sending : BOOLEAN, ask : BOOLEAN, alone : BOOLEAN,
   says : {"nothing", "saved", "refused", "unconfirmed"}, awarded : BOOLEAN]
EntryCalls == [desk : Desks, body : EntryBodies, send : Nat]
PaymentRows == [donor : Payers \cup {NoDonor}, day : Nat, first : BOOLEAN]
EntryShape ==
  /\ entryForm \in [Desks -> EntryForms] /\ entrySends \in [Desks -> Nat] /\ running \subseteq EntryCalls
  /\ payments \in [EntryIds -> PaymentRows] /\ promised \in [Payers -> EntryIds \cup {NoDonor}]
  /\ receipts \subseteq Desks \X EntryBodies

\* What an entry form waits for is what it shows.
Asked ==
  /\ \A call \in running : call.send <= entrySends[call.desk]
  /\ \A call \in running : Awaits(call) => call.body = Body(entryForm[call.desk].entry, entryForm[call.desk].ask)
\* A request that can no longer be recorded.
Barred(body) == OnRecord(body.entry) \/ (body.award /\ FounderBlocked(body.entry))
RecordedAs(entry) == payments[entry.tx].donor = entry.donor /\ payments[entry.tx].day = entry.day
FormTold(d) ==
  /\ entryForm[d].says = "saved" => RecordedAs(entryForm[d].entry)
  /\ entryForm[d].says = "saved" /\ entryForm[d].awarded =>
       promised[entryForm[d].entry.donor] = entryForm[d].entry.tx
  /\ entryForm[d].says = "refused" =>
       /\ Barred(Body(entryForm[d].entry, entryForm[d].ask))
       /\ <<d, Body(entryForm[d].entry, entryForm[d].ask)>> \notin receipts
ReceiptsRest == \A r \in receipts : RecordedAs(r[2].entry)

EntryInv == EntryShape /\ Asked /\ (\A d \in Desks : FormTold(d)) /\ ReceiptsRest /\ PromisesRest

LEMMA EntryNames ==
  /\ \A e \in Entries : e.tx \in EntryIds /\ e.donor \in Payers /\ e.day \in Nat /\ e.first \in BOOLEAN
  /\ NoDonor \notin Payers \cup EntryIds /\ Unpaid.donor = NoDonor /\ Unpaid \in PaymentRows
<1>1. \A e \in Entries : e.tx \in EntryIds /\ e.donor \in Payers /\ e.day \in Nat /\ e.first \in BOOLEAN
  BY PaypalEntryAssumption DEF EntryIds, Payers
<1>2. \A e \in Entries : e.tx # NoDonor /\ e.donor # NoDonor
  <2>1. \A e \in Entries : "none" \notin {e.tx, e.donor} BY PaypalEntryAssumption
  <2> QED BY <2>1 DEF NoDonor
<1>3. NoDonor \notin Payers \cup EntryIds BY <1>2 DEF Payers, EntryIds
<1> QED BY <1>1, <1>3 DEF Unpaid, PaymentRows

LEMMA EntryStarts == EntryInit => EntryInv
<1> SUFFICES ASSUME EntryInit PROVE EntryInv OBVIOUS
<1>1. /\ entryForm \in [Desks -> {Blank(e) : e \in Entries}] /\ running = {} /\ entrySends = [d \in Desks |-> 0]
      /\ payments = [t \in EntryIds |-> Unpaid] /\ promised = [p \in Payers |-> NoDonor] /\ receipts = {}
  BY DEF EntryInit
<1>2. \A e \in Entries : Blank(e) \in EntryForms /\ Blank(e).says = "nothing" BY DEF Blank, EntryForms
<1>3. \A d \in Desks : entryForm[d] \in EntryForms /\ entryForm[d].says = "nothing" BY <1>1, <1>2
<1>4. entryForm \in [Desks -> EntryForms] BY <1>1, <1>3
<1>5. EntryShape BY <1>1, <1>4, EntryNames DEF EntryShape
<1>6. \A d \in Desks : FormTold(d) BY <1>3 DEF FormTold
<1>7. Asked /\ ReceiptsRest /\ PromisesRest BY <1>1 DEF Asked, ReceiptsRest, PromisesRest
<1> QED BY <1>5, <1>6, <1>7 DEF EntryInv

\* What is recorded stays.
Grows ==
  /\ \A t \in EntryIds : OnRecord([tx |-> t]) => payments'[t] = payments[t]
  /\ \A p \in Payers : promised[p] # NoDonor => promised'[p] = promised[p]

LEMMA StaysRecorded ==
  ASSUME EntryInv, Grows, NEW entry \in Entries
  PROVE  /\ RecordedAs(entry) => RecordedAs(entry)'
         /\ promised[entry.donor] = entry.tx => promised'[entry.donor] = entry.tx
         /\ OnRecord(entry) => OnRecord(entry)'
         /\ FounderBlocked(entry) => FounderBlocked(entry)'
<1>1. entry.tx \in EntryIds /\ entry.donor \in Payers /\ NoDonor \notin Payers \cup EntryIds /\ Unpaid.donor = NoDonor
  BY EntryNames
<1>2. \A t \in EntryIds : payments[t] # Unpaid => payments'[t] = payments[t] BY DEF Grows, OnRecord
<1>3. \A t \in EntryIds : payments[t].donor = entry.donor => payments'[t] = payments[t]
  <2>1. \A t \in EntryIds : payments[t] = Unpaid => payments[t].donor = NoDonor BY <1>1
  <2> QED BY <2>1, <1>1, <1>2
<1>4. RecordedAs(entry) => RecordedAs(entry)' BY <1>1, <1>3 DEF RecordedAs
<1>5. promised[entry.donor] = entry.tx => promised'[entry.donor] = entry.tx BY <1>1 DEF Grows
<1>6. OnRecord(entry) => OnRecord(entry)' BY <1>1, <1>2 DEF OnRecord
<1>7. EarlierPayment(entry) => EarlierPayment(entry)' BY <1>3 DEF EarlierPayment
<1>8. promised[entry.donor] # NoDonor => promised'[entry.donor] # NoDonor BY <1>1 DEF Grows
<1>9. FounderBlocked(entry) => FounderBlocked(entry)' BY <1>7, <1>8 DEF FounderBlocked
<1> QED BY <1>4, <1>5, <1>6, <1>9

LEMMA StaysTold ==
  ASSUME EntryInv, Grows, NEW d \in Desks, entryForm'[d] = entryForm[d],
         \A r \in receipts' : r \in receipts \/ ~Barred(r[2])
  PROVE  FormTold(d)'
<1>1. entryForm[d].entry \in Entries BY DEF EntryInv, EntryShape, EntryForms
<1>2. FormTold(d) BY DEF EntryInv
<1> PICK entry \in Entries : entry = entryForm[d].entry BY <1>1
<1> PICK body : body = Body(entry, entryForm[d].ask) OBVIOUS
<1>3. body.entry = entry BY DEF Body
<1>4. Barred(body) => Barred(body)' BY <1>3, StaysRecorded DEF Barred
<1>5. entryForm[d].says = "refused" => Barred(body)' /\ <<d, body>> \notin receipts'
  <2>1. entryForm[d].says = "refused" => Barred(body) /\ <<d, body>> \notin receipts BY <1>2 DEF FormTold
  <2>2. <<d, body>>[2] = body OBVIOUS
  <2> QED BY <2>1, <2>2, <1>4
<1>6. entryForm[d].says = "saved" => RecordedAs(entry)' BY <1>2, StaysRecorded DEF FormTold
<1>7. entryForm[d].says = "saved" /\ entryForm[d].awarded => promised'[entry.donor] = entry.tx
  BY <1>2, StaysRecorded DEF FormTold
<1> QED BY <1>5, <1>6, <1>7 DEF FormTold

\* The form changes by hand; the database does not.
LEMMA FormMoves ==
  ASSUME EntryInv, NEW d \in Desks, NEW filled \in EntryForms, filled.says \in {"nothing", "unconfirmed"},
         entryForm' = [entryForm EXCEPT ![d] = filled], UNCHANGED <<payments, promised, receipts>>,
         entrySends' \in [Desks -> Nat], running' \subseteq EntryCalls, Asked'
  PROVE  EntryInv'
<1>1. EntryShape' BY DEF EntryInv, EntryShape
<1>2. \A e \in Desks : entryForm'[e] = IF e = d THEN filled ELSE entryForm[e] BY DEF EntryInv, EntryShape
<1>3. Grows BY DEF Grows
<1>4. ASSUME NEW e \in Desks PROVE FormTold(e)'
  <2>1. CASE e = d BY <2>1, <1>2 DEF FormTold
  <2>2. CASE e # d BY <2>2, <1>2, <1>3, StaysTold
  <2> QED BY <2>1, <2>2
<1>5. ReceiptsRest' BY DEF EntryInv, ReceiptsRest, RecordedAs
<1>6. PromisesRest' BY DEF EntryInv, PromisesRest
<1> QED BY <1>1, <1>4, <1>5, <1>6 DEF EntryInv

LEMMA EditKeeps ==
  ASSUME EntryInv, NEW d \in Desks, Edit(d)
  PROVE  EntryInv'
<1>1. PICK e \in Entries : entryForm' = [entryForm EXCEPT ![d] = Blank(e)] BY DEF Edit
<1>2. UNCHANGED <<running, entrySends, payments, promised, receipts>> BY DEF Edit
<1> PICK filled : filled = Blank(e) OBVIOUS
<1>3. filled \in EntryForms /\ filled.says = "nothing" /\ filled.sending = FALSE BY DEF Blank, EntryForms
<1>4. \A c \in Desks : entryForm'[c] = IF c = d THEN filled ELSE entryForm[c] BY <1>1 DEF EntryInv, EntryShape
<1>5. Asked'
  <2>1. \A call \in running : call.desk \in Desks BY DEF EntryInv, EntryShape, EntryCalls
  <2> QED BY <2>1, <1>2, <1>3, <1>4 DEF EntryInv, Asked, Awaits
<1>6. entrySends' \in [Desks -> Nat] /\ running' \subseteq EntryCalls BY <1>2 DEF EntryInv, EntryShape
<1> QED BY <1>1, <1>2, <1>3, <1>5, <1>6, FormMoves

LEMMA UnconfirmedKeeps ==
  ASSUME EntryInv, NEW d \in Desks, EntryUnconfirmed(d)
  PROVE  EntryInv'
<1>1. /\ entryForm' = [entryForm EXCEPT ![d].sending = FALSE, ![d].says = "unconfirmed"]
      /\ UNCHANGED <<running, entrySends, payments, promised, receipts>>
  BY DEF EntryUnconfirmed
<1> PICK filled : filled = [entryForm[d] EXCEPT !.sending = FALSE, !.says = "unconfirmed"] OBVIOUS
<1>2. entryForm \in [Desks -> EntryForms] BY DEF EntryInv, EntryShape
<1>3. filled \in EntryForms /\ filled.says = "unconfirmed" /\ filled.sending = FALSE BY <1>2 DEF EntryForms
<1>4. entryForm' = [entryForm EXCEPT ![d] = filled] BY <1>1, <1>2
<1>5. \A c \in Desks : entryForm'[c] = IF c = d THEN filled ELSE entryForm[c] BY <1>2, <1>4
<1>6. Asked'
  <2>1. \A call \in running : call.desk \in Desks BY DEF EntryInv, EntryShape, EntryCalls
  <2>2. \A call \in running : Awaits(call)' => Awaits(call) /\ entryForm'[call.desk] = entryForm[call.desk]
    BY <2>1, <1>1, <1>3, <1>5 DEF Awaits
  <2> QED BY <2>2, <1>1 DEF EntryInv, Asked
<1>7. entrySends' \in [Desks -> Nat] /\ running' \subseteq EntryCalls BY <1>1 DEF EntryInv, EntryShape
<1> QED BY <1>1, <1>3, <1>4, <1>6, <1>7, FormMoves

LEMMA SaveKeeps ==
  ASSUME EntryInv, NEW d \in Desks, NEW askFounder \in BOOLEAN, SavePayment(d, askFounder)
  PROVE  EntryInv'
<1> PICK call : call = [desk |-> d, body |-> Body(entryForm[d].entry, askFounder), send |-> entrySends[d] + 1] OBVIOUS
<1> PICK filled : filled = [entryForm[d] EXCEPT !.sending = TRUE, !.ask = askFounder, !.says = "nothing"] OBVIOUS
<1>1. /\ entrySends' = [entrySends EXCEPT ![d] = @ + 1] /\ running' = running \cup {call}
      /\ entryForm' = [entryForm EXCEPT ![d].sending = TRUE, ![d].ask = askFounder, ![d].says = "nothing"]
      /\ UNCHANGED <<payments, promised, receipts>>
  BY DEF SavePayment
<1>2. entryForm \in [Desks -> EntryForms] /\ entrySends \in [Desks -> Nat] /\ running \subseteq EntryCalls
  BY DEF EntryInv, EntryShape
<1>3. filled \in EntryForms /\ filled.says = "nothing" /\ filled.ask = askFounder /\ filled.entry = entryForm[d].entry
  BY <1>2 DEF EntryForms
<1>4. entryForm' = [entryForm EXCEPT ![d] = filled] BY <1>1, <1>2
<1>5. \A c \in Desks : entryForm'[c] = IF c = d THEN filled ELSE entryForm[c] BY <1>2, <1>4
<1>6. entrySends' \in [Desks -> Nat]
      /\ \A c \in Desks : entrySends'[c] = IF c = d THEN entrySends[d] + 1 ELSE entrySends[c]
  BY <1>1, <1>2
<1>7. Body(entryForm[d].entry, askFounder) \in EntryBodies
  <2>1. entryForm[d].entry \in Entries BY <1>2 DEF EntryForms
  <2>2. (askFounder /\ entryForm[d].entry.first) \in BOOLEAN OBVIOUS
  <2> QED BY <2>1, <2>2 DEF Body, EntryBodies
<1>8. entrySends[d] \in Nat /\ entrySends[d] + 1 \in Nat BY <1>2
<1>9. call \in EntryCalls /\ call.desk = d /\ call.send = entrySends[d] + 1
      /\ call.body = Body(entryForm[d].entry, askFounder)
  BY <1>7, <1>8 DEF EntryCalls
<1>10. running' \subseteq EntryCalls BY <1>1, <1>2, <1>9
<1>11. \A other1 \in running : other1.desk \in Desks /\ other1.send \in Nat /\ other1.send <= entrySends[other1.desk]
  BY <1>2 DEF EntryInv, Asked, EntryCalls
<1>12. \A other1 \in running : other1.send <= entrySends'[other1.desk] /\ (other1.desk = d => other1.send # entrySends'[d])
  <2> SUFFICES ASSUME NEW other1 \in running
               PROVE  other1.send <= entrySends'[other1.desk] /\ (other1.desk = d => other1.send # entrySends'[d])
    OBVIOUS
  <2>1. other1.desk \in Desks /\ other1.send \in Nat /\ other1.send <= entrySends[other1.desk] BY <1>11
  <2>2. CASE other1.desk = d BY <2>1, <2>2, <1>6, <1>8
  <2>3. CASE other1.desk # d BY <2>1, <2>3, <1>6
  <2> QED BY <2>2, <2>3
<1>13. call.send <= entrySends'[call.desk] BY <1>6, <1>8, <1>9
<1>14. \A one \in running' : one = call \/ one \in running BY <1>1
<1>15. \A one \in running : Awaits(one)' => Awaits(one) /\ one.desk # d
  BY <1>5, <1>6, <1>11, <1>12 DEF Awaits
<1>16. Asked'
  <2>1. \A one \in running' : one.send <= entrySends'[one.desk] BY <1>12, <1>13, <1>14
  <2>2. ASSUME NEW one \in running', Awaits(one)'
        PROVE  one.body = Body(entryForm'[one.desk].entry, entryForm'[one.desk].ask)
    <3>1. CASE one = call BY <3>1, <1>3, <1>5, <1>9
    <3>2. CASE one \in running
      <4>1. Awaits(one) /\ one.desk # d /\ one.desk \in Desks BY <3>2, <2>2, <1>11, <1>15
      <4>2. entryForm'[one.desk] = entryForm[one.desk] BY <4>1, <1>5
      <4> QED BY <3>2, <4>1, <4>2 DEF EntryInv, Asked
    <3> QED BY <3>1, <3>2, <1>14
  <2> QED BY <2>1, <2>2 DEF Asked
<1> QED BY <1>1, <1>3, <1>4, <1>6, <1>10, <1>16, FormMoves

-----------------------------------------------------------------------------
(* What the server answers *)

LEMMA SaysForm ==
  ASSUME EntryInv, NEW call \in running, NEW says \in {"saved", "refused"}, NEW alone \in BOOLEAN,
         NEW awarded \in BOOLEAN, Says(call, says, alone, awarded)
  PROVE  /\ entryForm' \in [Desks -> EntryForms]
         /\ \A d \in Desks :
              \/ entryForm'[d] = entryForm[d]
              \/ /\ d = call.desk /\ Awaits(call) /\ entryForm'[d].sending = FALSE /\ entryForm'[d].says = says
                 /\ entryForm'[d].awarded = awarded /\ entryForm'[d].entry = entryForm[d].entry
                 /\ entryForm'[d].ask = entryForm[d].ask
<1>1. entryForm \in [Desks -> EntryForms] /\ call.desk \in Desks BY DEF EntryInv, EntryShape, EntryCalls
<1> PICK desk : desk = call.desk OBVIOUS
<1>2. CASE UNCHANGED entryForm BY <1>1, <1>2
<1>3. CASE Awaits(call) /\ entryForm' = [entryForm EXCEPT ![desk].sending = FALSE, ![desk].says = says,
                                          ![desk].alone = alone, ![desk].awarded = awarded]
  <2> PICK filled : filled = [entryForm[desk] EXCEPT !.sending = FALSE, !.says = says, !.alone = alone, !.awarded = awarded]
    OBVIOUS
  <2>1. filled \in EntryForms BY <1>1, ZenonT(60) DEF EntryForms
  <2>2. filled.sending = FALSE /\ filled.says = says /\ filled.entry = entryForm[desk].entry /\ filled.ask = entryForm[desk].ask
    BY <1>1 DEF EntryForms
  <2>3. filled.awarded = awarded BY <1>1, Zenon DEF EntryForms
  <2>4. entryForm' = [entryForm EXCEPT ![desk] = filled] BY <1>1, <1>3
  <2>5. \A d \in Desks : entryForm'[d] = IF d = desk THEN filled ELSE entryForm[d] BY <1>1, <2>4
  <2> QED BY <1>1, <1>3, <2>1, <2>2, <2>3, <2>4, <2>5
<1> QED BY <1>2, <1>3 DEF Says

LEMMA AnsweredTrue ==
  ASSUME EntryInv, Grows, NEW call \in running, NEW says \in {"saved", "refused"}, NEW alone \in BOOLEAN,
         NEW awarded \in BOOLEAN, Says(call, says, alone, awarded), Ended(call),
         \A r \in receipts' : r \in receipts \/ ~Barred(r[2]),
         says = "saved" => RecordedAs(call.body.entry)',
         says = "saved" /\ awarded => promised'[call.body.entry.donor] = call.body.entry.tx,
         says = "refused" => Barred(call.body)' /\ <<call.desk, call.body>> \notin receipts',
         payments' \in [EntryIds -> PaymentRows], promised' \in [Payers -> EntryIds \cup {NoDonor}],
         receipts' \subseteq Desks \X EntryBodies, ReceiptsRest', PromisesRest'
  PROVE  EntryInv'
<1>1. /\ entryForm' \in [Desks -> EntryForms]
      /\ \A d \in Desks :
           \/ entryForm'[d] = entryForm[d]
           \/ /\ d = call.desk /\ Awaits(call) /\ entryForm'[d].sending = FALSE /\ entryForm'[d].says = says
              /\ entryForm'[d].awarded = awarded /\ entryForm'[d].entry = entryForm[d].entry
              /\ entryForm'[d].ask = entryForm[d].ask
  BY SaysForm, ZenonT(60)
<1>2. running' = running \ {call} /\ entrySends' = entrySends BY DEF Ended
<1>3. EntryShape' BY <1>1, <1>2 DEF EntryInv, EntryShape
<1>4. Asked'
  <2>1. \A one \in running : one.desk \in Desks BY DEF EntryInv, EntryShape, EntryCalls
  <2>2. \A one \in running : Awaits(one)' => entryForm'[one.desk] = entryForm[one.desk] /\ Awaits(one)
    BY <2>1, <1>1, <1>2 DEF Awaits
  <2> QED BY <2>2, <1>2 DEF EntryInv, Asked
<1>5. ASSUME NEW d \in Desks PROVE FormTold(d)'
  <2>1. CASE entryForm'[d] = entryForm[d] BY <2>1, StaysTold
  <2>2. CASE entryForm'[d] # entryForm[d]
    <3>1. /\ d = call.desk /\ entryForm'[d].says = says /\ entryForm'[d].awarded = awarded
          /\ entryForm'[d].entry = entryForm[d].entry /\ entryForm'[d].ask = entryForm[d].ask /\ Awaits(call)
      BY <2>2, <1>1
    <3>2. call.body = Body(entryForm[d].entry, entryForm[d].ask) BY <3>1 DEF EntryInv, Asked
    <3>3. call.body.entry = entryForm[d].entry BY <3>2 DEF Body
    <3> PICK entry : entry = call.body.entry OBVIOUS
    <3> PICK body : body = call.body OBVIOUS
    <3>a. entryForm'[d].entry = entry /\ Body(entryForm'[d].entry, entryForm'[d].ask) = body BY <3>1, <3>2, <3>3
    <3>4. entryForm'[d].says = "saved" => payments'[entry.tx].donor = entry.donor /\ payments'[entry.tx].day = entry.day
      BY <3>1 DEF RecordedAs
    <3>5. entryForm'[d].says = "saved" /\ entryForm'[d].awarded => promised'[entry.donor] = entry.tx BY <3>1
    <3>6. entryForm'[d].says = "refused" => Barred(body)' /\ <<d, body>> \notin receipts' BY <3>1
    <3>7. (entryForm[d].says = "refused" =>
             Barred(Body(entryForm[d].entry, entryForm[d].ask))
             /\ <<d, Body(entryForm[d].entry, entryForm[d].ask)>> \notin receipts)'
      <4>1. Body(entryForm[d].entry, entryForm[d].ask)' = body BY <3>a DEF Body
      <4> QED BY <3>6, <4>1 DEF Barred, OnRecord, FounderBlocked, EarlierPayment
    <3>8. (entryForm[d].says = "saved" => RecordedAs(entryForm[d].entry))' BY <3>4, <3>a DEF RecordedAs
    <3>9. (entryForm[d].says = "saved" /\ entryForm[d].awarded =>
             promised[entryForm[d].entry.donor] = entryForm[d].entry.tx)'
      BY <3>5, <3>a
    <3> QED BY <3>7, <3>8, <3>9 DEF FormTold
  <2> QED BY <2>1, <2>2
<1> QED BY <1>3, <1>4, <1>5 DEF EntryInv

LEMMA CallFacts ==
  ASSUME EntryInv, NEW call \in running
  PROVE  /\ call.desk \in Desks /\ call.body \in EntryBodies /\ call.body.entry \in Entries
         /\ Id(call) = <<call.desk, call.body>> /\ Id(call) \in Desks \X EntryBodies /\ Id(call)[2] = call.body
         /\ call.body.entry.tx \in EntryIds /\ call.body.entry.donor \in Payers
<1>1. call.desk \in Desks /\ call.body \in EntryBodies BY DEF EntryInv, EntryShape, EntryCalls
<1>2. call.body.entry \in Entries BY <1>1 DEF EntryBodies
<1> QED BY <1>1, <1>2, EntryNames DEF Id

LEMMA ReplayKeeps ==
  ASSUME EntryInv, NEW call \in running, Replay(call)
  PROVE  EntryInv'
<1> PICK entry : entry = call.body.entry OBVIOUS
<1>1. /\ Id(call) \in receipts \/ (OnRecord(entry) /\ Matches(entry))
      /\ Ended(call) /\ Says(call, "saved", FALSE, Awarded(entry)) /\ UNCHANGED <<payments, promised, receipts>>
  BY DEF Replay
<1>2. entry \in Entries /\ entry.tx \in EntryIds /\ Id(call)[2] = call.body BY CallFacts
<1>3. RecordedAs(entry)
  <2>1. CASE Id(call) \in receipts BY <2>1, <1>2 DEF EntryInv, ReceiptsRest
  <2>2. CASE Matches(entry) BY <2>2 DEF Matches, SameDetails, RecordedAs
  <2> QED BY <2>1, <2>2, <1>1
<1>4. RecordedAs(entry)' BY <1>1, <1>3 DEF RecordedAs
<1>5. PICK awarded \in BOOLEAN : awarded = Awarded(entry)
  <2>1. Awarded(entry) \in BOOLEAN BY DEF Awarded
  <2> QED BY <2>1
<1>6. awarded => promised'[entry.donor] = entry.tx BY <1>1, <1>5 DEF Awarded
<1>7. Grows BY <1>1 DEF Grows
<1>8. ReceiptsRest' BY <1>1 DEF EntryInv, ReceiptsRest, RecordedAs
<1>9. PromisesRest' BY <1>1 DEF EntryInv, PromisesRest
<1>10. payments' \in [EntryIds -> PaymentRows] /\ promised' \in [Payers -> EntryIds \cup {NoDonor}]
       /\ receipts' \subseteq Desks \X EntryBodies
  BY <1>1 DEF EntryInv, EntryShape
<1>11. Says(call, "saved", FALSE, awarded) BY <1>1, <1>5
<1>12. PICK says \in {"saved", "refused"} : says = "saved" OBVIOUS
<1> QED BY <1>1, <1>4, <1>6, <1>7, <1>8, <1>9, <1>10, <1>11, <1>12, AnsweredTrue

LEMMA RefuseKeeps ==
  ASSUME EntryInv, NEW call \in running, RefuseEntry(call)
  PROVE  EntryInv'
<1> PICK entry : entry = call.body.entry OBVIOUS
<1>1. PICK blocked \in BOOLEAN :
        /\ blocked = (~OnRecord(entry) /\ call.body.award /\ FounderBlocked(entry))
        /\ OnRecord(entry) \/ blocked
        /\ Says(call, "refused", blocked \/ entryForm[call.desk].alone, FALSE)
  <2>1. (~OnRecord(entry) /\ call.body.award /\ FounderBlocked(entry)) \in BOOLEAN OBVIOUS
  <2> QED BY <2>1 DEF RefuseEntry
<1>2. Id(call) \notin receipts /\ Ended(call) /\ UNCHANGED <<payments, promised, receipts>> BY DEF RefuseEntry
<1>3. Barred(call.body) BY <1>1 DEF Barred
<1>4. Barred(call.body)'
  BY <1>2, <1>3 DEF Barred, OnRecord, FounderBlocked, EarlierPayment
<1>5. <<call.desk, call.body>> \notin receipts' BY <1>2 DEF Id
<1>6. PICK alone \in BOOLEAN : alone = (blocked \/ entryForm[call.desk].alone)
  <2>1. (blocked \/ entryForm[call.desk].alone) \in BOOLEAN OBVIOUS
  <2> QED BY <2>1
<1>7. Grows BY <1>2 DEF Grows
<1>8. ReceiptsRest' BY <1>2 DEF EntryInv, ReceiptsRest, RecordedAs
<1>9. PromisesRest' BY <1>2 DEF EntryInv, PromisesRest
<1>10. payments' \in [EntryIds -> PaymentRows] /\ promised' \in [Payers -> EntryIds \cup {NoDonor}]
       /\ receipts' \subseteq Desks \X EntryBodies
  BY <1>2 DEF EntryInv, EntryShape
<1>11. Says(call, "refused", alone, FALSE) BY <1>1, <1>6
<1>12. PICK says \in {"saved", "refused"} : says = "refused" OBVIOUS
<1> QED BY <1>2, <1>4, <1>5, <1>7, <1>8, <1>9, <1>10, <1>11, <1>12, AnsweredTrue

LEMMA RecordingKeeps ==
  ASSUME EntryInv, NEW call \in running, RecordEntry(call)
  PROVE  EntryInv'
<1> PICK entry : entry = call.body.entry OBVIOUS
<1> PICK row : row = [donor |-> entry.donor, day |-> entry.day, first |-> entry.first] OBVIOUS
<1>1. /\ Id(call) \notin receipts /\ ~OnRecord(entry) /\ (call.body.award => ~FounderBlocked(entry))
      /\ payments' = [payments EXCEPT ![entry.tx] = row]
      /\ promised' = (IF call.body.award THEN [promised EXCEPT ![entry.donor] = entry.tx] ELSE promised)
      /\ receipts' = receipts \cup {Id(call)} /\ Ended(call) /\ Says(call, "saved", FALSE, call.body.award)
  BY DEF RecordEntry
<1>2. /\ entry \in Entries /\ entry.tx \in EntryIds /\ entry.donor \in Payers /\ call.body \in EntryBodies
      /\ Id(call) \in Desks \X EntryBodies /\ Id(call)[2] = call.body
  BY CallFacts
<1>3. row \in PaymentRows /\ row.donor = entry.donor /\ row.day = entry.day /\ row.first = entry.first
  BY <1>2, EntryNames DEF PaymentRows
<1>4. /\ payments \in [EntryIds -> PaymentRows] /\ promised \in [Payers -> EntryIds \cup {NoDonor}]
      /\ receipts \subseteq Desks \X EntryBodies
  BY DEF EntryInv, EntryShape
<1>5. payments' \in [EntryIds -> PaymentRows] /\ \A t \in EntryIds : payments'[t] = IF t = entry.tx THEN row ELSE payments[t]
  BY <1>1, <1>2, <1>3, <1>4
<1>6. /\ promised' \in [Payers -> EntryIds \cup {NoDonor}]
      /\ \A p \in Payers : promised'[p] = IF call.body.award /\ p = entry.donor THEN entry.tx ELSE promised[p]
  BY <1>1, <1>2, <1>4
<1>7. receipts' \subseteq Desks \X EntryBodies BY <1>1, <1>2, <1>4
<1>8. Grows
  <2>1. \A t \in EntryIds : OnRecord([tx |-> t]) => t # entry.tx BY <1>1 DEF OnRecord
  <2>2. call.body.award => promised[entry.donor] = NoDonor BY <1>1 DEF FounderBlocked
  <2> QED BY <2>1, <2>2, <1>5, <1>6 DEF Grows
<1>9. RecordedAs(entry)' BY <1>2, <1>3, <1>5 DEF RecordedAs
<1>10. ~Barred(call.body) BY <1>1 DEF Barred
<1>11. \A r \in receipts' : r \in receipts \/ ~Barred(r[2]) BY <1>1, <1>2, <1>10
<1>12. ReceiptsRest'
  <2> SUFFICES ASSUME NEW r \in receipts' PROVE RecordedAs(r[2].entry)' BY DEF ReceiptsRest
  <2>1. CASE r = Id(call) BY <2>1, <1>2, <1>9
  <2>2. CASE r \in receipts
    <3>1. r[2] \in EntryBodies BY <2>2, <1>4
    <3>2. r[2].entry \in Entries BY <3>1 DEF EntryBodies
    <3>3. RecordedAs(r[2].entry) BY <2>2 DEF EntryInv, ReceiptsRest
    <3> QED BY <3>2, <3>3, <1>8, StaysRecorded
  <2> QED BY <2>1, <2>2, <1>1
<1>13. PromisesRest'
  <2> SUFFICES ASSUME NEW p \in Payers, promised'[p] # NoDonor
               PROVE  payments'[promised'[p]].donor = p /\ payments'[promised'[p]].first
                      /\ payments'[promised'[p]].day \in FounderDays
    BY DEF PromisesRest
  <2>1. CASE call.body.award /\ p = entry.donor
    <3>1. promised'[p] = entry.tx BY <2>1, <1>6
    <3>2. payments'[entry.tx] = row BY <1>2, <1>5
    <3>3. entry.first /\ entry.day \in FounderDays BY <2>1, <1>1 DEF FounderBlocked
    <3> QED BY <2>1, <3>1, <3>2, <3>3, <1>3
  <2>2. CASE ~(call.body.award /\ p = entry.donor)
    <3>1. promised'[p] = promised[p] /\ promised[p] # NoDonor BY <2>2, <1>6
    <3>2. promised[p] \in EntryIds BY <3>1, <1>4
    <3>3. payments[promised[p]].donor = p /\ payments[promised[p]].first /\ payments[promised[p]].day \in FounderDays
      BY <3>1 DEF EntryInv, PromisesRest
    <3>4. payments[promised[p]] # Unpaid BY <3>3, EntryNames
    <3>5. promised[p] # entry.tx BY <3>4, <1>1 DEF OnRecord
    <3>6. payments'[promised[p]] = payments[promised[p]] BY <3>2, <3>5, <1>5
    <3> QED BY <3>1, <3>3, <3>6
  <2> QED BY <2>1, <2>2
<1>14. PICK awarded \in BOOLEAN : awarded = call.body.award BY <1>2 DEF EntryBodies
<1>15. awarded => promised'[entry.donor] = entry.tx BY <1>2, <1>6, <1>14
<1>16. Says(call, "saved", FALSE, awarded) BY <1>1, <1>14
<1>17. PICK says \in {"saved", "refused"} : says = "saved" OBVIOUS
<1>18. Ended(call) BY <1>1
<1> QED BY <1>5, <1>6, <1>7, <1>8, <1>9, <1>11, <1>12, <1>13, <1>15, <1>16, <1>17, <1>18, AnsweredTrue

LEMMA EntryKeeps == EntryInv /\ [EntryNext]_entryVars => EntryInv'
<1> SUFFICES ASSUME EntryInv, [EntryNext]_entryVars PROVE EntryInv' OBVIOUS
<1>1. ASSUME NEW d \in Desks, Edit(d) \/ EntryUnconfirmed(d) PROVE EntryInv'
  BY <1>1, EditKeeps, UnconfirmedKeeps
<1>2. ASSUME NEW d \in Desks, NEW askFounder \in BOOLEAN, SavePayment(d, askFounder) PROVE EntryInv'
  BY <1>2, SaveKeeps
<1>3. ASSUME NEW call \in running, Replay(call) \/ RefuseEntry(call) \/ RecordEntry(call) PROVE EntryInv'
  BY <1>3, ReplayKeeps, RefuseKeeps, RecordingKeeps
<1>4. ASSUME NEW call \in running, Lost(call) PROVE EntryInv'
  <2>1. running' = running \ {call} /\ UNCHANGED <<entrySends, entryForm, payments, promised, receipts>>
    BY <1>4 DEF Lost, Ended
  <2>2. EntryShape' BY <2>1 DEF EntryInv, EntryShape
  <2>3. Asked' BY <2>1 DEF EntryInv, Asked, Awaits
  <2>4. Grows BY <2>1 DEF Grows
  <2>5. \A d \in Desks : FormTold(d)' BY <2>1, <2>4, StaysTold
  <2>6. ReceiptsRest' BY <2>1 DEF EntryInv, ReceiptsRest, RecordedAs
  <2>7. PromisesRest' BY <2>1 DEF EntryInv, PromisesRest
  <2> QED BY <2>2, <2>3, <2>5, <2>6, <2>7 DEF EntryInv
<1>5. CASE UNCHANGED entryVars
  <2>1. UNCHANGED <<entryForm, running, entrySends, payments, promised, receipts>> BY <1>5 DEF entryVars
  <2>2. EntryShape' BY <2>1 DEF EntryInv, EntryShape
  <2>3. Asked' BY <2>1 DEF EntryInv, Asked, Awaits
  <2>4. Grows BY <2>1 DEF Grows
  <2>5. \A d \in Desks : FormTold(d)' BY <2>1, <2>4, StaysTold
  <2>6. ReceiptsRest' BY <2>1 DEF EntryInv, ReceiptsRest, RecordedAs
  <2>7. PromisesRest' BY <2>1 DEF EntryInv, PromisesRest
  <2> QED BY <2>2, <2>3, <2>5, <2>6, <2>7 DEF EntryInv
<1> QED BY <1>1, <1>2, <1>3, <1>4, <1>5 DEF EntryNext

LEMMA EntryGives == EntryInv => EntriesTrue
<1> SUFFICES ASSUME EntryInv PROVE EntriesTrue OBVIOUS
<1>1. EntriesTold BY DEF EntryInv, FormTold, RecordedAs, EntriesTold
<1> QED BY <1>1 DEF EntryInv, EntriesTrue

-----------------------------------------------------------------------------
(* The next steps *)

LEMMA FirstOfIs ==
  ASSUME NEW tests, NEW n \in Nat, DOMAIN tests = 1 .. n
  PROVE  \/ FirstOf(tests) = Unknown /\ \A i \in 1 .. n : ~tests[i][2]
         \/ \E i \in 1 .. n : tests[i][2] /\ FirstOf(tests) = tests[i][1]
<1> PICK hits : hits = {j \in DOMAIN tests : tests[j][2]} OBVIOUS
<1>1. CASE hits = {} BY <1>1 DEF FirstOf
<1>2. CASE hits # {}
  <2>1. hits \in SUBSET Nat OBVIOUS
  <2>2. Min(hits) \in hits BY <1>2, <2>1, LeastIs
  <2> QED BY <1>2, <2>2 DEF FirstOf
<1> QED BY <1>1, <1>2

\* The first test wins whenever it holds.
LEMMA FirstWins ==
  ASSUME NEW tests, NEW n \in Nat, DOMAIN tests = 1 .. n, n > 0, tests[1][2]
  PROVE  FirstOf(tests) = tests[1][1]
<1> PICK hits : hits = {j \in DOMAIN tests : tests[j][2]} OBVIOUS
<1>1. hits \in SUBSET Nat /\ 1 \in hits /\ \A j \in hits : j >= 1 OBVIOUS
<1>2. Min(hits) \in hits /\ \A j \in hits : Min(hits) <= j BY <1>1, LeastIs
<1>3. Min(hits) = 1 BY <1>1, <1>2
<1> QED BY <1>1, <1>3 DEF FirstOf

LEMMA MatchBlockIs ==
  /\ MatchBlock = Unknown =>
       /\ Live # {} /\ ~(Cardinality(Named) > 1) /\ Named \subseteq ValidIds
       /\ \A s \in Named : ~Claimed(s) /\ ~HeldBack(s)
  /\ MatchBlock # "steam_ready_automatic"
<1> DEFINE table == <<
  <<"no_application", apps = {}>>,
  <<"application_in_progress", InStatus("processing") # {}>>,
  <<"application_pending", Live = {} /\ InStatus("pending") # {}>>,
  <<"no_approved_application", Live = {}>>,
  <<"several_steam_ids", Cardinality(Named) > 1>>,
  <<"invalid_steam_id", ~(Named \subseteq ValidIds)>>,
  <<"application_not_confirmed", \A a \in Live : ~a.granted>>,
  <<"steam_shared", \E s \in Named : Claimed(s)>>,
  <<"steam_rejected_before", \E s \in Named : Rejected(s)>>,
  <<"steam_on_another_record", \E s \in Named : HeldBack(s)>> >>
<1> HIDE DEF table
<1>0. PICK tests : tests = table OBVIOUS
<1>1. DOMAIN tests = 1 .. 10 BY <1>0 DEF table
<1>2. MatchBlock = FirstOf(tests) BY <1>0 DEF MatchBlock, table
<1>3. \A i \in 1 .. 10 :
        tests[i][1] \in {"no_application", "application_in_progress", "application_pending", "no_approved_application",
          "several_steam_ids", "invalid_steam_id", "application_not_confirmed", "steam_shared",
          "steam_rejected_before", "steam_on_another_record"}
  BY <1>0 DEF table
<1>4. /\ tests[4][2] <=> Live = {}
      /\ tests[5][2] <=> Cardinality(Named) > 1
      /\ tests[6][2] <=> ~(Named \subseteq ValidIds)
      /\ tests[8][2] <=> \E s \in Named : Claimed(s)
      /\ tests[10][2] <=> \E s \in Named : HeldBack(s)
  BY <1>0 DEF table
<1>5. \/ MatchBlock = Unknown /\ \A i \in 1 .. 10 : ~tests[i][2]
      \/ \E i \in 1 .. 10 : tests[i][2] /\ MatchBlock = tests[i][1]
  <2>1. 10 \in Nat OBVIOUS
  <2>2. \/ FirstOf(tests) = Unknown /\ \A i \in 1 .. 10 : ~tests[i][2]
        \/ \E i \in 1 .. 10 : tests[i][2] /\ FirstOf(tests) = tests[i][1]
    BY <2>1, <1>1, FirstOfIs
  <2> QED BY <2>2, <1>2
<1>6. MatchBlock = Unknown => \A i \in 1 .. 10 : ~tests[i][2] BY <1>3, <1>5 DEF Unknown
<1>7. MatchBlock # "steam_ready_automatic" BY <1>3, <1>5 DEF Unknown
<1>8. MatchBlock = Unknown => ~tests[4][2] /\ ~tests[5][2] /\ ~tests[6][2] /\ ~tests[8][2] /\ ~tests[10][2]
  BY <1>6
<1> QED BY <1>4, <1>7, <1>8

LEMMA FounderBlockerIs ==
  ASSUME NEW p, NEW r
  PROVE  /\ FounderBlocker(p, r) \in
              {Unknown, "window_not_configured", "no_payment", "source_not_qualifying", "not_verified",
               "not_first_payment", "outside_window", "below_minimum", "no_identity", "already_founder",
               "steam_applied_by_founder"}
         /\ FounderBlocker(p, r) = Unknown => ~(other.founder /\ SamePerson(r))
<1> DEFINE table == <<
  <<"window_not_configured", ~set.window>>,
  <<"no_payment", p.source = Unknown>>,
  <<"source_not_qualifying", p.source = "signed_status">>,
  <<"not_verified", ~p.verified>>,
  <<"not_first_payment", ~p.first>>,
  <<"outside_window", ~p.inWindow>>,
  <<"below_minimum", p.worth # "enough">>,
  <<"no_identity", ~Identity(r)>>,
  <<"already_founder", other.founder /\ SamePerson(r)>>,
  <<"steam_applied_by_founder",
    other.founder /\ other.steam = Unknown /\ other.discord = "y" /\ Claimed(r.steam)>> >>
<1> HIDE DEF table
<1>0. PICK tests : tests = table OBVIOUS
<1>1. DOMAIN tests = 1 .. 10 BY <1>0 DEF table
<1>2. FounderBlocker(p, r) = FirstOf(tests) BY <1>0 DEF FounderBlocker, table
<1>3. \A i \in 1 .. 10 :
        tests[i][1] \in
          {"window_not_configured", "no_payment", "source_not_qualifying", "not_verified", "not_first_payment",
           "outside_window", "below_minimum", "no_identity", "already_founder", "steam_applied_by_founder"}
  BY <1>0 DEF table
<1>4. tests[9][2] <=> (other.founder /\ SamePerson(r)) BY <1>0 DEF table
<1>5. \/ FounderBlocker(p, r) = Unknown /\ \A i \in 1 .. 10 : ~tests[i][2]
      \/ \E i \in 1 .. 10 : tests[i][2] /\ FounderBlocker(p, r) = tests[i][1]
  <2>1. 10 \in Nat OBVIOUS
  <2>2. \/ FirstOf(tests) = Unknown /\ \A i \in 1 .. 10 : ~tests[i][2]
        \/ \E i \in 1 .. 10 : tests[i][2] /\ FirstOf(tests) = tests[i][1]
    BY <2>1, <1>1, FirstOfIs
  <2> QED BY <2>2, <1>2
<1>6. FounderBlocker(p, r) = Unknown => ~tests[9][2] BY <1>3, <1>5 DEF Unknown
<1> QED BY <1>3, <1>4, <1>5, <1>6

LEMMA AutomaticBlockerIs ==
  ASSUME NEW r
  PROVE  /\ AutomaticBlocker(r) = Unknown =>
              /\ r.provider = "patreon" /\ r.discord # Unknown /\ r.from \in {"patreon", "patron_signin"}
              /\ r.reported \in {Unknown, r.discord} /\ FounderBlocker(pay, r) = Unknown
         /\ AutomaticBlocker(r) = "discord_differs" => r.reported \notin {Unknown, r.discord}
         /\ AutomaticBlocker(r) = "discord_reported_for_other_patron" => ReportedForOther(r)
         /\ r.provider # "patreon" => AutomaticBlocker(r) = "not_patreon"
<1>a. PICK rule : rule = FounderBlocker(pay, r) OBVIOUS
<1> DEFINE table == <<
  <<"not_patreon", r.provider # "patreon">>,
  <<"no_discord", r.discord = Unknown>>,
  <<"discord_not_from_patreon", r.from \notin {"patreon", "patron_signin"}>>,
  <<"discord_differs", r.reported \notin {Unknown, r.discord}>>,
  <<"discord_reported_for_other_patron", ReportedForOther(r)>>,
  <<"no_identity", r.steam \notin ValidIds \cup {Unknown}>>,
  <<"steam_on_another_record", HeldElsewhere(r)>>,
  <<"no_patreon_payment", ~Imported>>,
  <<"charge_reversed", pay.reversed>>,
  <<"payment_too_recent", pay.recent>>,
  <<"earlier_payment_other_record", other.earlier /\ SamePerson(r)>>,
  <<rule, rule # Unknown>> >>
<1> HIDE DEF table
<1>0. PICK tests : tests = table OBVIOUS
<1>1. DOMAIN tests = 1 .. 12 BY <1>0 DEF table
<1>2. AutomaticBlocker(r) = FirstOf(tests) BY <1>a, <1>0 DEF AutomaticBlocker, table
<1>3. /\ tests[1][1] = "not_patreon" /\ tests[2][1] = "no_discord" /\ tests[3][1] = "discord_not_from_patreon"
      /\ tests[4][1] = "discord_differs" /\ tests[5][1] = "discord_reported_for_other_patron"
      /\ tests[12][1] = rule
      /\ \A i \in 6 .. 11 : tests[i][1] \in
           {"no_identity", "steam_on_another_record", "no_patreon_payment", "charge_reversed", "payment_too_recent",
            "earlier_payment_other_record"}
  BY <1>0 DEF table
<1>4. /\ tests[1][2] <=> r.provider # "patreon"
      /\ tests[2][2] <=> r.discord = Unknown
      /\ tests[3][2] <=> r.from \notin {"patreon", "patron_signin"}
      /\ tests[4][2] <=> r.reported \notin {Unknown, r.discord}
      /\ tests[5][2] <=> ReportedForOther(r)
      /\ tests[12][2] <=> rule # Unknown
  BY <1>0 DEF table
<1>5. \/ AutomaticBlocker(r) = Unknown /\ \A i \in 1 .. 12 : ~tests[i][2]
      \/ \E i \in 1 .. 12 : tests[i][2] /\ AutomaticBlocker(r) = tests[i][1]
  <2>1. 12 \in Nat OBVIOUS
  <2>2. \/ FirstOf(tests) = Unknown /\ \A i \in 1 .. 12 : ~tests[i][2]
        \/ \E i \in 1 .. 12 : tests[i][2] /\ FirstOf(tests) = tests[i][1]
    BY <2>1, <1>1, FirstOfIs
  <2> QED BY <2>2, <1>2
<1>6. rule \notin {"discord_differs", "discord_reported_for_other_patron"} BY <1>a, FounderBlockerIs DEF Unknown
<1>7. \A i \in 1 .. 12 : tests[i][2] => tests[i][1] # Unknown
  <2> SUFFICES ASSUME NEW i \in 1 .. 12, tests[i][2] PROVE tests[i][1] # Unknown OBVIOUS
  <2>1. CASE i = 12 BY <2>1, <1>3, <1>4
  <2>2. CASE i \in 6 .. 11 BY <2>2, <1>3 DEF Unknown
  <2>3. CASE i \in 1 .. 5
    <3>1. i = 1 \/ i = 2 \/ i = 3 \/ i = 4 \/ i = 5 BY <2>3
    <3> QED BY <3>1, <1>3 DEF Unknown
  <2> QED BY <2>1, <2>2, <2>3
<1>8. AutomaticBlocker(r) = Unknown => \A i \in 1 .. 12 : ~tests[i][2] BY <1>5, <1>7
<1>9. AutomaticBlocker(r) = Unknown =>
        ~tests[1][2] /\ ~tests[2][2] /\ ~tests[3][2] /\ ~tests[4][2] /\ ~tests[12][2]
  BY <1>8
<1>10. \A i \in 1 .. 12 : (tests[i][1] = "discord_differs" => i = 4)
                          /\ (tests[i][1] = "discord_reported_for_other_patron" => i = 5)
  <2> SUFFICES ASSUME NEW i \in 1 .. 12
               PROVE  (tests[i][1] = "discord_differs" => i = 4)
                      /\ (tests[i][1] = "discord_reported_for_other_patron" => i = 5)
    OBVIOUS
  <2>1. CASE i = 12 BY <2>1, <1>3, <1>6
  <2>2. CASE i \in 6 .. 11 BY <2>2, <1>3
  <2>3. CASE i \in 1 .. 5
    <3>1. i = 1 \/ i = 2 \/ i = 3 \/ i = 4 \/ i = 5 BY <2>3
    <3> QED BY <3>1, <1>3
  <2> QED BY <2>1, <2>2, <2>3
<1>11. AutomaticBlocker(r) = "discord_differs" => tests[4][2]
  <2>1. "discord_differs" # Unknown BY DEF Unknown
  <2> QED BY <2>1, <1>5, <1>10
<1>12. AutomaticBlocker(r) = "discord_reported_for_other_patron" => tests[5][2]
  <2>1. "discord_reported_for_other_patron" # Unknown BY DEF Unknown
  <2> QED BY <2>1, <1>5, <1>10
<1>13. AutomaticBlocker(r) = Unknown =>
         /\ r.provider = "patreon" /\ r.discord # Unknown /\ r.from \in {"patreon", "patron_signin"}
         /\ r.reported \in {Unknown, r.discord} /\ rule = Unknown
  BY <1>4, <1>9
<1>14. r.provider # "patreon" => AutomaticBlocker(r) = "not_patreon"
  <2>1. 12 \in Nat /\ 12 > 0 OBVIOUS
  <2>2. tests[1][2] => FirstOf(tests) = tests[1][1] BY <2>1, <1>1, FirstWins
  <2> QED BY <2>2, <1>2, <1>3, <1>4
<1> QED BY <1>a, <1>4, <1>11, <1>12, <1>13, <1>14

LEMMA OfferedIs ==
  ASSUME StepsTypeOK
  PROVE  /\ Offered \in SteamIds \cup {Unknown} /\ Unknown \notin SteamIds
         /\ MatchBlock = Unknown => /\ Offered \in ValidIds /\ Offered # Unknown
                                    /\ ~Claimed(Offered) /\ ~HeldBack(Offered)
<1>1. Named \subseteq SteamIds BY DEF StepsTypeOK, ApplicationFacts, Named, Live, InStatus
<1>2. IsFiniteSet(Named) BY <1>1, StepsAssumption, FS_Subset
<1>3. Cardinality(Named) = 1 => Offered \in Named
  <2>1. Cardinality({}) = 0 BY FS_EmptySet
  <2>2. Cardinality(Named) = 1 => Named # {} BY <2>1
  <2> QED BY <2>2 DEF Offered
<1>4. Cardinality(Named) # 1 => Offered = Unknown BY DEF Offered
<1>5. Live # {} => Named # {} BY DEF Named
<1>6. Named # {} /\ ~(Cardinality(Named) > 1) => Cardinality(Named) = 1
  <2>1. Cardinality(Named) \in Nat BY <1>2, FS_CardinalityType
  <2>2. Cardinality(Named) = 0 => Named = {} BY <1>2, FS_EmptySet
  <2> QED BY <2>1, <2>2
<1>7. ASSUME MatchBlock = Unknown PROVE Offered \in Named
  <2>1. Live # {} /\ ~(Cardinality(Named) > 1) BY <1>7, MatchBlockIs
  <2> QED BY <2>1, <1>3, <1>5, <1>6
<1>8. MatchBlock = Unknown => Offered \in ValidIds /\ ~Claimed(Offered) /\ ~HeldBack(Offered)
  BY <1>7, MatchBlockIs
<1> QED BY <1>1, <1>3, <1>4, <1>8, StepsAssumption

\* Two records for which each test says the same.
LEMMA SameTests ==
  ASSUME NEW r, NEW s1, s1.provider = r.provider, s1.discord = r.discord, s1.reported = r.reported,
         s1.from \in {"patreon", "patron_signin"} <=> r.from \in {"patreon", "patron_signin"},
         s1.steam \in ValidIds \cup {Unknown} <=> r.steam \in ValidIds \cup {Unknown},
         SamePerson(s1) <=> SamePerson(r), HeldElsewhere(s1) <=> HeldElsewhere(r),
         ReportedForOther(s1) <=> ReportedForOther(r), FounderBlocker(pay, s1) = FounderBlocker(pay, r)
  PROVE  AutomaticBlocker(s1) = AutomaticBlocker(r)
<1>1. PICK rule : rule = FounderBlocker(pay, r) OBVIOUS
<1>2. AutomaticBlocker(r) = FirstOf(<<
    <<"not_patreon", r.provider # "patreon">>,
    <<"no_discord", r.discord = Unknown>>,
    <<"discord_not_from_patreon", r.from \notin {"patreon", "patron_signin"}>>,
    <<"discord_differs", r.reported \notin {Unknown, r.discord}>>,
    <<"discord_reported_for_other_patron", ReportedForOther(r)>>,
    <<"no_identity", r.steam \notin ValidIds \cup {Unknown}>>,
    <<"steam_on_another_record", HeldElsewhere(r)>>,
    <<"no_patreon_payment", ~Imported>>,
    <<"charge_reversed", pay.reversed>>,
    <<"payment_too_recent", pay.recent>>,
    <<"earlier_payment_other_record", other.earlier /\ SamePerson(r)>>,
    <<rule, rule # Unknown>> >>)
  BY <1>1 DEF AutomaticBlocker
<1>3. AutomaticBlocker(s1) = FirstOf(<<
    <<"not_patreon", s1.provider # "patreon">>,
    <<"no_discord", s1.discord = Unknown>>,
    <<"discord_not_from_patreon", s1.from \notin {"patreon", "patron_signin"}>>,
    <<"discord_differs", s1.reported \notin {Unknown, s1.discord}>>,
    <<"discord_reported_for_other_patron", ReportedForOther(s1)>>,
    <<"no_identity", s1.steam \notin ValidIds \cup {Unknown}>>,
    <<"steam_on_another_record", HeldElsewhere(s1)>>,
    <<"no_patreon_payment", ~Imported>>,
    <<"charge_reversed", pay.reversed>>,
    <<"payment_too_recent", pay.recent>>,
    <<"earlier_payment_other_record", other.earlier /\ SamePerson(s1)>>,
    <<rule, rule # Unknown>> >>)
  BY <1>1 DEF AutomaticBlocker
<1>4. AutomaticBlocker(s1) = AutomaticBlocker(r)
  <2>1. <<"not_patreon", s1.provider # "patreon">> = <<"not_patreon", r.provider # "patreon">>
    OBVIOUS
  <2>2. <<"no_discord", s1.discord = Unknown>> = <<"no_discord", r.discord = Unknown>>
    OBVIOUS
  <2>3. <<"discord_not_from_patreon", s1.from \notin {"patreon", "patron_signin"}>> = <<"discord_not_from_patreon", r.from \notin {"patreon", "patron_signin"}>>
    OBVIOUS
  <2>4. <<"discord_differs", s1.reported \notin {Unknown, s1.discord}>> = <<"discord_differs", r.reported \notin {Unknown, r.discord}>>
    OBVIOUS
  <2>5. <<"discord_reported_for_other_patron", ReportedForOther(s1)>> = <<"discord_reported_for_other_patron", ReportedForOther(r)>>
    BY DEF ReportedForOther
  <2>6. <<"no_identity", s1.steam \notin ValidIds \cup {Unknown}>> = <<"no_identity", r.steam \notin ValidIds \cup {Unknown}>>
    OBVIOUS
  <2>7. <<"steam_on_another_record", HeldElsewhere(s1)>> = <<"steam_on_another_record", HeldElsewhere(r)>>
    BY DEF HeldElsewhere
  <2>8. <<"earlier_payment_other_record", other.earlier /\ SamePerson(s1)>> =
        <<"earlier_payment_other_record", other.earlier /\ SamePerson(r)>>
    OBVIOUS
  <2> QED BY <1>2, <1>3, <2>1, <2>2, <2>3, <2>4, <2>5, <2>6, <2>7, <2>8
<1> QED BY <1>4

\* A SteamID that may be copied changes none of the tests.
LEMMA FillNeutral ==
  ASSUME StepsTypeOK, NEW r \in OwnRecords, FillAllowed(r)
  PROVE  AutomaticBlocker([r EXCEPT !.steam = Offered, !.copied = TRUE]) = AutomaticBlocker(r)
<1> PICK filled : filled = [r EXCEPT !.steam = Offered, !.copied = TRUE] OBVIOUS
<1>1. r.steam = Unknown /\ MatchBlock = Unknown /\ r.discord # Unknown BY DEF FillAllowed
<1>2. /\ Offered \in ValidIds /\ Offered # Unknown /\ ~Claimed(Offered) /\ other.steam # Offered /\ Unknown \notin SteamIds
  BY <1>1, OfferedIs DEF HeldBack
<1>3. /\ filled.provider = r.provider /\ filled.discord = r.discord /\ filled.from = r.from
      /\ filled.reported = r.reported /\ filled.steam = Offered
  BY DEF OwnRecords
<1>4. other.applied \subseteq SteamIds /\ \A a \in apps : a.steam # Unknown
  BY <1>2 DEF StepsTypeOK, RecordsBeside, ApplicationFacts
<1>5. SamePerson(filled) <=> SamePerson(r) BY <1>1, <1>2, <1>3 DEF SamePerson
<1>6. ~Claimed(r.steam) /\ ~Claimed(filled.steam) BY <1>1, <1>2, <1>3, <1>4 DEF Claimed
<1>7. Identity(r) /\ Identity(filled) BY <1>1, <1>2, <1>3 DEF Identity
<1>8. HeldElsewhere(filled) <=> HeldElsewhere(r) BY <1>1, <1>2, <1>3, <1>4 DEF HeldElsewhere, HeldBack
<1>9. ReportedForOther(filled) <=> ReportedForOther(r) BY <1>3 DEF ReportedForOther
<1>10. filled.steam \in ValidIds \cup {Unknown} /\ r.steam \in ValidIds \cup {Unknown} BY <1>1, <1>2, <1>3
<1>11. FounderBlocker(pay, filled) = FounderBlocker(pay, r) BY <1>5, <1>6, <1>7 DEF FounderBlocker
<1>12. AutomaticBlocker(filled) = AutomaticBlocker(r) BY <1>3, <1>5, <1>8, <1>9, <1>10, <1>11, SameTests
<1> QED BY <1>12

LEMMA SyncSteps ==
  ASSUME StepsTypeOK, NEW r \in OwnRecords
  PROVE  /\ Linked(r) \in OwnRecords /\ Linked(r).steam = r.steam /\ Linked(r).provider = r.provider
         /\ Linked(r).founder = r.founder /\ (r.discord # Unknown => Linked(r).discord = r.discord)
         /\ Filled(r) \in OwnRecords /\ Filled(r).discord = r.discord /\ Filled(r).founder = r.founder
         /\ Promised(r) \in OwnRecords /\ Promised(r).discord = r.discord /\ Promised(r).steam = r.steam
<1>1. /\ Linked(r) \in OwnRecords /\ Linked(r).steam = r.steam /\ Linked(r).provider = r.provider
      /\ Linked(r).founder = r.founder /\ (r.discord # Unknown => Linked(r).discord = r.discord)
  <2>1. CASE r.provider = "patreon" /\ set.import /\ r.reported = "x" /\ ~ReportedElsewhere /\ r.discord \in {Unknown, "x"}
    <3> PICK from : from = IF r.from = "patron_signin" THEN r.from ELSE "patreon" OBVIOUS
    <3>1. from \in {"patreon", "patron_signin"} OBVIOUS
    <3>2. Linked(r) = [r EXCEPT !.discord = "x", !.from = from] BY <2>1 DEF Linked
    <3> QED BY <2>1, <3>1, <3>2 DEF OwnRecords, Unknown
  <2>2. CASE Linked(r) = r BY <2>2
  <2> QED BY <2>1, <2>2 DEF Linked
<1>2. Filled(r) \in OwnRecords /\ Filled(r).discord = r.discord /\ Filled(r).founder = r.founder
  BY OfferedIs DEF Filled, OwnRecords
<1>3. Promised(r) \in OwnRecords /\ Promised(r).discord = r.discord /\ Promised(r).steam = r.steam
  BY DEF Promised, OwnRecords
<1> QED BY <1>1, <1>2, <1>3

LEMMA StepsStart == StepsInit => StepsTypeOK
BY StepsAssumption DEF StepsInit, StepsTypeOK

LEMMA StepsStay == StepsTypeOK /\ [StepsNext]_stepVars => StepsTypeOK'
<1> SUFFICES ASSUME StepsTypeOK, [StepsNext]_stepVars PROVE StepsTypeOK' OBVIOUS
<1>1. me \in OwnRecords /\ apps \subseteq ApplicationFacts /\ pay \in PaymentFacts BY DEF StepsTypeOK
<1>2. CASE UNCHANGED stepVars BY <1>2 DEF StepsTypeOK, stepVars
<1>3. ASSUME NEW r \in OwnRecords, me' = r, UNCHANGED <<apps, other, pay, set>> PROVE StepsTypeOK'
  BY <1>3 DEF StepsTypeOK
<1>4. CASE Sync
  <2>1. Synced \in OwnRecords BY <1>1, SyncSteps DEF Synced
  <2> QED BY <2>1, <1>3, <1>4 DEF Sync
<1>5. CASE Match
  <2>1. Promised(Filled(me)) \in OwnRecords BY <1>1, SyncSteps
  <2> QED BY <2>1, <1>3, <1>5 DEF Match
<1>6. CASE PaymentSettles BY <1>1, <1>6 DEF PaymentSettles, PaymentFacts, StepsTypeOK
<1>7. CASE ReviewApplication
  <2>1. PICK a \in apps, status1 \in {"approved", "declined"} : apps' = (apps \ {a}) \cup {[a EXCEPT !.status = status1]}
    BY <1>7 DEF ReviewApplication
  <2>2. [a EXCEPT !.status = status1] \in ApplicationFacts BY <1>1 DEF ApplicationFacts, Statuses
  <2> QED BY <2>1, <2>2, <1>1, <1>7 DEF ReviewApplication, StepsTypeOK
<1>8. CASE StaffLinks
  <2>1. SteamOffered \in SteamIds \cup {Unknown} BY OfferedIs DEF SteamOffered
  <2>2. [me EXCEPT !.discord = "x", !.from = "staff", !.refused = FALSE] \in OwnRecords BY <1>1 DEF OwnRecords, Unknown
  <2>3. [me EXCEPT !.steam = SteamOffered, !.copied = FALSE, !.refused = FALSE] \in OwnRecords
    BY <1>1, <2>1 DEF OwnRecords
  <2> QED BY <2>2, <2>3, <1>3, <1>8 DEF StaffLinks
<1>9. CASE MakeFounder
  <2>1. [me EXCEPT !.founder = TRUE] \in OwnRecords BY <1>1 DEF OwnRecords
  <2> QED BY <2>1, <1>3, <1>9 DEF MakeFounder
<1> QED BY <1>2, <1>4, <1>5, <1>6, <1>7, <1>8, <1>9 DEF StepsNext

\* A record that would be a founder still would after the import and the SteamID.
LEMMA LinkNeutral ==
  ASSUME StepsTypeOK, NEW r \in OwnRecords, AutomaticBlocker(r) = Unknown
  PROVE  AutomaticBlocker(Filled(Linked(r))) = Unknown
<1>1. /\ r.provider = "patreon" /\ r.discord = "x" /\ r.from \in {"patreon", "patron_signin"}
      /\ r.reported \in {Unknown, "x"}
  BY AutomaticBlockerIs DEF OwnRecords
<1>2. Linked(r) = r \/ Linked(r) = [r EXCEPT !.from = "patreon"] \/ Linked(r) = [r EXCEPT !.discord = "x", !.from = "patreon"]
      \/ Linked(r) = [r EXCEPT !.discord = "x", !.from = r.from]
  BY DEF Linked
<1>3. [r EXCEPT !.discord = "x", !.from = r.from] = r /\ [r EXCEPT !.discord = "x", !.from = "patreon"] = [r EXCEPT !.from = "patreon"]
  BY <1>1 DEF OwnRecords
<1> PICK linked : linked = Linked(r) OBVIOUS
<1>4. linked \in OwnRecords BY SyncSteps
<1>5. /\ linked.provider = r.provider /\ linked.discord = r.discord /\ linked.reported = r.reported
      /\ linked.steam = r.steam /\ linked.from \in {"patreon", "patron_signin"}
  BY <1>1, <1>2, <1>3 DEF OwnRecords
<1>6. FounderBlocker(pay, linked) = FounderBlocker(pay, r)
  BY <1>5 DEF FounderBlocker, Identity, SamePerson
<1>7. HeldElsewhere(linked) <=> HeldElsewhere(r) BY <1>5 DEF HeldElsewhere
<1>8. ReportedForOther(linked) <=> ReportedForOther(r) BY <1>5 DEF ReportedForOther
<1>9. SamePerson(linked) <=> SamePerson(r) BY <1>5 DEF SamePerson
<1>10. AutomaticBlocker(linked) = AutomaticBlocker(r) BY <1>1, <1>5, <1>6, <1>7, <1>8, <1>9, SameTests
<1>11. CASE FillAllowed(linked)
  BY <1>10, <1>11, <1>4, FillNeutral DEF Filled
<1>12. CASE ~FillAllowed(linked) BY <1>10, <1>12 DEF Filled
<1> QED BY <1>11, <1>12

\* What the page says that Gramps does, the next sync does.
LEMMA WordIsKept == StepsTypeOK => WordKept
<1> SUFFICES ASSUME StepsTypeOK, set.import PROVE
       /\ Step("founder", "ready_automatic") \in Steps => Synced.founder
       /\ Step("steam", "steam_ready_automatic") \in Steps => Synced.steam # Unknown
       /\ me.reported # Unknown /\ Step("discord", "connect_discord_in_patreon") \in Steps => Synced.discord = me.reported
  BY DEF WordKept
<1>1. me \in OwnRecords BY DEF StepsTypeOK
<1>2. Linked(me) \in OwnRecords /\ Filled(Linked(me)) \in OwnRecords BY <1>1, SyncSteps
<1>3. ASSUME Step("founder", "ready_automatic") \in Steps PROVE Synced.founder
  <2>1. Step("founder", "ready_automatic") \in FounderSteps
    <3>1. \A s \in DiscordSteps : s.area = "discord" BY DEF DiscordSteps, Step, StepIf
    <3>2. \A s \in SteamSteps : s.area = "steam" BY DEF SteamSteps, ApplicationStep, Step, StepIf
    <3>3. Step("founder", "ready_automatic").area = "founder" BY DEF Step
    <3> QED BY <1>3, <3>1, <3>2, <3>3 DEF Steps
  <2>2. StaffReason = Unknown
    <3>1. StaffReason # "ready_automatic" BY FounderBlockerIs DEF StaffReason, Unknown
    <3>2. CASE me.founder BY <2>1, <3>2 DEF FounderSteps, StepIf, Step
    <3> QED BY <2>1, <3>1, <3>2 DEF FounderSteps, Step
  <2>3. Step("founder", "ready_automatic") \in AutomaticStep BY <2>1, <2>2 DEF FounderSteps, StepIf, Step
  <2>4. AutomaticBlocker(me) = Unknown /\ set.auto
    BY <2>3 DEF AutomaticStep, Step, StepIf
  <2>5. AutomaticBlocker(Filled(Linked(me))) = Unknown BY <1>1, <2>4, LinkNeutral
  <2> QED BY <1>2, <2>4, <2>5 DEF Synced, Promised, OwnRecords
<1>4. ASSUME Step("steam", "steam_ready_automatic") \in Steps PROVE Synced.steam # Unknown
  <2>1. Step("steam", "steam_ready_automatic") \in SteamSteps
    <3>1. \A s \in DiscordSteps : s.area = "discord" BY DEF DiscordSteps, Step, StepIf
    <3>2. \A s \in FounderSteps : s.area # "steam"
      BY DEF FounderSteps, AutomaticStep, ReasonArea, Step, StepIf
    <3>3. Step("steam", "steam_ready_automatic").area = "steam" BY DEF Step
    <3> QED BY <1>4, <3>1, <3>2, <3>3 DEF Steps
  <2>2. me.steam = Unknown /\ me.discord # Unknown /\ Step("steam", "steam_ready_automatic") = ApplicationStep
    BY <2>1 DEF SteamSteps, StepIf, Step
  <2>3. MatchBlock = Unknown /\ me.provider = "patreon" /\ set.fill
    BY <2>2, MatchBlockIs DEF ApplicationStep, Step
  <2> PICK linked : linked = Linked(me) OBVIOUS
  <2>4. linked \in OwnRecords /\ FillAllowed(linked) BY <1>1, <1>2, <2>2, <2>3, SyncSteps DEF FillAllowed
  <2>5. Filled(linked).steam = Offered BY <2>3, <2>4 DEF Filled, OwnRecords
  <2>6. Offered # Unknown BY <2>3, OfferedIs
  <2> QED BY <1>2, <2>5, <2>6, SyncSteps DEF Synced
<1>5. ASSUME me.reported # Unknown, Step("discord", "connect_discord_in_patreon") \in Steps
      PROVE  Synced.discord = me.reported
  <2>1. Step("discord", "connect_discord_in_patreon") \in DiscordSteps
    <3>1. \A s \in SteamSteps : s.area = "steam" BY DEF SteamSteps, ApplicationStep, Step, StepIf
    <3>2. \A s \in FounderSteps : s.area # "discord"
      BY DEF FounderSteps, AutomaticStep, ReasonArea, Step, StepIf
    <3>3. Step("discord", "connect_discord_in_patreon").area = "discord" BY DEF Step
    <3> QED BY <1>5, <3>1, <3>2, <3>3 DEF Steps
  <2>2. me.discord = Unknown /\ me.provider = "patreon" /\ ~ReportedElsewhere
    BY <2>1, <1>1 DEF DiscordSteps, Step, StepIf, OwnRecords, Providers
  <2>3. me.reported = "x" BY <1>1, <1>5, <2>2 DEF OwnRecords, DiscordAccounts
  <2>4. Linked(me).discord = "x" BY <1>1, <2>2, <2>3 DEF Linked, OwnRecords
  <2> QED BY <1>2, <2>3, <2>4, SyncSteps DEF Synced
<1> QED BY <1>3, <1>4, <1>5

LEMMA FounderIsOnce == FounderOnce
<1>1. AutomaticBlocker(me) = Unknown => FounderBlocker(pay, me) = Unknown BY AutomaticBlockerIs
<1>2. FounderBlocker(pay, me) = Unknown => ~(other.founder /\ SamePerson(me)) BY FounderBlockerIs
<1> QED BY <1>1, <1>2 DEF FounderOnce, MakeFounderOffered, StaffReason

\* Whose turn it is.
LEMMA TurnOf ==
  ASSUME NEW area \in {"discord", "steam", "founder"}, NEW code, Step(area, code) \in Steps,
         code \notin LaterCodes \cup {"window_not_configured"}
  PROVE  Needs \cup Waiting # {}
<1>1. Step(area, code).area = area /\ Step(area, code).code = code BY DEF Step
<1>2. Step(area, code) \notin Notes BY <1>1 DEF Notes
<1>3. Step(area, code) \notin Later BY <1>1 DEF Later
<1> QED BY <1>2, <1>3 DEF Needs

LEMMA NobodyIsForgotten == StepsTypeOK => NobodyForgotten
<1> SUFFICES ASSUME StepsTypeOK, Needs \cup Waiting = {}
             PROVE  (me.founder /\ me.discord # Unknown) \/ (~me.founder /\ Notes # {})
  BY DEF NobodyForgotten
<1>1. me \in OwnRecords BY DEF StepsTypeOK
<1>2. CASE me.founder
  <2>1. CASE me.discord = Unknown
    <3>1. Step("founder", "needs_discord") \in Steps BY <1>2, <2>1 DEF Steps, FounderSteps, StepIf
    <3>2. "needs_discord" \notin LaterCodes \cup {"window_not_configured"} BY DEF LaterCodes
    <3> QED BY <3>1, <3>2, TurnOf
  <2> QED BY <1>2, <2>1
<1>3. CASE ~me.founder /\ StaffReason # Unknown
  <2>1. Step(ReasonArea, StaffReason) \in Steps BY <1>3 DEF Steps, FounderSteps
  <2>2. ReasonArea \in {"founder", "info", "payment"} BY DEF ReasonArea
  <2>3. CASE ReasonArea \in {"info", "payment"}
    <3>1. Step(ReasonArea, StaffReason) \in Notes BY <2>1, <2>3 DEF Notes, Step
    <3> QED BY <3>1, <1>3
  <2>4. CASE ReasonArea = "founder"
    <3>1. CASE StaffReason = "window_not_configured"
      <4>1. Step(ReasonArea, StaffReason) \in Notes BY <2>1, <3>1 DEF Notes, Step
      <4> QED BY <4>1, <1>3
    <3>2. CASE StaffReason # "window_not_configured"
      <4>1. StaffReason \notin LaterCodes \cup {"window_not_configured"}
        BY <1>3, <3>2, FounderBlockerIs DEF StaffReason, LaterCodes
      <4> QED BY <2>1, <2>4, <4>1, TurnOf
    <3> QED BY <3>1, <3>2
  <2> QED BY <2>2, <2>3, <2>4
<1>4. CASE ~me.founder /\ StaffReason = Unknown
  <2>1. AutomaticStep \subseteq Steps BY <1>4 DEF Steps, FounderSteps
  <2> PICK automatic : automatic = AutomaticBlocker(me) OBVIOUS
  <2>2. CASE \E s \in AutomaticStep : s.area = "info"
    <3>1. Notes # {} BY <2>1, <2>2 DEF Notes
    <3> QED BY <3>1, <1>4
  <2>3. ASSUME NEW code \in {"ready_staff", "ready_automatic_off", "ready_automatic", "automatic_waiting",
                             "waiting_patreon", "waiting_discord", "steam_on_another"},
               Step("founder", code) \in AutomaticStep
        PROVE  FALSE
    <3>1. code \notin LaterCodes \cup {"window_not_configured"} BY DEF LaterCodes
    <3> QED BY <2>1, <2>3, <3>1, TurnOf
  <2>4. CASE automatic \in {"discord_differs", "discord_reported_for_other_patron"} /\ me.provider = "patreon"
    <3>1. CASE me.discord = Unknown
      <4>1. \E code \in {"discord_on_another_record", "connect_discord_in_patreon", "link_discord_no_import"} :
              Step("discord", code) \in DiscordSteps
        BY <2>4, <3>1 DEF DiscordSteps
      <4>2. PICK code \in {"discord_on_another_record", "connect_discord_in_patreon", "link_discord_no_import"} :
              Step("discord", code) \in Steps
        BY <4>1 DEF Steps
      <4>3. code \notin LaterCodes \cup {"window_not_configured"} BY DEF LaterCodes
      <4> QED BY <4>2, <4>3, TurnOf
    <3>2. CASE me.discord # Unknown
      <4>1. automatic = "discord_differs" => me.reported \notin {Unknown, me.discord} BY AutomaticBlockerIs
      <4>2. automatic = "discord_reported_for_other_patron" => ReportedForOther(me) BY AutomaticBlockerIs
      <4>3. \E code \in {"discord_differs", "discord_reported_for_other_patron"} : Step("discord", code) \in DiscordSteps
        BY <2>4, <3>2, <4>1, <4>2 DEF DiscordSteps, StepIf
      <4>4. PICK code \in {"discord_differs", "discord_reported_for_other_patron"} : Step("discord", code) \in Steps
        BY <4>3 DEF Steps
      <4>5. code \notin LaterCodes \cup {"window_not_configured"} BY DEF LaterCodes
      <4> QED BY <4>4, <4>5, TurnOf
    <3> QED BY <3>1, <3>2
  <2>5. CASE Step("steam", "steam_on_another_record") \in SteamSteps
    <3>1. Step("steam", "steam_on_another_record") \in Steps BY <2>5 DEF Steps
    <3>2. "steam_on_another_record" \notin LaterCodes \cup {"window_not_configured"} BY DEF LaterCodes
    <3> QED BY <3>1, <3>2, TurnOf
  <2>6. ASSUME ~(automatic \in {"discord_differs", "discord_reported_for_other_patron"} /\ me.provider = "patreon"),
               Step("steam", "steam_on_another_record") \notin SteamSteps
        PROVE  \/ \E s \in AutomaticStep : s.area = "info"
               \/ \E code \in {"ready_staff", "ready_automatic_off", "ready_automatic", "automatic_waiting",
                               "waiting_patreon", "waiting_discord", "steam_on_another"} :
                    Step("founder", code) \in AutomaticStep
    <3>1. CASE me.provider # "patreon"
      <4>1. automatic = "not_patreon" BY <3>1, AutomaticBlockerIs
      <4>2. Step("founder", "ready_staff") \in AutomaticStep BY <3>1, <4>1 DEF AutomaticStep, Unknown
      <4> QED BY <4>2
    <3>2. CASE me.provider = "patreon" /\ automatic \in {Unknown, "payment_too_recent"}
      <4>1. PICK code : code = IF ~set.auto THEN "ready_automatic_off"
                               ELSE IF automatic = Unknown THEN "ready_automatic" ELSE "automatic_waiting"
        OBVIOUS
      <4>2. Step("founder", code) \in AutomaticStep BY <3>2, <4>1 DEF AutomaticStep, Unknown
      <4>3. code \in {"ready_automatic_off", "ready_automatic", "automatic_waiting"} BY <4>1
      <4> QED BY <4>2, <4>3
    <3>3. CASE me.provider = "patreon" /\ automatic = "charge_reversed"
      <4>1. Step("founder", "waiting_patreon") \in AutomaticStep BY <3>3 DEF AutomaticStep, Unknown
      <4> QED BY <4>1
    <3>4. CASE me.provider = "patreon" /\ automatic \in {"no_discord", "discord_not_from_patreon"}
      <4>1. Step("founder", "waiting_discord") \in AutomaticStep BY <3>4 DEF AutomaticStep, Unknown
      <4> QED BY <4>1
    <3>5. CASE me.provider = "patreon" /\ automatic = "steam_on_another_record"
      <4>1. Step("founder", "steam_on_another") \in AutomaticStep BY <2>6, <3>5 DEF AutomaticStep, Unknown, StepIf
      <4> QED BY <4>1
    <3>6. CASE me.provider = "patreon" /\ automatic = "earlier_payment_other_record"
      <4>1. Step("info", automatic) \in AutomaticStep BY <3>6 DEF AutomaticStep, Unknown
      <4>2. Step("info", automatic).area = "info" BY DEF Step
      <4> QED BY <4>1, <4>2
    <3>7. CASE /\ me.provider = "patreon"
               /\ automatic \notin {Unknown, "payment_too_recent", "charge_reversed", "no_discord",
                   "discord_not_from_patreon", "discord_differs", "discord_reported_for_other_patron",
                   "steam_on_another_record", "earlier_payment_other_record"}
      <4>1. Step("founder", "ready_staff") \in AutomaticStep BY <3>7 DEF AutomaticStep
      <4> QED BY <4>1
    <3> QED BY <2>6, <3>1, <3>2, <3>3, <3>4, <3>5, <3>6, <3>7
  <2> QED BY <2>2, <2>3, <2>4, <2>5, <2>6
<1> QED BY <1>2, <1>3, <1>4

LEMMA StepsGive == StepsTypeOK => StepsTrue
<1> SUFFICES ASSUME StepsTypeOK PROVE StepsTrue OBVIOUS
<1>1. FillDecidesNothing
  <2>1. me \in OwnRecords BY DEF StepsTypeOK
  <2> QED BY <2>1, FillNeutral DEF FillDecidesNothing
<1> QED BY <1>1, WordIsKept, FounderIsOnce, NobodyIsForgotten DEF StepsTrue

-----------------------------------------------------------------------------
(* The record, the entries and the next steps *)

SupportersInv == RecordInv /\ EntryInv /\ StepsTypeOK

LEMMA SupportersStart == Init => SupportersInv
BY RecordStarts, EntryStarts, StepsStart DEF Init, SupportersInv

\* Each of the three steps by itself.
LEMMA SupportersKeep == SupportersInv /\ [Next]_vars => SupportersInv'
<1> SUFFICES ASSUME SupportersInv, [Next]_vars PROVE SupportersInv' OBVIOUS
<1>1. CASE UNCHANGED vars
  <2>1. UNCHANGED recordVars /\ UNCHANGED entryVars /\ UNCHANGED stepVars BY <1>1 DEF vars
  <2> QED BY <2>1, RecordKeeps, EntryKeeps, StepsStay DEF SupportersInv
<1>2. CASE Next
  <2>1. [RecordNext]_recordVars /\ [EntryNext]_entryVars /\ [StepsNext]_stepVars BY <1>2 DEF Next
  <2> QED BY <2>1, RecordKeeps, EntryKeeps, StepsStay DEF SupportersInv
<1> QED BY <1>1, <1>2

\* For any number of charges, any entries and any facts to start from: a record holds the newest charge observed and a
\* whole sync corrects it, and a review stands only for a page that showed everything observed; a desk hears "saved" of
\* an entry that is on record and "refused" of none it sent before, and a promise rests on a first payment in the
\* founder window; the page, the matching and the staff rule agree on every record, so that none is forgotten and
\* nobody is made a founder twice (supporters.store.ts, supporter-match.rules.ts, the dashboard's policy.ts).
THEOREM SupportersAreTrue == Spec => []SupportersTrue
<1>1. SupportersInv => SupportersTrue BY RecordGives, EntryGives, StepsGive DEF SupportersInv, SupportersTrue
<1> QED BY <1>1, SupportersStart, SupportersKeep, PTL DEF Spec

-----------------------------------------------------------------------------
(* The voting form *)

Forms == [version : 0 .. MaxSaves, doc : Docs, base : Docs]
Saves == [step : {"sent", "checked", "saved"}, by : Panels \cup {Nobody}, version : 0 .. MaxSaves, doc : Docs, base : Docs]
StoredRows == [doc : Docs, version : 0 .. MaxSaves, here : BOOLEAN]
PanelStates == [unsure : BOOLEAN, replacing : BOOLEAN, waiting : BOOLEAN]
ControlsShape ==
  /\ saved \in StoredRows /\ page \in [Panels -> PageReads(Snapshots)] /\ own \in [Panels -> 0 .. MaxSaves]
  /\ form \in [Panels -> {NoForm} \cup Forms] /\ panel \in [Panels -> PanelStates]
  /\ post \in [Posts -> {NoPost, Done} \cup Saves]

\* A panel waits for its one save.
Awaited(r, d) == post[r] \in Saves /\ post[r].by = d
OneSave ==
  /\ \A d \in Panels : panel[d].waiting <=> \E r \in Posts : Awaited(r, d)
  /\ \A d \in Panels : \A r, s \in Posts : Awaited(r, d) /\ Awaited(s, d) => r = s

\* What a page, a form or a save has of the stored version shows that version's switches.
Agrees(version, doc) == version <= saved.version /\ (version = saved.version => doc.on = saved.doc.on)
BasesTrue ==
  /\ \A d \in Panels : page[d].data \in Snapshots => Agrees(page[d].data.version, page[d].data.doc)
  /\ \A d \in Panels : form[d] \in Forms => Agrees(form[d].version, form[d].base)
  /\ \A r \in Posts : post[r] \in Saves => Agrees(post[r].version, post[r].base)

\* A panel that shows less than it saved is replacing what it shows.
OwnShown ==
  /\ \A d \in Panels : own[d] <= saved.version
  /\ \A r \in Posts : post[r] \in Saves /\ post[r].step = "saved" => post[r].version < saved.version
  /\ \A d \in Panels : page[d].data \in Snapshots /\ ~panel[d].replacing => own[d] <= page[d].data.version
  /\ \A d \in Panels : form[d] \in Forms => own[d] <= form[d].version

\* Voting is switched on only at the connection it is saved for.
CheckedHere == \A r \in Posts : post[r] \in Saves /\ post[r].step = "checked" /\ post[r].doc.on => saved.here

ControlsInv == ControlsShape /\ OneSave /\ BasesTrue /\ OwnShown /\ CheckedHere

LEMMA ControlNames ==
  /\ MaxSaves \in Nat /\ 1 <= MaxSaves /\ Held \in BOOLEAN /\ Nobody \notin Panels /\ FirstDocs \subseteq Docs
  /\ Defaults \in Docs /\ NoForm \notin Forms /\ NoForm.version = -1 /\ {NoPost, Done} \cap Saves = {} /\ NoPost # Done
  /\ Unread \notin Snapshots /\ Quiet \in PanelStates
  /\ \A doc \in Docs : doc.on \in BOOLEAN /\ [Defaults EXCEPT !.on = doc.on] \in Docs /\ [Defaults EXCEPT !.on = doc.on].on = doc.on
<1>1. Defaults \in Docs BY DEF Defaults, Docs
<1>2. NoForm.version = -1 /\ \A f \in Forms : f.version # -1 BY ControlsAssumption DEF NoForm, Forms
<1>3. NoPost.step = "none" /\ Done.step = "done" BY DEF NoPost, Done
<1>4. \A q \in Saves : q.step \notin {"none", "done"} BY DEF Saves
<1>5. Unread.version = -1 /\ \A s \in Snapshots : s.version # -1 BY ControlsAssumption DEF Unread, Snapshots
<1>6. Quiet \in PanelStates BY DEF Quiet, PanelStates
<1>7. ASSUME NEW doc \in Docs
      PROVE  /\ doc.on \in BOOLEAN /\ [Defaults EXCEPT !.on = doc.on] \in Docs /\ [Defaults EXCEPT !.on = doc.on].on = doc.on
  <2> PICK d : d = Defaults OBVIOUS
  <2> PICK z : z = [d EXCEPT !.on = doc.on] OBVIOUS
  <2>1. d \in Docs /\ doc.on \in BOOLEAN BY <1>1 DEF Docs
  <2>2. z \in Docs /\ z.on = doc.on BY <2>1 DEF Docs
  <2> QED BY <2>1, <2>2
<1> QED BY <1>1, <1>2, <1>3, <1>4, <1>5, <1>6, <1>7, ControlsAssumption

LEMMA ShownControls ==
  ASSUME saved \in StoredRows
  PROVE  /\ Controls \in Snapshots /\ Controls.version = saved.version /\ Controls.doc.on = saved.doc.on
<1> USE DEF StoredRows
<1>1. saved.doc \in Docs OBVIOUS
<1>2. PICK z : z = IF Readable THEN saved.doc ELSE [Defaults EXCEPT !.on = saved.doc.on] OBVIOUS
<1>3. z \in Docs /\ z.on = saved.doc.on BY <1>1, <1>2, ControlNames
<1>4. Controls = [version |-> saved.version, doc |-> z, ready |-> saved.here] BY <1>2 DEF Controls
<1> QED BY <1>3, <1>4 DEF Snapshots

LEMMA ControlsStart == ControlsInit => ControlsInv
<1> SUFFICES ASSUME ControlsInit PROVE ControlsInv OBVIOUS
<1> USE ControlNames DEF ControlsInit
<1>1. saved \in StoredRows /\ 0 <= saved.version
  <2>1. ASSUME NEW doc \in Docs, NEW v \in 0 .. MaxSaves, NEW h \in BOOLEAN, saved = [doc |-> doc, version |-> v, here |-> h]
        PROVE  saved \in StoredRows /\ 0 <= saved.version
    BY <2>1 DEF StoredRows
  <2>2. CASE saved = [doc |-> Defaults, version |-> 0, here |-> TRUE]
    <3>1. 0 \in 0 .. MaxSaves /\ Defaults \in Docs /\ TRUE \in BOOLEAN OBVIOUS
    <3> QED BY ONLY <2>1, <2>2, <3>1
  <2>3. CASE saved \in {[doc |-> d, version |-> 1, here |-> h] : d \in FirstDocs, h \in BOOLEAN} BY <2>1, <2>3
  <2> QED BY <2>2, <2>3
<1>2. ControlsShape
  BY <1>1 DEF ControlsShape, PageReads, FirstRead
<1>3. \A r \in Posts : post[r] \notin Saves OBVIOUS
<1>4. \A d \in Panels : page[d].data \notin Snapshots /\ form[d] \notin Forms BY DEF FirstRead
<1>5. OneSave BY <1>3 DEF OneSave, Awaited, Quiet
<1> QED BY <1>1, <1>2, <1>3, <1>4, <1>5 DEF ControlsInv, BasesTrue, OwnShown, CheckedHere

LEMMA ShowKeeps == ASSUME ControlsInv, NEW d \in Panels, Show(d) PROVE ControlsInv'
<1> PICK shows : shows = Controls OBVIOUS
<1>1. shows \in Snapshots /\ shows.version = saved.version /\ shows.doc.on = saved.doc.on
  BY ShownControls DEF ControlsInv, ControlsShape
<1>2. /\ page' = [page EXCEPT ![d] = [data |-> shows, asked |-> FALSE]]
      /\ panel' = [panel EXCEPT ![d].replacing = FALSE] /\ UNCHANGED <<saved, form, post, own>>
  BY DEF Show, ShownNow
<1>3. ControlsShape' BY <1>1, <1>2 DEF ControlsInv, ControlsShape, PageReads, PanelStates
<1>4. OneSave'
  <2>1. \A e \in Panels : panel'[e].waiting = panel[e].waiting BY <1>2 DEF ControlsInv, ControlsShape, PanelStates
  <2> QED BY <1>2, <2>1 DEF ControlsInv, OneSave, Awaited
<1>5. BasesTrue'
  BY <1>1, <1>2 DEF ControlsInv, ControlsShape, BasesTrue, Agrees, PageReads, StoredRows
<1>6. OwnShown' BY <1>1, <1>2 DEF ControlsInv, ControlsShape, OwnShown, PageReads, PanelStates, StoredRows
<1> QED BY <1>2, <1>3, <1>4, <1>5, <1>6 DEF ControlsInv, CheckedHere

LEMMA RefreshKeeps == ASSUME ControlsInv, NEW d \in Panels, Refresh(d) PROVE ControlsInv'
<1>1. page' = [page EXCEPT ![d].asked = TRUE] /\ UNCHANGED <<saved, form, panel, post, own>>
  BY DEF Refresh, AskedAgain
<1>2. \A e \in Panels : page'[e].data = page[e].data BY <1>1 DEF ControlsInv, ControlsShape, PageReads
<1>3. ControlsShape' BY <1>1 DEF ControlsInv, ControlsShape, PageReads
<1> QED BY <1>1, <1>2, <1>3 DEF ControlsInv, OneSave, Awaited, BasesTrue, Agrees, OwnShown, CheckedHere

LEMMA ReloadKeeps == ASSUME ControlsInv, NEW d \in Panels, Reload(d) PROVE ControlsInv'
<1> PICK held \in BOOLEAN : held = (page[d].data # Unread) OBVIOUS
<1> PICK quiet : quiet = Quiet OBVIOUS
<1> PICK state : state = [quiet EXCEPT !.replacing = held] OBVIOUS
<1>1. state \in PanelStates /\ state.replacing = held /\ state.waiting = FALSE
  <2>1. quiet \in PanelStates /\ ~quiet.waiting BY ControlNames DEF Quiet
  <2> QED BY <2>1 DEF PanelStates
<1>2. /\ page' = [page EXCEPT ![d].asked = TRUE] /\ form' = [form EXCEPT ![d] = NoForm] /\ ~panel[d].waiting
      /\ panel' = [panel EXCEPT ![d] = state]
      /\ UNCHANGED <<saved, post, own>>
  BY <1>1 DEF Reload, AskedAgain, Shown
<1>3. \A e \in Panels : page'[e].data = page[e].data BY <1>2 DEF ControlsInv, ControlsShape, PageReads
<1>4. ControlsShape' BY <1>1, <1>2 DEF ControlsInv, ControlsShape, PageReads, PanelStates
<1>5. \A e \in Panels : panel'[e].waiting = panel[e].waiting BY <1>1, <1>2 DEF ControlsInv, ControlsShape, PanelStates
<1>6. \A e \in Panels : form'[e] \in Forms => form'[e] = form[e] BY <1>2, ControlNames DEF ControlsInv, ControlsShape
<1>7. \A e \in Panels : page'[e].data \in Snapshots /\ ~panel'[e].replacing => ~panel[e].replacing
  BY <1>1, <1>2, <1>3, ControlNames DEF ControlsInv, ControlsShape, PanelStates
<1>8. OneSave' BY <1>2, <1>5 DEF ControlsInv, OneSave, Awaited
<1>9. BasesTrue' BY <1>2, <1>3, <1>6 DEF ControlsInv, BasesTrue, Agrees
<1>10. OwnShown' BY <1>2, <1>3, <1>6, <1>7 DEF ControlsInv, OwnShown
<1> QED BY <1>2, <1>4, <1>8, <1>9, <1>10 DEF ControlsInv, CheckedHere

LEMMA ChangeKeeps == ASSUME ControlsInv, NEW d \in Panels, Change(d) PROVE ControlsInv'
<1>1. page[d].data \in Snapshots /\ ~panel[d].replacing /\ (form[d] = NoForm \/ form[d] \in Forms)
  BY DEF ControlsInv, ControlsShape, PageReads, Change, Locked, Shown
<1> PICK data : data = page[d].data OBVIOUS
<1> PICK doc : doc = IF form[d] = NoForm THEN data.doc ELSE form[d].doc OBVIOUS
<1> PICK began : began = IF form[d] = NoForm THEN [version |-> data.version, base |-> data.doc] ELSE form[d] OBVIOUS
<1>2. doc \in Docs /\ began.version \in 0 .. MaxSaves /\ began.base \in Docs
  BY <1>1, ControlNames DEF Snapshots, Forms
<1>3. Agrees(began.version, began.base) /\ own[d] <= began.version
  BY <1>1 DEF ControlsInv, BasesTrue, OwnShown
<1> PICK f \in Switches \cup Numbers : \E next \in Edits(d, doc, f) :
        form' = [form EXCEPT ![d] = IF next = data.doc THEN NoForm
                                    ELSE [version |-> began.version, doc |-> next, base |-> began.base]]
  BY DEF Change
<1>4. PICK next \in Edits(d, doc, f) :
        form' = [form EXCEPT ![d] = IF next = data.doc THEN NoForm
                                    ELSE [version |-> began.version, doc |-> next, base |-> began.base]]
  OBVIOUS
<1>5. next \in Docs BY <1>2, <1>4 DEF Edits, Docs, Switches, Numbers
<1>6. UNCHANGED <<saved, page, panel, post, own>> BY DEF Change
<1>7. ControlsShape' BY <1>2, <1>4, <1>5, <1>6 DEF ControlsInv, ControlsShape, Forms
<1>8. \A e \in Panels : form'[e] \in Forms => form'[e] = form[e] \/ (e = d /\ form'[e].version = began.version /\ form'[e].base = began.base)
  BY <1>4, ControlNames DEF ControlsInv, ControlsShape
<1>9. BasesTrue' BY <1>3, <1>6, <1>8 DEF ControlsInv, BasesTrue, Agrees
<1>10. OwnShown' BY <1>3, <1>6, <1>8 DEF ControlsInv, OwnShown
<1> QED BY <1>6, <1>7, <1>9, <1>10 DEF ControlsInv, OneSave, Awaited, CheckedHere

LEMMA SendKeeps ==
  ASSUME ControlsInv, NEW d \in Panels, NEW r \in Posts, NEW version \in 0 .. MaxSaves, NEW doc \in Docs, NEW base \in Docs,
         Agrees(version, base), ~panel[d].waiting, SendSave(d, r, version, doc, base)
  PROVE  ControlsInv'
<1> PICK q : q = [step |-> "sent", by |-> d, version |-> version, doc |-> doc, base |-> base] OBVIOUS
<1>1. q \in Saves /\ q.by = d /\ q.step = "sent" /\ q.version = version /\ q.base = base BY DEF Saves
<1>2. /\ post[r] = NoPost /\ post' = [post EXCEPT ![r] = q] /\ panel' = [panel EXCEPT ![d].waiting = TRUE]
      /\ UNCHANGED <<saved, page, form, own>>
  BY DEF SendSave
<1> HIDE DEF SendSave
<1>3. ControlsShape' BY <1>1, <1>2 DEF ControlsInv, ControlsShape, PanelStates
<1>4. \A e \in Panels : panel'[e].waiting = (panel[e].waiting \/ e = d) /\ panel'[e].replacing = panel[e].replacing
  BY <1>2 DEF ControlsInv, ControlsShape, PanelStates
<1>5. \A s \in Posts : (s # r => post'[s] = post[s]) /\ post'[r] = q BY <1>2 DEF ControlsInv, ControlsShape
<1>6. \A s \in Posts : ~Awaited(s, d) BY DEF ControlsInv, OneSave
<1>7. \A s \in Posts, e \in Panels : Awaited(s, e)' <=> Awaited(s, e) \/ (s = r /\ e = d)
  BY <1>1, <1>2, <1>5, ControlNames DEF Awaited
<1>8. OneSave' BY <1>4, <1>6, <1>7 DEF ControlsInv, OneSave
<1>9. BasesTrue' BY <1>1, <1>2, <1>5 DEF ControlsInv, BasesTrue, Agrees
<1>10. OwnShown' BY <1>1, <1>2, <1>4, <1>5 DEF ControlsInv, OwnShown
<1>11. CheckedHere' BY <1>1, <1>2, <1>5 DEF ControlsInv, CheckedHere
<1> QED BY <1>3, <1>8, <1>9, <1>10, <1>11 DEF ControlsInv

LEMMA SavesKeep ==
  ASSUME ControlsInv, NEW d \in Panels, NEW r \in Posts, Save(d, r) \/ Resume(d, r) PROVE ControlsInv'
<1>1. CASE Save(d, r)
  <2>1. form[d] \in Forms BY <1>1 DEF ControlsInv, ControlsShape, Save
  <2>2. form[d].version \in 0 .. MaxSaves /\ form[d].doc \in Docs /\ form[d].base \in Docs BY <2>1 DEF Forms
  <2>3. Agrees(form[d].version, form[d].base) BY <2>1 DEF ControlsInv, BasesTrue
  <2> QED BY <1>1, <2>2, <2>3, SendKeeps DEF Save, MaySave
<1>2. CASE Resume(d, r)
  <2>1. page[d].data \in Snapshots BY <1>2 DEF ControlsInv, ControlsShape, Resume, MaySave, Steady, Shown, PageReads
  <2>2. page[d].data.version \in 0 .. MaxSaves /\ page[d].data.doc \in Docs BY <2>1 DEF Snapshots
  <2>3. Agrees(page[d].data.version, page[d].data.doc) BY <2>1 DEF ControlsInv, BasesTrue
  <2> QED BY <1>2, <2>2, <2>3, SendKeeps DEF Resume, MaySave
<1> QED BY <1>1, <1>2

\* A save that ends, or that its page gives up, is nobody's.
LEMMA EndingKeeps ==
  ASSUME ControlsInv, NEW r \in Posts, post[r] \in Saves, UNCHANGED <<saved, page, form, own>>, Unsure(r),
         NEW q \in {Done} \cup Saves, post' = [post EXCEPT ![r] = q],
         q \in Saves => q.by = Nobody /\ q.version = post[r].version /\ q.base = post[r].base /\ q.doc = post[r].doc
                        /\ q.step = post[r].step
  PROVE  ControlsInv'
<1> PICK by : by = post[r].by OBVIOUS
<1>1. by \in Panels \cup {Nobody} BY DEF Saves
<1>2. /\ \A e \in Panels : panel'[e].waiting = (panel[e].waiting /\ e # by) /\ panel'[e].replacing = panel[e].replacing
      /\ panel' \in [Panels -> PanelStates]
  <2>1. CASE by = Nobody
    <3>1. panel' = panel BY <2>1 DEF Unsure
    <3> QED BY <2>1, <3>1, ControlNames DEF ControlsInv, ControlsShape, PanelStates
  <2>2. CASE by # Nobody
    <3>1. panel' = [panel EXCEPT ![by].unsure = TRUE, ![by].waiting = FALSE] BY <2>2 DEF Unsure
    <3>2. by \in Panels /\ panel[by] \in PanelStates BY <1>1, <2>2 DEF ControlsInv, ControlsShape
    <3> PICK state : state = [panel[by] EXCEPT !.unsure = TRUE, !.waiting = FALSE] OBVIOUS
    <3>3. state \in PanelStates /\ state.waiting = FALSE /\ state.replacing = panel[by].replacing
      BY <3>2 DEF PanelStates
    <3>4. panel' = [panel EXCEPT ![by] = state] BY <3>1
    <3>5. \A e \in Panels : panel'[e] = IF e = by THEN state ELSE panel[e]
      BY <3>4 DEF ControlsInv, ControlsShape
    <3>6. panel' \in [Panels -> PanelStates] BY <3>3, <3>4 DEF ControlsInv, ControlsShape
    <3>7. \A e \in Panels : panel[e].waiting \in BOOLEAN BY DEF ControlsInv, ControlsShape, PanelStates
    <3> QED BY <3>3, <3>5, <3>6, <3>7
  <2> QED BY <2>1, <2>2
<1> HIDE DEF Unsure
<1>3. \A s \in Posts : (s # r => post'[s] = post[s]) /\ post'[r] = q BY DEF ControlsInv, ControlsShape
<1>4. ControlsShape' BY <1>2 DEF ControlsInv, ControlsShape
<1>5. \A s \in Posts, e \in Panels : Awaited(s, e)' <=> Awaited(s, e) /\ s # r
  BY <1>3, ControlNames DEF Awaited
<1>6. \A e \in Panels : e = by => Awaited(r, e) BY DEF Awaited
<1>7. OneSave'
  <2>1. \A e \in Panels : panel'[e].waiting <=> \E s \in Posts : Awaited(s, e)'
    <3> SUFFICES ASSUME NEW e \in Panels PROVE panel'[e].waiting <=> \E s \in Posts : Awaited(s, e)' OBVIOUS
    <3>1. CASE e = by
      <4>1. ~panel'[e].waiting BY <1>2, <3>1
      <4>2. \A s \in Posts : ~(Awaited(s, e) /\ s # r) BY <1>6, <3>1 DEF ControlsInv, OneSave
      <4> QED BY <4>1, <4>2, <1>5
    <3>2. CASE e # by
      <4>1. ~Awaited(r, e) BY <3>2 DEF Awaited
      <4> QED BY <1>2, <1>5, <3>2, <4>1 DEF ControlsInv, OneSave
    <3> QED BY <3>1, <3>2
  <2>2. \A e \in Panels : \A s, t \in Posts : Awaited(s, e)' /\ Awaited(t, e)' => s = t
    BY <1>5 DEF ControlsInv, OneSave
  <2> QED BY <2>1, <2>2 DEF OneSave
<1>8. \A s \in Posts : post'[s] \in Saves =>
        /\ post[s] \in Saves /\ post'[s].version = post[s].version /\ post'[s].base = post[s].base
        /\ post'[s].doc = post[s].doc /\ post'[s].step = post[s].step
  BY <1>3, ControlNames
<1>9. BasesTrue' BY <1>8 DEF ControlsInv, BasesTrue, Agrees
<1>10. OwnShown' BY <1>2, <1>8 DEF ControlsInv, OwnShown
<1>11. CheckedHere' BY <1>8 DEF ControlsInv, CheckedHere
<1> QED BY <1>4, <1>7, <1>9, <1>10, <1>11 DEF ControlsInv

LEMMA SaveRefused == ASSUME ControlsInv, NEW r \in Posts, post[r] \in Saves, Refuse(r) PROVE ControlsInv'
<1>1. Unsure(r) /\ post' = [post EXCEPT ![r] = Done] /\ UNCHANGED <<saved, page, form, own>> BY DEF Refuse
<1> HIDE DEF Refuse
<1>2. Done \notin Saves BY ControlNames
<1> QED BY <1>1, <1>2, EndingKeeps

LEMMA SaveUnconfirmed == ASSUME ControlsInv, NEW r \in Posts, Unconfirmed(r) PROVE ControlsInv'
<1>1. post[r] \in Saves BY DEF ControlsInv, ControlsShape, Unconfirmed, NoPost, Done
<1> PICK q : q = IF post[r].step = "saved" THEN Done ELSE [post[r] EXCEPT !.by = Nobody] OBVIOUS
<1>2. /\ q \in {Done} \cup Saves
      /\ q \in Saves => /\ q.by = Nobody /\ q.version = post[r].version /\ q.base = post[r].base /\ q.doc = post[r].doc
                        /\ q.step = post[r].step
  <2>1. CASE post[r].step = "saved" BY <2>1, ControlNames
  <2>2. CASE post[r].step # "saved"
    <3>1. q = [post[r] EXCEPT !.by = Nobody] BY <2>2
    <3> QED BY <1>1, <3>1 DEF Saves
  <2> QED BY <2>1, <2>2
<1>3. Unsure(r) /\ UNCHANGED <<saved, page, form, own>> /\ post' = [post EXCEPT ![r] = q] BY DEF Unconfirmed
<1> QED BY <1>1, <1>2, <1>3, EndingKeeps

LEMMA CheckKeeps == ASSUME ControlsInv, NEW r \in Posts, Check(r) PROVE ControlsInv'
<1>1. post[r] \in Saves BY DEF ControlsInv, ControlsShape, Check, NoPost, Done
<1>2. CASE Refuse(r) BY <1>1, <1>2, SaveRefused
<1>3. CASE Admitted(r) /\ post' = [post EXCEPT ![r].step = "checked"] /\ UNCHANGED <<saved, page, form, panel, own>>
  <2> PICK q : q = [post[r] EXCEPT !.step = "checked"] OBVIOUS
  <2>1. /\ q \in Saves /\ q.by = post[r].by /\ q.version = post[r].version /\ q.base = post[r].base /\ q.doc = post[r].doc
        /\ q.step = "checked"
    BY <1>1 DEF Saves
  <2>2. post' = [post EXCEPT ![r] = q] BY <1>3
  <2>3. \A s \in Posts : (s # r => post'[s] = post[s]) /\ post'[r] = q BY <2>2 DEF ControlsInv, ControlsShape
  <2>4. ControlsShape' BY <1>3, <2>1, <2>2 DEF ControlsInv, ControlsShape
  <2>5. \A s \in Posts, e \in Panels : Awaited(s, e)' <=> Awaited(s, e) BY <1>1, <2>1, <2>3 DEF Awaited
  <2>6. OneSave' BY <1>3, <2>5 DEF ControlsInv, OneSave
  <2>7. BasesTrue' BY <1>1, <1>3, <2>1, <2>3 DEF ControlsInv, BasesTrue, Agrees
  <2>8. OwnShown' BY <1>1, <1>3, <2>1, <2>3 DEF ControlsInv, OwnShown
  <2>9. CheckedHere' BY <1>1, <1>3, <2>1, <2>3 DEF ControlsInv, CheckedHere, Admitted
  <2> QED BY <2>4, <2>6, <2>7, <2>8, <2>9 DEF ControlsInv
<1> QED BY <1>2, <1>3 DEF Check

\* A save moves the version past all that pages, forms and other saves have.
LEMMA CommitKeeps == ASSUME ControlsInv, NEW r \in Posts, Commit(r) PROVE ControlsInv'
<1> PICK merged : merged = PatchMerged(post[r]) OBVIOUS
<1> PICK q : q = IF post[r].by = Nobody THEN Done ELSE [post[r] EXCEPT !.step = "saved"] OBVIOUS
<1>1. post[r] \in Saves /\ post[r].step = "checked"
  BY DEF ControlsInv, ControlsShape, Commit, NoPost, Done
<1>2. post[r].doc \in Docs /\ post[r].base \in Docs /\ saved.doc \in Docs /\ saved.version \in 0 .. MaxSaves
  BY <1>1 DEF Saves, StoredRows, ControlsInv, ControlsShape
<1>3. merged \in Docs
  <2>1. merged = [post[r].doc EXCEPT !.close = IF post[r].doc.close # post[r].base.close THEN post[r].doc.close ELSE saved.doc.close,
                                     !.ceiling = IF post[r].doc.ceiling # post[r].base.ceiling THEN post[r].doc.ceiling ELSE saved.doc.ceiling,
                                     !.offered = saved.doc.offered /\ ~Held]
    BY DEF PatchMerged
  <2> QED BY <1>2, <2>1 DEF Docs
<1>4. /\ saved' = [doc |-> merged, version |-> saved.version + 1, here |-> TRUE] /\ post' = [post EXCEPT ![r] = q]
      /\ UNCHANGED <<page, form, panel, own>> /\ post[r].version = saved.version /\ saved.version < MaxSaves
  BY DEF Commit, SameVersion
<1> HIDE DEF Commit
<1>5. saved' \in StoredRows /\ saved'.version = saved.version + 1 /\ saved'.here BY <1>2, <1>3, <1>4, ControlNames DEF StoredRows
<1>6. \A s \in Posts : (s # r => post'[s] = post[s]) /\ post'[r] = q BY <1>4 DEF ControlsInv, ControlsShape
<1>7. /\ q \in {Done} \cup Saves
      /\ post[r].by = Nobody => q \notin Saves
      /\ post[r].by # Nobody => /\ q \in Saves /\ q.by = post[r].by /\ q.version = post[r].version /\ q.base = post[r].base
                                /\ q.step = "saved"
  <2>1. CASE post[r].by = Nobody BY <2>1, ControlNames
  <2>2. CASE post[r].by # Nobody
    <3>1. q = [post[r] EXCEPT !.step = "saved"] BY <2>2
    <3> QED BY <1>1, <2>2, <3>1 DEF Saves
  <2> QED BY <2>1, <2>2
<1>8. ControlsShape' BY <1>4, <1>5, <1>7 DEF ControlsInv, ControlsShape
<1>9. \A s \in Posts, e \in Panels : Awaited(s, e)' <=> Awaited(s, e)
  BY <1>1, <1>6, <1>7, ControlNames DEF Awaited
<1>10. OneSave' BY <1>4, <1>9 DEF ControlsInv, OneSave
<1>11. \A s \in Posts : post'[s] \in Saves =>
        post[s] \in Saves /\ post'[s].version = post[s].version /\ post'[s].base = post[s].base
  BY <1>1, <1>6, <1>7
<1>12. \A version \in 0 .. MaxSaves, doc \in Docs : Agrees(version, doc) => Agrees(version, doc)'
  BY <1>2, <1>5 DEF Agrees
<1>13. BasesTrue'
  <2>1. \A d \in Panels : page[d].data \in Snapshots => page[d].data.version \in 0 .. MaxSaves /\ page[d].data.doc \in Docs
    BY DEF Snapshots
  <2>2. \A d \in Panels : form[d] \in Forms => form[d].version \in 0 .. MaxSaves /\ form[d].base \in Docs
    BY DEF Forms
  <2>3. \A s \in Posts : post[s] \in Saves => post[s].version \in 0 .. MaxSaves /\ post[s].base \in Docs
    BY DEF Saves
  <2>4. (\A d \in Panels : page[d].data \in Snapshots => Agrees(page[d].data.version, page[d].data.doc))'
    BY <1>4, <1>12, <2>1 DEF ControlsInv, BasesTrue
  <2>5. (\A d \in Panels : form[d] \in Forms => Agrees(form[d].version, form[d].base))'
    BY <1>4, <1>12, <2>2 DEF ControlsInv, BasesTrue
  <2>6. \A s \in Posts : post'[s] \in Saves =>
          /\ post'[s].version <= saved'.version
          /\ post'[s].version = saved'.version => post'[s].base.on = saved'.doc.on
    <3> SUFFICES ASSUME NEW s \in Posts, post[s] \in Saves, post'[s].version = post[s].version
                 PROVE  post[s].version <= saved'.version /\ post[s].version # saved'.version
      BY <1>11
    <3>1. post[s].version \in 0 .. MaxSaves /\ post[s].version <= saved.version
      BY <2>3 DEF ControlsInv, BasesTrue, Agrees
    <3> QED BY <1>2, <1>5, <3>1
  <2> QED BY <2>4, <2>5, <2>6 DEF BasesTrue, Agrees
<1>14. OwnShown'
  <2>1. \A d \in Panels : own'[d] <= saved'.version
    BY <1>2, <1>4, <1>5 DEF ControlsInv, ControlsShape, OwnShown
  <2>2. \A s \in Posts : post'[s] \in Saves /\ post'[s].step = "saved" => post'[s].version < saved'.version
    <3> SUFFICES ASSUME NEW s \in Posts, post[s] \in Saves PROVE post[s].version < saved'.version BY <1>11
    <3>1. post[s].version <= saved.version /\ post[s].version \in 0 .. MaxSaves
      BY DEF ControlsInv, BasesTrue, Agrees, Saves
    <3> QED BY <1>2, <1>5, <3>1
  <2> QED BY <1>4, <2>1, <2>2 DEF ControlsInv, OwnShown
<1>15. CheckedHere' BY <1>5 DEF CheckedHere
<1> QED BY <1>8, <1>10, <1>13, <1>14, <1>15 DEF ControlsInv

LEMMA ConfirmedKeeps == ASSUME ControlsInv, NEW r \in Posts, Confirmed(r) PROVE ControlsInv'
<1>1. post[r] \in Saves /\ post[r].step = "saved" /\ post[r].by # Nobody
  BY DEF ControlsInv, ControlsShape, Confirmed, NoPost, Done
<1> PICK d \in Panels : d = post[r].by BY <1>1 DEF Saves
<1> PICK quiet : quiet = Quiet OBVIOUS
<1> PICK state : state = [quiet EXCEPT !.replacing = TRUE] OBVIOUS
<1>2. state \in PanelStates /\ state.replacing = TRUE /\ state.waiting = FALSE
  <2>1. quiet \in PanelStates /\ ~quiet.waiting BY ControlNames DEF Quiet
  <2> QED BY <2>1 DEF PanelStates
<1>3. /\ form' = [form EXCEPT ![d] = NoForm] /\ panel' = [panel EXCEPT ![d] = state]
      /\ page' = [page EXCEPT ![d].asked = TRUE] /\ own' = [own EXCEPT ![d] = post[r].version + 1]
      /\ post' = [post EXCEPT ![r] = Done] /\ saved' = saved
  BY DEF Confirmed, AskedAgain
<1> HIDE DEF Confirmed
<1>4. post[r].version + 1 <= saved.version /\ post[r].version + 1 \in 0 .. MaxSaves /\ saved.version \in 0 .. MaxSaves
  BY <1>1, ControlNames DEF ControlsInv, OwnShown, Saves, ControlsShape, StoredRows
<1>5. ControlsShape' BY <1>2, <1>3, <1>4 DEF ControlsInv, ControlsShape, PageReads
<1>6. \A e \in Panels : page'[e].data = page[e].data BY <1>3 DEF ControlsInv, ControlsShape, PageReads
<1>7. \A s \in Posts : (s # r => post'[s] = post[s]) /\ post'[r] = Done BY <1>3 DEF ControlsInv, ControlsShape
<1>8. \A e \in Panels : /\ e # d => panel'[e] = panel[e] /\ form'[e] = form[e] /\ own'[e] = own[e]
                        /\ panel'[d] = state /\ form'[d] = NoForm /\ own'[d] = post[r].version + 1
  BY <1>3 DEF ControlsInv, ControlsShape
<1>9. \A s \in Posts, e \in Panels : Awaited(s, e)' <=> Awaited(s, e) /\ s # r BY <1>7, ControlNames DEF Awaited
<1>10. Awaited(r, d) BY <1>1 DEF Awaited
<1>11. OneSave'
  <2>1. \A e \in Panels : panel'[e].waiting <=> \E s \in Posts : Awaited(s, e)'
    <3> SUFFICES ASSUME NEW e \in Panels PROVE panel'[e].waiting <=> \E s \in Posts : Awaited(s, e)' OBVIOUS
    <3>1. CASE e = d
      <4>1. ~panel'[e].waiting BY <1>2, <1>8, <3>1
      <4>2. \A s \in Posts : ~(Awaited(s, e) /\ s # r) BY <1>10, <3>1 DEF ControlsInv, OneSave
      <4> QED BY <4>1, <4>2, <1>9
    <3>2. CASE e # d
      <4>1. ~Awaited(r, e) BY <3>2 DEF Awaited
      <4> QED BY <1>8, <1>9, <3>2, <4>1 DEF ControlsInv, OneSave
    <3> QED BY <3>1, <3>2
  <2>2. \A e \in Panels : \A s, t \in Posts : Awaited(s, e)' /\ Awaited(t, e)' => s = t
    BY <1>9 DEF ControlsInv, OneSave
  <2> QED BY <2>1, <2>2 DEF OneSave
<1>12. BasesTrue' BY <1>3, <1>6, <1>7, <1>8, ControlNames DEF ControlsInv, BasesTrue, Agrees
<1>13. OwnShown'
  <2>1. \A e \in Panels : own'[e] <= saved'.version BY <1>3, <1>4, <1>8 DEF ControlsInv, OwnShown
  <2>2. \A s \in Posts : post'[s] \in Saves /\ post'[s].step = "saved" => post'[s].version < saved'.version
    BY <1>3, <1>7, ControlNames DEF ControlsInv, OwnShown
  <2>3. \A e \in Panels : page'[e].data \in Snapshots /\ ~panel'[e].replacing => own'[e] <= page'[e].data.version
    <3> SUFFICES ASSUME NEW e \in Panels, page'[e].data \in Snapshots, ~panel'[e].replacing
                 PROVE  own'[e] <= page'[e].data.version
      OBVIOUS
    <3>1. e # d BY <1>2, <1>8
    <3> QED BY <1>6, <1>8, <3>1 DEF ControlsInv, OwnShown
  <2>4. \A e \in Panels : form'[e] \in Forms => own'[e] <= form'[e].version
    <3> SUFFICES ASSUME NEW e \in Panels, form'[e] \in Forms PROVE own'[e] <= form'[e].version OBVIOUS
    <3>1. e # d BY <1>8, ControlNames
    <3> QED BY <1>8, <3>1 DEF ControlsInv, OwnShown
  <2> QED BY <2>1, <2>2, <2>3, <2>4 DEF OwnShown
<1>14. CheckedHere' BY <1>3, <1>7, ControlNames DEF ControlsInv, CheckedHere
<1> QED BY <1>5, <1>11, <1>12, <1>13, <1>14 DEF ControlsInv

LEMMA RestartKeeps == ASSUME ControlsInv, Restart PROVE ControlsInv'
<1>1. \A r \in Posts : post'[r] \in {NoPost, Done} BY DEF Restart
<1>2. ASSUME NEW d \in Panels
      PROVE panel'[d] \in PanelStates /\ ~panel'[d].waiting /\ panel'[d].replacing = panel[d].replacing
  <2>1. panel[d] \in PanelStates BY DEF ControlsInv, ControlsShape
  <2>2. CASE panel[d].waiting
    <3>1. panel'[d] = [panel[d] EXCEPT !.unsure = TRUE, !.waiting = FALSE] BY <2>2 DEF Restart
    <3> QED BY <2>1, <3>1 DEF PanelStates
  <2>3. CASE ~panel[d].waiting
    <3>1. panel'[d] = panel[d] BY <2>3 DEF Restart
    <3> QED BY <2>1, <2>3, <3>1
  <2> QED BY <2>2, <2>3
<1>3. post' \in [Posts -> {NoPost, Done}] /\ panel' \in [Panels -> PanelStates] /\ UNCHANGED <<saved, page, form, own>>
  BY <1>1, <1>2 DEF Restart
<1> HIDE DEF Restart
<1>4. ControlsShape' BY <1>3 DEF ControlsInv, ControlsShape
<1>5. \A s \in Posts : post'[s] \notin Saves BY <1>1, ControlNames
<1>6. OneSave' BY <1>2, <1>5 DEF OneSave, Awaited
<1>7. BasesTrue' BY <1>3, <1>5 DEF ControlsInv, BasesTrue, Agrees
<1>8. OwnShown' BY <1>2, <1>3, <1>5 DEF ControlsInv, OwnShown
<1> QED BY <1>4, <1>5, <1>6, <1>7, <1>8 DEF ControlsInv, CheckedHere

LEMMA ControlsKeep == ControlsInv /\ [ControlsNext]_controlVars => ControlsInv'
<1> SUFFICES ASSUME ControlsInv, [ControlsNext]_controlVars PROVE ControlsInv' OBVIOUS
<1>1. CASE UNCHANGED controlVars
  BY <1>1 DEF controlVars, ControlsInv, ControlsShape, OneSave, Awaited, BasesTrue, Agrees, OwnShown, CheckedHere
<1>2. ASSUME NEW d \in Panels, Show(d) \/ Refresh(d) \/ Reload(d) \/ Change(d) PROVE ControlsInv'
  BY <1>2, ShowKeeps, RefreshKeeps, ReloadKeeps, ChangeKeeps
<1>3. ASSUME NEW d \in Panels, NEW r \in Posts, Save(d, r) \/ Resume(d, r) PROVE ControlsInv'
  BY <1>3, SavesKeep
<1>4. ASSUME NEW r \in Posts, Conflict(r) PROVE ControlsInv'
  <2>1. post[r] \in Saves BY <1>4 DEF ControlsInv, ControlsShape, Conflict, NoPost, Done
  <2> QED BY <1>4, <2>1, SaveRefused DEF Conflict
<1>5. ASSUME NEW r \in Posts, Check(r) \/ Commit(r) \/ Confirmed(r) \/ Unconfirmed(r) PROVE ControlsInv'
  BY <1>5, CheckKeeps, CommitKeeps, ConfirmedKeeps, SaveUnconfirmed
<1> QED BY <1>1, <1>2, <1>3, <1>4, <1>5, RestartKeeps DEF ControlsNext

LEMMA ControlsGive == ControlsInv => ControlsTypeOK /\ FormsFresh
<1> SUFFICES ASSUME ControlsInv PROVE ControlsTypeOK /\ FormsFresh OBVIOUS
<1>1. \A r \in Posts : post[r].step \notin {"none", "done"} <=> post[r] \in Saves
  <2>1. NoPost.step = "none" /\ Done.step = "done" /\ \A q \in Saves : q.step \notin {"none", "done"}
    BY DEF NoPost, Done, Saves
  <2>2. \A r \in Posts : post[r] \in {NoPost, Done} \cup Saves BY DEF ControlsInv, ControlsShape
  <2> QED BY <2>1, <2>2
<1>2. ControlsTypeOK
  BY <1>1 DEF ControlsTypeOK, ControlsInv, ControlsShape, OneSave, Awaited, StoredRows
<1>3. FormsFresh
  <2> SUFFICES ASSUME NEW d \in Panels, form[d] # NoForm PROVE form[d].version >= own[d] BY DEF FormsFresh
  <2>1. form[d] \in Forms BY DEF ControlsInv, ControlsShape
  <2>2. own[d] <= form[d].version BY <2>1 DEF ControlsInv, OwnShown
  <2>3. own[d] \in Nat /\ form[d].version \in Nat BY <2>1, ControlNames DEF Forms, ControlsInv, ControlsShape
  <2> QED BY <2>2, <2>3
<1> QED BY <1>2, <1>3

\* A step that changes what is stored is a save's, and keeps what the save did not change.
LEMMA ControlsSaved ==
  ASSUME ControlsInv, [ControlsNext]_controlVars, NEW r \in Posts, Saving(r), post'[r].step \in {"done", "saved"}
  PROVE  /\ \A f \in Switches \cup Numbers :
              saved'.doc[f] = IF post[r].doc[f] # post[r].base[f] THEN post[r].doc[f] ELSE saved.doc[f]
         /\ Valid(saved'.doc, Held)
         /\ saved.version > 0 /\ saved.doc.on /\ saved'.doc.on => saved.here
<1>1. saved' # saved /\ post[r].step = "checked" BY DEF Saving
<1>2. PICK s \in Posts : Commit(s)
  BY <1>1 DEF ControlsNext, controlVars, Show, Refresh, Reload, Change, Save, Resume, SendSave, Check, Refuse, Conflict,
     Confirmed, Unconfirmed, Restart
<1>3. s = r
  <2> SUFFICES ASSUME s # r PROVE FALSE OBVIOUS
  <2>1. post'[r] = post[r] BY <1>2 DEF Commit, ControlsInv, ControlsShape
  <2> QED BY <1>1, <2>1
<1>4. Commit(r) BY <1>2, <1>3
<1> PICK q : q = post[r] OBVIOUS
<1> PICK merged : merged = PatchMerged(q) OBVIOUS
<1>5. /\ saved' = [doc |-> merged, version |-> saved.version + 1, here |-> TRUE] /\ Valid(merged, Held)
      /\ q.version = saved.version
  BY <1>4 DEF Commit, SameVersion
<1>6. saved'.doc = merged BY <1>5
<1>7. q \in Saves BY <1>1 DEF ControlsInv, ControlsShape, NoPost, Done
<1>8. q.doc \in Docs /\ q.base \in Docs /\ saved.doc \in Docs
  BY <1>7 DEF Saves, StoredRows, ControlsInv, ControlsShape
<1>9. /\ merged.on = q.doc.on /\ merged.close = (IF q.doc.close # q.base.close THEN q.doc.close ELSE saved.doc.close)
      /\ merged.ceiling = IF q.doc.ceiling # q.base.ceiling THEN q.doc.ceiling ELSE saved.doc.ceiling
  <2>1. merged = [q.doc EXCEPT !.close = IF q.doc.close # q.base.close THEN q.doc.close ELSE saved.doc.close,
                               !.ceiling = IF q.doc.ceiling # q.base.ceiling THEN q.doc.ceiling ELSE saved.doc.ceiling,
                               !.offered = saved.doc.offered /\ ~Held]
    BY DEF PatchMerged
  <2> QED BY <1>8, <2>1 DEF Docs
<1>10. q.base.on = saved.doc.on BY <1>5, <1>7 DEF ControlsInv, BasesTrue, Agrees
<1>11. q.doc.on => saved.here BY <1>1, <1>7 DEF ControlsInv, CheckedHere
<1>12. \A f \in Switches \cup Numbers : merged[f] = IF q.doc[f] # q.base[f] THEN q.doc[f] ELSE saved.doc[f]
  <2>1. merged.on = IF q.doc.on # q.base.on THEN q.doc.on ELSE saved.doc.on BY <1>9, <1>10
  <2>2. \A f \in Switches \cup Numbers : f = "on" \/ f = "close" \/ f = "ceiling" BY DEF Switches, Numbers
  <2> QED BY <1>9, <2>1, <2>2
<1> QED BY <1>5, <1>6, <1>9, <1>11, <1>12

-----------------------------------------------------------------------------
(* Drafts of the server's document *)

DraftPages == [base : Documents, changes : SUBSET Fields, rows : DraftRotations]
EntryEdits == [at : 1 .. MaxEntries, base : DraftRotations]
Drags == [rows : DraftRotations, fresh : 0 .. MaxWrites]
Sendings == [step : {"review", "checked", "written"}, change : ChangeRequests]
Landings == [by : Editors, number : 1 .. MaxSends, exact : BOOLEAN]

PagesShaped ==
  /\ shown \in [Editors -> Documents] /\ draft \in [Editors -> {Nothing} \cup DraftPages]
  /\ editing \in [Editors -> {Nothing} \cup EntryEdits] /\ drag \in [Editors -> {Nothing} \cup Drags]
  /\ draftEdits \in [Editors -> 0 .. MaxDraftEdits]
ChangesShaped ==
  /\ document \in Documents /\ editorKind \in [Editors -> {"settings", "rotation"}]
  /\ sending \in [Editors -> {Nothing} \cup Sendings] /\ sends \in [Editors -> 0 .. MaxSends]
  /\ answer \in [Editors -> {"none", "failed", "unknown", "pending"}]
  /\ adrift \subseteq ChangeRequests /\ landed \subseteq Landings

\* A page that read the present revision has the document as it is.
Read(d) == d.revision <= document.revision /\ (d.revision = document.revision => d = document)
PagesRead ==
  /\ \A e \in Editors : Read(shown[e])
  /\ \A e \in Editors : draft[e] \in DraftPages => Read(draft[e].base)

\* A change based on the present revision replaces what its reviewer saw, and its range was checked before it left.
Timely(c) == c.revision <= document.revision /\ (c.revision = document.revision => Exact(c))
RangeChecked(c) == c.changes \cap Fields # {} => RangeFits(c.new)
ChangesTrue ==
  /\ \A e \in Editors : sending[e] \in Sendings =>
       Timely(sending[e].change) /\ (sending[e].step # "review" => RangeChecked(sending[e].change))
  /\ \A c \in adrift : Timely(c) /\ RangeChecked(c)

\* The number of a change is its page's newest; while it is checked nothing of it has been written.
Reached(e, n) == \E l \in landed : l.by = e /\ l.number = n
MayReach(e, n) == \E c \in adrift : c.by = e /\ c.number = n
ChangesNumbered ==
  /\ \A l \in landed : l.number <= sends[l.by]
  /\ \A c \in adrift : c.number <= sends[c.by]
  /\ \A e \in Editors : sending[e] \in Sendings =>
       /\ sending[e].change.by = e
       /\ sending[e].change.number = IF sending[e].step = "review" THEN sends[e] + 1 ELSE sends[e]
       /\ sending[e].step = "checked" => ~Reached(e, sends[e]) /\ ~MayReach(e, sends[e])
       /\ sending[e].step = "written" => Reached(e, sends[e])
Idle(e) == sending[e] = Nothing \/ (sending[e] \in Sendings /\ sending[e].step = "review")
AnswersTrue ==
  \A e \in Editors : Idle(e) =>
    /\ answer[e] = "failed" => ~Reached(e, sends[e]) /\ ~MayReach(e, sends[e])
    /\ answer[e] = "pending" => Reached(e, sends[e])

DraftsInv ==
  /\ PagesShaped /\ ChangesShaped /\ PagesRead /\ ChangesTrue /\ ChangesNumbered /\ AnswersTrue
  /\ WrittenAsReviewed /\ RangeKept

-----------------------------------------------------------------------------
LEMMA DraftNames ==
  /\ {MaxEntries, MaxWrites, MaxSends, MaxDraftEdits} \subseteq Nat /\ 1 <= MaxEntries /\ 1 <= MaxWrites /\ 1 <= MaxSends
  /\ Nothing \notin DraftPages \cup EntryEdits \cup Drags \cup Sendings
<1>1. "none" \in DOMAIN Nothing BY DEF Nothing
<1>2. \A x \in DraftPages \cup EntryEdits \cup Drags \cup Sendings : "none" \notin DOMAIN x
  BY DEF DraftPages, EntryEdits, Drags, Sendings
<1> QED BY <1>1, <1>2, DraftsAssumption

LEMMA RotationsAre == \A s : s \in DraftRotations <=> s \in Seq(Maps) /\ Len(s) \in 0 .. MaxEntries
<1>1. DraftRotations = UNION {[1 .. m -> Maps] : m \in 0 .. MaxEntries} BY DEF DraftRotations, BoundedSeq, SeqOf
<1>2. ASSUME NEW s \in DraftRotations PROVE s \in Seq(Maps) /\ Len(s) \in 0 .. MaxEntries
  <2>1. PICK m \in 0 .. MaxEntries : s \in [1 .. m -> Maps] BY <1>1
  <2>2. m \in Nat BY DraftNames
  <2> QED BY <2>1, <2>2, IsASeq
<1>3. ASSUME NEW s \in Seq(Maps), Len(s) \in 0 .. MaxEntries PROVE s \in DraftRotations
  <2>1. s \in [1 .. Len(s) -> Maps] BY LenProperties
  <2> QED BY <1>1, <1>3, <2>1
<1> QED BY <1>2, <1>3

LEMMA RotationIs == ASSUME NEW s \in Seq(Maps), Len(s) <= MaxEntries PROVE s \in DraftRotations
BY RotationsAre, DraftNames, LenProperties

LEMMA RowsKeptAre ==
  ASSUME NEW s \in DraftRotations
  PROVE  /\ Len(s) \in Nat /\ Len(s) <= MaxEntries /\ DOMAIN s = 1 .. Len(s) /\ \A i \in 1 .. Len(s) : s[i] \in Maps
         /\ Reverse(s) \in DraftRotations
         /\ \A i \in 1 .. Len(s) : RemoveAt(s, i) \in DraftRotations
         /\ Len(s) < MaxEntries => \A m \in Maps : Append(s, m) \in DraftRotations
         /\ Len(s) > 1 => Tail(s) \in DraftRotations
<1>1. s \in Seq(Maps) /\ Len(s) \in Nat /\ Len(s) <= MaxEntries /\ MaxEntries \in Nat BY RotationsAre, DraftNames
<1>2. DOMAIN s = 1 .. Len(s) /\ \A i \in 1 .. Len(s) : s[i] \in Maps BY <1>1
<1>3. Reverse(s) \in DraftRotations
  <2>1. Reverse(s) \in [1 .. Len(s) -> Maps]
    <3>1. \A i \in 1 .. Len(s) : Len(s) - i + 1 \in 1 .. Len(s) BY <1>1
    <3> QED BY <1>2, <3>1 DEF Reverse
  <2> QED BY <1>1, <2>1, IsASeq, RotationsAre
<1>4. ASSUME NEW i \in 1 .. Len(s) PROVE RemoveAt(s, i) \in DraftRotations
  <2>1. SubSeq(s, 1, i - 1) \in Seq(Maps) /\ Len(SubSeq(s, 1, i - 1)) = i - 1
    BY <1>1, SubSeqProperties
  <2>2. SubSeq(s, i + 1, Len(s)) \in Seq(Maps) /\ Len(SubSeq(s, i + 1, Len(s))) = Len(s) - i
    BY <1>1, SubSeqProperties
  <2> PICK a \in Seq(Maps) : a = SubSeq(s, 1, i - 1) BY <2>1
  <2> PICK b \in Seq(Maps) : b = SubSeq(s, i + 1, Len(s)) BY <2>2
  <2>3. a \o b \in Seq(Maps) /\ Len(a \o b) = Len(a) + Len(b) BY ConcatProperties
  <2> PICK n \in Nat : n = Len(s) BY <1>1
  <2>4. Len(a) = i - 1 /\ Len(b) = n - i /\ i \in 1 .. n /\ n <= MaxEntries BY <1>1, <2>1, <2>2
  <2>5. Len(a \o b) <= MaxEntries
    <3> HIDE DEF RemoveAt
    <3> QED BY ONLY <2>3, <2>4, DraftNames
  <2>6. RemoveAt(s, i) = a \o b BY DEF RemoveAt
  <2> QED BY <2>3, <2>5, <2>6, RotationIs
<1>5. ASSUME NEW m \in Maps, Len(s) < MaxEntries PROVE Append(s, m) \in DraftRotations
  <2>1. Append(s, m) \in Seq(Maps) /\ Len(Append(s, m)) = Len(s) + 1 BY <1>1, AppendProperties
  <2>2. Len(Append(s, m)) <= MaxEntries BY <1>1, <1>5, <2>1
  <2> QED BY ONLY <2>1, <2>2, RotationIs
<1>6. ASSUME Len(s) > 1 PROVE Tail(s) \in DraftRotations
  <2>1. s # << >> BY <1>1, <1>6
  <2>2. Tail(s) \in Seq(Maps) /\ Len(Tail(s)) = Len(s) - 1 BY <1>1, <2>1, HeadTailProperties
  <2>3. Len(Tail(s)) <= MaxEntries BY <1>1, <1>6, <2>2
  <2> QED BY ONLY <2>2, <2>3, RotationIs
<1> QED BY <1>1, <1>2, <1>3, <1>4, <1>5, <1>6

\* Rows of the same number.
LEMMA SameLength ==
  ASSUME NEW s \in DraftRotations, NEW t, t \in [DOMAIN s -> Maps] PROVE t \in DraftRotations
<1>1. Len(s) \in Nat /\ Len(s) <= MaxEntries /\ DOMAIN s = 1 .. Len(s) BY RowsKeptAre
<1>2. t \in Seq(Maps) /\ Len(t) = Len(s) BY <1>1, IsASeq
<1> QED BY <1>1, <1>2, RotationsAre, DraftNames

LEMMA RowsAre ==
  ASSUME PagesShaped, NEW e \in Editors
  PROVE  /\ Rows(e) \in DraftRotations /\ BaseRotation(e) \in DraftRotations /\ shown[e] \in Documents
         /\ Nothing \in {Nothing} /\ (draft[e] # Nothing => draft[e] \in DraftPages)
         /\ editing[e] # Nothing => editing[e] \in EntryEdits
         /\ drag[e] # Nothing => drag[e] \in Drags
<1>1. /\ shown[e] \in Documents /\ (draft[e] # Nothing => draft[e] \in DraftPages)
      /\ editing[e] # Nothing => editing[e] \in EntryEdits
      /\ drag[e] # Nothing => drag[e] \in Drags
  BY DEF PagesShaped
<1>2. shown[e].rotation \in DraftRotations BY <1>1 DEF Documents
<1>3. draft[e] # Nothing => draft[e].rows \in DraftRotations /\ draft[e].base \in Documents BY <1>1 DEF DraftPages
<1>4. draft[e] # Nothing => draft[e].base.rotation \in DraftRotations BY <1>3 DEF Documents
<1>5. editing[e] # Nothing => editing[e].base \in DraftRotations BY <1>1 DEF EntryEdits
<1> QED BY <1>1, <1>2, <1>3, <1>4, <1>5 DEF Rows, BaseRotation

LEMMA DraftsStart == DraftsInit => DraftsInv
<1> SUFFICES ASSUME DraftsInit PROVE DraftsInv OBVIOUS
<1>1. document \in Documents /\ document.minimum = 1 /\ document.maximum = 2 /\ document.revision = 0
  <2>1. PICK r \in DraftRotations : document = [minimum |-> 1, maximum |-> 2, rotation |-> r, revision |-> 0]
    BY DEF DraftsInit
  <2> QED BY <2>1, DraftNames DEF Documents
<1>2. PagesShaped /\ ChangesShaped BY <1>1, DraftNames DEF DraftsInit, PagesShaped, ChangesShaped
<1>3. \A e \in Editors : sending[e] = Nothing /\ draft[e] = Nothing /\ answer[e] = "none" /\ shown[e] = document
  BY DEF DraftsInit
<1>4. landed = {} /\ adrift = {} BY DEF DraftsInit
<1>5. PagesRead BY <1>1, <1>3, DraftNames DEF PagesRead, Read
<1>6. ChangesTrue /\ ChangesNumbered /\ AnswersTrue
  BY <1>3, <1>4, DraftNames DEF ChangesTrue, ChangesNumbered, AnswersTrue
<1>7. WrittenAsReviewed /\ RangeKept BY <1>1, <1>4 DEF WrittenAsReviewed, RangeKept, RangeFits
<1> QED BY <1>2, <1>5, <1>6, <1>7 DEF DraftsInv

\* A step of a page alone.
LEMMA PageMoves ==
  ASSUME DraftsInv, PagesShaped', UNCHANGED <<document, editorKind, sending, answer, sends, landed, adrift>>, PagesRead'
  PROVE  DraftsInv'
BY DEF DraftsInv, ChangesShaped, ChangesTrue, Timely, RangeChecked, RangeFits, Exact, Content, ChangesNumbered, Reached, MayReach,
   AnswersTrue, Idle, WrittenAsReviewed, RangeKept

LEMMA UpdatedIs ==
  ASSUME DraftsInv, NEW e \in Editors, NEW list \in DraftRotations, Updated(e, list), document' = document
  PROVE  /\ draft' \in [Editors -> {Nothing} \cup DraftPages]
         /\ \A q \in Editors : draft'[q] \in DraftPages => Read(draft'[q].base)
<1> PICK base : base = IF draft[e] = Nothing THEN shown[e] ELSE draft[e].base OBVIOUS
<1>1. base \in Documents /\ Read(base)
  BY RowsAre DEF DraftsInv, PagesRead, DraftPages
<1> PICK new : new = IF list = shown[e].rotation THEN Nothing ELSE [base |-> base, changes |-> {}, rows |-> list] OBVIOUS
<1>2. new \in {Nothing} \cup DraftPages /\ (new \in DraftPages => new.base = base)
  BY <1>1, DraftNames DEF DraftPages
<1>3. draft' = [draft EXCEPT ![e] = new] BY DEF Updated
<1> QED BY <1>1, <1>2, <1>3 DEF DraftsInv, PagesShaped, PagesRead

LEMMA DeskSteps ==
  ASSUME DraftsInv, NEW e \in Editors,
         RefreshDocument(e) \/ EditSetting(e) \/ OpenEntry(e) \/ PickUp(e) \/ Discard(e)
  PROVE  DraftsInv'
<1>1. /\ UNCHANGED <<document, editorKind, sending, answer, sends, landed, adrift>>
      /\ UNCHANGED editing \/ OpenEntry(e) \/ Discard(e)
      /\ UNCHANGED drag \/ PickUp(e)
  BY DEF RefreshDocument, EditSetting, OpenEntry, PickUp, Discard
<1>2. shown' \in [Editors -> Documents] /\ \A q \in Editors : Read(shown'[q]) /\ Read(shown[q])
  <2>1. document \in Documents /\ document.revision <= document.revision BY DEF DraftsInv, ChangesShaped, Documents
  <2>2. shown' = shown \/ shown' = [shown EXCEPT ![e] = document]
    BY DEF RefreshDocument, EditSetting, OpenEntry, PickUp, Discard
  <2> QED BY <2>1, <2>2 DEF DraftsInv, PagesShaped, PagesRead, Read
<1>3. draftEdits' \in [Editors -> 0 .. MaxDraftEdits]
  <2>1. \/ draftEdits' = draftEdits
        \/ draftEdits[e] < MaxDraftEdits /\ draftEdits' = [draftEdits EXCEPT ![e] = @ + 1]
    BY DEF RefreshDocument, EditSetting, OpenEntry, PickUp, Discard
  <2>2. draftEdits \in [Editors -> 0 .. MaxDraftEdits] BY DEF DraftsInv, PagesShaped
  <2>3. draftEdits[e] < MaxDraftEdits => draftEdits[e] + 1 \in 0 .. MaxDraftEdits BY <2>2, DraftNames
  <2> QED BY <2>1, <2>2, <2>3
<1>4. Rows(e) \in DraftRotations /\ BaseRotation(e) \in DraftRotations /\ shown[e] \in Documents
  BY RowsAre DEF DraftsInv
<1>5. editing' \in [Editors -> {Nothing} \cup EntryEdits]
  <2>1. CASE OpenEntry(e)
    <3>1. PICK i \in DOMAIN Rows(e) : editing' = [editing EXCEPT ![e] = [at |-> i, base |-> BaseRotation(e)]]
      BY <2>1 DEF OpenEntry
    <3>2. Len(Rows(e)) \in Nat /\ Len(Rows(e)) <= MaxEntries /\ i \in 1 .. Len(Rows(e)) BY <1>4, <3>1, RowsKeptAre
    <3>3. i \in 1 .. MaxEntries BY <3>2, DraftNames
    <3> QED BY <1>4, <3>1, <3>3 DEF EntryEdits, DraftsInv, PagesShaped
  <2>2. CASE Discard(e) BY <2>2 DEF Discard, DraftsInv, PagesShaped
  <2> QED BY <1>1, <2>1, <2>2 DEF DraftsInv, PagesShaped
<1>6. drag' \in [Editors -> {Nothing} \cup Drags]
  <2>1. CASE PickUp(e)
    <3>1. shown[e].revision \in 0 .. MaxWrites BY <1>4 DEF Documents
    <3> QED BY <1>4, <2>1, <3>1 DEF PickUp, Drags, DraftsInv, PagesShaped
  <2> QED BY <1>1, <2>1 DEF DraftsInv, PagesShaped
<1>7. draft' \in [Editors -> {Nothing} \cup DraftPages] /\ \A q \in Editors : draft'[q] \in DraftPages => Read(draft'[q].base)
  <2>1. CASE EditSetting(e)
    <3> PICK old : old = IF draft[e] = Nothing THEN [base |-> shown[e], changes |-> {}, rows |-> <<>>] ELSE draft[e] OBVIOUS
    <3>1. << >> \in DraftRotations
      <4>1. << >> \in Seq(Maps) /\ Len(<< >>) = 0 OBVIOUS
      <4>2. Len(<< >>) <= MaxEntries BY <4>1, DraftNames
      <4> QED BY ONLY <4>1, <4>2, RotationIs
    <3>2. old \in DraftPages /\ Read(old.base)
      BY <1>2, <1>4, <3>1, RowsAre DEF DraftPages, DraftsInv, PagesRead
    <3>3. PICK f \in Fields : draft' = [draft EXCEPT ![e] =
             IF (IF f \in old.changes THEN old.changes \ {f} ELSE old.changes \cup {f}) = {} THEN Nothing
             ELSE [old EXCEPT !.changes = IF f \in old.changes THEN old.changes \ {f} ELSE old.changes \cup {f}]]
      BY <2>1 DEF EditSetting
    <3> PICK edited : edited = IF f \in old.changes THEN old.changes \ {f} ELSE old.changes \cup {f} OBVIOUS
    <3> PICK new : new = [old EXCEPT !.changes = edited] OBVIOUS
    <3>4. new \in DraftPages /\ new.base = old.base BY <3>2 DEF DraftPages
    <3>5. draft' = [draft EXCEPT ![e] = IF edited = {} THEN Nothing ELSE new] BY <3>3
    <3> QED BY <3>2, <3>4, <3>5, DraftNames DEF DraftsInv, PagesShaped, PagesRead
  <2>2. draft' = draft \/ draft' = [draft EXCEPT ![e] = Nothing] \/ EditSetting(e)
    BY DEF RefreshDocument, EditSetting, OpenEntry, PickUp, Discard
  <2> QED BY <2>1, <2>2, DraftNames DEF DraftsInv, PagesShaped, PagesRead
<1>8. PagesShaped' BY <1>2, <1>3, <1>5, <1>6, <1>7 DEF PagesShaped
<1>9. PagesRead' BY <1>1, <1>2, <1>7 DEF PagesRead, Read
<1> QED BY <1>1, <1>8, <1>9, PageMoves

LEMMA RowSteps ==
  ASSUME DraftsInv, NEW e \in Editors, ChangeRows(e) \/ SaveEntry(e) \/ DropRow(e)
  PROVE  DraftsInv'
<1> PICK list : list = Rows(e) OBVIOUS
<1>1. list \in DraftRotations BY RowsAre DEF DraftsInv
<1>2. /\ Len(list) \in Nat /\ DOMAIN list = 1 .. Len(list) /\ \A i \in 1 .. Len(list) : list[i] \in Maps
  BY <1>1, RowsKeptAre
<1>3. draft' = draft \/ \E new \in DraftRotations : Updated(e, new)
  <2>1. CASE ChangeRows(e)
    <3>1. ASSUME NEW i \in 1 .. Len(list) - 1,
                 Updated(e, [j \in DOMAIN list |-> IF j = i THEN list[i + 1] ELSE IF j = i + 1 THEN list[i] ELSE list[j]])
          PROVE  \E new \in DraftRotations : Updated(e, new)
      <4> PICK new : new = [j \in DOMAIN list |-> IF j = i THEN list[i + 1] ELSE IF j = i + 1 THEN list[i] ELSE list[j]] OBVIOUS
      <4>1. i \in 1 .. Len(list) /\ i + 1 \in 1 .. Len(list) BY <1>2
      <4>2. new \in [DOMAIN list -> Maps] BY <1>2, <4>1
      <4>3. new \in DraftRotations BY <1>1, <4>2, SameLength
      <4> QED BY <3>1, <4>3
    <3>2. ASSUME NEW i \in DOMAIN list, Updated(e, RemoveAt(list, i)) PROVE \E new \in DraftRotations : Updated(e, new)
      BY <1>1, <1>2, <3>2, RowsKeptAre
    <3>3. ASSUME NEW m \in Maps, Len(list) < MaxEntries, Updated(e, Append(list, m))
          PROVE  \E new \in DraftRotations : Updated(e, new)
      BY <1>1, <3>3, RowsKeptAre
    <3> QED BY <2>1, <3>1, <3>2, <3>3 DEF ChangeRows
  <2>2. CASE SaveEntry(e)
    <3>1. ASSUME NEW m \in Maps, Updated(e, [j \in DOMAIN list |-> IF j = editing[e].at THEN m ELSE list[j]])
          PROVE  \E new \in DraftRotations : Updated(e, new)
      <4> PICK new : new = [j \in DOMAIN list |-> IF j = editing[e].at THEN m ELSE list[j]] OBVIOUS
      <4>1. new \in [DOMAIN list -> Maps] BY <1>2
      <4>2. new \in DraftRotations BY <1>1, <4>1, SameLength
      <4> QED BY <3>1, <4>2
    <3> QED BY <2>2, <3>1 DEF SaveEntry
  <2>3. CASE DropRow(e)
    <3>1. Reverse(list) \in DraftRotations BY <1>1, RowsKeptAre
    <3> QED BY <2>3, <3>1 DEF DropRow
  <2> QED BY <2>1, <2>2, <2>3
<1>4. UNCHANGED <<document, editorKind, shown, sending, answer, sends, landed, adrift>>
  BY DEF ChangeRows, SaveEntry, DropRow
<1>5. draft' \in [Editors -> {Nothing} \cup DraftPages] /\ \A q \in Editors : draft'[q] \in DraftPages => Read(draft'[q].base)
  BY <1>3, <1>4, UpdatedIs DEF DraftsInv, PagesShaped, PagesRead
<1>6. /\ editing' \in [Editors -> {Nothing} \cup EntryEdits] /\ drag' \in [Editors -> {Nothing} \cup Drags]
  <2>1. /\ editing' = editing \/ editing' = [editing EXCEPT ![e] = Nothing]
        /\ drag' = drag \/ drag' = [drag EXCEPT ![e] = Nothing]
    BY DEF ChangeRows, SaveEntry, DropRow
  <2> QED BY <2>1 DEF DraftsInv, PagesShaped
<1>7. draftEdits' \in [Editors -> 0 .. MaxDraftEdits]
  <2>1. \/ draftEdits' = draftEdits
        \/ draftEdits[e] < MaxDraftEdits /\ draftEdits' = [draftEdits EXCEPT ![e] = @ + 1]
    BY DEF ChangeRows, SaveEntry, DropRow
  <2>2. draftEdits \in [Editors -> 0 .. MaxDraftEdits] BY DEF DraftsInv, PagesShaped
  <2>3. draftEdits[e] < MaxDraftEdits => draftEdits[e] + 1 \in 0 .. MaxDraftEdits BY <2>2, DraftNames
  <2> QED BY <2>1, <2>2, <2>3
<1>8. PagesShaped' BY <1>4, <1>5, <1>6, <1>7 DEF DraftsInv, PagesShaped
<1>9. PagesRead' BY <1>4, <1>5 DEF DraftsInv, PagesRead, Read
<1> QED BY <1>4, <1>8, <1>9, PageMoves

\* A reviewed change, and a review that is put aside.
LEMMA ReviewedKeeps ==
  ASSUME DraftsInv, NEW e \in Editors, sending[e] = Nothing, sends[e] < MaxSends, NEW revision \in 0 .. MaxWrites,
         NEW saw \in Contents, NEW edited \in SUBSET (Fields \cup {"rotation"}), NEW new \in Contents,
         revision <= document.revision,
         revision = document.revision =>
           \A f \in Fields \cup {"rotation"} : Content(document)[f] = IF f \in edited THEN saw[f] ELSE new[f],
         Reviewed(e, revision, saw, edited, new),
         UNCHANGED <<document, editorKind, shown, draft, editing, drag, answer, sends, draftEdits, landed, adrift>>
  PROVE  DraftsInv'
<1> PICK c : c = [by |-> e, number |-> sends[e] + 1, revision |-> revision, saw |-> saw, changes |-> edited, new |-> new]
  OBVIOUS
<1> PICK s : s = [step |-> "review", change |-> c] OBVIOUS
<1>1. sends[e] + 1 \in 1 .. MaxSends BY DraftNames DEF DraftsInv, ChangesShaped
<1>2. c \in ChangeRequests /\ c.by = e /\ c.number = sends[e] + 1 /\ c.revision = revision /\ c.saw = saw /\ c.changes = edited
      /\ c.new = new
  BY <1>1 DEF ChangeRequests
<1>3. s \in Sendings /\ s.step = "review" /\ s.change = c BY <1>2 DEF Sendings
<1>4. sending' = [sending EXCEPT ![e] = s] BY DEF Reviewed
<1> HIDE DEF Reviewed
<1>5. \A q \in Editors : (q # e => sending'[q] = sending[q]) /\ sending'[e] = s BY <1>4 DEF DraftsInv, ChangesShaped
<1>6. Timely(c) BY <1>2 DEF Timely, Exact
<1>7. PagesShaped' /\ ChangesShaped' BY <1>3, <1>4 DEF DraftsInv, PagesShaped, ChangesShaped
<1>8. PagesRead' BY DEF DraftsInv, PagesRead, Read
<1>9. ChangesTrue'
  <2>1. \A d : Timely(d)' <=> Timely(d) BY DEF Timely, Exact, Content
  <2>2. \A d : RangeChecked(d)' <=> RangeChecked(d) BY DEF RangeChecked, RangeFits
  <2>3. Timely(c)' /\ \A d \in adrift : Timely(d)' /\ RangeChecked(d)' BY <1>6, <2>1, <2>2 DEF DraftsInv, ChangesTrue
  <2>4. ASSUME NEW q \in Editors, sending'[q] \in Sendings
        PROVE  Timely(sending[q].change)' /\ (sending'[q].step # "review" => RangeChecked(sending[q].change)')
    <3>1. CASE q = e BY <1>3, <1>5, <2>3, <3>1 DEF Timely, Exact, Content
    <3>2. CASE q # e BY <1>5, <2>4, <3>2 DEF DraftsInv, ChangesTrue, Timely, Exact, Content, RangeChecked, RangeFits
    <3> QED BY <3>1, <3>2
  <2> QED BY <2>3, <2>4 DEF ChangesTrue
<1>10. ChangesNumbered'
  BY <1>2, <1>3, <1>5 DEF DraftsInv, ChangesNumbered, Reached, MayReach
<1>11. AnswersTrue' BY <1>3, <1>5 DEF DraftsInv, AnswersTrue, Idle, Reached, MayReach
<1> QED BY <1>7, <1>8, <1>9, <1>10, <1>11 DEF DraftsInv, WrittenAsReviewed, RangeKept, RangeFits

\* What is at the document, and what was written or may be, is as before.
LEMMA SameDocument ==
  ASSUME UNCHANGED <<document, landed, adrift>>
  PROVE  /\ \A d : (Timely(d)' <=> Timely(d)) /\ (RangeChecked(d)' <=> RangeChecked(d)) /\ (Read(d)' <=> Read(d))
         /\ \A q, n : (Reached(q, n)' <=> Reached(q, n)) /\ (MayReach(q, n)' <=> MayReach(q, n))
BY DEF Timely, Exact, Content, RangeChecked, RangeFits, Read, Reached, MayReach

LEMMA CancelKeeps == ASSUME DraftsInv, NEW e \in Editors, CancelReview(e) PROVE DraftsInv'
<1>1. /\ sending' = [sending EXCEPT ![e] = Nothing] /\ sending[e].step = "review" /\ sending[e] # Nothing
      /\ UNCHANGED <<document, editorKind, shown, draft, editing, drag, answer, sends, draftEdits, landed, adrift>>
  BY DEF CancelReview
<1>2. \A q \in Editors : (q # e => sending'[q] = sending[q]) /\ sending'[e] = Nothing BY <1>1 DEF DraftsInv, ChangesShaped
<1>3. PagesShaped' /\ ChangesShaped' /\ PagesRead' BY <1>1 DEF DraftsInv, PagesShaped, ChangesShaped, PagesRead, Read
<1>4. \A q \in Editors : sending'[q] \in Sendings => sending'[q] = sending[q] BY <1>2, DraftNames
<1>5. \A q \in Editors : Idle(q)' => Idle(q) BY <1>1, <1>2 DEF Idle, DraftsInv, ChangesShaped
<1>6. ChangesTrue' BY <1>1, <1>4, SameDocument DEF DraftsInv, ChangesTrue, Timely, Exact, Content, RangeChecked, RangeFits
<1>7. ChangesNumbered' BY <1>1, <1>4 DEF DraftsInv, ChangesNumbered, Reached, MayReach
<1>8. AnswersTrue' BY <1>1, <1>5 DEF DraftsInv, AnswersTrue, Reached, MayReach
<1> QED BY <1>1, <1>3, <1>6, <1>7, <1>8 DEF DraftsInv, WrittenAsReviewed, RangeKept, RangeFits

\* A receipt: the page hears what became of its newest change.
LEMMA ReceiptKeeps ==
  ASSUME DraftsInv, NEW e \in Editors, sending[e] \in Sendings,
         NEW state \in {"failed", "unknown", "pending"}, Receipt(e, state),
         UNCHANGED <<document, editorKind, shown, editing, drag, draftEdits, landed>>,
         NEW n \in 0 .. MaxSends, sends' = [sends EXCEPT ![e] = n], sends[e] <= n,
         adrift' = adrift \/ (adrift' = adrift \cup {sending[e].change} /\ sending[e].step = "checked" /\ state = "unknown"
                              /\ n = sends[e]),
         state = "failed" => ~Reached(e, n) /\ ~MayReach(e, n),
         state = "pending" => Reached(e, n)
  PROVE  DraftsInv'
<1> PICK c : c = sending[e].change OBVIOUS
<1>1. /\ answer' = [answer EXCEPT ![e] = state] /\ sending' = [sending EXCEPT ![e] = Nothing]
      /\ draft' = draft \/ draft' = [draft EXCEPT ![e] = Nothing]
  BY DEF Receipt
<1> HIDE DEF Receipt
<1>2. /\ \A q \in Editors : (q # e => sending'[q] = sending[q]) /\ sending'[e] = Nothing
      /\ \A q \in Editors : (q # e => answer'[q] = answer[q]) /\ answer'[e] = state
      /\ \A q \in Editors : (q # e => sends'[q] = sends[q]) /\ sends'[e] = n
  BY <1>1 DEF DraftsInv, ChangesShaped
<1>3. c \in ChangeRequests BY DEF Sendings
<1>4. PagesShaped' BY <1>1 DEF DraftsInv, PagesShaped
<1>5. ChangesShaped' BY <1>1, <1>3 DEF DraftsInv, ChangesShaped
<1>6. PagesRead' BY <1>1, DraftNames DEF DraftsInv, PagesShaped, PagesRead, Read
<1>7. \A q \in Editors : sending'[q] \in Sendings => sending'[q] = sending[q] /\ q # e BY <1>2, DraftNames
<1>8. \A d : (Timely(d)' <=> Timely(d)) /\ (RangeChecked(d)' <=> RangeChecked(d))
  BY DEF Timely, Exact, Content, RangeChecked, RangeFits
<1>9. \A d \in adrift' : d \in adrift \/ (d = c /\ sending[e].step = "checked" /\ n = sends[e] /\ state = "unknown") OBVIOUS
<1>10. Timely(c) /\ (sending[e].step = "checked" => RangeChecked(c)) /\ c.by = e
       /\ (sending[e].step = "checked" => c.number = sends[e])
  BY DEF DraftsInv, ChangesTrue, ChangesNumbered
<1>11. ChangesTrue'
  <2>1. \A d \in adrift' : Timely(d)' /\ RangeChecked(d)' BY <1>8, <1>9, <1>10 DEF DraftsInv, ChangesTrue
  <2>2. ASSUME NEW q \in Editors, sending'[q] \in Sendings
        PROVE  Timely(sending[q].change)' /\ (sending'[q].step # "review" => RangeChecked(sending[q].change)')
    BY <1>7, <2>2 DEF DraftsInv, ChangesTrue, Timely, Exact, Content, RangeChecked, RangeFits
  <2> QED BY <2>1, <2>2 DEF ChangesTrue
<1>12. \A q, k : Reached(q, k)' <=> Reached(q, k) BY DEF Reached
<1>13. \A q \in Editors : \A k : q # e => (MayReach(q, k)' <=> MayReach(q, k))
  BY <1>10 DEF MayReach
<1>14. ChangesNumbered'
  <2>1. \A l \in landed' : l.number <= sends'[l.by]
    <3> SUFFICES ASSUME NEW l \in landed PROVE l.number <= sends'[l.by] OBVIOUS
    <3>1. l.number <= sends[l.by] /\ l.by \in Editors /\ l.number \in Nat
      BY DraftNames DEF DraftsInv, ChangesNumbered, ChangesShaped, Landings
    <3>2. sends[e] \in Nat BY DraftNames DEF DraftsInv, ChangesShaped
    <3> QED BY <1>2, <3>1, <3>2, DraftNames
  <2>2. \A d \in adrift' : d.number <= sends'[d.by]
    <3> SUFFICES ASSUME NEW d \in adrift' PROVE d.number <= sends'[d.by] OBVIOUS
    <3>1. CASE d \in adrift
      <4>1. d.number <= sends[d.by] /\ d.by \in Editors /\ d.number \in Nat
        BY <3>1, DraftNames DEF DraftsInv, ChangesNumbered, ChangesShaped, ChangeRequests
      <4>2. sends[e] \in Nat BY DraftNames DEF DraftsInv, ChangesShaped
      <4> QED BY <1>2, <4>1, <4>2, DraftNames
    <3>2. CASE d \notin adrift BY <1>2, <1>9, <1>10, <3>2, DraftNames DEF DraftsInv, ChangesShaped
    <3> QED BY <3>1, <3>2
  <2>3. ASSUME NEW q \in Editors, sending'[q] \in Sendings
        PROVE  /\ sending'[q].change.by = q
               /\ sending'[q].change.number = IF sending'[q].step = "review" THEN sends'[q] + 1 ELSE sends'[q]
               /\ sending'[q].step = "checked" => ~Reached(q, sends[q])' /\ ~MayReach(q, sends[q])'
               /\ sending'[q].step = "written" => Reached(q, sends[q])'
    <3>1. q # e /\ sending'[q] = sending[q] /\ sends'[q] = sends[q] BY <1>2, <1>7, <2>3
    <3>2. (Reached(q, sends[q])' <=> Reached(q, sends[q])) /\ (MayReach(q, sends[q])' <=> MayReach(q, sends[q]))
      BY <1>12, <1>13, <3>1 DEF Reached, MayReach
    <3> QED BY <2>3, <3>1, <3>2 DEF DraftsInv, ChangesNumbered
  <2> QED BY <2>1, <2>2, <2>3 DEF ChangesNumbered
<1>15. AnswersTrue'
  <2> SUFFICES ASSUME NEW q \in Editors, Idle(q)'
               PROVE  /\ answer'[q] = "failed" => ~Reached(q, sends[q])' /\ ~MayReach(q, sends[q])'
                      /\ answer'[q] = "pending" => Reached(q, sends[q])'
    BY DEF AnswersTrue
  <2>1. CASE q = e
    <3>1. answer'[q] = state /\ sends'[q] = n BY <1>2, <2>1
    <3>2. (Reached(q, sends[q])' <=> Reached(q, n)) BY <3>1 DEF Reached
    <3>3. state = "failed" => (MayReach(q, sends[q])' <=> MayReach(q, n)) BY <3>1 DEF MayReach
    <3> QED BY <2>1, <3>1, <3>2, <3>3
  <2>2. CASE q # e
    <3>1. sending'[q] = sending[q] /\ sends'[q] = sends[q] /\ answer'[q] = answer[q] BY <1>2, <2>2
    <3>2. (Reached(q, sends[q])' <=> Reached(q, sends[q])) /\ (MayReach(q, sends[q])' <=> MayReach(q, sends[q]))
      BY <1>12, <1>13, <2>2, <3>1 DEF Reached, MayReach
    <3>3. Idle(q) BY <3>1 DEF Idle
    <3> QED BY <3>1, <3>2, <3>3 DEF DraftsInv, AnswersTrue
  <2> QED BY <2>1, <2>2
<1> QED BY <1>4, <1>5, <1>6, <1>11, <1>14, <1>15 DEF DraftsInv, WrittenAsReviewed, RangeKept, RangeFits

\* The document moves on: nothing read, reviewed or sent before has the new revision.
LEMMA MovedOn ==
  ASSUME DraftsInv, document' \in Documents, document'.revision = document.revision + 1
  PROVE  /\ \A d \in Documents : Read(d) => Read(d)'
         /\ \A d \in ChangeRequests : Timely(d) => Timely(d)'
<1>1. document.revision \in Nat /\ document'.revision \in Nat BY DraftNames DEF DraftsInv, ChangesShaped, Documents
<1>2. ASSUME NEW d \in Documents, Read(d) PROVE Read(d)'
  <2>1. d.revision \in Nat BY DraftNames DEF Documents
  <2>2. d.revision <= document.revision BY <1>2 DEF Read
  <2>3. d.revision <= document'.revision /\ d.revision # document'.revision BY <1>1, <2>1, <2>2
  <2> QED BY <2>3 DEF Read
<1>3. ASSUME NEW d \in ChangeRequests, Timely(d) PROVE Timely(d)'
  <2>1. d.revision \in Nat BY DraftNames DEF ChangeRequests
  <2>2. d.revision <= document.revision BY <1>3 DEF Timely
  <2>3. d.revision <= document'.revision /\ d.revision # document'.revision BY <1>1, <2>1, <2>2
  <2> QED BY <2>3 DEF Timely
<1> QED BY <1>2, <1>3

LEMMA PagesStay ==
  ASSUME DraftsInv, document' \in Documents, document'.revision = document.revision + 1,
         UNCHANGED <<shown, draft, editing, drag, draftEdits>>
  PROVE  PagesShaped' /\ PagesRead'
<1>1. PagesShaped' BY DEF DraftsInv, PagesShaped
<1>2. \A q \in Editors : shown[q] \in Documents /\ (draft[q] \in DraftPages => draft[q].base \in Documents)
  BY DEF DraftsInv, PagesShaped, DraftPages
<1>3. \A q \in Editors : Read(shown[q])' /\ (draft[q] \in DraftPages => Read(draft[q].base)')
  <2>1. \A q \in Editors : Read(shown[q]) /\ (draft[q] \in DraftPages => Read(draft[q].base)) BY DEF DraftsInv, PagesRead
  <2>2. \A q \in Editors : \A d : d = shown[q] => (Read(d)' => Read(shown[q])') BY DEF Read
  <2>3. \A q \in Editors : \A d : draft[q] \in DraftPages /\ d = draft[q].base => (Read(d)' => Read(draft[q].base)') BY DEF Read
  <2> QED BY <1>2, <2>1, <2>2, <2>3, MovedOn
<1> QED BY <1>1, <1>3 DEF PagesRead

\* What the game takes.
LEMMA ArrivalIs ==
  ASSUME DraftsInv, NEW c \in ChangeRequests, Timely(c), RangeChecked(c), Accepts(c), Arrives(c)
  PROVE  /\ document' \in Documents /\ document'.revision = document.revision + 1
         /\ landed' = landed \cup {[by |-> c.by, number |-> c.number, exact |-> TRUE]} /\ landed' \subseteq Landings
         /\ WrittenAsReviewed' /\ RangeKept'
<1>1. /\ c.new \in Contents /\ c.saw \in Contents /\ c.changes \subseteq Fields \cup {"rotation"}
      /\ c.by \in Editors /\ c.number \in 1 .. MaxSends
  BY DEF ChangeRequests
<1>2. document' = [minimum |-> c.new.minimum, maximum |-> c.new.maximum, rotation |-> c.new.rotation,
                   revision |-> document.revision + 1]
  BY DEF Arrives
<1>3. c.revision = document.revision /\ document.revision < MaxWrites BY DEF Accepts
<1>4. document' \in Documents /\ document'.revision = document.revision + 1
  <2>1. document.revision + 1 \in 0 .. MaxWrites BY <1>3, DraftNames DEF DraftsInv, ChangesShaped, Documents
  <2> QED BY <1>1, <1>2, <2>1 DEF Documents, Contents
<1>5. Exact(c) BY <1>3 DEF Timely
<1>6. landed' = landed \cup {[by |-> c.by, number |-> c.number, exact |-> TRUE]} BY <1>5 DEF Arrives, Exact
<1>7. landed' \subseteq Landings
  <2>1. [by |-> c.by, number |-> c.number, exact |-> TRUE] \in Landings BY <1>1 DEF Landings
  <2> QED BY <1>6, <2>1 DEF DraftsInv, ChangesShaped
<1>8. WrittenAsReviewed'
  <2>1. \A l \in landed' : l \in landed \/ l.exact BY <1>6
  <2> QED BY <2>1 DEF DraftsInv, WrittenAsReviewed
<1>9. RangeKept'
  <2>1. document'.minimum = c.new.minimum /\ document'.maximum = c.new.maximum BY <1>2
  <2>2. CASE c.changes \cap Fields # {} BY <2>1, <2>2 DEF RangeChecked, RangeKept, RangeFits
  <2>3. CASE c.changes \cap Fields = {}
    <3>1. "minimum" \notin c.changes /\ "maximum" \notin c.changes BY <2>3 DEF Fields
    <3>2. Content(document)["minimum"] = c.new["minimum"] /\ Content(document)["maximum"] = c.new["maximum"]
      BY <1>5, <3>1 DEF Exact, Fields
    <3>3. document.minimum = c.new.minimum /\ document.maximum = c.new.maximum BY <3>2 DEF Content
    <3> QED BY <2>1, <3>3 DEF DraftsInv, RangeKept, RangeFits
  <2> QED BY <2>2, <2>3
<1> QED BY <1>4, <1>6, <1>7, <1>8, <1>9

LEMMA ArrivalReaches ==
  ASSUME NEW c \in ChangeRequests, landed' = landed \cup {[by |-> c.by, number |-> c.number, exact |-> TRUE]}
  PROVE  \A q, n : Reached(q, n)' <=> Reached(q, n) \/ (q = c.by /\ n = c.number)
<1> PICK l : l = [by |-> c.by, number |-> c.number, exact |-> TRUE] OBVIOUS
<1>1. l.by = c.by /\ l.number = c.number OBVIOUS
<1>2. landed' = landed \cup {l} OBVIOUS
<1> QED BY ONLY <1>1, <1>2 DEF Reached

LEMMA PutKeeps ==
  ASSUME DraftsInv, NEW e \in Editors, sending[e] \in Sendings, sending[e].step = "checked", NEW c, c = sending[e].change,
         Accepts(c), Arrives(c), sending' = [sending EXCEPT ![e].step = "written"],
         UNCHANGED <<draft, answer, adrift, editorKind, shown, editing, drag, sends, draftEdits>>
  PROVE  DraftsInv'
<1>1. c \in ChangeRequests /\ Timely(c) /\ RangeChecked(c) /\ c.by = e /\ c.number = sends[e]
  BY DEF Sendings, DraftsInv, ChangesTrue, ChangesNumbered
<1>2. /\ document' \in Documents /\ document'.revision = document.revision + 1
      /\ landed' = landed \cup {[by |-> c.by, number |-> c.number, exact |-> TRUE]} /\ landed' \subseteq Landings
      /\ WrittenAsReviewed' /\ RangeKept'
  BY <1>1, ArrivalIs
<1> PICK s : s = [sending[e] EXCEPT !.step = "written"] OBVIOUS
<1>3. s \in Sendings /\ s.step = "written" /\ s.change = c BY DEF Sendings
<1>4. sending' = [sending EXCEPT ![e] = s] OBVIOUS
<1>5. \A q \in Editors : (q # e => sending'[q] = sending[q]) /\ sending'[e] = s BY <1>4 DEF DraftsInv, ChangesShaped
<1> HIDE DEF Arrives
<1>6. PagesShaped' /\ PagesRead' BY <1>2, PagesStay
<1>7. ChangesShaped' BY <1>2, <1>3, <1>4 DEF DraftsInv, ChangesShaped
<1>8. ChangesTrue'
  <2>1. \A d \in adrift : Timely(d)' /\ RangeChecked(d)'
    BY <1>2, MovedOn DEF DraftsInv, ChangesTrue, ChangesShaped, RangeChecked, RangeFits
  <2>2. ASSUME NEW q \in Editors, sending'[q] \in Sendings
        PROVE  Timely(sending[q].change)' /\ (sending'[q].step # "review" => RangeChecked(sending[q].change)')
    <3> PICK d : d = sending'[q].change OBVIOUS
    <3>1. d \in ChangeRequests /\ sending[q] \in Sendings /\ d = sending[q].change BY <1>3, <1>5, <2>2 DEF Sendings
    <3>2. Timely(d) /\ (sending'[q].step # "review" => RangeChecked(d))
      BY <1>1, <1>3, <1>5, <3>1 DEF DraftsInv, ChangesTrue
    <3>3. Timely(d)' BY <1>2, <3>1, <3>2, MovedOn
    <3> QED BY <3>2, <3>3 DEF Timely, RangeChecked, Exact, RangeFits
  <2> QED BY <2>1, <2>2 DEF ChangesTrue
<1>9. \A q, n : Reached(q, n)' <=> Reached(q, n) \/ (q = e /\ n = sends[e]) BY <1>1, <1>2, ArrivalReaches
<1>10. \A q, n : MayReach(q, n)' <=> MayReach(q, n) BY DEF MayReach
<1>11. ChangesNumbered'
  <2>1. \A l \in landed' : l.number <= sends'[l.by]
    <3>1. \A l \in landed' : l \in landed \/ (l.by = e /\ l.number = sends[e]) BY <1>1, <1>2
    <3>2. sends[e] \in Nat BY DraftNames DEF DraftsInv, ChangesShaped
    <3> QED BY <3>1, <3>2 DEF DraftsInv, ChangesNumbered
  <2>2. \A d \in adrift' : d.number <= sends'[d.by] BY DEF DraftsInv, ChangesNumbered
  <2>3. ASSUME NEW q \in Editors, sending'[q] \in Sendings
        PROVE  /\ sending'[q].change.by = q
               /\ sending'[q].change.number = IF sending'[q].step = "review" THEN sends'[q] + 1 ELSE sends'[q]
               /\ sending'[q].step = "checked" => ~Reached(q, sends[q])' /\ ~MayReach(q, sends[q])'
               /\ sending'[q].step = "written" => Reached(q, sends[q])'
    <3>1. (Reached(q, sends[q])' <=> Reached(q, sends[q]) \/ q = e) /\ (MayReach(q, sends[q])' <=> MayReach(q, sends[q]))
      <4> PICK n : n = sends[q] OBVIOUS
      <4>1. (Reached(q, sends[q])' <=> Reached(q, n)') /\ (MayReach(q, sends[q])' <=> MayReach(q, n)')
        BY DEF Reached, MayReach
      <4> QED BY <1>9, <1>10, <4>1
    <3>2. CASE q = e BY <1>1, <1>3, <1>5, <3>1, <3>2
    <3>3. CASE q # e BY <1>5, <2>3, <3>1, <3>3 DEF DraftsInv, ChangesNumbered
    <3> QED BY <3>2, <3>3
  <2> QED BY <2>1, <2>2, <2>3 DEF ChangesNumbered
<1>12. AnswersTrue'
  <2> SUFFICES ASSUME NEW q \in Editors, Idle(q)'
               PROVE  /\ answer'[q] = "failed" => ~Reached(q, sends[q])' /\ ~MayReach(q, sends[q])'
                      /\ answer'[q] = "pending" => Reached(q, sends[q])'
    BY DEF AnswersTrue
  <2>1. q # e BY <1>3, <1>5, DraftNames DEF Idle
  <2>2. Idle(q) BY <1>5, <2>1 DEF Idle
  <2> PICK n : n = sends[q] OBVIOUS
  <2>3. (Reached(q, sends[q])' <=> Reached(q, n)') /\ (MayReach(q, sends[q])' <=> MayReach(q, n)') BY DEF Reached, MayReach
  <2> QED BY <1>9, <1>10, <2>1, <2>2, <2>3 DEF DraftsInv, AnswersTrue
<1> QED BY <1>2, <1>6, <1>7, <1>8, <1>11, <1>12 DEF DraftsInv

\* The document changed at the host's hand or by a late write: what pages sent stays as it is.
LEMMA SentStays ==
  ASSUME DraftsInv, document' \in Documents, document'.revision = document.revision + 1,
         UNCHANGED <<draft, answer, editorKind, shown, editing, drag, sends, draftEdits, sending>>,
         adrift' \subseteq adrift, landed' \subseteq Landings, WrittenAsReviewed', RangeKept',
         \A q, n : Reached(q, n) => Reached(q, n)',
         \A q, n : Reached(q, n)' => Reached(q, n) \/ MayReach(q, n)
  PROVE  DraftsInv'
<1>1. PagesShaped' /\ PagesRead' BY PagesStay
<1>2. ChangesShaped' BY DEF DraftsInv, ChangesShaped
<1>3. ChangesTrue'
  <2>1. \A d \in adrift' : Timely(d)' /\ RangeChecked(d)'
    BY MovedOn DEF DraftsInv, ChangesTrue, ChangesShaped, RangeChecked, RangeFits
  <2>2. ASSUME NEW q \in Editors, sending[q] \in Sendings
        PROVE  Timely(sending[q].change)' /\ (sending[q].step # "review" => RangeChecked(sending[q].change)')
    <3> PICK d : d = sending[q].change OBVIOUS
    <3>1. d \in ChangeRequests BY <2>2 DEF Sendings
    <3>2. Timely(d) /\ (sending[q].step # "review" => RangeChecked(d)) BY <2>2 DEF DraftsInv, ChangesTrue
    <3>3. Timely(d)' BY <3>1, <3>2, MovedOn
    <3> QED BY <3>2, <3>3 DEF Timely, RangeChecked, Exact, RangeFits
  <2> QED BY <2>1, <2>2 DEF ChangesTrue
<1>4. \A q, n : MayReach(q, n)' => MayReach(q, n) BY DEF MayReach
<1>5. \A q : (Reached(q, sends[q])' <=> \E l \in landed' : l.by = q /\ l.number = sends[q]) BY DEF Reached
<1>6. \A q : /\ Reached(q, sends[q]) => Reached(q, sends[q])'
             /\ Reached(q, sends[q])' => Reached(q, sends[q]) \/ MayReach(q, sends[q])
             /\ MayReach(q, sends[q])' => MayReach(q, sends[q])
  <2> SUFFICES ASSUME NEW q
               PROVE  /\ Reached(q, sends[q]) => Reached(q, sends[q])'
                      /\ Reached(q, sends[q])' => Reached(q, sends[q]) \/ MayReach(q, sends[q])
                      /\ MayReach(q, sends[q])' => MayReach(q, sends[q])
    OBVIOUS
  <2> PICK n : n = sends[q] OBVIOUS
  <2>1. (Reached(q, sends[q])' <=> Reached(q, n)') /\ (MayReach(q, sends[q])' <=> MayReach(q, n)') BY DEF Reached, MayReach
  <2> QED BY <1>4, <2>1
<1>7. ChangesNumbered'
  <2>1. \A l \in landed' : l.number <= sends[l.by]
    <3> SUFFICES ASSUME NEW l \in landed' PROVE l.number <= sends[l.by] OBVIOUS
    <3>1. Reached(l.by, l.number)' BY DEF Reached
    <3>2. Reached(l.by, l.number) \/ MayReach(l.by, l.number)
      <4> PICK q, n : q = l.by /\ n = l.number OBVIOUS
      <4>1. Reached(q, n)' BY DEF Reached
      <4>2. Reached(q, n) \/ MayReach(q, n) BY <4>1
      <4> QED BY <4>2 DEF Reached, MayReach
    <3>3. CASE Reached(l.by, l.number) BY <3>3 DEF Reached, DraftsInv, ChangesNumbered
    <3>4. CASE MayReach(l.by, l.number) BY <3>4 DEF MayReach, DraftsInv, ChangesNumbered
    <3> QED BY <3>2, <3>3, <3>4
  <2>2. \A d \in adrift' : d.number <= sends[d.by] BY DEF DraftsInv, ChangesNumbered
  <2>3. ASSUME NEW q \in Editors, sending[q] \in Sendings
        PROVE  /\ sending[q].change.by = q
               /\ sending[q].change.number = IF sending[q].step = "review" THEN sends[q] + 1 ELSE sends[q]
               /\ sending[q].step = "checked" => ~Reached(q, sends[q])' /\ ~MayReach(q, sends[q])'
               /\ sending[q].step = "written" => Reached(q, sends[q])'
    BY <1>6, <2>3 DEF DraftsInv, ChangesNumbered
  <2> QED BY <2>1, <2>2, <2>3 DEF ChangesNumbered
<1>8. AnswersTrue'
  <2>1. \A q : Idle(q)' <=> Idle(q) BY DEF Idle
  <2> QED BY <1>6, <2>1 DEF DraftsInv, AnswersTrue
<1> QED BY <1>1, <1>2, <1>3, <1>7, <1>8 DEF DraftsInv

LEMMA LateKeeps == ASSUME DraftsInv, LateArrival PROVE DraftsInv'
<1>1. PICK c \in adrift : adrift' = adrift \ {c} /\ Accepts(c) /\ Arrives(c) BY DEF LateArrival
<1>2. c \in ChangeRequests /\ Timely(c) /\ RangeChecked(c) BY DEF DraftsInv, ChangesShaped, ChangesTrue
<1>3. /\ document' \in Documents /\ document'.revision = document.revision + 1
      /\ landed' = landed \cup {[by |-> c.by, number |-> c.number, exact |-> TRUE]} /\ landed' \subseteq Landings
      /\ WrittenAsReviewed' /\ RangeKept'
  BY <1>1, <1>2, ArrivalIs
<1>4. \A q, n : Reached(q, n)' <=> Reached(q, n) \/ (q = c.by /\ n = c.number) BY <1>2, <1>3, ArrivalReaches
<1>5. MayReach(c.by, c.number) BY DEF MayReach
<1>6. UNCHANGED <<draft, answer, editorKind, shown, editing, drag, sends, draftEdits, sending>> /\ adrift' \subseteq adrift
  BY <1>1 DEF LateArrival
<1> HIDE DEF LateArrival, Arrives
<1> QED BY <1>3, <1>4, <1>5, <1>6, SentStays

LEMMA HostKeeps == ASSUME DraftsInv, HostEdit PROVE DraftsInv'
<1>1. document.revision < MaxWrites /\ document \in Documents BY DEF HostEdit, DraftsInv, ChangesShaped
<1>2. document.revision + 1 \in 0 .. MaxWrites /\ document.rotation \in DraftRotations BY <1>1, DraftNames DEF Documents
<1>3. /\ document' \in Documents /\ document'.revision = document.revision + 1
      /\ document'.minimum = document.minimum /\ document'.maximum = document.maximum
  <2>1. CASE document' = [document EXCEPT !.revision = @ + 1] BY <1>1, <1>2, <2>1 DEF Documents
  <2>2. CASE /\ Len(document.rotation) > 1
             /\ document' = [document EXCEPT !.revision = @ + 1, !.rotation = Tail(@)]
    <3>1. Tail(document.rotation) \in DraftRotations BY <1>2, <2>2, RowsKeptAre
    <3> QED BY <1>1, <1>2, <2>2, <3>1 DEF Documents
  <2> QED BY <2>1, <2>2 DEF HostEdit
<1>4. UNCHANGED <<draft, answer, editorKind, shown, editing, drag, sends, draftEdits, sending, adrift, landed>>
  BY DEF HostEdit
<1> HIDE DEF HostEdit
<1>5. WrittenAsReviewed' /\ RangeKept' /\ landed' \subseteq Landings
  BY <1>3, <1>4 DEF DraftsInv, ChangesShaped, WrittenAsReviewed, RangeKept, RangeFits
<1>6. \A q, n : Reached(q, n)' <=> Reached(q, n) BY <1>4 DEF Reached
<1> QED BY <1>3, <1>4, <1>5, <1>6, SentStays

LEMMA ReviewsKeep == ASSUME DraftsInv, NEW e \in Editors, ReviewSettings(e) \/ ReviewRotation(e) PROVE DraftsInv'
<1>1. CASE ReviewSettings(e)
  <2> PICK base : base = draft[e].base OBVIOUS
  <2> PICK edited : edited = draft[e].changes OBVIOUS
  <2>1. draft[e] \in DraftPages BY <1>1 DEF ReviewSettings, DraftsInv, PagesShaped
  <2>2. base \in Documents /\ edited \subseteq Fields /\ Read(base)
    BY <2>1 DEF DraftPages, DraftsInv, PagesRead
  <2> PICK saw : saw = Content(base) OBVIOUS
  <2> PICK new : new = Edited(base, edited) OBVIOUS
  <2>3. saw \in Contents /\ saw = [minimum |-> base.minimum, maximum |-> base.maximum, rotation |-> base.rotation]
    BY <2>2 DEF Content, Contents, Documents
  <2>4. /\ new = [minimum |-> IF "minimum" \in edited THEN 3 - base.minimum ELSE base.minimum,
                  maximum |-> IF "maximum" \in edited THEN 3 - base.maximum ELSE base.maximum, rotation |-> base.rotation]
        /\ new \in Contents
    <3>1. 3 - base.minimum \in {1, 2} /\ 3 - base.maximum \in {1, 2} BY <2>2 DEF Documents
    <3> QED BY <2>2, <3>1 DEF Edited, Contents, Documents
  <2>5. base.revision = document.revision =>
          \A f \in Fields \cup {"rotation"} : Content(document)[f] = IF f \in edited THEN saw[f] ELSE new[f]
    <3> SUFFICES ASSUME base = document, NEW f \in Fields \cup {"rotation"}
                 PROVE  Content(document)[f] = IF f \in edited THEN saw[f] ELSE new[f]
      BY <2>2 DEF Read
    <3>1. f = "minimum" \/ f = "maximum" \/ (f = "rotation" /\ f \notin edited) BY <2>2 DEF Fields
    <3> QED BY <2>3, <2>4, <3>1 DEF Content
  <2>6. base.revision \in 0 .. MaxWrites /\ base.revision <= document.revision BY <2>2 DEF Documents, Read
  <2>7. /\ sending[e] = Nothing /\ sends[e] < MaxSends /\ Reviewed(e, base.revision, saw, edited, new)
        /\ UNCHANGED <<document, editorKind, shown, draft, editing, drag, answer, sends, draftEdits, landed, adrift>>
    BY <1>1 DEF ReviewSettings
  <2>8. edited \in SUBSET (Fields \cup {"rotation"}) BY <2>2
  <2> QED BY <2>3, <2>4, <2>5, <2>6, <2>7, <2>8, ReviewedKeeps
<1>2. CASE ReviewRotation(e)
  <2> PICK view : view = shown[e] OBVIOUS
  <2> PICK list : list = Rows(e) OBVIOUS
  <2>1. view \in Documents /\ Read(view) /\ list \in DraftRotations
    BY RowsAre DEF DraftsInv, PagesRead
  <2> PICK content : content = Content(view) OBVIOUS
  <2>2. content \in Contents /\ content = [minimum |-> view.minimum, maximum |-> view.maximum, rotation |-> view.rotation]
    BY <2>1 DEF Content, Contents, Documents
  <2>3. BaseRotation(e) = view.rotation /\ sending[e] = Nothing
    BY <1>2 DEF ReviewRotation, LockedEditor, ChangedElsewhere
  <2> PICK saw : saw = [content EXCEPT !.rotation = BaseRotation(e)] OBVIOUS
  <2> PICK new : new = [content EXCEPT !.rotation = list] OBVIOUS
  <2>4. /\ saw \in Contents /\ saw.rotation = view.rotation
        /\ new \in Contents /\ new.minimum = view.minimum /\ new.maximum = view.maximum
    BY <2>1, <2>2, <2>3 DEF Contents, Documents
  <2> PICK edited : edited = {"rotation"} OBVIOUS
  <2>5. view.revision = document.revision =>
          \A f \in Fields \cup {"rotation"} : Content(document)[f] = IF f \in edited THEN saw[f] ELSE new[f]
    <3> SUFFICES ASSUME view = document, NEW f \in Fields \cup {"rotation"}
                 PROVE  Content(document)[f] = IF f \in edited THEN saw[f] ELSE new[f]
      BY <2>1 DEF Read
    <3>1. (f = "minimum" /\ f \notin edited) \/ (f = "maximum" /\ f \notin edited) \/ (f = "rotation" /\ f \in edited)
      BY DEF Fields
    <3> QED BY <2>4, <3>1 DEF Content
  <2>6. view.revision \in 0 .. MaxWrites /\ view.revision <= document.revision BY <2>1 DEF Documents, Read
  <2>7. /\ sends[e] < MaxSends /\ Reviewed(e, view.revision, saw, edited, new)
        /\ UNCHANGED <<document, editorKind, shown, draft, editing, drag, answer, sends, draftEdits, landed, adrift>>
    BY <1>2 DEF ReviewRotation
  <2>8. edited \in SUBSET (Fields \cup {"rotation"}) OBVIOUS
  <2> QED BY <2>3, <2>4, <2>5, <2>6, <2>7, <2>8, ReviewedKeeps
<1> QED BY <1>1, <1>2

\* A change that the service found fit.
LEMMA CheckedKeeps ==
  ASSUME DraftsInv, NEW e \in Editors, sending[e] \in Sendings, sending[e].step = "review", NEW c, c = sending[e].change,
         RangeChecked(c), sends' = [sends EXCEPT ![e] = c.number], sending' = [sending EXCEPT ![e].step = "checked"],
         UNCHANGED <<document, editorKind, shown, draft, editing, drag, answer, draftEdits, landed, adrift>>
  PROVE  DraftsInv'
<1>1. c \in ChangeRequests /\ Timely(c) /\ c.by = e /\ c.number = sends[e] + 1 /\ c.number \in 0 .. MaxSends /\ sends[e] \in Nat
  BY DraftNames DEF Sendings, ChangeRequests, DraftsInv, ChangesTrue, ChangesNumbered, ChangesShaped
<1> PICK s : s = [sending[e] EXCEPT !.step = "checked"] OBVIOUS
<1>2. s \in Sendings /\ s.step = "checked" /\ s.change = c BY DEF Sendings
<1>3. sending' = [sending EXCEPT ![e] = s] OBVIOUS
<1>4. /\ \A q \in Editors : (q # e => sending'[q] = sending[q]) /\ sending'[e] = s
      /\ \A q \in Editors : (q # e => sends'[q] = sends[q]) /\ sends'[e] = c.number
  BY <1>3 DEF DraftsInv, ChangesShaped
<1>5. PagesShaped' /\ ChangesShaped' BY <1>1, <1>2, <1>3 DEF DraftsInv, PagesShaped, ChangesShaped
<1>6. PagesRead' BY DEF DraftsInv, PagesRead, Read
<1>7. \A l \in landed : l.number <= sends[l.by] /\ l.number \in Nat /\ l.by \in Editors
  BY DraftNames DEF DraftsInv, ChangesNumbered, ChangesShaped, Landings
<1>8. \A d \in adrift : d.number <= sends[d.by] /\ d.number \in Nat /\ d.by \in Editors
  BY DraftNames DEF DraftsInv, ChangesNumbered, ChangesShaped, ChangeRequests
<1>9. ~Reached(e, sends[e])' /\ ~MayReach(e, sends[e])'
  <2>1. \A l \in landed : l.by = e => l.number # c.number BY <1>1, <1>7
  <2>2. \A d \in adrift : d.by = e => d.number # c.number BY <1>1, <1>8
  <2> QED BY <1>4, <2>1, <2>2 DEF Reached, MayReach
<1>10. \A q \in Editors : q # e => /\ Reached(q, sends[q])' <=> Reached(q, sends[q])
                                   /\ MayReach(q, sends[q])' <=> MayReach(q, sends[q])
  BY <1>4 DEF Reached, MayReach
<1>11. ChangesTrue'
  <2>1. \A d \in adrift : Timely(d)' /\ RangeChecked(d)'
    BY DEF DraftsInv, ChangesTrue, Timely, Exact, Content, RangeChecked, RangeFits
  <2>2. ASSUME NEW q \in Editors, sending'[q] \in Sendings
        PROVE  Timely(sending[q].change)' /\ (sending'[q].step # "review" => RangeChecked(sending[q].change)')
    <3> PICK d : d = sending'[q].change OBVIOUS
    <3>1. Timely(d) /\ (sending'[q].step # "review" => RangeChecked(d))
      BY <1>1, <1>2, <1>4, <2>2 DEF DraftsInv, ChangesTrue
    <3> QED BY <3>1 DEF Timely, RangeChecked, Exact, Content, RangeFits
  <2> QED BY <2>1, <2>2 DEF ChangesTrue
<1>12. ChangesNumbered'
  <2>1. \A l \in landed' : l.number <= sends'[l.by] BY <1>1, <1>4, <1>7
  <2>2. \A d \in adrift' : d.number <= sends'[d.by] BY <1>1, <1>4, <1>8
  <2>3. ASSUME NEW q \in Editors, sending'[q] \in Sendings
        PROVE  /\ sending'[q].change.by = q
               /\ sending'[q].change.number = IF sending'[q].step = "review" THEN sends'[q] + 1 ELSE sends'[q]
               /\ sending'[q].step = "checked" => ~Reached(q, sends[q])' /\ ~MayReach(q, sends[q])'
               /\ sending'[q].step = "written" => Reached(q, sends[q])'
    <3>1. CASE q = e BY <1>1, <1>2, <1>4, <1>9, <3>1, ZenonT(60)
    <3>2. CASE q # e BY <1>4, <1>10, <2>3, <3>2 DEF DraftsInv, ChangesNumbered
    <3> QED BY <3>1, <3>2
  <2> QED BY <2>1, <2>2, <2>3 DEF ChangesNumbered
<1>13. AnswersTrue'
  <2> SUFFICES ASSUME NEW q \in Editors, Idle(q)'
               PROVE  /\ answer'[q] = "failed" => ~Reached(q, sends[q])' /\ ~MayReach(q, sends[q])'
                      /\ answer'[q] = "pending" => Reached(q, sends[q])'
    BY DEF AnswersTrue
  <2>1. q # e BY <1>2, <1>4, DraftNames DEF Idle
  <2>2. Idle(q) BY <1>4, <2>1 DEF Idle
  <2> QED BY <1>10, <2>1, <2>2 DEF DraftsInv, AnswersTrue
<1> QED BY <1>5, <1>6, <1>11, <1>12, <1>13 DEF DraftsInv, WrittenAsReviewed, RangeKept, RangeFits

LEMMA ServiceKeeps == ASSUME DraftsInv, NEW e \in Editors, Preview(e) \/ Put(e) \/ ReadBack(e) PROVE DraftsInv'
<1>1. sending[e] \in Sendings BY DEF Preview, Put, ReadBack, DraftsInv, ChangesShaped
<1> PICK c : c = sending[e].change OBVIOUS
<1>2. c \in ChangeRequests /\ c.number \in 0 .. MaxSends /\ sends[e] \in 0 .. MaxSends /\ c.by = e
  BY <1>1, DraftNames DEF Sendings, ChangeRequests, DraftsInv, ChangesShaped, ChangesNumbered
<1>3. sends = [sends EXCEPT ![e] = sends[e]] BY DEF DraftsInv, ChangesShaped
<1>4. \A n : n = sends[e] => (Reached(e, n) <=> Reached(e, sends[e])) /\ (MayReach(e, n) <=> MayReach(e, sends[e])) OBVIOUS
<1>5. CASE Preview(e)
  <2>1. /\ sending[e].step = "review" /\ sends' = [sends EXCEPT ![e] = c.number]
        /\ UNCHANGED <<document, editorKind, shown, editing, drag, draftEdits, landed, adrift>>
    BY <1>5 DEF Preview
  <2>2. c.number = sends[e] + 1 BY <1>1, <2>1 DEF DraftsInv, ChangesNumbered
  <2>3. CASE /\ c.changes \cap Fields # {} => RangeFits(c.new)
             /\ sending' = [sending EXCEPT ![e].step = "checked"] /\ UNCHANGED <<draft, answer>>
    <3>1. RangeChecked(c) BY <2>3 DEF RangeChecked
    <3> QED BY <1>1, <2>1, <2>3, <3>1, CheckedKeeps
  <2>4. CASE Receipt(e, "failed")
    <3>1. ~Reached(e, c.number) /\ ~MayReach(e, c.number)
      <4>1. \A l \in landed : l.by = e => l.number <= sends[e] /\ l.number \in Nat
        BY DraftNames DEF DraftsInv, ChangesNumbered, ChangesShaped, Landings
      <4>2. \A d \in adrift : d.by = e => d.number <= sends[e] /\ d.number \in Nat
        BY DraftNames DEF DraftsInv, ChangesNumbered, ChangesShaped, ChangeRequests
      <4>3. sends[e] \in Nat BY <1>2, DraftNames
      <4> QED BY <2>2, <4>1, <4>2, <4>3 DEF Reached, MayReach
    <3>2. sends[e] <= c.number BY <1>2, <2>2, DraftNames
    <3>3. adrift' = adrift BY <2>1
    <3> QED BY <1>1, <1>2, <2>1, <2>4, <3>1, <3>2, <3>3, ReceiptKeeps
  <2> QED BY <1>5, <2>3, <2>4 DEF Preview
<1>6. CASE Put(e)
  <2>1. sending[e].step = "checked" /\ UNCHANGED <<editorKind, shown, editing, drag, sends, draftEdits>> BY <1>6 DEF Put
  <2>2. ~Reached(e, sends[e]) /\ ~MayReach(e, sends[e]) BY <1>1, <2>1 DEF DraftsInv, ChangesNumbered
  <2>3. sends' = [sends EXCEPT ![e] = sends[e]] /\ sends[e] <= sends[e] BY <1>2, <1>3, <2>1, DraftNames
  <2>4. CASE Accepts(c) /\ Arrives(c) /\ sending' = [sending EXCEPT ![e].step = "written"] /\ UNCHANGED <<draft, answer, adrift>>
    BY <1>1, <2>1, <2>4, PutKeeps
  <2>5. CASE Receipt(e, "failed") /\ UNCHANGED <<document, landed, adrift>>
    BY <1>1, <1>2, <2>1, <2>2, <2>3, <2>5, ReceiptKeeps
  <2>6. CASE Receipt(e, "unknown") /\ adrift' = adrift \cup {c} /\ UNCHANGED <<document, landed>>
    BY <1>1, <1>2, <2>1, <2>3, <2>6, ReceiptKeeps
  <2> QED BY <1>6, <2>4, <2>5, <2>6 DEF Put
<1>7. CASE ReadBack(e)
  <2>1. /\ sending[e].step = "written"
        /\ UNCHANGED <<document, editorKind, shown, editing, drag, sends, draftEdits, landed, adrift>>
    BY <1>7 DEF ReadBack
  <2>2. Reached(e, sends[e]) BY <1>1, <2>1 DEF DraftsInv, ChangesNumbered
  <2>3. sends' = [sends EXCEPT ![e] = sends[e]] /\ sends[e] <= sends[e] BY <1>2, <1>3, <2>1, DraftNames
  <2>4. CASE Receipt(e, "pending") BY <1>1, <1>2, <2>1, <2>2, <2>3, <2>4, ReceiptKeeps
  <2>5. CASE Receipt(e, "unknown") BY <1>1, <1>2, <2>1, <2>3, <2>5, ReceiptKeeps
  <2> QED BY <1>7, <2>4, <2>5 DEF ReadBack
<1> QED BY <1>5, <1>6, <1>7

LEMMA DraftsKeep == DraftsInv /\ [DraftsNext]_draftVars => DraftsInv'
<1> SUFFICES ASSUME DraftsInv, [DraftsNext]_draftVars PROVE DraftsInv' OBVIOUS
<1>1. CASE UNCHANGED draftVars
  <2>1. PagesShaped' /\ UNCHANGED <<document, editorKind, sending, answer, sends, landed, adrift>> /\ PagesRead'
    BY <1>1 DEF draftVars, DraftsInv, PagesShaped, PagesRead, Read
  <2> QED BY <2>1, PageMoves
<1>2. ASSUME NEW e \in Editors, RefreshDocument(e) \/ EditSetting(e) \/ OpenEntry(e) \/ PickUp(e) \/ Discard(e) PROVE DraftsInv'
  BY <1>2, DeskSteps
<1>3. ASSUME NEW e \in Editors, ChangeRows(e) \/ SaveEntry(e) \/ DropRow(e) PROVE DraftsInv' BY <1>3, RowSteps
<1>4. ASSUME NEW e \in Editors, ReviewSettings(e) \/ ReviewRotation(e) PROVE DraftsInv' BY <1>4, ReviewsKeep
<1>5. ASSUME NEW e \in Editors, CancelReview(e) PROVE DraftsInv' BY <1>5, CancelKeeps
<1>6. ASSUME NEW e \in Editors, Preview(e) \/ Put(e) \/ ReadBack(e) PROVE DraftsInv' BY <1>6, ServiceKeeps
<1> QED BY <1>1, <1>2, <1>3, <1>4, <1>5, <1>6, LateKeeps, HostKeeps DEF DraftsNext

LEMMA DraftsGive == DraftsInv => DraftsTypeOK /\ DraftsHold
<1> SUFFICES ASSUME DraftsInv PROVE DraftsTypeOK /\ DraftsHold OBVIOUS
<1>1. ASSUME NEW e \in Editors
      PROVE  /\ draft[e] = Nothing \/ (draft[e].base \in Documents /\ draft[e].changes \subseteq Fields
                                        /\ draft[e].rows \in DraftRotations)
             /\ editing[e] = Nothing \/ (editing[e].at \in 1..MaxEntries /\ editing[e].base \in DraftRotations)
             /\ drag[e] = Nothing \/ drag[e].rows \in DraftRotations
             /\ sending[e] = Nothing \/ (sending[e].step \in {"review", "checked", "written"}
                                          /\ sending[e].change \in ChangeRequests)
  <2>1. draft[e] # Nothing => draft[e] \in DraftPages BY DEF DraftsInv, PagesShaped
  <2>2. editing[e] # Nothing => editing[e] \in EntryEdits BY DEF DraftsInv, PagesShaped
  <2>3. drag[e] # Nothing => drag[e] \in Drags BY DEF DraftsInv, PagesShaped
  <2>4. sending[e] # Nothing => sending[e] \in Sendings BY DEF DraftsInv, ChangesShaped
  <2>5. draft[e] = Nothing \/ (draft[e].base \in Documents /\ draft[e].changes \subseteq Fields /\ draft[e].rows \in DraftRotations)
    BY <2>1 DEF DraftPages
  <2>6. editing[e] = Nothing \/ (editing[e].at \in 1..MaxEntries /\ editing[e].base \in DraftRotations) BY <2>2 DEF EntryEdits
  <2>7. drag[e] = Nothing \/ drag[e].rows \in DraftRotations BY <2>3 DEF Drags
  <2>8. sending[e] = Nothing \/ (sending[e].step \in {"review", "checked", "written"} /\ sending[e].change \in ChangeRequests)
    BY <2>4 DEF Sendings
  <2> QED BY <2>5, <2>6, <2>7, <2>8
<1>2. DraftsTypeOK BY <1>1 DEF DraftsTypeOK, DraftsInv, PagesShaped, ChangesShaped, Landings
<1>3. ReceiptsTrue
  <2> SUFFICES ASSUME NEW e \in Editors, sending[e] = Nothing
        PROVE  /\ answer[e] = "failed" => ~(\E l \in landed : l.by = e /\ l.number = sends[e])
                                          /\ ~(\E c \in adrift : c.by = e /\ c.number = sends[e])
               /\ answer[e] = "pending" => \E l \in landed : l.by = e /\ l.number = sends[e]
    BY DEF ReceiptsTrue
  <2>1. Idle(e) BY DEF Idle
  <2> QED BY <2>1 DEF DraftsInv, AnswersTrue, Reached, MayReach
<1> QED BY <1>2, <1>3 DEF DraftsHold, DraftsInv

-----------------------------------------------------------------------------
(* What is saved *)

\* The numbers of the approvals' types.
BulkLimits == requests <= MaxRequests /\ \A c \in Apps : app[c].by >= OtherStaff
LEMMA LimitsStart == BulkInit => BulkLimits
BY BulkNumbers DEF BulkInit, BulkLimits
LEMMA LimitsStay == BulkInv /\ BulkLimits /\ [BulkNext]_bulkVars => BulkLimits'
<1> SUFFICES ASSUME BulkInv, BulkLimits, [BulkNext]_bulkVars PROVE BulkLimits' OBVIOUS
<1>1. requests \in Nat /\ app \in [Apps -> AppRows] /\ \A call \in reviewCalls : call.id \in Nat
  BY DEF BulkInv, PageShaped, ServerShaped, ReviewCalls
<1>2. requests' <= MaxRequests
  <2>1. requests' = requests \/ (requests < MaxRequests /\ requests' = requests + 1)
    BY DEF BulkNext, bulkVars, ReadList, OpenBatch, SubmitBatch, StopBatch, SendNext, NewRequest, Halt, Close, Leave, GiveUp,
       TimePasses, Tick, OpenReview, OthersDecide, SubmitReview, Busy, ClaimReview, Act, Answer, ServerOnly
  <2> QED BY <1>1, <2>1, BulkNumbers DEF BulkLimits
<1>3. \A c \in Apps : app'[c].by >= OtherStaff
  <2>1. CASE UNCHANGED app BY <2>1 DEF BulkLimits
  <2>2. ASSUME NEW call \in reviewCalls, NEW s, app' = [app EXCEPT ![call.app] = [status |-> s, by |-> call.id]]
        PROVE  \A c \in Apps : app'[c].by >= OtherStaff
    BY <1>1, <2>2, BulkNumbers DEF BulkLimits
  <2>3. ASSUME NEW call \in reviewCalls, NEW s, app' = [app EXCEPT ![call.app].status = s]
        PROVE  \A c \in Apps : app'[c].by >= OtherStaff
    BY <1>1, <2>3 DEF BulkLimits, AppRows
  <2>4. ASSUME NEW a \in Apps, NEW s, app' = [app EXCEPT ![a] = [status |-> s, by |-> OtherStaff]]
        PROVE  \A c \in Apps : app'[c].by >= OtherStaff
    BY <1>1, <2>4, BulkNumbers DEF BulkLimits
  <2>5. \/ UNCHANGED app
        \/ \E call \in reviewCalls : ClaimReview(call) \/ Act(call)
        \/ \E a \in Apps : OthersDecide(a)
    BY DEF BulkNext, bulkVars, ReadList, OpenBatch, SubmitBatch, StopBatch, SendNext, Halt, Close, Leave, GiveUp,
       TimePasses, Tick, OpenReview, SubmitReview, Busy, Answer
  <2>6. ASSUME NEW call \in reviewCalls, ClaimReview(call) PROVE \A c \in Apps : app'[c].by >= OtherStaff
    BY <2>1, <2>2, <2>6 DEF ClaimReview
  <2>7. ASSUME NEW call \in reviewCalls, Act(call) PROVE \A c \in Apps : app'[c].by >= OtherStaff
    BY <2>1, <2>3, <2>7 DEF Act
  <2>8. ASSUME NEW a \in Apps, OthersDecide(a) PROVE \A c \in Apps : app'[c].by >= OtherStaff
    BY <2>4, <2>8 DEF OthersDecide
  <2> QED BY <2>1, <2>5, <2>6, <2>7, <2>8
<1> QED BY <1>2, <1>3 DEF BulkLimits
LEMMA BulkTyped == BulkInv /\ BulkLimits => BulkTypeOK
<1> SUFFICES ASSUME BulkInv, BulkLimits PROVE BulkTypeOK OBVIOUS
<1>1. /\ app \in [Apps -> AppRows] /\ (\A c \in Apps : app[c].by <= requests) /\ requests \in Nat /\ MaxRequests \in Nat
      /\ awaited \in Nat /\ awaited <= requests /\ requests <= MaxRequests /\ ticked \subseteq Apps /\ rest \in {0, 1}
  BY BulkNumbers DEF BulkInv, PageShaped, ServerShaped, BulkLimits
<1>2. \A c \in Apps : app[c] \in [status : AppStatuses, by : OtherStaff .. MaxRequests]
  BY <1>1, BulkNumbers DEF AppRows, BulkLimits
<1>3. app \in [Apps -> [status : AppStatuses, by : OtherStaff .. MaxRequests]] BY <1>1, <1>2
<1>4. batch.phase \in {"none", "review", "running", "done"}
  BY BulkNumbers DEF BulkInv, PageShaped, Batches
<1>5. single.at \in {"none", "open", "sending", "approved", "declined", "unconfirmed"}
  BY BulkNumbers DEF BulkInv, PageShaped, Dialogues
<1> QED BY <1>1, <1>3, <1>4, <1>5, BulkNumbers DEF BulkTypeOK

PagesInv == ControlsInv /\ DraftsInv /\ StartInv /\ BulkInv /\ BulkLimits /\ DeskInv /\ SupportersInv

LEMMA PagesStart == Init => PagesInv
BY ControlsStart, DraftsStart, StartInitial, BulkStarts, LimitsStart, DeskStarts, SupportersStart DEF Init, PagesInv

LEMMA PagesKeep == PagesInv /\ [Next]_vars => PagesInv'
<1> SUFFICES ASSUME PagesInv, [Next]_vars PROVE PagesInv' OBVIOUS
<1>1. [ControlsNext]_controlVars /\ [DraftsNext]_draftVars /\ [StartNext]_startVars /\ [BulkNext]_bulkVars
  <2>1. CASE UNCHANGED vars BY <2>1 DEF vars
  <2>2. CASE Next BY <2>2 DEF Next
  <2> QED BY <2>1, <2>2
<1> QED BY <1>1, ControlsKeep, DraftsKeep, StartInductive, BulkKeeps, LimitsStay, DeskKeeps, SupportersKeep DEF PagesInv

LEMMA PagesGive == PagesInv => FormsAndDraftsTrue
<1> SUFFICES ASSUME PagesInv PROVE FormsAndDraftsTrue OBVIOUS
<1>1. ControlsTypeOK /\ FormsFresh /\ DraftsTypeOK /\ DraftsHold BY ControlsGive, DraftsGive DEF PagesInv
<1>2. StartTypeOK /\ StepsTypeOK BY DEF PagesInv, StartInv, SupportersInv
<1>3. RecordTypeOK
  BY DEF PagesInv, SupportersInv, RecordInv, RecordShape, RecordTypeOK, ChargeHistories, ChargeStates, SupporterRows, TimesKnown,
     Happened
<1>4. EntryTypeOK
  BY DEF PagesInv, SupportersInv, EntryInv, EntryShape, EntryTypeOK, EntryForms, PaymentRows
<1>5. ApplyingTypeOK
  BY DEF PagesInv, DeskInv, ApplyingInv, ApplyingShape, ApplyingTypeOK, Sessions
<1>6. BulkTypeOK BY BulkTyped DEF PagesInv
<1> QED BY <1>1, <1>2, <1>3, <1>4, <1>5, <1>6 DEF FormsAndDraftsTrue, TypeOK

LEMMA ControlsStepKept ==
  PagesInv /\ [Next]_vars =>
    [\A r \in Posts : Saving(r) =>
       LET q == post[r] IN post'[r].step \in {"done", "saved"} =>
         /\ \A f \in Switches \cup Numbers : saved'.doc[f] = IF q.doc[f] # q.base[f] THEN q.doc[f] ELSE saved.doc[f]
         /\ Valid(saved'.doc, Held)
         /\ saved.version > 0 /\ saved.doc.on /\ saved'.doc.on => saved.here]_controlVars
<1> SUFFICES ASSUME PagesInv, [Next]_vars
             PROVE  \A r \in Posts : Saving(r) =>
               LET q == post[r] IN post'[r].step \in {"done", "saved"} =>
                 /\ \A f \in Switches \cup Numbers : saved'.doc[f] = IF q.doc[f] # q.base[f] THEN q.doc[f] ELSE saved.doc[f]
                 /\ Valid(saved'.doc, Held)
                 /\ saved.version > 0 /\ saved.doc.on /\ saved'.doc.on => saved.here
  OBVIOUS
<1>1. ControlsInv /\ [ControlsNext]_controlVars
  <2>1. CASE UNCHANGED vars BY <2>1 DEF vars, PagesInv
  <2>2. CASE Next BY <2>2 DEF Next, PagesInv
  <2> QED BY <2>1, <2>2
<1> QED BY <1>1, ControlsSaved

\* For any dashboards, saves, editors and edits of the host: a voting form or a switch saves what it changed and
\* nothing else, whatever other dashboards saved and whoever still waits, and no form builds on controls older than
\* its dashboard saved; a draft replaces exactly what its reviewer saw, its receipt is true and the joining range
\* stays a range (voting-controls.tsx, map-votes.service.ts saveControls, changeServerConfiguration).
THEOREM SavesAreReviewed == Spec => SavesReviewed
<1>1. Spec => []PagesInv BY PagesStart, PagesKeep, PTL DEF Spec
<1>2. Spec => []FormsAndDraftsTrue BY <1>1, PagesGive, PTL
<1>3. Spec => ControlsKept BY <1>1, ControlsStepKept, PTL DEF Spec, ControlsKept
<1> QED BY <1>2, <1>3 DEF SavesReviewed
=============================================================================
