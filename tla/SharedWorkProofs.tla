------------------------------ MODULE SharedWorkProofs ------------------------------
(***************************************************************************)
(* Proofs about the work that several callers, readers and workers share:  *)
(* the telemetry feed (Telemetry), the scores that a ballot heeds          *)
(* (ScoreWatch), the reviews of an application by staff, jobs and the page *)
(* (Applications), and the rotation that staff, the dashboard and ballots  *)
(* write (NextMap). Each part states its inductive invariant (FeedInv,     *)
(* WatchInv, AppsInv, NextInv), shows that every step keeps it, and ends   *)
(* with the theorems it is for.                                            *)
(***************************************************************************)
EXTENDS Telemetry, ScoreWatch, Applications, NextMap, FiniteSetTheorems, SequenceTheorems, WellFoundedInduction, TLAPS

-----------------------------------------------------------------------------
(* The telemetry feed *)

EventRows == [id : Kills, day : 0 .. LastDay]

Jobs ==
  {IdleDelivery} \cup
  [step : {"events", "tracking", "types", "cleanup", "answer"}, day : 0 .. LastDay,
   kills : SUBSET Kills, types : SUBSET OtherTypes, fresh : SUBSET Kills,
   counted : SUBSET OtherTypes]

Reads ==
  {NotReading} \cup [step : {"asking", "waiting"}, by : Viewers, must : SUBSET EventRows]
  \cup [step : {"waiting"}, by : Viewers, must : SUBSET EventRows, rows : SUBSET EventRows]
  \cup [step : {"shown"}, must : SUBSET EventRows, rows : SUBSET EventRows]

Entries == {NoEntry} \cup [load : {"running"}, by : Viewers] \cup [load : {"ready"}, rows : SUBSET EventRows]

FeedShape ==
  /\ FeedTypeOK /\ delivery \in [Deliveries -> Jobs] /\ viewer \in [Viewers -> Reads]
  /\ snapshots \in Entries

\* The tracked span is a span of days, and covers the stored events.
SpanInv ==
  /\ tracking = NotSeen \/ tracking \in [first : 0 .. LastDay, last : 0 .. LastDay,
                                          cleanup : 0 .. LastDay]
  /\ tracking.first <= tracking.last
  /\ SpanCovers

\* No batch is older than what is kept, and an answered event that is gone is.
PastInv ==
  /\ \A d \in Deliveries :
       delivery[d].step # "idle" => delivery[d].day <= today /\ today <= delivery[d].day + Retention
  /\ \A r \in receipted : r \in stored \/ r.day < today - Retention

KnownTypes(day) == {r.type : r \in {x \in typeRows : x.day = day}}

\* One batch at a time is between the tracking row and its commit, and what it adds has room.
RowInv ==
  /\ \A d \in Deliveries : d \in rowHeld <=> delivery[d].step \in {"types", "cleanup"}
  /\ \A d, e \in rowHeld : d = e
  /\ \A d \in Deliveries :
       delivery[d].step = "cleanup" =>
         Cardinality(KnownTypes(delivery[d].day)) + Cardinality(delivery[d].counted) <= TypeLimit
  /\ \A day \in 0 .. LastDay : Cardinality(KnownTypes(day)) <= TypeLimit

\* v reads the leaderboard for itself and for those who wait for it.
Leads(v) == v \in Viewers /\ viewer[v].step \in {"asking", "waiting"} /\ viewer[v].by = v
\* What v's query found holds the rows, or v has not queried yet.
Finds(v, rows) == viewer[v].step = "waiting" => rows \subseteq viewer[v].rows

ReadInv ==
  \A w \in Viewers :
    /\ viewer[w].step # "idle" => viewer[w].must \subseteq receipted
    /\ viewer[w].step = "asking" => viewer[w].by = w
    /\ viewer[w].step = "waiting" /\ viewer[w].by = w => viewer[w].rows \in SUBSET EventRows
    /\ viewer[w].step \in {"asking", "waiting"} =>
         Leads(viewer[w].by) /\ Finds(viewer[w].by, viewer[w].must \cap stored)
    /\ viewer[w].step = "shown" => viewer[w].must \cap stored \subseteq viewer[w].rows

EntryInv ==
  /\ snapshots.load = "running" =>
       Leads(snapshots.by) /\ Finds(snapshots.by, receipted \cap stored)
  /\ snapshots.load = "ready" => receipted \cap stored \subseteq snapshots.rows

FeedInv == FeedShape /\ SpanInv /\ PastInv /\ RowInv /\ ReadInv /\ EntryInv

-----------------------------------------------------------------------------
\* As many rows as types carry one day.
LEMMA Stamped ==
  ASSUME NEW types \in SUBSET OtherTypes, NEW day
  PROVE  Cardinality({[type |-> t, day |-> day] : t \in types}) = Cardinality(types)
<1> DEFINE rows == {[type |-> t, day |-> day] : t \in types}
           f == [t \in types |-> [type |-> t, day |-> day]]
<1>1. IsFiniteSet(types)
  BY FS_Subset, TelemetryAssumption
<1>2. f \in [types -> rows]
  OBVIOUS
<1>3. \A t, u \in types : f[t] = f[u] => t = u
  <2>1. \A t \in types : f[t].type = t
    OBVIOUS
  <2> QED BY <2>1
<1>4. \A r \in rows : \E t \in types : f[t] = r
  OBVIOUS
<1>5. ExistsBijection(types, rows)
  <2>1. f \in Bijection(types, rows)
    BY <1>2, <1>3, <1>4, Zenon DEF Bijection, Injection, Surjection, IsInjective
  <2> QED BY <2>1 DEF ExistsBijection
<1>6. IsFiniteSet(rows) /\ Cardinality(types) = Cardinality(rows)
  BY <1>1, <1>5, FS_Bijection
<1> QED BY <1>6

\* The rows of one day are its known types, stamped with the day.
LEMMA RowsOfDay ==
  ASSUME FeedTypeOK, NEW day \in 0 .. LastDay
  PROVE  /\ Cardinality({r \in typeRows : r.day = day}) = Cardinality(KnownTypes(day))
         /\ KnownTypes(day) \in SUBSET OtherTypes
<1>1. KnownTypes(day) \in SUBSET OtherTypes
  BY DEF KnownTypes, FeedTypeOK
<1>2. {r \in typeRows : r.day = day} = {[type |-> t, day |-> day] : t \in KnownTypes(day)}
  BY DEF KnownTypes, FeedTypeOK
<1> QED BY <1>1, <1>2, Stamped

-----------------------------------------------------------------------------
\* The steps of a batch before its commit and the clock leave what is stored and answered alone.
StoreKept == UNCHANGED <<feedStore, receipted>>
ReaderStep == \E v \in Viewers : ViewLeaderboard(v) \/ QueryLeaderboard(v) \/ LoadLeaderboard(v)
                                 \/ LoadFails(v) \/ LeavePage(v)
BatchStep(d) == Receive(d) \/ InsertEvents(d) \/ TrackReceipt(d) \/ TallyTypes(d) \/ StorageFails(d)

\* What a reader does touches the cache and the readers only.
LEMMA ReaderOnly ==
  ASSUME ReaderStep
  PROVE  StoreKept /\ UNCHANGED <<today, rowHeld, delivery, batches>>
BY Zenon DEF ReaderStep, StoreKept, ViewLeaderboard, QueryLeaderboard, LoadLeaderboard, LoadFails,
   LeavePage

LEMMA BatchOnly ==
  ASSUME NEW d \in Deliveries, BatchStep(d)
  PROVE  StoreKept /\ UNCHANGED <<today, snapshots, viewer>>
BY Zenon DEF BatchStep, StoreKept, Receive, InsertEvents, TrackReceipt, TallyTypes, StorageFails

\* A batch's step changes only its own delivery, which stays a job.
LEMMA JobStep ==
  ASSUME FeedShape, PastInv, NEW d \in Deliveries, BatchStep(d)
  PROVE  /\ \E job \in Jobs : delivery' = [delivery EXCEPT ![d] = job]
         /\ delivery'[d].step # "idle" =>
              delivery'[d].day = IF delivery[d].step = "idle" THEN today ELSE delivery[d].day
         /\ batches' \in 0 .. MaxBatches /\ rowHeld' \subseteq Deliveries
<1>1. delivery[d] \in Jobs /\ today \in 0 .. LastDay /\ batches \in 0 .. MaxBatches
      /\ rowHeld \subseteq Deliveries /\ delivery \in [Deliveries -> Jobs]
      /\ stored \subseteq EventRows
  BY DEF FeedShape, FeedTypeOK, EventRows
<1>2. CASE Receive(d)
  <2>1. PICK kills \in SUBSET Kills, types \in SUBSET OtherTypes :
          SetDelivery(d, [step |-> "events", day |-> today, kills |-> kills, types |-> types,
                          fresh |-> {}, counted |-> {}])
    BY <1>2 DEF Receive
  <2> DEFINE job == [step |-> "events", day |-> today, kills |-> kills, types |-> types,
                     fresh |-> {}, counted |-> {}]
  <2>2. job \in Jobs /\ job.day = today
    BY <1>1 DEF Jobs
  <2>3. delivery' = [delivery EXCEPT ![d] = job] /\ delivery'[d] = job
    BY <2>1, <1>1 DEF SetDelivery
  <2>4. batches' \in 0 .. MaxBatches /\ rowHeld' = rowHeld /\ delivery[d].step = "idle"
    BY <1>1, <1>2, TelemetryAssumption DEF Receive
  <2> QED BY <2>2, <2>3, <2>4, <1>1
<1>3. CASE InsertEvents(d)
  <2> DEFINE job == [delivery[d] EXCEPT !.step = "tracking",
                                        !.fresh = delivery[d].kills \ IdsOf(stored)]
  <2>1. delivery[d].step = "events" /\ delivery[d] \in Jobs \ {IdleDelivery}
    BY <1>1, <1>3 DEF InsertEvents, IdleDelivery
  <2>2. job \in Jobs /\ job.day = delivery[d].day
    BY <2>1 DEF Jobs
  <2>3. delivery' = [delivery EXCEPT ![d] = job] /\ delivery'[d] = job
    BY <1>3, <1>1 DEF SetDelivery, InsertEvents
  <2> QED BY <2>1, <2>2, <2>3, <1>1, <1>3 DEF InsertEvents
<1>4. CASE TrackReceipt(d)
  <2> DEFINE job == [delivery[d] EXCEPT !.step = "types"]
  <2>1. delivery[d].step = "tracking" /\ delivery[d] \in Jobs \ {IdleDelivery}
    BY <1>1, <1>4 DEF TrackReceipt, IdleDelivery
  <2>2. job \in Jobs /\ job.day = delivery[d].day
    BY <2>1 DEF Jobs
  <2>3. delivery' = [delivery EXCEPT ![d] = job] /\ delivery'[d] = job
    BY <1>4, <1>1 DEF SetDelivery, TrackReceipt
  <2> QED BY <2>1, <2>2, <2>3, <1>1, <1>4 DEF TrackReceipt
<1>5. CASE TallyTypes(d)
  <2>1. delivery[d].step = "types" /\ delivery[d] \in Jobs \ {IdleDelivery}
    BY <1>1, <1>5 DEF TallyTypes, IdleDelivery
  <2>2. PICK added \in SUBSET delivery[d].types :
          SetDelivery(d, [delivery[d] EXCEPT !.step = "cleanup", !.counted = added])
    BY <1>5 DEF TallyTypes
  <2> DEFINE job == [delivery[d] EXCEPT !.step = "cleanup", !.counted = added]
  <2>3. job \in Jobs /\ job.day = delivery[d].day
    BY <2>1 DEF Jobs
  <2>4. delivery' = [delivery EXCEPT ![d] = job] /\ delivery'[d] = job
    BY <2>2, <1>1 DEF SetDelivery
  <2> QED BY <2>1, <2>3, <2>4, <1>1, <1>5 DEF TallyTypes
<1>6. CASE StorageFails(d)
  <2>1. delivery' = [delivery EXCEPT ![d] = IdleDelivery] /\ delivery'[d] = IdleDelivery
    BY <1>6, <1>1 DEF StorageFails, SetDelivery
  <2>2. IdleDelivery \in Jobs /\ IdleDelivery.step = "idle"
    BY DEF Jobs, IdleDelivery
  <2> QED BY <2>1, <2>2, <1>1, <1>6 DEF StorageFails
<1> QED BY <1>2, <1>3, <1>4, <1>5, <1>6 DEF BatchStep

-----------------------------------------------------------------------------
(* The commit of a batch *)

LEMMA CommitWrites ==
  ASSUME FeedShape, SpanInv, PastInv, NEW d \in Deliveries, CleanAndCommit(d)
  PROVE  /\ delivery[d] \in Jobs \ {IdleDelivery} /\ delivery[d].step = "cleanup"
         /\ delivery[d].day \in 0 .. LastDay /\ delivery[d].day <= today
         /\ today <= delivery[d].day + Retention
         /\ stored' \subseteq stored \cup [id : Kills, day : {delivery[d].day}]
         /\ stored' \subseteq EventRows
         /\ \A r \in stored : r \in stored' \/ r.day < delivery[d].day - Retention
         /\ typeRows' \subseteq typeRows \cup {[type |-> t, day |-> delivery[d].day] :
                                               t \in delivery[d].counted}
         /\ delivery[d].counted \in SUBSET OtherTypes
         /\ delivery' = [delivery EXCEPT ![d] = [delivery[d] EXCEPT !.step = "answer"]]
         /\ [delivery[d] EXCEPT !.step = "answer"] \in Jobs \ {IdleDelivery}
         /\ rowHeld' = rowHeld \ {d}
         /\ UNCHANGED <<today, snapshots, viewer, batches, receipted>>
<1> DEFINE job == delivery[d]
<1>1. delivery[d] \in Jobs /\ delivery[d].step = "cleanup"
  BY DEF FeedShape, CleanAndCommit
<1>2. job \in Jobs \ {IdleDelivery}
  BY <1>1 DEF IdleDelivery
<1>3. job.day \in 0 .. LastDay /\ job.fresh \in SUBSET Kills /\ job.counted \in SUBSET OtherTypes
  BY <1>2 DEF Jobs
<1>4. stored' \subseteq stored \cup {[id |-> k, day |-> job.day] : k \in job.fresh}
  BY DEF CleanAndCommit
<1>5. {[id |-> k, day |-> job.day] : k \in job.fresh} \subseteq [id : Kills, day : {job.day}]
  BY <1>3
<1>6. [id : Kills, day : {job.day}] \subseteq EventRows /\ stored \subseteq EventRows
  BY <1>3 DEF EventRows, FeedShape, FeedTypeOK
<1>7. \A r \in stored : r \in stored' \/ r.day < job.day - Retention
  <2>1. \A r \in stored : r.day \in Int
    BY <1>6 DEF EventRows
  <2>2. job.day - Retention \in Int
    BY <1>3, TelemetryAssumption
  <2>3. \A r \in stored : r \in stored' \/ ~(r.day >= job.day - Retention)
    BY DEF CleanAndCommit
  <2> QED BY <2>1, <2>2, <2>3
<1>8. typeRows' \subseteq typeRows \cup {[type |-> t, day |-> job.day] : t \in job.counted}
  BY DEF CleanAndCommit
<1>9. [job EXCEPT !.step = "answer"] \in Jobs \ {IdleDelivery}
  BY <1>2 DEF Jobs, IdleDelivery
<1>10. /\ delivery' = [delivery EXCEPT ![d] = [delivery[d] EXCEPT !.step = "answer"]]
       /\ rowHeld' = rowHeld \ {d} /\ UNCHANGED <<today, snapshots, viewer, batches, receipted>>
  BY DEF CleanAndCommit, SetDelivery
<1>11. job.day <= today /\ today <= job.day + Retention
  BY <1>1 DEF PastInv
<1> QED BY <1>1, <1>2, <1>3, <1>4, <1>5, <1>6, <1>7, <1>8, <1>9, <1>10, <1>11

\* The span written covers what was stored and the batch's day.
LEMMA CommitSpan ==
  ASSUME FeedShape, SpanInv, PastInv, NEW d \in Deliveries, CleanAndCommit(d)
  PROVE  SpanInv'
<1> DEFINE day == delivery[d].day
<1>1. day \in 0 .. LastDay /\ stored' \subseteq stored \cup [id : Kills, day : {day}]
      /\ stored' \subseteq EventRows /\ stored \subseteq EventRows
  BY CommitWrites DEF FeedShape, FeedTypeOK, EventRows
<1>2. /\ tracking'.first = IF tracking.first = NoDay \/ day < tracking.first
                           THEN day ELSE tracking.first
      /\ tracking'.last = IF day > tracking.last THEN day ELSE tracking.last
      /\ tracking'.cleanup \in {day, tracking.cleanup}
      /\ tracking.cleanup = NoDay => tracking'.cleanup = day
      /\ tracking' = [first |-> tracking'.first, last |-> tracking'.last,
                      cleanup |-> tracking'.cleanup]
  BY DEF CleanAndCommit, Span
<1>3. CASE tracking = NotSeen
  <2>1. tracking.first = NoDay /\ tracking.last = NoDay /\ tracking.cleanup = NoDay
    BY <1>3 DEF NotSeen
  <2>2. tracking'.first = day /\ tracking'.last = day /\ tracking'.cleanup = day
    BY <2>1, <1>1, <1>2 DEF NoDay
  <2>3. \A r \in stored : FALSE
    <3>1. \A r \in stored : r.day \in Nat /\ tracking.first <= r.day /\ r.day <= tracking.last
      BY <1>1 DEF SpanInv, SpanCovers, EventRows
    <3> QED BY <3>1, <2>1 DEF NoDay
  <2>4. \A r \in stored' : r.day = day
    BY <2>3, <1>1
  <2> QED BY <1>1, <1>2, <2>2, <2>4 DEF SpanInv, SpanCovers
<1>4. CASE tracking # NotSeen
  <2>1. tracking.first \in 0 .. LastDay /\ tracking.last \in 0 .. LastDay
        /\ tracking.cleanup \in 0 .. LastDay /\ tracking.first <= tracking.last
    BY <1>4 DEF SpanInv
  <2>2. /\ tracking'.first \in 0 .. LastDay /\ tracking'.last \in 0 .. LastDay
        /\ tracking'.cleanup \in 0 .. LastDay
        /\ tracking'.first <= tracking.first /\ tracking'.first <= day
        /\ tracking.last <= tracking'.last /\ day <= tracking'.last
    BY <2>1, <1>1, <1>2 DEF NoDay
  <2>3. \A r \in stored' : tracking'.first <= r.day /\ r.day <= tracking'.last
    <3> SUFFICES ASSUME NEW r \in stored'
                 PROVE  tracking'.first <= r.day /\ r.day <= tracking'.last
      OBVIOUS
    <3>1. r.day = day \/ (tracking.first <= r.day /\ r.day <= tracking.last)
      BY <1>1 DEF SpanInv, SpanCovers
    <3>2. r.day \in 0 .. LastDay
      BY <1>1 DEF EventRows
    <3> QED BY <3>1, <3>2, <2>1, <2>2, <1>1
  <2>4. tracking' \in [first : 0 .. LastDay, last : 0 .. LastDay, cleanup : 0 .. LastDay]
    BY <1>2, <2>2
  <2>5. tracking'.first <= tracking'.last
    BY <2>2, <1>1
  <2> QED BY <2>3, <2>4, <2>5 DEF SpanInv, SpanCovers
<1> QED BY <1>3, <1>4

-----------------------------------------------------------------------------
(* What is past the retention *)

LEMMA BatchPast ==
  ASSUME FeedShape, PastInv, NEW d \in Deliveries, BatchStep(d)
  PROVE  PastInv'
<1>1. UNCHANGED <<today, stored, receipted>>
  BY BatchOnly DEF StoreKept, feedStore
<1>2. PICK job \in Jobs : delivery' = [delivery EXCEPT ![d] = job]
  BY JobStep
<1>3. delivery \in [Deliveries -> Jobs] /\ today \in 0 .. LastDay
  BY DEF FeedShape, FeedTypeOK
<1>4. delivery'[d].step # "idle" =>
        delivery'[d].day <= today /\ today <= delivery'[d].day + Retention
  <2>1. delivery'[d].step # "idle" =>
          delivery'[d].day = IF delivery[d].step = "idle" THEN today ELSE delivery[d].day
    BY JobStep
  <2> QED BY <2>1, <1>3, TelemetryAssumption DEF PastInv
<1>5. \A e \in Deliveries : delivery'[e].step # "idle" =>
        delivery'[e].day <= today' /\ today' <= delivery'[e].day + Retention
  BY <1>1, <1>2, <1>3, <1>4 DEF PastInv
<1> QED BY <1>1, <1>5 DEF PastInv

LEMMA CommitPast ==
  ASSUME FeedShape, SpanInv, PastInv, NEW d \in Deliveries, CleanAndCommit(d)
  PROVE  PastInv'
<1> DEFINE job == [delivery[d] EXCEPT !.step = "answer"]
<1>1. delivery' = [delivery EXCEPT ![d] = job] /\ UNCHANGED <<today, receipted>>
      /\ delivery[d].step = "cleanup"
  BY CommitWrites
<1>2. job.day = delivery[d].day
  BY CommitWrites DEF Jobs
<1>3. delivery \in [Deliveries -> Jobs]
  BY DEF FeedShape
<1>4. \A e \in Deliveries : delivery'[e].step # "idle" =>
        delivery'[e].day <= today' /\ today' <= delivery'[e].day + Retention
  BY <1>1, <1>2, <1>3 DEF PastInv
<1>5. \A r \in receipted' : r \in stored' \/ r.day < today' - Retention
  <2>1. \A r \in stored : r \in stored' \/ r.day < delivery[d].day - Retention
    BY CommitWrites
  <2>2. delivery[d].day \in Int /\ today \in Int /\ delivery[d].day <= today
    <3>1. today \in Int
      BY DEF FeedShape, FeedTypeOK
    <3>2. delivery[d].day \in 0 .. LastDay /\ delivery[d].day <= today
      BY CommitWrites
    <3> QED BY <3>1, <3>2
  <2>3. \A r \in receipted : r.day \in Int
    BY DEF FeedShape, FeedTypeOK
  <2> QED BY <1>1, <2>1, <2>2, <2>3, TelemetryAssumption DEF PastInv
<1> QED BY <1>4, <1>5 DEF PastInv

LEMMA AnswerWrites ==
  ASSUME FeedShape, NEW d \in Deliveries, AnswerReceipt(d)
  PROVE  /\ delivery' = [delivery EXCEPT ![d] = IdleDelivery] /\ delivery[d].step = "answer"
         /\ IdleDelivery \in Jobs /\ snapshots' = NoEntry
         /\ receipted \subseteq receipted' /\ receipted' \subseteq receipted \cup stored
         /\ UNCHANGED <<today, feedStore, rowHeld, viewer, batches>>
BY DEF AnswerReceipt, SetDelivery, Jobs, Dropped

LEMMA AnswerPast ==
  ASSUME FeedShape, PastInv, NEW d \in Deliveries, AnswerReceipt(d)
  PROVE  PastInv'
<1>1. delivery' = [delivery EXCEPT ![d] = IdleDelivery] /\ IdleDelivery.step = "idle"
      /\ receipted' \subseteq receipted \cup stored /\ UNCHANGED <<today, stored>>
  BY AnswerWrites DEF feedStore, IdleDelivery
<1>2. \A e \in Deliveries : delivery'[e].step # "idle" => delivery'[e] = delivery[e]
  BY <1>1 DEF FeedShape
<1> QED BY <1>1, <1>2 DEF PastInv

LEMMA DayPast ==
  ASSUME FeedShape, PastInv, NextDay
  PROVE  PastInv'
<1>1. today' = today + 1 /\ UNCHANGED <<stored, delivery, receipted>> /\ AnsweredInTime
      /\ today \in 0 .. LastDay
  BY DEF NextDay, feedStore, FeedShape, FeedTypeOK
<1>2. \A d \in Deliveries : delivery[d].step # "idle" => delivery[d].day \in 0 .. LastDay
  BY DEF FeedShape, Jobs, IdleDelivery
<1>3. \A r \in receipted : r.day \in 0 .. LastDay
  BY DEF FeedShape, FeedTypeOK
<1>4. \A d \in Deliveries :
        delivery'[d].step # "idle" => delivery'[d].day <= today' /\ today' <= delivery'[d].day + Retention
  BY <1>1, <1>2, TelemetryAssumption DEF AnsweredInTime, PastInv
<1>5. \A r \in receipted' : r \in stored' \/ r.day < today' - Retention
  BY <1>1, <1>3, TelemetryAssumption DEF PastInv
<1> QED BY <1>4, <1>5 DEF PastInv

-----------------------------------------------------------------------------
(* The tracking row and the limit of types *)

\* No types are written: who holds the row stays in step with the batches, and the room it found
\* is still there.
LEMMA BatchRow ==
  ASSUME FeedShape, PastInv, RowInv, NEW d \in Deliveries, BatchStep(d)
  PROVE  RowInv'
<1>1. typeRows' = typeRows
  BY BatchOnly DEF StoreKept, feedStore
<1>2. \A day : KnownTypes(day)' = KnownTypes(day)
  BY <1>1 DEF KnownTypes
<1>3. PICK job \in Jobs : delivery' = [delivery EXCEPT ![d] = job]
  BY JobStep
<1>4. delivery \in [Deliveries -> Jobs] /\ delivery'[d] = job
      /\ \A e \in Deliveries \ {d} : delivery'[e] = delivery[e]
  BY <1>3 DEF FeedShape
<1>5. /\ \A e \in Deliveries : e \in rowHeld' <=> delivery'[e].step \in {"types", "cleanup"}
      /\ \A e, f \in rowHeld' : e = f
  <2>1. CASE Receive(d)
    <3>1. rowHeld' = rowHeld /\ delivery[d].step = "idle" /\ delivery'[d].step = "events"
      BY <2>1, <1>4 DEF Receive, SetDelivery, FeedShape
    <3> QED BY <3>1, <1>4 DEF RowInv
  <2>2. CASE InsertEvents(d)
    <3>1. delivery[d] \in Jobs \ {IdleDelivery}
      BY <2>2, <1>4 DEF InsertEvents, IdleDelivery
    <3>2. rowHeld' = rowHeld /\ delivery[d].step = "events" /\ delivery'[d].step = "tracking"
      BY <2>2, <1>4, <3>1 DEF InsertEvents, SetDelivery, Jobs
    <3> QED BY <3>2, <1>4 DEF RowInv
  <2>3. CASE TrackReceipt(d)
    <3>1. delivery[d] \in Jobs \ {IdleDelivery}
      BY <2>3, <1>4 DEF TrackReceipt, IdleDelivery
    <3>2. rowHeld' = rowHeld \cup {d} /\ delivery[d].step = "tracking"
          /\ delivery'[d].step = "types" /\ rowHeld \subseteq {d}
      BY <2>3, <1>4, <3>1 DEF TrackReceipt, RowFree, SetDelivery, Jobs
    <3> QED BY <3>2, <1>4 DEF RowInv
  <2>4. CASE TallyTypes(d)
    <3>1. delivery[d] \in Jobs \ {IdleDelivery}
      BY <2>4, <1>4 DEF TallyTypes, IdleDelivery
    <3>2. rowHeld' = rowHeld /\ delivery[d].step = "types" /\ delivery'[d].step = "cleanup"
      BY <2>4, <1>4, <3>1 DEF TallyTypes, SetDelivery, Jobs
    <3> QED BY <3>2, <1>4 DEF RowInv
  <2>5. CASE StorageFails(d)
    <3>1. rowHeld' = rowHeld \ {d} /\ delivery'[d].step = "idle"
      BY <2>5, <1>4 DEF StorageFails, SetDelivery, IdleDelivery, FeedShape
    <3> QED BY <3>1, <1>4 DEF RowInv
  <2> QED BY <2>1, <2>2, <2>3, <2>4, <2>5 DEF BatchStep
<1>6. delivery'[d].step = "cleanup" =>
        Cardinality(KnownTypes(delivery'[d].day)) + Cardinality(delivery'[d].counted) <= TypeLimit
  <2> SUFFICES ASSUME delivery'[d].step = "cleanup"
               PROVE  Cardinality(KnownTypes(delivery'[d].day)) + Cardinality(delivery'[d].counted)
                        <= TypeLimit
    OBVIOUS
  <2>1. TallyTypes(d)
    <3>1. CASE Receive(d)
      BY <3>1, <1>4 DEF Receive, SetDelivery, FeedShape
    <3>2. CASE InsertEvents(d)
      <4>1. delivery[d] \in Jobs \ {IdleDelivery}
        BY <3>2, <1>4 DEF InsertEvents, IdleDelivery
      <4> QED BY <3>2, <1>4, <4>1 DEF InsertEvents, SetDelivery, Jobs
    <3>3. CASE TrackReceipt(d)
      <4>1. delivery[d] \in Jobs \ {IdleDelivery}
        BY <3>3, <1>4 DEF TrackReceipt, IdleDelivery
      <4> QED BY <3>3, <1>4, <4>1 DEF TrackReceipt, SetDelivery, Jobs
    <3>4. CASE StorageFails(d)
      BY <3>4, <1>4 DEF StorageFails, SetDelivery, IdleDelivery, FeedShape
    <3> QED BY <3>1, <3>2, <3>3, <3>4 DEF BatchStep
  <2>2. delivery[d] \in Jobs \ {IdleDelivery} /\ delivery[d].step = "types"
    BY <2>1, <1>4 DEF TallyTypes, IdleDelivery
  <2> DEFINE day == delivery[d].day
             known == KnownTypes(day)
             rest == delivery[d].types \ known
             room == TypeLimit - Cardinality(known)
  <2>3. PICK added \in SUBSET rest :
          /\ Cardinality(added) = IF room < Cardinality(rest) THEN room ELSE Cardinality(rest)
          /\ SetDelivery(d, [delivery[d] EXCEPT !.step = "cleanup", !.counted = added])
    BY <2>1 DEF TallyTypes, KnownTypes
  <2>4. delivery'[d].day = day /\ delivery'[d].counted = added
    BY <2>2, <2>3, <1>4 DEF SetDelivery, Jobs
  <2>5. day \in 0 .. LastDay /\ delivery[d].types \in SUBSET OtherTypes
    BY <2>2 DEF Jobs
  <2>6. IsFiniteSet(rest) /\ IsFiniteSet(known)
    BY <2>5, RowsOfDay, FS_Subset, TelemetryAssumption DEF FeedShape
  <2>7. Cardinality(rest) \in Nat /\ Cardinality(known) \in Nat
    BY <2>6, FS_CardinalityType
  <2>8. Cardinality(known) + Cardinality(added) <= TypeLimit
    BY <2>3, <2>7, TelemetryAssumption
  <2> QED BY <2>4, <2>8
<1>7. \A e \in Deliveries :
        delivery'[e].step = "cleanup" =>
          Cardinality(KnownTypes(delivery'[e].day)) + Cardinality(delivery'[e].counted) <= TypeLimit
  BY <1>4, <1>6 DEF RowInv
<1>8. \A day \in 0 .. LastDay : Cardinality(KnownTypes(day)') <= TypeLimit
  BY <1>2 DEF RowInv
<1> QED BY <1>2, <1>5, <1>7, <1>8 DEF RowInv

\* The commit adds the types it counted to its day, for which it found room, and gives up the row.
LEMMA CommitRow ==
  ASSUME FeedShape, SpanInv, PastInv, RowInv, NEW d \in Deliveries, CleanAndCommit(d)
  PROVE  RowInv'
<1> DEFINE job == [delivery[d] EXCEPT !.step = "answer"]
           day == delivery[d].day
<1>1. /\ delivery[d] \in Jobs \ {IdleDelivery} /\ delivery[d].step = "cleanup"
      /\ delivery' = [delivery EXCEPT ![d] = job] /\ rowHeld' = rowHeld \ {d}
      /\ day \in 0 .. LastDay /\ delivery[d].counted \in SUBSET OtherTypes
  BY CommitWrites
<1>2. delivery \in [Deliveries -> Jobs] /\ rowHeld \subseteq Deliveries
  BY DEF FeedShape, FeedTypeOK
<1>3. delivery'[d].step = "answer" /\ \A e \in Deliveries \ {d} : delivery'[e] = delivery[e]
  BY <1>1, <1>2 DEF Jobs
<1>4. rowHeld' = {} /\ \A e \in Deliveries : delivery'[e].step \notin {"types", "cleanup"}
  <2>1. d \in rowHeld
    BY <1>1 DEF RowInv
  <2>2. \A e \in Deliveries \ {d} : e \notin rowHeld
    BY <2>1, <1>2 DEF RowInv
  <2>3. \A e \in Deliveries \ {d} : delivery[e].step \notin {"types", "cleanup"}
    BY <2>2 DEF RowInv
  <2> QED BY <1>1, <1>2, <1>3, <2>2, <2>3
<1>5. typeRows' \subseteq typeRows \cup {[type |-> t, day |-> day] : t \in delivery[d].counted}
  BY CommitWrites
<1>6. \A other \in 0 .. LastDay : other # day => KnownTypes(other)' \subseteq KnownTypes(other)
  BY <1>5 DEF KnownTypes
<1>7. \A other : other = day =>
        KnownTypes(other)' \subseteq KnownTypes(other) \cup delivery[d].counted
  BY <1>5 DEF KnownTypes
<1>8. Cardinality(KnownTypes(day)) + Cardinality(delivery[d].counted) <= TypeLimit
  BY <1>1 DEF RowInv
<1>9. ASSUME NEW other \in 0 .. LastDay
      PROVE  Cardinality(KnownTypes(other)') <= TypeLimit
  <2> DEFINE before == KnownTypes(other)
             after == KnownTypes(other)'
             added == delivery[d].counted
  <2> SUFFICES Cardinality(after) <= TypeLimit
    OBVIOUS
  <2>1. IsFiniteSet(before) /\ IsFiniteSet(added) /\ Cardinality(before) <= TypeLimit
    BY <1>1, RowsOfDay, FS_Subset, TelemetryAssumption DEF FeedShape, RowInv
  <2>2. Cardinality(before) \in Nat /\ Cardinality(added) \in Nat
    BY <2>1, FS_CardinalityType
  <2>3. CASE other # day
    <3>1. after \in SUBSET before
      BY <2>3, <1>6
    <3>2. Cardinality(after) <= Cardinality(before) /\ IsFiniteSet(after)
      BY <3>1, <2>1, FS_Subset
    <3>3. Cardinality(after) \in Nat
      BY <3>2, FS_CardinalityType
    <3> QED BY <3>2, <3>3, <2>1, <2>2, TelemetryAssumption
  <2>4. CASE other = day
    <3>1. after \in SUBSET (before \cup added)
      BY <2>4, <1>7
    <3>2. /\ IsFiniteSet(before \cup added)
          /\ Cardinality(before \cup added) =
               Cardinality(before) + Cardinality(added) - Cardinality(before \cap added)
      BY <2>1, FS_Union
    <3>3. IsFiniteSet(before \cap added)
      BY <2>1, FS_Subset
    <3>4. Cardinality(before \cap added) \in Nat
      BY <3>3, FS_CardinalityType
    <3>5. IsFiniteSet(after) /\ Cardinality(after) <= Cardinality(before \cup added)
      BY <3>1, <3>2, FS_Subset
    <3>6. Cardinality(after) \in Nat
      BY <3>5, FS_CardinalityType
    <3>7. Cardinality(before) + Cardinality(added) <= TypeLimit
      BY <2>4, <1>8
    <3>8. Cardinality(before \cup added) \in Nat
      BY <3>2, FS_CardinalityType
    <3> HIDE DEF before, added
    <3>9. Cardinality(before \cup added) <= TypeLimit
      BY <3>2, <3>4, <3>7, <3>8, <2>2, TelemetryAssumption
    <3> HIDE DEF after
    <3> QED BY <3>5, <3>6, <3>8, <3>9, TelemetryAssumption
  <2> QED BY <2>3, <2>4
<1>10. /\ \A e \in Deliveries : e \in rowHeld' <=> delivery'[e].step \in {"types", "cleanup"}
       /\ \A e, f \in rowHeld' : e = f
  BY <1>4
<1> QED BY <1>4, <1>9, <1>10 DEF RowInv

\* A step that leaves the row and the types alone, and no batch between them.
LEMMA RowKept ==
  ASSUME FeedShape, RowInv, NEW d \in Deliveries, AnswerReceipt(d)
  PROVE  RowInv'
<1>1. delivery' = [delivery EXCEPT ![d] = IdleDelivery] /\ delivery[d].step = "answer"
      /\ UNCHANGED <<typeRows, rowHeld>>
  BY AnswerWrites DEF feedStore
<1>2. \A e \in Deliveries \ {d} : delivery'[e] = delivery[e]
  BY <1>1 DEF FeedShape
<1>3. delivery'[d].step = "idle"
  BY <1>1 DEF FeedShape, IdleDelivery
<1>4. \A day : KnownTypes(day)' = KnownTypes(day)
  BY <1>1 DEF KnownTypes
<1>5. \A e \in Deliveries :
        delivery'[e].step = "cleanup" => delivery'[e] = delivery[e]
  BY <1>2, <1>3
<1>6. \A e \in Deliveries : e \in rowHeld' <=> delivery'[e].step \in {"types", "cleanup"}
  BY <1>1, <1>2, <1>3 DEF RowInv
<1>7. \A e \in Deliveries :
        delivery'[e].step = "cleanup" =>
          Cardinality(KnownTypes(delivery'[e].day)) + Cardinality(delivery'[e].counted) <= TypeLimit
  BY <1>5 DEF RowInv
<1>8. \A day \in 0 .. LastDay : Cardinality(KnownTypes(day)') <= TypeLimit
  BY <1>4 DEF RowInv
<1> QED BY <1>1, <1>4, <1>6, <1>7, <1>8 DEF RowInv

-----------------------------------------------------------------------------
(* What readers are shown *)

\* What was answered is still found, or is past the retention and does not come back; an entry that
\* an answer could make old is dropped.
LEMMA StoreReads ==
  ASSUME FeedShape, ReadInv, EntryInv, viewer' = viewer, receipted \subseteq receipted',
         receipted \cap stored' \subseteq stored,
         snapshots' = NoEntry \/ (snapshots' = snapshots /\ receipted' = receipted)
  PROVE  ReadInv' /\ EntryInv'
BY DEF ReadInv, EntryInv, Leads, Finds, NoEntry

\* A reader's own record, written.
LEMMA ReaderWrites ==
  ASSUME FeedShape, NEW v \in Viewers, NEW read \in Reads, viewer' = [viewer EXCEPT ![v] = read]
  PROVE  viewer'[v] = read /\ \A w \in Viewers \ {v} : viewer'[w] = viewer[w]
BY DEF FeedShape

LEMMA ViewReads ==
  ASSUME FeedShape, ReadInv, EntryInv, NEW v \in Viewers, ViewLeaderboard(v)
  PROVE  ReadInv' /\ EntryInv' /\ viewer' \in [Viewers -> Reads] /\ snapshots' \in Entries
<1>1. viewer \in [Viewers -> Reads] /\ snapshots \in Entries /\ receipted \in SUBSET EventRows
      /\ viewer[v].step = "idle" /\ UNCHANGED <<stored, receipted>>
  BY DEF FeedShape, FeedTypeOK, EventRows, ViewLeaderboard, feedStore
<1>2. \A w : Leads(w) => w # v
  BY <1>1 DEF Leads
<1>3. CASE snapshots.load = "none"
  <2> DEFINE read == [step |-> "asking", by |-> v, must |-> receipted]
  <2>1. read \in Reads /\ [load |-> "running", by |-> v] \in Entries
    BY <1>1 DEF Reads, Entries
  <2>2. viewer' = [viewer EXCEPT ![v] = read] /\ snapshots' = [load |-> "running", by |-> v]
    BY <1>3 DEF ViewLeaderboard
  <2>3. viewer'[v] = read /\ \A w \in Viewers \ {v} : viewer'[w] = viewer[w]
    BY <2>1, <2>2, ReaderWrites
  <2>4. Leads(v)' /\ \A w : Leads(w) => Leads(w)'
    BY <2>3, <1>2 DEF Leads
  <2>5. ReadInv'
    BY <1>1, <1>2, <2>3, <2>4 DEF ReadInv, Finds, Leads
  <2>6. EntryInv'
    BY <1>1, <2>2, <2>3, <2>4 DEF EntryInv, Finds, Leads
  <2> QED BY <1>1, <2>1, <2>2, <2>5, <2>6
<1>4. CASE snapshots.load = "running"
  <2> DEFINE read == [step |-> "waiting", by |-> snapshots.by, must |-> receipted]
  <2>1. read \in Reads /\ snapshots.by \in Viewers
    BY <1>1, <1>4 DEF Reads, Entries, NoEntry
  <2>2. viewer' = [viewer EXCEPT ![v] = read] /\ snapshots' = snapshots
    BY <1>4 DEF ViewLeaderboard
  <2>3. viewer'[v] = read /\ \A w \in Viewers \ {v} : viewer'[w] = viewer[w]
    BY <2>1, <2>2, ReaderWrites
  <2>4. Leads(snapshots.by) /\ Finds(snapshots.by, receipted \cap stored)
    BY <1>4 DEF EntryInv
  <2>5. ReadInv'
    BY <1>1, <1>2, <2>1, <2>3, <2>4 DEF ReadInv, Finds, Leads
  <2>6. EntryInv'
    BY <1>1, <1>2, <1>4, <2>2, <2>3, <2>4 DEF EntryInv, Finds, Leads
  <2> QED BY <1>1, <2>1, <2>2, <2>5, <2>6
<1>5. CASE snapshots.load = "ready"
  <2> DEFINE read == [step |-> "shown", must |-> receipted, rows |-> snapshots.rows]
  <2>1. read \in Reads
    BY <1>1, <1>5 DEF Reads, Entries, NoEntry
  <2>2. viewer' = [viewer EXCEPT ![v] = read] /\ snapshots' = snapshots
    BY <1>5 DEF ViewLeaderboard
  <2>3. viewer'[v] = read /\ \A w \in Viewers \ {v} : viewer'[w] = viewer[w]
    BY <2>1, <2>2, ReaderWrites
  <2>4. receipted \cap stored \subseteq snapshots.rows
    BY <1>5 DEF EntryInv
  <2>5. ReadInv'
    BY <1>1, <1>2, <2>3, <2>4 DEF ReadInv, Finds, Leads
  <2>6. EntryInv'
    BY <1>1, <1>5, <2>2, <2>4 DEF EntryInv
  <2> QED BY <1>1, <2>1, <2>2, <2>5, <2>6
<1>6. snapshots.load \in {"none", "running", "ready"}
  BY <1>1 DEF Entries, NoEntry
<1> QED BY <1>3, <1>4, <1>5, <1>6

\* The query finds every answered event that is still stored.
LEMMA QueryReads ==
  ASSUME FeedShape, ReadInv, EntryInv, NEW v \in Viewers, QueryLeaderboard(v)
  PROVE  ReadInv' /\ EntryInv' /\ viewer' \in [Viewers -> Reads] /\ snapshots' \in Entries
<1> DEFINE read == [step |-> "waiting", by |-> v, must |-> viewer[v].must, rows |-> stored]
<1>1. viewer \in [Viewers -> Reads] /\ snapshots \in Entries /\ stored \in SUBSET EventRows
      /\ viewer[v].step = "asking" /\ UNCHANGED <<stored, receipted, snapshots>>
  BY DEF FeedShape, FeedTypeOK, EventRows, QueryLeaderboard, feedStore
<1>2. viewer[v].must \in SUBSET EventRows /\ viewer[v].by = v
  <2>1. viewer[v] \in Reads \ {NotReading} /\ viewer[v].step = "asking"
    BY <1>1 DEF NotReading
  <2>2. viewer[v].must \in SUBSET EventRows
    BY <2>1 DEF Reads
  <2>3. viewer[v].by = v
    BY <2>1 DEF ReadInv
  <2> QED BY <2>2, <2>3
<1>3. read \in Reads
  BY <1>1, <1>2 DEF Reads
<1>4. viewer' = [viewer EXCEPT ![v] = read]
  BY DEF QueryLeaderboard
<1>5. viewer'[v] = read /\ \A w \in Viewers \ {v} : viewer'[w] = viewer[w]
  BY <1>3, <1>4, ReaderWrites
<1>6. \A w : Leads(w)' <=> Leads(w)
  BY <1>1, <1>2, <1>5 DEF Leads
<1>7. /\ viewer'[v].step = "waiting" /\ viewer'[v].by = v /\ viewer'[v].rows = stored
      /\ viewer'[v].must = viewer[v].must
  BY <1>5
<1>8. ASSUME NEW u, NEW rows, Leads(u), Finds(u, rows), rows \subseteq stored
      PROVE  viewer'[u].step = "waiting" => rows \subseteq viewer'[u].rows
  BY <1>5, <1>7, <1>8 DEF Finds, Leads
<1>9. ReadInv'
  <2> SUFFICES ASSUME NEW w \in Viewers
               PROVE  /\ viewer'[w].step # "idle" => viewer'[w].must \subseteq receipted
                      /\ viewer'[w].step = "asking" => viewer'[w].by = w
                      /\ viewer'[w].step = "waiting" /\ viewer'[w].by = w
                           => viewer'[w].rows \in SUBSET EventRows
                      /\ viewer'[w].step \in {"asking", "waiting"} =>
                           /\ Leads(viewer[w].by)'
                           /\ viewer'[viewer'[w].by].step = "waiting" =>
                                viewer'[w].must \cap stored \subseteq viewer'[viewer'[w].by].rows
                      /\ viewer'[w].step = "shown" => viewer'[w].must \cap stored \subseteq viewer'[w].rows
    BY <1>1 DEF ReadInv, Finds
  <2>1. viewer'[w].must = viewer[w].must /\ viewer'[w].by = viewer[w].by
    <3>1. CASE w = v
      BY <3>1, <1>2, <1>7
    <3>2. CASE w # v
      BY <3>2, <1>5
    <3> QED BY <3>1, <3>2
  <2>2. viewer'[w].step \in {"asking", "waiting"} =>
          Leads(viewer[w].by) /\ Finds(viewer[w].by, viewer[w].must \cap stored)
    BY <1>1, <1>5 DEF ReadInv
  <2>3. viewer'[w].step \in {"asking", "waiting"} =>
          /\ Leads(viewer'[w].by)
          /\ viewer'[viewer'[w].by].step = "waiting" =>
                viewer'[w].must \cap stored \subseteq viewer'[viewer'[w].by].rows
    BY <2>1, <2>2, <1>8
  <2>4. viewer'[w].step \in {"asking", "waiting"} => Leads(viewer[w].by)'
    BY <2>3, <1>6, <1>5, <1>7 DEF Leads
  <2>5. CASE w = v
    BY <2>3, <2>4, <2>5, <1>1, <1>2, <1>7 DEF ReadInv
  <2>6. CASE w # v
    BY <2>3, <2>4, <2>6, <1>5 DEF ReadInv
  <2> QED BY <2>5, <2>6
<1>10. EntryInv'
  <2>1. CASE snapshots.load = "running"
    <3>1. Leads(snapshots.by) /\ Finds(snapshots.by, receipted \cap stored)
      BY <2>1 DEF EntryInv
    <3>2. viewer'[snapshots.by].step = "waiting" => receipted \cap stored \subseteq viewer'[snapshots.by].rows
      BY <3>1, <1>8
    <3>3. Leads(snapshots.by)'
      BY <3>1, <1>1, <1>6, <1>5, <1>7 DEF Leads
    <3> QED BY <2>1, <3>2, <3>3, <1>1 DEF EntryInv, Finds
  <2>2. CASE snapshots.load # "running"
    BY <2>2, <1>1 DEF EntryInv
  <2> QED BY <2>1, <2>2
<1> QED BY <1>1, <1>3, <1>4, <1>9, <1>10

\* The result goes to those who wait for it, and only to them.
LEMMA LoadReads ==
  ASSUME FeedShape, ReadInv, EntryInv, NEW v \in Viewers, LoadLeaderboard(v)
  PROVE  ReadInv' /\ EntryInv' /\ viewer' \in [Viewers -> Reads] /\ snapshots' \in Entries
<1> DEFINE rows == viewer[v].rows
<1>1. viewer \in [Viewers -> Reads] /\ snapshots \in Entries
      /\ viewer[v].step = "waiting" /\ viewer[v].by = v /\ UNCHANGED <<stored, receipted>>
  BY DEF FeedShape, LoadLeaderboard, feedStore
<1>2. rows \in SUBSET EventRows
  BY <1>1 DEF ReadInv
<1>3. /\ \A w \in WaitsFor(v) :
            viewer'[w] = [step |-> "shown", must |-> viewer[w].must, rows |-> rows]
      /\ \A w \in Viewers \ WaitsFor(v) : viewer'[w] = viewer[w]
      /\ WaitsFor(v) \subseteq Viewers
      /\ viewer' = [w \in Viewers |-> viewer'[w]]
  BY DEF LoadLeaderboard, WaitsFor
<1>4. \A w \in WaitsFor(v) : /\ viewer[w].must \in SUBSET EventRows
                             /\ viewer[w].must \subseteq receipted
                             /\ viewer[w].must \cap stored \subseteq rows
  <2> SUFFICES ASSUME NEW w \in WaitsFor(v)
               PROVE  /\ viewer[w].must \in SUBSET EventRows
                      /\ viewer[w].must \subseteq receipted
                      /\ viewer[w].must \cap stored \subseteq rows
    OBVIOUS
  <2>1. w \in Viewers /\ viewer[w].step \in {"asking", "waiting"} /\ viewer[w].by = v
    BY DEF WaitsFor
  <2>2. viewer[w].must \subseteq receipted /\ Finds(v, viewer[w].must \cap stored)
    BY <2>1 DEF ReadInv
  <2>3. receipted \in SUBSET EventRows
    BY DEF FeedShape, FeedTypeOK, EventRows
  <2> QED BY <2>2, <2>3, <1>1 DEF Finds
<1>5. viewer' \in [Viewers -> Reads]
  <2>1. \A must, found \in SUBSET EventRows : [step |-> "shown", must |-> must, rows |-> found] \in Reads
    BY DEF Reads
  <2>2. \A w \in WaitsFor(v) : viewer'[w] \in Reads
    BY <2>1, <1>2, <1>3, <1>4
  <2> QED BY <2>2, <1>1, <1>3
<1>6. \A w : Leads(w) /\ w # v => w \in Viewers \ WaitsFor(v) /\ Leads(w)'
  BY <1>3 DEF Leads, WaitsFor
<1>7. snapshots' \in Entries
  BY <1>1, <1>2 DEF LoadLeaderboard, Entries
<1>8. ReadInv'
  <2> SUFFICES ASSUME NEW w \in Viewers
               PROVE  /\ viewer'[w].step # "idle" => viewer'[w].must \subseteq receipted'
                      /\ viewer'[w].step = "asking" => viewer'[w].by = w
                      /\ viewer'[w].step = "waiting" /\ viewer'[w].by = w
                           => viewer'[w].rows \in SUBSET EventRows
                      /\ viewer'[w].step \in {"asking", "waiting"} =>
                           Leads(viewer[w].by)' /\ Finds(viewer[w].by, viewer[w].must \cap stored)'
                      /\ viewer'[w].step = "shown" => viewer'[w].must \cap stored' \subseteq viewer'[w].rows
    BY DEF ReadInv
  <2>1. CASE w \in WaitsFor(v)
    <3> DEFINE must == viewer[w].must
    <3>1. viewer'[w] = [step |-> "shown", must |-> must, rows |-> rows]
      BY <2>1, <1>3
    <3>2. must \subseteq receipted /\ must \cap stored \subseteq rows
      BY <2>1, <1>4
    <3> HIDE DEF must, rows
    <3>3. viewer'[w].step = "shown" /\ viewer'[w].must = must /\ viewer'[w].rows = rows
      BY <3>1
    <3> QED BY <3>2, <3>3, <1>1
  <2>2. CASE w \notin WaitsFor(v)
    <3>1. viewer'[w] = viewer[w]
      BY <2>2, <1>3
    <3>2. CASE viewer[w].step \in {"asking", "waiting"}
      <4>1. viewer[w].by # v
        BY <2>2, <3>2 DEF WaitsFor
      <4>2. Leads(viewer[w].by) /\ Finds(viewer[w].by, viewer[w].must \cap stored)
        BY <3>2 DEF ReadInv
      <4>3. Leads(viewer[w].by)' /\ viewer'[viewer[w].by] = viewer[viewer[w].by]
        BY <4>1, <4>2, <3>1, <1>3, <1>6 DEF Leads, WaitsFor
      <4> QED BY <3>1, <3>2, <4>2, <4>3, <1>1 DEF ReadInv, Finds
    <3>3. CASE viewer[w].step \notin {"asking", "waiting"}
      BY <3>1, <3>3, <1>1 DEF ReadInv
    <3> QED BY <3>2, <3>3
  <2> QED BY <2>1, <2>2
<1>9. EntryInv'
  <2>1. CASE OwnEntry(v)
    <3>1. snapshots' = [load |-> "ready", rows |-> rows]
      BY <2>1 DEF LoadLeaderboard
    <3>2. receipted \cap stored \subseteq rows
      BY <2>1, <1>1 DEF OwnEntry, EntryInv, Finds
    <3> QED BY <3>1, <3>2, <1>1 DEF EntryInv
  <2>2. CASE ~OwnEntry(v)
    <3>1. snapshots' = snapshots
      BY <2>2 DEF LoadLeaderboard
    <3>2. CASE snapshots.load = "running"
      <4>1. Leads(snapshots.by) /\ Finds(snapshots.by, receipted \cap stored) /\ snapshots.by # v
        BY <2>2, <3>2 DEF EntryInv, OwnEntry
      <4>2. Leads(snapshots.by)' /\ viewer'[snapshots.by] = viewer[snapshots.by]
        BY <4>1, <3>1, <1>3, <1>6 DEF Leads
      <4> QED BY <3>1, <3>2, <4>1, <4>2, <1>1 DEF EntryInv, Finds
    <3>3. CASE snapshots.load # "running"
      BY <3>1, <3>3, <1>1 DEF EntryInv
    <3> QED BY <3>2, <3>3
  <2> QED BY <2>1, <2>2
<1> QED BY <1>5, <1>7, <1>8, <1>9

\* Those who waited for a failed read read nothing.
LEMMA FailReads ==
  ASSUME FeedShape, ReadInv, EntryInv, NEW v \in Viewers, LoadFails(v)
  PROVE  ReadInv' /\ EntryInv' /\ viewer' \in [Viewers -> Reads] /\ snapshots' \in Entries
<1>1. viewer \in [Viewers -> Reads] /\ snapshots \in Entries /\ UNCHANGED <<stored, receipted>>
  BY DEF FeedShape, LoadFails, feedStore
<1>2. /\ \A w \in WaitsFor(v) : viewer'[w] = NotReading
      /\ \A w \in Viewers \ WaitsFor(v) : viewer'[w] = viewer[w]
      /\ WaitsFor(v) \subseteq Viewers
      /\ viewer' = [w \in Viewers |-> viewer'[w]]
  BY DEF LoadFails, WaitsFor
<1>3. viewer' \in [Viewers -> Reads] /\ snapshots' \in Entries
  <2>1. NotReading \in Reads /\ NoEntry \in Entries
    BY DEF Reads, Entries
  <2>2. \A w \in Viewers : viewer'[w] \in Reads
    BY <2>1, <1>1, <1>2
  <2>3. snapshots' \in {snapshots, NoEntry}
    BY DEF LoadFails
  <2> QED BY <2>1, <2>2, <2>3, <1>1, <1>2
<1>4. \A w : Leads(w) /\ w # v => w \in Viewers \ WaitsFor(v) /\ Leads(w)'
  BY <1>2 DEF Leads, WaitsFor
<1>5. ReadInv'
  <2> SUFFICES ASSUME NEW w \in Viewers
               PROVE  /\ viewer'[w].step # "idle" => viewer'[w].must \subseteq receipted'
                      /\ viewer'[w].step = "asking" => viewer'[w].by = w
                      /\ viewer'[w].step = "waiting" /\ viewer'[w].by = w
                           => viewer'[w].rows \in SUBSET EventRows
                      /\ viewer'[w].step \in {"asking", "waiting"} =>
                           Leads(viewer[w].by)' /\ Finds(viewer[w].by, viewer[w].must \cap stored)'
                      /\ viewer'[w].step = "shown" => viewer'[w].must \cap stored' \subseteq viewer'[w].rows
    BY DEF ReadInv
  <2>1. CASE w \in WaitsFor(v)
    BY <2>1, <1>1, <1>2 DEF NotReading
  <2>2. CASE w \notin WaitsFor(v)
    <3>1. viewer'[w] = viewer[w]
      BY <2>2, <1>2
    <3>2. CASE viewer[w].step \in {"asking", "waiting"}
      <4>1. viewer[w].by # v
        BY <2>2, <3>2 DEF WaitsFor
      <4>2. Leads(viewer[w].by) /\ Finds(viewer[w].by, viewer[w].must \cap stored)
        BY <3>2 DEF ReadInv
      <4>3. Leads(viewer[w].by)' /\ viewer'[viewer[w].by] = viewer[viewer[w].by]
        BY <4>1, <4>2, <3>1, <1>2, <1>4 DEF Leads, WaitsFor
      <4> QED BY <3>1, <3>2, <4>2, <4>3, <1>1 DEF ReadInv, Finds
    <3>3. CASE viewer[w].step \notin {"asking", "waiting"}
      BY <3>1, <3>3, <1>1 DEF ReadInv
    <3> QED BY <3>2, <3>3
  <2> QED BY <2>1, <2>2
<1>6. EntryInv'
  <2>1. CASE OwnEntry(v)
    BY <2>1 DEF LoadFails, EntryInv, NoEntry
  <2>2. CASE ~OwnEntry(v)
    <3>1. snapshots' = snapshots
      BY <2>2 DEF LoadFails
    <3>2. CASE snapshots.load = "running"
      <4>1. Leads(snapshots.by) /\ Finds(snapshots.by, receipted \cap stored) /\ snapshots.by # v
        BY <2>2, <3>2 DEF EntryInv, OwnEntry
      <4>2. Leads(snapshots.by)' /\ viewer'[snapshots.by] = viewer[snapshots.by]
        BY <4>1, <3>1, <1>2, <1>4 DEF Leads
      <4> QED BY <3>1, <3>2, <4>1, <4>2, <1>1 DEF EntryInv, Finds
    <3>3. CASE snapshots.load # "running"
      BY <3>1, <3>3, <1>1 DEF EntryInv
    <3> QED BY <3>2, <3>3
  <2> QED BY <2>1, <2>2
<1> QED BY <1>3, <1>5, <1>6

\* Who leaves was shown a leaderboard, so nobody waits for them.
LEMMA LeaveReads ==
  ASSUME FeedShape, ReadInv, EntryInv, NEW v \in Viewers, LeavePage(v)
  PROVE  ReadInv' /\ EntryInv' /\ viewer' \in [Viewers -> Reads] /\ snapshots' \in Entries
<1>1. viewer \in [Viewers -> Reads] /\ snapshots \in Entries /\ viewer[v].step = "shown"
      /\ UNCHANGED <<stored, receipted, snapshots>>
  BY DEF FeedShape, LeavePage, feedStore
<1>2. viewer' = [viewer EXCEPT ![v] = NotReading] /\ NotReading \in Reads
  BY DEF LeavePage, Reads
<1>3. viewer'[v] = NotReading /\ \A w \in Viewers \ {v} : viewer'[w] = viewer[w]
  BY <1>2, ReaderWrites
<1>4. \A w : Leads(w) => w # v /\ Leads(w)'
  BY <1>1, <1>3 DEF Leads
<1>5. ReadInv'
  BY <1>1, <1>3, <1>4 DEF ReadInv, Finds, NotReading, Leads
<1>6. EntryInv'
  BY <1>1, <1>3, <1>4 DEF EntryInv, Finds, Leads
<1> QED BY <1>1, <1>2, <1>5, <1>6

-----------------------------------------------------------------------------
LEMMA FeedInitial == FeedInit => FeedInv
<1> SUFFICES ASSUME FeedInit PROVE FeedInv
  OBVIOUS
<1>1. {TypeLimit, Retention, LastDay, MaxBatches} \subseteq Nat
  BY TelemetryAssumption
<1>2. /\ today = 0 /\ stored = {} /\ typeRows = {} /\ tracking = NotSeen /\ rowHeld = {}
      /\ delivery = [d \in Deliveries |-> IdleDelivery] /\ snapshots = NoEntry
      /\ viewer = [v \in Viewers |-> NotReading] /\ batches = 0 /\ receipted = {}
  BY DEF FeedInit
<1>3. /\ \A d \in Deliveries : delivery[d].step = "idle"
      /\ \A v \in Viewers : viewer[v].step = "idle"
  BY <1>2 DEF IdleDelivery, NotReading
<1>4. FeedShape
  BY <1>1, <1>2 DEF FeedShape, FeedTypeOK, Jobs, Reads, Entries
<1>5. SpanInv
  BY <1>1, <1>2 DEF SpanInv, SpanCovers, NotSeen, NoDay
<1>6. PastInv
  BY <1>2, <1>3 DEF PastInv
<1>7. RowInv
  <2>1. \A day : KnownTypes(day) = {}
    BY <1>2 DEF KnownTypes
  <2>2. \A day \in 0 .. LastDay : Cardinality(KnownTypes(day)) <= TypeLimit
    BY <2>1, <1>1, FS_EmptySet
  <2> QED BY <1>2, <1>3, <2>2 DEF RowInv
<1>8. ReadInv /\ EntryInv
  BY <1>2, <1>3 DEF ReadInv, EntryInv, NoEntry
<1> QED BY <1>4, <1>5, <1>6, <1>7, <1>8 DEF FeedInv

\* Every step of the feed keeps what is stored, counted and read in order.
LEMMA FeedInductive == FeedInv /\ [FeedNext]_feedVars => FeedInv'
<1> SUFFICES ASSUME FeedInv, [FeedNext]_feedVars PROVE FeedInv'
  OBVIOUS
<1>1. FeedShape /\ SpanInv /\ PastInv /\ RowInv /\ ReadInv /\ EntryInv
  BY DEF FeedInv
<1>2. ASSUME UNCHANGED feedVars PROVE FeedInv'
  <2>1. UNCHANGED <<today, stored, typeRows, tracking, rowHeld, delivery, snapshots, viewer, batches,
                    receipted>>
    BY <1>2 DEF feedVars, feedStore
  <2>2. FeedShape'
    BY <2>1, <1>1 DEF FeedShape, FeedTypeOK
  <2>3. SpanInv' /\ PastInv'
    BY <2>1, <1>1 DEF SpanInv, SpanCovers, PastInv
  <2>4. RowInv'
    <3>1. \A day : KnownTypes(day)' = KnownTypes(day)
      BY <2>1 DEF KnownTypes
    <3> QED BY <2>1, <3>1, <1>1 DEF RowInv
  <2>5. ReadInv' /\ EntryInv'
    BY <2>1, <1>1, StoreReads
  <2> QED BY <2>2, <2>3, <2>4, <2>5 DEF FeedInv
<1>3. ASSUME NextDay \/ SnapshotExpires PROVE FeedInv'
  <2>1. UNCHANGED <<stored, typeRows, tracking, rowHeld, delivery, viewer, batches, receipted>>
        /\ snapshots' = NoEntry /\ today' \in {today, today + 1}
    BY <1>3 DEF NextDay, SnapshotExpires, feedStore
  <2>2. today' \in 0 .. LastDay
    BY <1>1, <1>3, TelemetryAssumption DEF NextDay, SnapshotExpires, FeedShape, FeedTypeOK
  <2>3. FeedShape'
    BY <2>1, <2>2, <1>1 DEF FeedShape, FeedTypeOK, Entries
  <2>4. SpanInv'
    BY <2>1, <1>1 DEF SpanInv, SpanCovers
  <2>5. PastInv'
    <3>1. CASE NextDay
      BY <3>1, <1>1, DayPast
    <3>2. CASE SnapshotExpires
      BY <3>2, <2>1, <1>1 DEF SnapshotExpires, PastInv
    <3> QED BY <1>3, <3>1, <3>2
  <2>6. RowInv'
    <3>1. \A day : KnownTypes(day)' = KnownTypes(day)
      BY <2>1 DEF KnownTypes
    <3> QED BY <2>1, <3>1, <1>1 DEF RowInv
  <2>7. ReadInv' /\ EntryInv'
    BY <2>1, <1>1, StoreReads
  <2> QED BY <2>3, <2>4, <2>5, <2>6, <2>7 DEF FeedInv
<1>4. ASSUME NEW d \in Deliveries, BatchStep(d) PROVE FeedInv'
  <2>1. UNCHANGED <<today, stored, typeRows, tracking, receipted, snapshots, viewer>>
    BY <1>4, BatchOnly DEF StoreKept, feedStore
  <2>2. delivery' \in [Deliveries -> Jobs] /\ batches' \in 0 .. MaxBatches
        /\ rowHeld' \subseteq Deliveries
    <3>1. PICK job \in Jobs : delivery' = [delivery EXCEPT ![d] = job]
      BY <1>1, <1>4, JobStep
    <3>2. delivery \in [Deliveries -> Jobs]
      BY <1>1 DEF FeedShape
    <3> QED BY <1>1, <1>4, <3>1, <3>2, JobStep
  <2>3. FeedShape'
    BY <2>1, <2>2, <1>1 DEF FeedShape, FeedTypeOK
  <2>4. SpanInv'
    BY <2>1, <1>1 DEF SpanInv, SpanCovers
  <2>5. PastInv' /\ RowInv'
    BY <1>1, <1>4, BatchPast, BatchRow
  <2>6. ReadInv' /\ EntryInv'
    BY <2>1, <1>1, StoreReads
  <2> QED BY <2>3, <2>4, <2>5, <2>6 DEF FeedInv
<1>5. ASSUME NEW d \in Deliveries, CleanAndCommit(d) PROVE FeedInv'
  <2>1. /\ stored' \subseteq stored \cup [id : Kills, day : {delivery[d].day}]
        /\ stored' \subseteq EventRows /\ delivery[d].day \in 0 .. LastDay
        /\ today <= delivery[d].day + Retention
    BY <1>1, <1>5, CommitWrites
  <2>2. typeRows' \subseteq [type : OtherTypes, day : 0 .. LastDay]
    <3>1. typeRows' \subseteq typeRows \cup {[type |-> t, day |-> delivery[d].day] :
                                             t \in delivery[d].counted}
          /\ delivery[d].counted \in SUBSET OtherTypes
      BY <1>1, <1>5, CommitWrites
    <3>2. {[type |-> t, day |-> delivery[d].day] : t \in delivery[d].counted}
            \subseteq [type : OtherTypes, day : 0 .. LastDay]
      BY <2>1, <3>1
    <3> QED BY <1>1, <3>1, <3>2 DEF FeedShape, FeedTypeOK
  <2>3. /\ delivery' = [delivery EXCEPT ![d] = [delivery[d] EXCEPT !.step = "answer"]]
        /\ [delivery[d] EXCEPT !.step = "answer"] \in Jobs
        /\ rowHeld' = rowHeld \ {d}
        /\ UNCHANGED <<today, snapshots, viewer, batches, receipted>>
    BY <1>1, <1>5, CommitWrites
  <2>4. FeedShape'
    BY <2>1, <2>2, <2>3, <1>1 DEF FeedShape, FeedTypeOK, EventRows
  <2>5. SpanInv' /\ PastInv' /\ RowInv'
    BY <1>1, <1>5, CommitSpan, CommitPast, CommitRow
  <2>6. receipted \cap stored' \subseteq stored
    <3> SUFFICES ASSUME NEW r \in receipted, r \in stored' PROVE r \in stored
      OBVIOUS
    <3>1. r \in stored \/ r.day < today - Retention
      BY <1>1 DEF PastInv
    <3>2. r \in stored \/ r.day = delivery[d].day
      BY <2>1
    <3>3. today \in Int /\ Retention \in Int /\ delivery[d].day \in Int
      BY <1>1, <2>1, TelemetryAssumption DEF FeedShape, FeedTypeOK
    <3> QED BY <2>1, <3>1, <3>2, <3>3
  <2>7. ReadInv' /\ EntryInv'
    BY <2>3, <2>6, <1>1, StoreReads
  <2> QED BY <2>4, <2>5, <2>7 DEF FeedInv
<1>6. ASSUME NEW d \in Deliveries, AnswerReceipt(d) PROVE FeedInv'
  <2>1. /\ delivery' = [delivery EXCEPT ![d] = IdleDelivery] /\ IdleDelivery \in Jobs
        /\ snapshots' = NoEntry
        /\ receipted \subseteq receipted' /\ receipted' \subseteq receipted \cup stored
        /\ UNCHANGED <<today, stored, typeRows, tracking, rowHeld, viewer, batches>>
    BY <1>1, <1>6, AnswerWrites DEF feedStore
  <2>2. FeedShape'
    BY <2>1, <1>1 DEF FeedShape, FeedTypeOK, Entries
  <2>3. SpanInv'
    BY <2>1, <1>1 DEF SpanInv, SpanCovers
  <2>4. PastInv' /\ RowInv'
    BY <1>1, <1>6, AnswerPast, RowKept
  <2>5. ReadInv' /\ EntryInv'
    BY <2>1, <1>1, StoreReads
  <2> QED BY <2>2, <2>3, <2>4, <2>5 DEF FeedInv
<1>7. ASSUME ReaderStep PROVE FeedInv'
  <2>1. UNCHANGED <<today, stored, typeRows, tracking, rowHeld, delivery, batches, receipted>>
    BY <1>7, ReaderOnly DEF StoreKept, feedStore
  <2>2. PICK v \in Viewers : ViewLeaderboard(v) \/ QueryLeaderboard(v) \/ LoadLeaderboard(v)
                             \/ LoadFails(v) \/ LeavePage(v)
    BY <1>7 DEF ReaderStep
  <2>3. ReadInv' /\ EntryInv' /\ viewer' \in [Viewers -> Reads] /\ snapshots' \in Entries
    BY <1>1, <2>2, ViewReads, QueryReads, LoadReads, FailReads, LeaveReads
  <2>4. FeedShape'
    BY <2>1, <2>3, <1>1 DEF FeedShape, FeedTypeOK
  <2>5. SpanInv' /\ PastInv'
    BY <2>1, <1>1 DEF SpanInv, SpanCovers, PastInv
  <2>6. RowInv'
    <3>1. \A day : KnownTypes(day)' = KnownTypes(day)
      BY <2>1 DEF KnownTypes
    <3> QED BY <2>1, <3>1, <1>1 DEF RowInv
  <2> QED BY <2>3, <2>4, <2>5, <2>6 DEF FeedInv
<1> QED BY <1>2, <1>3, <1>4, <1>5, <1>6, <1>7 DEF FeedNext, BatchStep, ReaderStep

-----------------------------------------------------------------------------
\* Deliveries, readers, cached leaderboards and the rows of types keep their shapes (telemetry.store.ts,
\* telemetry.service.ts).
THEOREM FeedTypeCorrect == FeedSpec => []FeedTypeOK
<1>1. FeedInv => FeedTypeOK
  BY DEF FeedInv, FeedShape
<1> QED BY <1>1, FeedInitial, FeedInductive, PTL DEF FeedSpec

\* However the deliveries of a server's batches run and commit, and whoever shares a leaderboard: no
\* day has more event types than the limit, the tracked span covers what is stored, and a reader who
\* asks after a receipt sees its events (telemetry.store.ts, telemetry.service.ts).
THEOREM FeedCounts == FeedSpec => []FeedCountsTrue
<1>1. FeedInv => FeedCountsTrue
  <2> SUFFICES ASSUME FeedInv PROVE FeedCountsTrue
    OBVIOUS
  <2>1. TypesBounded
    BY RowsOfDay DEF FeedInv, FeedShape, RowInv, TypesBounded
  <2>2. SpanCovers /\ ReadAfterReceipt
    BY DEF FeedInv, SpanInv, ReadInv, ReadAfterReceipt
  <2> QED BY <2>1, <2>2 DEF FeedCountsTrue
<1> QED BY <1>1, FeedInitial, FeedInductive, PTL DEF FeedSpec

-----------------------------------------------------------------------------
(* ScoreWatch: what a ballot heeds of the scores *)

\* A worker that holds the record of a reminder is the only one, and knows what was sent so far.
Claiming(w) == at[w] \in {"claimed", "inDiscord"}
RemindersKnown ==
  /\ \A w \in Watchers : Claiming(w) => reminder[stage[w]] = "started" /\ said[stage[w]] = 0
  /\ \A w \in Watchers : at[w] = "claimed" => posted[stage[w]] = 0
  /\ \A w \in Watchers : at[w] = "inDiscord" => posted[stage[w]] = 1
  /\ \A v, w \in Watchers : Claiming(v) /\ Claiming(w) /\ stage[v] = stage[w] => v = w
  /\ \A s \in Stages : reminder[s] = "none" => posted[s] = 0
  /\ RemindedOnce

\* Nobody has read more than the game shows, and a score that a pass went on from leaves room for the next step.
ScoresKnown ==
  /\ peak <= lead /\ watched <= peak
  /\ \A w \in Watchers : got[w] <= lead /\ (at[w] = "recorded" => got[w] <= peak)
  /\ watched = lead => ~CloseReached(lead, maxStep)
  /\ even /\ ballot = "open" => lead < Target

WatchInv == WatchTypeOK /\ RemindersKnown /\ ScoresKnown

LEMMA ScoreFacts ==
  /\ Target \in Nat /\ CloseAt \in Nat /\ EarlyAt \in Nat /\ MidpointAt \in Nat /\ FinalAt \in Nat
  /\ LargestStep \in Nat /\ 0 < CloseAt /\ EarlyAt <= CloseAt /\ CloseAt < Target /\ MidpointAt < FinalAt
  /\ OpeningScores \subseteq 0 .. EarlyAt
BY ScoresAssumption

LEMMA DueIsReached ==
  ASSUME WatchTypeOK, NEW w \in Watchers, Reached(w) # {}
  PROVE  Due(w) \in Stages
<1>1. Reached(w) \subseteq {"midpoint", "final"}
  BY DEF Reached, WatchTypeOK, Stages
<1>2. \E s \in Reached(w) : \A o \in Reached(w) : ReminderScore(o) <= ReminderScore(s)
  <2>1. ReminderScore("midpoint") <= ReminderScore("final") /\ ReminderScore("final") <= ReminderScore("final")
        /\ ReminderScore("midpoint") <= ReminderScore("midpoint")
    BY ScoreFacts DEF ReminderScore
  <2>2. CASE "final" \in Reached(w)
    BY <2>1, <2>2, <1>1
  <2>3. CASE "final" \notin Reached(w)
    BY <2>1, <2>3, <1>1
  <2> QED BY <2>2, <2>3
<1>3. Due(w) \in Reached(w)
  BY <1>2 DEF Due
<1> QED BY <1>1, <1>3 DEF Stages

-----------------------------------------------------------------------------
(* Types *)

LEMMA WatchTypesStep ==
  ASSUME WatchTypeOK, [WatchNext]_watchVars
  PROVE  WatchTypeOK'
<1>1. CASE Scores
  BY <1>1, ScoreFacts DEF Scores, WatchTypeOK, watchStored, watchSetup, watchMind, watchSent
<1>2. CASE SaveReminders
  BY <1>2 DEF SaveReminders, WatchTypeOK, watchGame, watchStored, watchSetup, watchMind, watchSent
<1>3. ASSUME NEW w \in Watchers, WatchStep(w) PROVE WatchTypeOK'
  <2> USE DEF WatchTypeOK, watchGame, watchStored, watchSetup, watchMind, watchSent, Goes, Rests, AtWatch
  <2>1. CASE ReadScore(w)
    BY <2>1 DEF ReadScore
  <2>2. CASE CancelEnded(w)
    BY <2>2, ScoreFacts DEF CancelEnded, Stages
  <2>3. CASE RecordScore(w)
    BY <2>3, ScoreFacts DEF RecordScore, StepsSince, NoSample, Stages
  <2>4. CASE ClaimForClose(w)
    BY <2>4, ScoreFacts DEF ClaimForClose, Stages
  <2>5. CASE GoOn(w)
    BY <2>5, ScoreFacts, DueIsReached DEF GoOn, Stages
  <2>6. CASE NotStaff(w)
    BY <2>6, ScoreFacts DEF NotStaff, Stages
  <2>7. CASE ClaimReminder(w)
    BY <2>7, ScoreFacts DEF ClaimReminder, ReminderStates, Stages
  <2>8. CASE ReminderFails(w)
    BY <2>8, ScoreFacts DEF ReminderFails, FinishReminder, ReminderStates, Stages
  <2>9. CASE PostReminder(w)
    BY <2>9, ScoreFacts DEF PostReminder, FinishReminder, ReminderStates, Stages
  <2>10. CASE FinishPosted(w)
    BY <2>10, ScoreFacts DEF FinishPosted, FinishReminder, ReminderStates, Stages
  <2>11. CASE SayReminder(w)
    BY <2>11, ScoreFacts DEF SayReminder, FinishReminder, ReminderStates, Stages
  <2>12. CASE SayRefused(w)
    BY <2>12, ScoreFacts DEF SayRefused, FinishReminder, ReminderStates, Stages
  <2>13. CASE WatchCrash(w)
    BY <2>13, ScoreFacts DEF WatchCrash, Stages
  <2> QED BY <1>3, <2>1, <2>2, <2>3, <2>4, <2>5, <2>6, <2>7, <2>8, <2>9, <2>10, <2>11, <2>12, <2>13 DEF WatchStep
<1>4. CASE UNCHANGED watchVars
  BY <1>4 DEF watchVars, WatchTypeOK, watchGame, watchStored, watchSetup, watchMind, watchSent
<1> QED BY <1>1, <1>2, <1>3, <1>4 DEF WatchNext

-----------------------------------------------------------------------------
(* Reminders *)

\* Whoever sends nothing and takes no record leaves the reminders as they are known.
LEMMA QuietStep ==
  ASSUME WatchInv, UNCHANGED <<reminder, channels, posted, said>>,
         \A v \in Watchers : Claiming(v)' => at'[v] = at[v] /\ stage'[v] = stage[v]
  PROVE  RemindersKnown'
<1>1. \A v \in Watchers : Claiming(v)' => Claiming(v) /\ at'[v] = at[v] /\ stage'[v] = stage[v]
  BY DEF Claiming
<1>2. RemindedOnce'
  BY DEF WatchInv, RemindersKnown, RemindedOnce
<1>3. \A w \in Watchers : Claiming(w)' => reminder'[stage'[w]] = "started" /\ said'[stage'[w]] = 0
  BY <1>1 DEF WatchInv, RemindersKnown
<1>4. \A w \in Watchers : at'[w] = "claimed" => posted'[stage'[w]] = 0
  BY <1>1 DEF WatchInv, RemindersKnown, Claiming
<1>5. \A w \in Watchers : at'[w] = "inDiscord" => posted'[stage'[w]] = 1
  BY <1>1 DEF WatchInv, RemindersKnown, Claiming
<1>6. \A v, w \in Watchers : Claiming(v)' /\ Claiming(w)' /\ stage'[v] = stage'[w] => v = w
  BY <1>1 DEF WatchInv, RemindersKnown
<1>7. \A s \in Stages : reminder'[s] = "none" => posted'[s] = 0
  BY DEF WatchInv, RemindersKnown
<1> QED BY <1>2, <1>3, <1>4, <1>5, <1>6, <1>7 DEF RemindersKnown

\* One worker w acts on the record of its reminder s: it keeps it, or finishes it with what was sent.
LEMMA ReminderActs ==
  ASSUME WatchInv, NEW w \in Watchers, NEW s \in Stages, s = stage[w], channels' = channels,
         \A v \in Watchers : v # w => at'[v] = at[v] /\ stage'[v] = stage[v],
         Claiming(w) \/ (reminder[s] = "none" /\ Claiming(w)'),
         Claiming(w)' => stage'[w] = s /\ reminder'[s] = "started" /\ said'[s] = 0,
         at'[w] = "claimed" => posted'[s] = 0, at'[w] = "inDiscord" => posted'[s] = 1,
         \A x \in Stages : x # s => reminder'[x] = reminder[x] /\ posted'[x] = posted[x] /\ said'[x] = said[x],
         reminder'[s] # "none", posted'[s] <= 1, said'[s] <= 1,
         reminder'[s] = "applied" => ("discord" \in channels => posted'[s] = 1) /\ ("game" \in channels => said'[s] = 1),
         reminder'[s] = "failed" => said'[s] = 0
  PROVE  RemindersKnown'
<1>1. /\ \A v \in Watchers : Claiming(v) => reminder[stage[v]] = "started" /\ said[stage[v]] = 0
      /\ \A v \in Watchers : at[v] = "claimed" => posted[stage[v]] = 0
      /\ \A v \in Watchers : at[v] = "inDiscord" => posted[stage[v]] = 1
      /\ \A u, v \in Watchers : Claiming(u) /\ Claiming(v) /\ stage[u] = stage[v] => u = v
      /\ \A x \in Stages : reminder[x] = "none" => posted[x] = 0
      /\ stage \in [Watchers -> Stages]
  BY DEF WatchInv, RemindersKnown, WatchTypeOK
<1>2. \A v \in Watchers : v # w /\ Claiming(v)' => Claiming(v) /\ stage'[v] = stage[v] /\ stage[v] # s /\ stage[v] \in Stages
  BY <1>1 DEF Claiming
<1>3. \A v \in Watchers : Claiming(v)' => reminder'[stage'[v]] = "started" /\ said'[stage'[v]] = 0
  BY <1>1, <1>2
<1>4. \A v \in Watchers : at'[v] = "claimed" => posted'[stage'[v]] = 0
  BY <1>1, <1>2 DEF Claiming
<1>5. \A v \in Watchers : at'[v] = "inDiscord" => posted'[stage'[v]] = 1
  BY <1>1, <1>2 DEF Claiming
<1>6. \A u, v \in Watchers : Claiming(u)' /\ Claiming(v)' /\ stage'[u] = stage'[v] => u = v
  BY <1>1, <1>2
<1>7. \A x \in Stages : reminder'[x] = "none" => posted'[x] = 0
  BY <1>1
<1>8. RemindedOnce'
  <2>1. \A x \in Stages : x # s =>
          /\ posted'[x] <= 1 /\ said'[x] <= 1
          /\ reminder'[x] = "applied" => /\ "discord" \in channels' => posted'[x] = 1
                                         /\ "game" \in channels' => said'[x] = 1
          /\ reminder'[x] \in {"none", "failed"} => said'[x] = 0
    BY DEF WatchInv, RemindersKnown, RemindedOnce
  <2> QED BY <2>1 DEF RemindedOnce
<1> QED BY <1>3, <1>4, <1>5, <1>6, <1>7, <1>8 DEF RemindersKnown

LEMMA RemindersStep ==
  ASSUME WatchInv, [WatchNext]_watchVars
  PROVE  RemindersKnown'
<1>1. CASE Scores \/ SaveReminders \/ UNCHANGED watchVars
  <2>1. UNCHANGED <<reminder, channels, posted, said, at, stage>>
    BY <1>1 DEF Scores, SaveReminders, watchVars, watchGame, watchStored, watchSetup, watchMind, watchSent
  <2> QED BY <2>1, QuietStep
<1>2. ASSUME NEW w \in Watchers, WatchStep(w) PROVE RemindersKnown'
  <2>1. /\ at \in [Watchers -> {"idle", "read", "recorded", "due", "claimed", "inDiscord"}]
        /\ stage \in [Watchers -> Stages] /\ reminder \in [Stages -> ReminderStates]
        /\ posted \in [Stages -> Nat] /\ said \in [Stages -> Nat]
    BY DEF WatchInv, WatchTypeOK
  <2>2. CASE \/ ReadScore(w) \/ CancelEnded(w) \/ RecordScore(w) \/ ClaimForClose(w) \/ GoOn(w) \/ NotStaff(w)
             \/ WatchCrash(w) \/ (ClaimReminder(w) /\ ~MayClaim(stage[w]))
    <3>1. UNCHANGED <<reminder, channels, posted, said>>
      BY <2>2 DEF ReadScore, CancelEnded, RecordScore, ClaimForClose, GoOn, NotStaff, WatchCrash, ClaimReminder,
                  watchStored, watchSetup, watchSent
    <3>2. /\ ~Claiming(w)'
          /\ \A v \in Watchers : v # w => at'[v] = at[v] /\ stage'[v] = stage[v]
      <4>1. /\ \E where \in {"idle", "read", "recorded", "due"} : at' = [at EXCEPT ![w] = where]
            /\ \E s : stage' = [stage EXCEPT ![w] = s]
        <5>1. CASE ReadScore(w)
          BY <5>1, <2>1 DEF ReadScore
        <5>2. CASE CancelEnded(w) \/ ClaimForClose(w) \/ NotStaff(w) \/ WatchCrash(w)
          BY <5>2 DEF CancelEnded, ClaimForClose, NotStaff, WatchCrash, Rests
        <5>3. CASE RecordScore(w)
          BY <5>3, <2>1 DEF RecordScore, Rests, Goes
        <5>4. CASE GoOn(w)
          BY <5>4 DEF GoOn, Rests
        <5>5. CASE ClaimReminder(w) /\ ~MayClaim(stage[w])
          BY <5>5 DEF ClaimReminder, Rests
        <5> QED BY <2>2, <5>1, <5>2, <5>3, <5>4, <5>5
      <4> QED BY <4>1, <2>1 DEF Claiming
    <3> QED BY <3>1, <3>2, QuietStep
  <2> DEFINE OthersStay == \A v \in Watchers : v # w => at'[v] = at[v] /\ stage'[v] = stage[v]
             StagesStay == \A x \in Stages : x # stage[w] => /\ reminder'[x] = reminder[x]
                                                              /\ posted'[x] = posted[x] /\ said'[x] = said[x]
  <2>3. stage[w] \in Stages
    BY <2>1
  <2>4. Claiming(w) => reminder[stage[w]] = "started" /\ said[stage[w]] = 0
    BY DEF WatchInv, RemindersKnown
  <2>5. posted[stage[w]] <= 1 /\ said[stage[w]] <= 1
    BY <2>3 DEF WatchInv, RemindersKnown, RemindedOnce
  <2>6. /\ at[w] = "claimed" => posted[stage[w]] = 0
        /\ at[w] = "inDiscord" => posted[stage[w]] = 1
        /\ reminder[stage[w]] = "none" => posted[stage[w]] = 0 /\ said[stage[w]] = 0
    BY <2>3 DEF WatchInv, RemindersKnown, RemindedOnce
  <2>7. CASE ClaimReminder(w) /\ MayClaim(stage[w])
    <3>1. /\ reminder[stage[w]] = "none" /\ reminder' = [reminder EXCEPT ![stage[w]] = "started"]
          /\ at' = [at EXCEPT ![w] = "claimed"] /\ stage' = stage
          /\ channels' = channels /\ posted' = posted /\ said' = said
      BY <2>7 DEF ClaimReminder, MayClaim, Goes, watchSetup, watchSent
    <3>2. OthersStay /\ StagesStay /\ at'[w] = "claimed" /\ reminder'[stage[w]] = "started"
      BY <3>1, <2>1, <2>3
    <3>3. Claiming(w)'
      BY <3>2 DEF Claiming
    <3> QED BY <3>1, <3>2, <3>3, <2>3, <2>5, <2>6, ReminderActs
  <2>8. ASSUME NEW result \in {"applied", "failed", "unknown"}, FinishReminder(w, result), Claiming(w), channels' = channels,
               \A x \in Stages : x # stage[w] => posted'[x] = posted[x] /\ said'[x] = said[x],
               posted'[stage[w]] <= 1, said'[stage[w]] <= 1,
               result = "applied" => ("discord" \in channels => posted'[stage[w]] = 1)
                                     /\ ("game" \in channels => said'[stage[w]] = 1),
               result = "failed" => said'[stage[w]] = 0
        PROVE  RemindersKnown'
    <3>1. /\ reminder' = [reminder EXCEPT ![stage[w]] = result] /\ at' = [at EXCEPT ![w] = "idle"]
          /\ stage' = [stage EXCEPT ![w] = "midpoint"]
      BY <2>8 DEF FinishReminder, Rests
    <3>2. OthersStay /\ StagesStay /\ at'[w] = "idle" /\ reminder'[stage[w]] = result
      BY <3>1, <2>1, <2>3, <2>8
    <3>3. ~Claiming(w)'
      BY <3>2 DEF Claiming
    <3> QED BY <3>2, <3>3, <2>3, <2>8, ReminderActs
  <2>9. CASE ReminderFails(w)
    <3>1. FinishReminder(w, "unknown") /\ Claiming(w) /\ channels' = channels /\ posted' = posted /\ said' = said
      BY <2>9 DEF ReminderFails, Claiming, watchSetup, watchSent
    <3> QED BY <3>1, <2>5, <2>8
  <2>10. CASE PostReminder(w)
    <3>1. /\ at[w] = "claimed" /\ Claiming(w) /\ channels' = channels /\ said' = said
          /\ posted' = [posted EXCEPT ![stage[w]] = posted[stage[w]] + 1]
      BY <2>10 DEF PostReminder, Claiming, AtWatch, watchSetup
    <3>2. posted'[stage[w]] = 1 /\ \A x \in Stages : x # stage[w] => posted'[x] = posted[x]
      BY <3>1, <2>1, <2>3, <2>6
    <3>3. CASE FinishReminder(w, "unknown")
      BY <3>1, <3>2, <3>3, <2>5, <2>8
    <3>4. CASE Goes(w, "inDiscord") /\ UNCHANGED reminder
      <4>1. at' = [at EXCEPT ![w] = "inDiscord"] /\ stage' = stage /\ reminder' = reminder
        BY <3>4 DEF Goes
      <4>2. OthersStay /\ StagesStay /\ at'[w] = "inDiscord"
        BY <4>1, <3>1, <3>2, <2>1
      <4> QED BY <4>1, <4>2, <3>1, <3>2, <2>3, <2>4, ReminderActs
    <3> QED BY <2>10, <3>3, <3>4 DEF PostReminder
  <2>11. CASE FinishPosted(w)
    <3>1. /\ FinishReminder(w, "applied") /\ at[w] = "inDiscord" /\ "game" \notin channels /\ channels' = channels
          /\ posted' = posted /\ said' = said
      BY <2>11 DEF FinishPosted, AtWatch, Sends, watchSetup, watchSent
    <3> QED BY <3>1, <2>5, <2>6, <2>8 DEF Claiming
  <2>12. CASE SayReminder(w)
    <3>1. PICK result \in {"applied", "unknown"} : FinishReminder(w, result)
      BY <2>12 DEF SayReminder
    <3>2. /\ at[w] = (IF "discord" \in channels THEN "inDiscord" ELSE "claimed") /\ channels' = channels
          /\ posted' = posted /\ said' = [said EXCEPT ![stage[w]] = said[stage[w]] + 1]
      BY <2>12 DEF SayReminder, MaySay, Sends, watchSetup
    <3>3. Claiming(w)
      BY <3>2 DEF Claiming
    <3>4. said'[stage[w]] = 1 /\ \A x \in Stages : x # stage[w] => said'[x] = said[x]
      BY <3>2, <3>3, <2>1, <2>3, <2>4
    <3>5. "discord" \in channels => posted'[stage[w]] = 1
      BY <3>2, <2>6
    <3> QED BY <3>1, <3>2, <3>3, <3>4, <3>5, <2>5, <2>8
  <2>13. CASE SayRefused(w)
    <3>1. /\ FinishReminder(w, "failed") /\ channels' = channels /\ posted' = posted /\ said' = said
          /\ at[w] \in {"inDiscord", "claimed"}
      BY <2>13 DEF SayRefused, MaySay, Sends, watchSetup, watchSent
    <3>2. Claiming(w)
      BY <3>1 DEF Claiming
    <3> QED BY <3>1, <3>2, <2>4, <2>5, <2>8
  <2> QED BY <1>2, <2>2, <2>7, <2>9, <2>10, <2>11, <2>12, <2>13 DEF WatchStep
<1> QED BY <1>1, <1>2 DEF WatchNext

-----------------------------------------------------------------------------
(* Scores *)

\* The next step of a match that a pass went on from does not end it, if the ballot allows for it.
LEMMA NextStepFits ==
  ASSUME WatchTypeOK, NEW d \in 1 .. LargestStep, ~CloseReached(lead, maxStep), Foreseen(d)
  PROVE  lead + d < Target
<1>1. lead \in Nat /\ maxStep \in Nat /\ d \in Nat
  BY ScoreFacts DEF WatchTypeOK
<1> QED BY <1>1, ScoreFacts DEF CloseReached, Foreseen

\* A step that leaves the match where it is.
LEMMA ScoresStay ==
  ASSUME WatchInv, UNCHANGED <<lead, even>>, ballot' = "open" => ballot = "open",
         peak' <= lead, watched' <= peak', watched' = lead => ~CloseReached(lead, maxStep'),
         \A v \in Watchers : got'[v] <= lead /\ (at'[v] = "recorded" => got'[v] <= peak')
  PROVE  ScoresKnown'
<1>1. watched' = lead' => ~CloseReached(lead, maxStep)'
  BY DEF CloseReached
<1> QED BY <1>1 DEF WatchInv, ScoresKnown

LEMMA ScoresStep ==
  ASSUME WatchInv, [WatchNext]_watchVars
  PROVE  ScoresKnown'
<1>1. /\ lead \in Nat /\ Target \in Nat /\ peak \in Nat /\ maxStep \in Nat /\ lead <= Target
      /\ watched \in {NoSample} \cup Nat /\ got \in [Watchers -> 0 .. Target]
      /\ at \in [Watchers -> {"idle", "read", "recorded", "due", "claimed", "inDiscord"}]
      /\ \A w \in Watchers : got[w] \in Nat
  BY ScoreFacts DEF WatchInv, WatchTypeOK
<1>2. /\ peak <= lead /\ watched <= peak
      /\ \A w \in Watchers : got[w] <= lead /\ (at[w] = "recorded" => got[w] <= peak)
      /\ watched = lead => ~CloseReached(lead, maxStep)
      /\ even /\ ballot = "open" => lead < Target
  BY DEF WatchInv, ScoresKnown
<1>3. CASE Scores
  <2>1. PICK d \in 1 .. LargestStep :
          /\ lead < Target /\ lead' = IF lead + d > Target THEN Target ELSE lead + d
          /\ even' = (even /\ (ballot = "open" => watched = lead /\ Foreseen(d)))
          /\ UNCHANGED <<watched, ballot, peak, maxStep, got, at>>
    BY <1>3 DEF Scores, watchStored, watchMind
  <2>2. lead' \in Nat /\ lead < lead'
    BY <2>1, <1>1, ScoreFacts
  <2>3. watched' # lead'
    BY <2>1, <2>2, <1>1, <1>2 DEF NoSample
  <2>4. even' /\ ballot' = "open" => lead' < Target
    <3> HAVE even' /\ ballot' = "open"
    <3>1. lead + d < Target
      BY <2>1, <1>2, NextStepFits DEF WatchInv
    <3> QED BY <3>1, <2>1, <1>1
  <2>5. peak' <= lead' /\ watched' <= peak' /\ \A w \in Watchers : got'[w] <= lead' /\ (at'[w] = "recorded" => got'[w] <= peak')
    BY <2>1, <2>2, <1>1, <1>2
  <2> QED BY <2>3, <2>4, <2>5 DEF ScoresKnown
<1>4. CASE SaveReminders \/ UNCHANGED watchVars
  <2>1. UNCHANGED <<lead, even, watched, ballot, peak, maxStep, got, at>>
    BY <1>4 DEF SaveReminders, watchVars, watchGame, watchStored, watchMind
  <2> QED BY <2>1, <1>2, ScoresStay
<1>5. ASSUME NEW w \in Watchers, WatchStep(w) PROVE ScoresKnown'
  <2>1. CASE ReadScore(w)
    <3>1. /\ UNCHANGED <<lead, even, watched, ballot, peak, maxStep>>
          /\ at' = [at EXCEPT ![w] = "read"] /\ got' = [got EXCEPT ![w] = lead]
      BY <2>1 DEF ReadScore, watchGame, watchStored
    <3>2. \A v \in Watchers : got'[v] <= lead /\ (at'[v] = "recorded" => got'[v] <= peak)
      BY <3>1, <1>1, <1>2
    <3> QED BY <3>1, <3>2, <1>2, ScoresStay
  <2>2. ASSUME UNCHANGED <<lead, even, watched, peak, maxStep>>, ballot' = "open" => ballot = "open",
               got' = got \/ got' = [got EXCEPT ![w] = 0],
               \E where \in {"idle", "claimed", "inDiscord"} : at' = [at EXCEPT ![w] = where]
        PROVE  ScoresKnown'
    <3>1. \A v \in Watchers : got'[v] <= lead /\ (at'[v] = "recorded" => got'[v] <= peak)
      BY <2>2, <1>1, <1>2
    <3> QED BY <3>1, <2>2, <1>2, ScoresStay
  <2>3. CASE CancelEnded(w) \/ ClaimForClose(w) \/ NotStaff(w) \/ WatchCrash(w)
    BY <2>2, <2>3 DEF CancelEnded, ClaimForClose, NotStaff, WatchCrash, Rests, watchGame, watchStored
  <2>4. CASE ClaimReminder(w) \/ ReminderFails(w) \/ PostReminder(w) \/ FinishPosted(w) \/ SayReminder(w) \/ SayRefused(w)
    BY <2>2, <2>4 DEF ClaimReminder, ReminderFails, PostReminder, FinishPosted, SayReminder, SayRefused,
                      FinishReminder, Goes, Rests, watchGame, watchStored
  <2>5. CASE RecordScore(w)
    <3>1. CASE ballot = "open" /\ got[w] >= peak
      <4>1. PICK d \in StepsSince(w) : maxStep' = IF got[w] > peak /\ d > maxStep THEN d ELSE maxStep
        BY <2>5, <3>1 DEF RecordScore
      <4>2. /\ UNCHANGED <<lead, even, watched, ballot, got>> /\ peak' = got[w]
            /\ at' = [at EXCEPT ![w] = "recorded"]
        BY <2>5, <3>1 DEF RecordScore, Goes, watchGame
      <4>3. watched' = lead => ~CloseReached(lead, maxStep')
        <5> HAVE watched' = lead
        <5>1. maxStep' = maxStep
          BY <4>1, <4>2, <1>1, <1>2
        <5> QED BY <5>1, <4>2, <1>2
      <4>4. peak' <= lead /\ watched' <= peak'
        BY <4>2, <3>1, <1>1, <1>2 DEF NoSample
      <4>5. \A v \in Watchers : got'[v] <= lead /\ (at'[v] = "recorded" => got'[v] <= peak')
        BY <4>2, <3>1, <1>1, <1>2
      <4> QED BY <4>2, <4>3, <4>4, <4>5, ScoresStay
    <3>2. CASE ~(ballot = "open" /\ got[w] >= peak)
      BY <2>2, <2>5, <3>2 DEF RecordScore, Rests, watchGame
    <3> QED BY <3>1, <3>2
  <2>6. CASE GoOn(w)
    <3>1. /\ UNCHANGED <<lead, even, ballot, peak, maxStep>> /\ watched' = got[w]
          /\ at[w] = "recorded" /\ ~CloseReached(got[w], maxStep)
          /\ \/ got' = got /\ at' = [at EXCEPT ![w] = "due"]
             \/ got' = [got EXCEPT ![w] = 0] /\ at' = [at EXCEPT ![w] = "idle"]
      BY <2>6 DEF GoOn, AtWatch, Rests, watchStored
    <3>2. \A v \in Watchers : got'[v] <= lead /\ (at'[v] = "recorded" => got'[v] <= peak)
      BY <3>1, <1>1, <1>2
    <3> QED BY <3>1, <3>2, <1>2, ScoresStay
  <2> QED BY <1>5, <2>1, <2>3, <2>4, <2>5, <2>6 DEF WatchStep
<1> QED BY <1>3, <1>4, <1>5 DEF WatchNext

LEMMA WatchStarts ==
  WatchInit => WatchInv
<1> SUFFICES ASSUME WatchInit PROVE WatchInv
  OBVIOUS
<1>1. lead \in 0 .. EarlyAt /\ lead < Target /\ lead \in 0 .. Target
  BY ScoreFacts DEF WatchInit
<1>2. WatchTypeOK
  <2>1. channels \subseteq {"discord", "game"}
    BY DEF WatchInit
  <2> QED BY <2>1, <1>1, ScoreFacts DEF WatchInit, WatchTypeOK, ReminderStates, Stages
<1>3. RemindersKnown
  BY DEF WatchInit, RemindersKnown, RemindedOnce, Claiming, Stages
<1>4. ScoresKnown
  BY <1>1, ScoreFacts DEF WatchInit, ScoresKnown, NoSample
<1> QED BY <1>2, <1>3, <1>4 DEF WatchInv

LEMMA WatchKeeps ==
  WatchInv /\ [WatchNext]_watchVars => WatchInv'
BY WatchTypesStep, RemindersStep, ScoresStep DEF WatchInv

\* Scores are heeded by any number of workers (observeAutomatic): a reminder appears at most once in each place and
\* its record is true, and a ballot that kept up with a match of foreseeable steps is not open when the match ends.
THEOREM ScoresAreHeeded == WatchSpec => []ScoresHeeded
<1>1. WatchInv => ScoresHeeded
  BY ScoreFacts DEF WatchInv, WatchTypeOK, RemindersKnown, ScoresKnown, ScoresHeeded, ClosesInTime
<1> QED BY <1>1, WatchStarts, WatchKeeps, PTL DEF WatchSpec

\* What a ballot stores of its scores and reminders, and what its workers hold of them, keep their types.
THEOREM WatchTypeCorrect == WatchSpec => []WatchTypeOK
<1>1. WatchInv => WatchTypeOK
  BY DEF WatchInv
<1> QED BY <1>1, WatchStarts, WatchKeeps, PTL DEF WatchSpec

-----------------------------------------------------------------------------
(* Whitelist applications *)

Steps == {"new", "look", "claim", "send", "confirm", "reread", "finish", "check", "save", "record", "done"}
Rows == [status : {"pending", "processing", "approved", "declined", "needs_review", "revoking", "revoked"},
         intent : {"grant", "revoke"}, reviewId : Ids \cup Requests \cup {NoId}]
Sights == {"live", "gone"}
HistoryTypes ==
  /\ inspected \in [Requests -> Rows]
  /\ during \in [Requests -> SUBSET Sights] /\ warrant \in SUBSET Sights

\* A review has an ID of its own, a change on the Whitelist page has the request's; each goes through steps
\* of its own, and a recheck runs only for a row that was undecided when it was read.
PagesOnly == {"page-add", "page-remove"}
Paths ==
  \A h \in Requests :
    /\ kind[h] \in PagesOnly => id[h] = h
    /\ kind[h] \in Kinds \ PagesOnly => id[h] \in Ids
    /\ step[h] = "new" => entry[h] = "none"
    /\ step[h] = "reread" => kind[h] = "revoke"
    /\ step[h] = "record" => kind[h] = "page-remove"
    /\ step[h] \in {"send", "confirm", "finish"} => kind[h] \in {"approve", "revoke"} \cup PagesOnly
    /\ step[h] \in {"check", "save"} => Recheckable(inspected[h].status, inspected[h].intent)

\* What a running request holds, it has seen while it ran.
Seen ==
  \A h \in Requests :
    /\ Running(h) => View(saved, live) \subseteq during[h]
    /\ Running(h) /\ entry[h] = "owned" => "live" \in during[h]
    /\ step[h] = "confirm" /\ ~Adds(h) => "gone" \in during[h]
    /\ step[h] = "record" => "gone" \in during[h]
    /\ step[h] = "finish" /\ kind[h] = "approve" => (outcome[h] = "applied" => "live" \in during[h])
    /\ step[h] = "finish" /\ kind[h] = "revoke" =>
         /\ outcome[h] \in {"applied", "pending"} => "gone" \in during[h]
         /\ outcome[h] = "failed" => "live" \in during[h]
    /\ step[h] = "save" /\ outcome[h] = "applied" =>
         IF inspected[h].intent = "revoke" THEN "gone" \in during[h] ELSE "live" \in during[h]

\* A result that is written is one that was reached.
Concludes == \A h \in Requests : step[h] \in {"finish", "save"} => outcome[h] # "none"

\* A claimed review has its receipt. Only the one approval that claimed the pending application can still
\* send a grant, and until it does none was sent.
Reviews == {"approve", "revoke"}
Claimed(h) == kind[h] \in Reviews /\ step[h] \in {"send", "confirm", "reread", "finish"}
OwnSent == {s \in sent : s[1] \in Ids}
GrantsSent == {s \in OwnSent : s[2] = "add"}
Granting(h) == kind[h] = "approve" /\ step[h] = "send"
Claims ==
  /\ \A h \in Requests : Claimed(h) => reviews[id[h]] # "none"
  /\ \A s \in OwnSent : reviews[s[1]] # "none"
  /\ status \in {"pending", "declined"} => OwnSent = {} /\ \A h \in Requests : kind[h] \in Reviews => step[h] # "send"
  /\ \A h, g \in Requests : Granting(h) /\ Granting(g) => h = g
  /\ (\E h \in Requests : Granting(h)) => GrantsSent = {}
  /\ \A s, t \in GrantsSent : s = t

AppsInv == AppsTypeOK /\ HistoryTypes /\ Paths /\ Concludes /\ Seen /\ Claims /\ Recoverable /\ DecidedFromView

-------------------------------------------------------------------------------
LEMMA AppsInitially == AppsInit => AppsInv
<1> SUFFICES ASSUME AppsInit PROVE AppsInv OBVIOUS
<1> USE DEF AppsInit, Row, NoRow
<1>1. AppsTypeOK BY DEF AppsTypeOK, ReceiptStates
<1>2. HistoryTypes BY DEF HistoryTypes, Rows, Sights
<1>3. Paths BY DEF Paths, Kinds, PagesOnly
<1>4. Concludes BY DEF Concludes
<1>5. Seen BY DEF Seen, Running
<1>6. Claims BY DEF Claims, Claimed, OwnSent, GrantsSent, Granting, Reviews
<1>7. Recoverable /\ DecidedFromView BY DEF Recoverable, DecidedFromView
<1> QED BY <1>1, <1>2, <1>3, <1>4, <1>5, <1>6, <1>7 DEF AppsInv

\* The ways a request arrives, and the steps the game takes by itself.
RequestBegins(h) ==
  \/ \E i \in Ids : BeginApprove(h, i) \/ BeginRecheck(h, i) \/ \E k \in Kinds : BeginClaim(h, k, i)
  \/ \E k \in Kinds : BeginPage(h, k)
GameAlone == (\E add \in BOOLEAN : LateChange(add)) \/ GameRestart

-------------------------------------------------------------------------------
\* A row as a recheck reads it, and which way a request changes the whitelist.
LEMMA RowType == AppsTypeOK => Row(status, intent, reviewId) \in Rows
BY DEF AppsTypeOK, Row, Rows
LEMMA ViewType == \A s, l : View(s, l) \in SUBSET Sights
BY DEF View, Sights
LEMMA AddsType == \A h \in Requests : Adds(h) \in BOOLEAN
BY DEF Adds

(* One lemma per part of the invariant, action by action.                   *)

\* The row, the receipts and the requests keep their types.
LEMMA TypesKept == AppsInv /\ [AppsNext]_appsVars => AppsTypeOK'
<1> SUFFICES ASSUME AppsInv, [AppsNext]_appsVars PROVE AppsTypeOK' OBVIOUS
<1> USE RequestsAssumption DEF AppsInv, AppsTypeOK, ReceiptStates, Kinds, Show, Say, To, rowVars, gameVars,
      requestVars, GameSame, Quiet
<1>1. ASSUME NEW h \in Requests, RequestBegins(h) PROVE AppsTypeOK'
  BY <1>1 DEF RequestBegins, BeginApprove, BeginRecheck, BeginClaim, BeginPage, Begin
<1>2. ASSUME NEW h \in Requests, (\E confirmed \in BOOLEAN : Look(h, confirmed)) PROVE AppsTypeOK'
  BY <1>2 DEF Look, Readings
<1>3. ASSUME NEW h \in Requests, ClaimDecline(h) \/ ClaimRevoke(h)
              \/ NotClaimed(h) \/ Stop(h) PROVE AppsTypeOK'
  BY <1>3 DEF ClaimDecline, Claim, ClaimRevoke, NotClaimed, Stop
<1>4. ASSUME NEW h \in Requests, ClaimApprove(h) PROVE AppsTypeOK'
  <2>1. CASE entry[h] = "owned"
    <3>1. step' \in [Requests -> Steps] /\ outcome' \in [Requests -> ReceiptStates \ {"started"}]
      BY <1>4, <2>1 DEF ClaimApprove, Steps
    <3> QED BY <1>4, <2>1, <3>1 DEF ClaimApprove, Claim, Steps
  <2>2. CASE entry[h] # "owned" BY <1>4, <2>2 DEF ClaimApprove, Claim
  <2> QED BY <2>1, <2>2
<1>5. ASSUME NEW h \in Requests, Refused(h) \/ AsAsked(h) PROVE AppsTypeOK'
  BY <1>5 DEF Refused, AsAsked, GameStep, Concluded, AfterFailure
<1>6. ASSUME NEW h \in Requests, Change(h) PROVE AppsTypeOK'
  BY <1>6, AddsType DEF Change, GameStep, Sent
<1>7. ASSUME NEW h \in Requests, AnswerLost(h) PROVE AppsTypeOK'
  BY <1>7, AddsType DEF AnswerLost, GameStep, Sent, Concluded
<1>8. ASSUME NEW h \in Requests, Confirm(h) \/ Reread(h) PROVE AppsTypeOK'
  BY <1>8 DEF Confirm, Confirmed, Concluded, Reread, RefusalStands
<1>9. ASSUME NEW h \in Requests, FinishApprove(h) \/ FinishRevoke(h) PROVE AppsTypeOK'
  BY <1>9 DEF FinishApprove, Finish, Owns, FinishRevoke, Removal
<1>10. ASSUME NEW h \in Requests, Check(h) PROVE AppsTypeOK'
  BY <1>10 DEF Check
<1>11. ASSUME NEW h \in Requests, SaveRecheck(h) \/ RecordExternal(h) PROVE AppsTypeOK'
  BY <1>11 DEF SaveRecheck, Unchanged, Row, RecordExternal
<1>12. ASSUME GameAlone PROVE AppsTypeOK'
  BY <1>12 DEF GameAlone, LateChange, GameRestart
<1>13. CASE UNCHANGED appsVars BY <1>13 DEF appsVars
<1> QED
  BY <1>1, <1>2, <1>3, <1>4, <1>5, <1>6, <1>7, <1>8, <1>9, <1>10, <1>11, <1>12, <1>13
  DEF AppsNext, RequestBegins, GameAlone

\* So do the readings of a recheck and the histories.
LEMMA HistoriesKept == AppsInv /\ [AppsNext]_appsVars => HistoryTypes'
<1> SUFFICES ASSUME AppsInv, [AppsNext]_appsVars PROVE HistoryTypes' OBVIOUS
<1> USE RequestsAssumption DEF AppsInv, HistoryTypes, AppsTypeOK, Show, Say, To, rowVars, gameVars, requestVars,
      GameSame, Quiet
<1>1. ASSUME NEW h \in Requests, RequestBegins(h) PROVE HistoryTypes'
  BY <1>1, RowType, ViewType DEF RequestBegins, BeginApprove, BeginRecheck, BeginClaim, BeginPage, Begin
<1>2. ASSUME NEW h \in Requests,
           (\E confirmed \in BOOLEAN : Look(h, confirmed)) \/ ClaimDecline(h) \/ ClaimApprove(h) \/ ClaimRevoke(h)
              \/ NotClaimed(h) \/ Stop(h) \/ Refused(h) \/ AsAsked(h)
      PROVE  HistoryTypes'
  BY <1>2 DEF Look, ClaimDecline, Claim, ClaimApprove, ClaimRevoke, NotClaimed, Stop, Refused, AsAsked, GameStep,
      Concluded, AfterFailure
<1>3. ASSUME NEW h \in Requests, Change(h) PROVE HistoryTypes'
  BY <1>3, ViewType DEF Change, GameStep, Sent
<1>4. ASSUME NEW h \in Requests, AnswerLost(h) \/ Confirm(h) \/ Reread(h)
              \/ Check(h) PROVE HistoryTypes'
  BY <1>4 DEF AnswerLost, GameStep, Sent, Concluded, Confirm, Confirmed, Reread, RefusalStands, Check
<1>5. ASSUME NEW h \in Requests, FinishApprove(h) PROVE HistoryTypes'
  BY <1>5 DEF FinishApprove, Finish
<1>6. ASSUME NEW h \in Requests, FinishRevoke(h) PROVE HistoryTypes'
  BY <1>6 DEF FinishRevoke, Finish
<1>7. ASSUME NEW h \in Requests, SaveRecheck(h) PROVE HistoryTypes'
  BY <1>7 DEF SaveRecheck
<1>8. ASSUME NEW h \in Requests, RecordExternal(h) PROVE HistoryTypes'
  BY <1>8 DEF RecordExternal
<1>9. ASSUME GameAlone PROVE HistoryTypes'
  BY <1>9, ViewType DEF GameAlone, LateChange, GameRestart
<1>10. CASE UNCHANGED appsVars BY <1>10 DEF appsVars
<1> QED
  BY <1>1, <1>2, <1>3, <1>4, <1>5, <1>6, <1>7, <1>8, <1>9, <1>10
  DEF AppsNext, RequestBegins, GameAlone

\* Each kind of request goes through its own steps.
LEMMA PathsKept == AppsInv /\ [AppsNext]_appsVars => Paths'
<1> SUFFICES ASSUME AppsInv, [AppsNext]_appsVars PROVE Paths' OBVIOUS
<1> USE RequestsAssumption DEF AppsInv, Paths, PagesOnly, Kinds, AppsTypeOK, Say, To, Show, rowVars, gameVars,
      requestVars, GameSame,
            Quiet
<1>1. ASSUME NEW h \in Requests, RequestBegins(h) PROVE Paths'
  <2>1. ASSUME NEW i \in Ids, BeginRecheck(h, i) PROVE Paths'
    BY <2>1 DEF BeginRecheck, Begin, Row, HistoryTypes
  <2>2. CASE ~\E i \in Ids : BeginRecheck(h, i)
    BY <1>1, <2>2 DEF RequestBegins, BeginApprove, BeginClaim, BeginPage, Begin
  <2> QED BY <2>1, <2>2
<1>2. ASSUME NEW h \in Requests,
           (\E confirmed \in BOOLEAN : Look(h, confirmed)) \/ ClaimDecline(h) \/ ClaimApprove(h) \/ ClaimRevoke(h)
              \/ NotClaimed(h) \/ Stop(h)
      PROVE  Paths'
  BY <1>2 DEF Look, ClaimDecline, Claim, MayReview, MayRevoke, ClaimApprove, ClaimRevoke, NotClaimed, Stop
<1>3. ASSUME NEW h \in Requests, Refused(h) \/ AsAsked(h) \/ Change(h) \/ AnswerLost(h) PROVE Paths'
  BY <1>3 DEF Refused, AsAsked, GameStep, Concluded, AfterFailure, Adds, Change, Sent, AnswerLost
<1>4. ASSUME NEW h \in Requests, Confirm(h) \/ Reread(h) PROVE Paths'
  BY <1>4 DEF Confirm, Confirmed, Concluded, Adds, Reread, RefusalStands
<1>5. ASSUME NEW h \in Requests,
           FinishApprove(h) \/ FinishRevoke(h) \/ Check(h) \/ SaveRecheck(h) \/ RecordExternal(h)
      PROVE  Paths'
  BY <1>5 DEF FinishApprove, Finish, FinishRevoke, Check, SaveRecheck, Unchanged, Row, RecordExternal
<1>6. ASSUME GameAlone PROVE Paths'
  BY <1>6 DEF GameAlone, LateChange, GameRestart
<1>7. CASE UNCHANGED appsVars BY <1>7 DEF appsVars
<1> QED
  BY <1>1, <1>2, <1>3, <1>4, <1>5, <1>6, <1>7
  DEF AppsNext, RequestBegins, GameAlone

\* A result is reached before it is written.
LEMMA ConcludesKept == AppsInv /\ [AppsNext]_appsVars => Concludes'
<1> SUFFICES ASSUME AppsInv, [AppsNext]_appsVars PROVE Concludes' OBVIOUS
<1> USE RequestsAssumption DEF AppsInv, Concludes, AppsTypeOK, Say, To, Show, rowVars, gameVars, requestVars,
      GameSame, Quiet
<1>1. ASSUME NEW h \in Requests, RequestBegins(h) PROVE Concludes'
  BY <1>1 DEF RequestBegins, BeginApprove, BeginRecheck, BeginClaim, BeginPage, Begin
<1>2. ASSUME NEW h \in Requests,
           (\E confirmed \in BOOLEAN : Look(h, confirmed)) \/ ClaimDecline(h) \/ ClaimApprove(h) \/ ClaimRevoke(h)
              \/ NotClaimed(h) \/ Stop(h)
      PROVE  Concludes'
  BY <1>2 DEF Look, ClaimDecline, Claim, MayReview, MayRevoke, ClaimApprove, ClaimRevoke, NotClaimed, Stop
<1>3. ASSUME NEW h \in Requests, Refused(h) \/ AsAsked(h) \/ Change(h) \/ AnswerLost(h) PROVE Concludes'
  BY <1>3 DEF Refused, AsAsked, GameStep, Concluded, AfterFailure, Adds, Change, Sent, AnswerLost
<1>4. ASSUME NEW h \in Requests, Confirm(h) \/ Reread(h)
              \/ Check(h) PROVE Concludes'
  BY <1>4 DEF Confirm, Confirmed, Concluded, Adds, Reread, RefusalStands, Check
<1>5. ASSUME NEW h \in Requests,
           FinishApprove(h) \/ FinishRevoke(h) \/ SaveRecheck(h) \/ RecordExternal(h)
      PROVE  Concludes'
  BY <1>5 DEF FinishApprove, Finish, FinishRevoke, SaveRecheck, Unchanged, Row, RecordExternal
<1>6. ASSUME GameAlone PROVE Concludes'
  BY <1>6 DEF GameAlone, LateChange, GameRestart
<1>7. CASE UNCHANGED appsVars BY <1>7 DEF appsVars
<1> QED
  BY <1>1, <1>2, <1>3, <1>4, <1>5, <1>6, <1>7
  DEF AppsNext, RequestBegins, GameAlone

\* What a request relies on, the whitelist showed while it ran.
LEMMA SeenKept == AppsInv /\ [AppsNext]_appsVars => Seen'
<1> SUFFICES ASSUME AppsInv, [AppsNext]_appsVars PROVE Seen' OBVIOUS
<1> USE RequestsAssumption DEF AppsInv, Seen, Running, View, Adds, AppsTypeOK, Paths, HistoryTypes, Say, To, Show,
      rowVars, gameVars,
            requestVars, GameSame, Quiet
<1>1. ASSUME NEW h \in Requests, RequestBegins(h) PROVE Seen'
  BY <1>1 DEF RequestBegins, BeginApprove, BeginRecheck, BeginClaim, BeginPage, Begin
<1>2. ASSUME NEW h \in Requests, (\E confirmed \in BOOLEAN : Look(h, confirmed)) PROVE Seen'
  BY <1>2 DEF Look, Readings
<1>3. ASSUME NEW h \in Requests, ClaimDecline(h) \/ ClaimRevoke(h)
              \/ NotClaimed(h) \/ Stop(h) PROVE Seen'
  BY <1>3 DEF ClaimDecline, Claim, MayReview, MayRevoke, ClaimRevoke, NotClaimed, Stop
<1>4. ASSUME NEW h \in Requests, ClaimApprove(h) PROVE Seen'
  BY <1>4 DEF ClaimApprove, Claim, MayReview, MayRevoke
<1>5. ASSUME NEW h \in Requests, Refused(h) \/ AsAsked(h) PROVE Seen'
  BY <1>5 DEF Refused, AsAsked, GameStep, Concluded, AfterFailure
<1>6. ASSUME NEW h \in Requests, Change(h) PROVE Seen'
  BY <1>6 DEF Change, GameStep, Sent
<1>7. ASSUME NEW h \in Requests, AnswerLost(h) PROVE Seen'
  BY <1>7 DEF AnswerLost, GameStep, Sent, Concluded
<1>8. ASSUME NEW h \in Requests, Confirm(h) PROVE Seen'
  BY <1>8 DEF Confirm, Confirmed, Concluded
<1>9. ASSUME NEW h \in Requests, Reread(h) PROVE Seen'
  BY <1>9 DEF Reread, RefusalStands
<1>10. ASSUME NEW h \in Requests, FinishApprove(h) \/ FinishRevoke(h) PROVE Seen'
  BY <1>10 DEF FinishApprove, Finish, FinishRevoke
<1>11. ASSUME NEW h \in Requests, Check(h) PROVE Seen'
  <2>1. live \in BOOLEAN /\ inspected[h].intent \in {"grant", "revoke"} BY DEF Rows
  <2> QED BY <1>11, <2>1 DEF Check
<1>12. ASSUME NEW h \in Requests, SaveRecheck(h) \/ RecordExternal(h) PROVE Seen'
  BY <1>12 DEF SaveRecheck, Unchanged, Row, RecordExternal
<1>13. ASSUME GameAlone PROVE Seen'
  BY <1>13 DEF GameAlone, LateChange, GameRestart
<1>14. CASE UNCHANGED appsVars BY <1>14 DEF appsVars
<1> QED
  BY <1>1, <1>2, <1>3, <1>4, <1>5, <1>6, <1>7, <1>8, <1>9, <1>10, <1>11, <1>12, <1>13, <1>14
  DEF AppsNext, RequestBegins, GameAlone

\* The pending application is claimed once, and only that claim sends a grant.
LEMMA ClaimsKept == AppsInv /\ [AppsNext]_appsVars => Claims'
<1> SUFFICES ASSUME AppsInv, [AppsNext]_appsVars PROVE Claims' OBVIOUS
<1> USE RequestsAssumption DEF AppsInv, Claims, Claimed, OwnSent, GrantsSent, Granting, Reviews, PagesOnly, Kinds,
      AppsTypeOK, Paths,
            Concludes, Say, To, Show, rowVars, gameVars, requestVars, GameSame, Quiet
<1>1. ASSUME NEW h \in Requests, RequestBegins(h) PROVE Claims'
  BY <1>1 DEF RequestBegins, BeginApprove, BeginRecheck, BeginClaim, BeginPage, Begin
<1>2. ASSUME NEW h \in Requests, (\E confirmed \in BOOLEAN : Look(h, confirmed)) \/ Check(h) PROVE Claims'
  BY <1>2 DEF Look, Check
<1>3. ASSUME NEW h \in Requests, ClaimDecline(h) PROVE Claims'
  BY <1>3 DEF ClaimDecline, Claim, Claimable, MayReview, MayRevoke
<1>4. ASSUME NEW h \in Requests, ClaimApprove(h) PROVE Claims'
  BY <1>4 DEF ClaimApprove, Claim, Claimable, MayReview, MayRevoke
<1>5. ASSUME NEW h \in Requests, ClaimRevoke(h) PROVE Claims'
  BY <1>5 DEF ClaimRevoke, Claim, Claimable, MayReview, MayRevoke
<1>6. ASSUME NEW h \in Requests, NotClaimed(h) \/ Stop(h) PROVE Claims'
  BY <1>6 DEF NotClaimed, Stop
<1>7. ASSUME NEW h \in Requests, Refused(h) \/ AsAsked(h) PROVE Claims'
  BY <1>7 DEF Refused, AsAsked, GameStep, Concluded, AfterFailure, Adds
<1>8. ASSUME NEW h \in Requests, Change(h) PROVE Claims'
  BY <1>8 DEF Change, GameStep, Sent, Adds
<1>9. ASSUME NEW h \in Requests, AnswerLost(h) PROVE Claims'
  BY <1>9 DEF AnswerLost, GameStep, Sent, Adds, Concluded
<1>10. ASSUME NEW h \in Requests, Confirm(h) \/ Reread(h) PROVE Claims'
  BY <1>10 DEF Confirm, Confirmed, Concluded, Adds, Reread, RefusalStands
<1>11. ASSUME NEW h \in Requests, FinishApprove(h) PROVE Claims'
  BY <1>11 DEF FinishApprove, Finish, Owns
<1>12. ASSUME NEW h \in Requests, FinishRevoke(h) PROVE Claims'
  BY <1>12 DEF FinishRevoke, Finish, Owns, Removal
<1>13. ASSUME NEW h \in Requests, SaveRecheck(h) PROVE Claims'
  BY <1>13 DEF SaveRecheck
<1>14. ASSUME NEW h \in Requests, RecordExternal(h) PROVE Claims'
  BY <1>14 DEF RecordExternal
<1>15. ASSUME GameAlone PROVE Claims'
  BY <1>15 DEF GameAlone, LateChange, GameRestart
<1>16. CASE UNCHANGED appsVars BY <1>16 DEF appsVars
<1> QED
  BY <1>1, <1>2, <1>3, <1>4, <1>5, <1>6, <1>7, <1>8, <1>9, <1>10, <1>11, <1>12, <1>13, <1>14, <1>15, <1>16
  DEF AppsNext, RequestBegins, GameAlone

\* A revocation under way is recorded with the intent to revoke.
LEMMA RecoverableKept == AppsInv /\ [AppsNext]_appsVars => Recoverable'
<1> SUFFICES ASSUME AppsInv, [AppsNext]_appsVars PROVE Recoverable' OBVIOUS
<1> USE RequestsAssumption DEF AppsInv, Recoverable, Recheckable, AppsTypeOK, HistoryTypes, Show, rowVars,
      gameVars, requestVars, GameSame, Quiet
<1>1. ASSUME NEW h \in Requests,
           RequestBegins(h) \/ (\E confirmed \in BOOLEAN : Look(h, confirmed))
      PROVE  Recoverable'
  BY <1>1 DEF RequestBegins, BeginApprove, BeginRecheck, BeginClaim, BeginPage, Begin, Look
<1>2. ASSUME NEW h \in Requests, ClaimDecline(h) \/ ClaimApprove(h) \/ ClaimRevoke(h) PROVE Recoverable'
  BY <1>2 DEF ClaimDecline, Claim, MayReview, MayRevoke, ClaimApprove, ClaimRevoke
<1>3. ASSUME NEW h \in Requests,
           NotClaimed(h) \/ Stop(h) \/ Refused(h) \/ AsAsked(h) \/ Change(h) \/ AnswerLost(h) \/ Confirm(h) \/ Reread(h)
              \/ Check(h)
      PROVE  Recoverable'
  BY <1>3 DEF NotClaimed, Stop, Refused, AsAsked, GameStep, Concluded, AfterFailure, Adds, Change, Sent, AnswerLost,
      Confirm, Confirmed, Reread, RefusalStands, Check
<1>4. ASSUME NEW h \in Requests, FinishApprove(h) \/ FinishRevoke(h) PROVE Recoverable'
  BY <1>4 DEF FinishApprove, Finish, Owns, FinishRevoke, Removal
<1>5. ASSUME NEW h \in Requests, SaveRecheck(h) \/ RecordExternal(h) PROVE Recoverable'
  BY <1>5 DEF SaveRecheck, Unchanged, Row, RecordExternal
<1>6. ASSUME GameAlone PROVE Recoverable'
  BY <1>6 DEF GameAlone, LateChange, GameRestart
<1>7. CASE UNCHANGED appsVars BY <1>7 DEF appsVars
<1> QED
  BY <1>1, <1>2, <1>3, <1>4, <1>5, <1>6, <1>7
  DEF AppsNext, RequestBegins, GameAlone

\* A decision is written with what its request has seen.
LEMMA DecidedKept == AppsInv /\ [AppsNext]_appsVars => DecidedFromView'
<1> SUFFICES ASSUME AppsInv, [AppsNext]_appsVars PROVE DecidedFromView' OBVIOUS
<1> USE RequestsAssumption DEF AppsInv, DecidedFromView, AppsTypeOK, HistoryTypes, Seen, Show, Paths, rowVars,
      gameVars, requestVars, GameSame, Quiet
<1>1. ASSUME NEW h \in Requests,
           RequestBegins(h) \/ (\E confirmed \in BOOLEAN : Look(h, confirmed))
      PROVE  DecidedFromView'
  BY <1>1 DEF RequestBegins, BeginApprove, BeginRecheck, BeginClaim, BeginPage, Begin, Look
<1>2. ASSUME NEW h \in Requests, ClaimDecline(h) \/ ClaimApprove(h) \/ ClaimRevoke(h) PROVE DecidedFromView'
  BY <1>2 DEF ClaimDecline, Claim, MayReview, MayRevoke, ClaimApprove, ClaimRevoke
<1>3. ASSUME NEW h \in Requests,
           NotClaimed(h) \/ Stop(h) \/ Refused(h) \/ AsAsked(h) \/ Change(h) \/ AnswerLost(h) \/ Confirm(h) \/ Reread(h)
              \/ Check(h)
      PROVE  DecidedFromView'
  BY <1>3 DEF NotClaimed, Stop, Refused, AsAsked, GameStep, Concluded, AfterFailure, Adds, Change, Sent, AnswerLost,
      Confirm, Confirmed, Reread, RefusalStands, Check
<1>4. ASSUME NEW h \in Requests, FinishApprove(h) PROVE DecidedFromView'
  BY <1>4 DEF FinishApprove, Finish, Owns
<1>5. ASSUME NEW h \in Requests, FinishRevoke(h) PROVE DecidedFromView'
  BY <1>5 DEF FinishRevoke, Finish, Owns, Removal
<1>6. ASSUME NEW h \in Requests, SaveRecheck(h) PROVE DecidedFromView'
  BY <1>6 DEF SaveRecheck, Unchanged, Row
<1>7. ASSUME NEW h \in Requests, RecordExternal(h) PROVE DecidedFromView'
  BY <1>7 DEF RecordExternal
<1>8. ASSUME GameAlone PROVE DecidedFromView'
  BY <1>8 DEF GameAlone, LateChange, GameRestart
<1>9. CASE UNCHANGED appsVars BY <1>9 DEF appsVars
<1> QED
  BY <1>1, <1>2, <1>3, <1>4, <1>5, <1>6, <1>7, <1>8, <1>9
  DEF AppsNext, RequestBegins, GameAlone

-------------------------------------------------------------------------------
(* The theorems.                                                            *)

LEMMA AppsInvariant == AppsSpec => []AppsInv
<1>1. AppsInv /\ [AppsNext]_appsVars => AppsInv'
  BY TypesKept, HistoriesKept, PathsKept, ConcludesKept, SeenKept, ClaimsKept, RecoverableKept, DecidedKept
  DEF AppsInv
<1> QED BY AppsInitially, <1>1, PTL DEF AppsSpec

\* The row, the receipts and the requests keep their types (applications.store.ts).
THEOREM AppsTypeCorrect == AppsSpec => []AppsTypeOK
BY AppsInvariant, PTL DEF AppsInv

\* An approval rests on the entry having been live, a revocation on its having been absent or unsaved, while the
\* request that decided it ran (finishApproval, finishRevoke, recheck, recordExternalRevoke).
THEOREM DecisionsSeen == AppsSpec => []DecidedFromView
BY AppsInvariant, PTL DEF AppsInv

\* An undecided application can be rechecked, whatever stopped halfway (recheck in applications.store.ts).
THEOREM UndecidedRecoverable == AppsSpec => []Recoverable
BY AppsInvariant, PTL DEF AppsInv

\* The grants sent for an application are all one.
LEMMA OneElement == ASSUME NEW S, \A s, t \in S : s = t PROVE Cardinality(S) <= 1
<1>1. CASE S = {} BY <1>1, FS_EmptySet
<1>2. ASSUME NEW s \in S PROVE Cardinality(S) <= 1
  <2>1. S = {s} BY <1>2
  <2>2. Cardinality({s}) = 1 BY FS_Singleton, Zenon
  <2> QED BY <2>1, <2>2
<1> QED BY <1>1, <1>2

\* At most one grant is ever sent for an application, none while it is pending or declined, and every change
\* sent for it has a review on record (claim and act in applications.service.ts).
THEOREM GrantSentOnce == AppsSpec => []OneGrant
<1>1. AppsInv => OneGrant
  <2> SUFFICES ASSUME AppsInv PROVE OneGrant OBVIOUS
  <2>1. Cardinality(GrantsSent) <= 1 BY OneElement DEF AppsInv, Claims
  <2> QED BY <2>1 DEF AppsInv, Claims, OneGrant, OwnSent, GrantsSent
<1> QED BY AppsInvariant, <1>1, PTL

\* A declined or revoked application stays so: no late result, recheck or removal by another request brings
\* it back (claim, finishApproval, finishRevoke and saveRecheck compare the row first).
THEOREM FinalForGood == AppsSpec => FinalStays
<1>1. AppsInv /\ [AppsNext]_appsVars => [Final => UNCHANGED status]_appsVars
  <2> SUFFICES ASSUME AppsInv, AppsNext, Final PROVE UNCHANGED status OBVIOUS
  <2> USE DEF AppsInv, Paths, Final, Recheckable, rowVars, gameVars, requestVars
  <2>1. ASSUME NEW h \in Requests, RequestBegins(h) \/ NotClaimed(h) \/ Stop(h) PROVE UNCHANGED status
    BY <2>1 DEF RequestBegins, BeginApprove, BeginRecheck, BeginClaim, BeginPage, Begin, NotClaimed, Stop
  <2>2. ASSUME NEW h \in Requests, NEW confirmed \in BOOLEAN, Look(h, confirmed) PROVE UNCHANGED status
    BY <2>2 DEF Look
  <2>3. ASSUME NEW h \in Requests, ClaimDecline(h) \/ ClaimApprove(h) \/ ClaimRevoke(h) PROVE UNCHANGED status
    BY <2>3 DEF ClaimDecline, ClaimApprove, ClaimRevoke, Claim, Claimable, MayReview, MayRevoke
  <2>4. ASSUME NEW h \in Requests, Refused(h) \/ AsAsked(h) \/ Change(h) \/ AnswerLost(h) PROVE UNCHANGED status
    BY <2>4 DEF Refused, AsAsked, Change, AnswerLost, GameStep
  <2>5. ASSUME NEW h \in Requests, Confirm(h) \/ Reread(h)
              \/ Check(h) PROVE UNCHANGED status
    BY <2>5 DEF Confirm, Reread, Check
  <2>6. ASSUME NEW h \in Requests, FinishApprove(h) \/ FinishRevoke(h) PROVE UNCHANGED status
    BY <2>6 DEF FinishApprove, FinishRevoke, Owns
  <2>7. ASSUME NEW h \in Requests, SaveRecheck(h) PROVE UNCHANGED status
    BY <2>7 DEF SaveRecheck, Unchanged, Row
  <2>8. ASSUME NEW h \in Requests, RecordExternal(h) PROVE UNCHANGED status
    BY <2>8 DEF RecordExternal
  <2>9. ASSUME GameAlone PROVE UNCHANGED status BY <2>9 DEF GameAlone, LateChange, GameRestart
  <2> QED BY <2>1, <2>2, <2>3, <2>4, <2>5, <2>6, <2>7, <2>8, <2>9 DEF AppsNext, RequestBegins, GameAlone
<1> QED BY AppsInvariant, <1>1, PTL DEF AppsSpec, FinalStays

-----------------------------------------------------------------------------
(* The next map *)

\* Everything a ballot, a dashboard or a rotation may name, and the shapes of what is planned, queued and polled.
Selections == Picks \cup (UNION {Range(rows) : rows \in Rotations}) \cup (UNION {Range(c.pool) : c \in Policies})
SelectedMaps == {e.map : e \in Selections}
PlannedRows ==
  [entries : Seq(Selections), slot : Nat, where : Nat, placement : {"already-next", "move", "swap", "append", "insert"}]
Queued ==
  [stage : {"asked", "planned"}, entry : Selections, revision : Nat, at : Nat, map : SelectedMaps, slot : Nat,
   match : Nat, plan : {NoPlan} \cup PlannedRows, fromRotation : BOOLEAN]
Options == [entry : Selections, event : BOOLEAN]
Polls ==
  [open : {TRUE}, options : Seq(Options), seen : Seq(Selections), at : Nat \ {0}, slot : Nat, match : Nat,
   controls : Policies]

NextShape ==
  /\ rotation \in Seq(Selections) /\ Len(rotation) > 0 /\ running \in 0 .. Len(rotation)
  /\ edits \in 0 .. MaxEdits /\ matches \in 1 .. MaxRounds /\ wraps \in BOOLEAN
  /\ playing \in SelectedMaps /\ past \in Seq(SelectedMaps)
  /\ request \in {NoRequest} \cup Queued /\ poll \in {NoPoll} \cup Polls

\* What was promised is the row that the game plays next.
PromiseStands ==
  promised # {} =>
    /\ running # Nowhere /\ (running < Len(rotation) \/ wraps)
    /\ rotation[IF running >= Len(rotation) THEN 1 ELSE running + 1] \in promised

\* A copy of the entry at another row than the running one.
Elsewhere(rows, row, pick) == \E j \in 1 .. Len(rows) : j # row /\ rows[j] = pick
\* As long as its revision stands, a request is about the rotation that is saved, and its plan was made on it.
Stands(q) ==
  /\ q.at \in 1 .. Len(rotation)
  /\ q.fromRotation => q.slot \in 1 .. Len(rotation) /\ Elsewhere(rotation, q.at, q.entry)
  /\ q.stage = "planned" => \E wrap \in BOOLEAN : q.plan = PlanMapNext(rotation, q.at, wrap, q.entry)
RequestKnown ==
  request \in Queued =>
    /\ request.revision <= edits /\ request.match <= matches
    /\ edits = request.revision => Stands(request)
    /\ request.stage = "planned" =>
         /\ request.match = matches => running = request.at
         /\ request.slot \in {Nowhere, request.plan.slot}

\* The normal options of a ballot over the rotation are rows of it, and the running one only if it is next.
PollKnown ==
  poll.open =>
    /\ OptionsFit
    /\ poll.controls.pool = <<>> =>
         \A k \in DOMAIN poll.options : ~poll.options[k].event =>
           \E j \in 1 .. Len(poll.seen) :
             poll.seen[j] = poll.options[k].entry /\ (j # poll.at \/ j = poll.slot)

NextInv == NextShape /\ PromiseStands /\ RequestKnown /\ PollKnown /\ ~missed /\ ~shifted /\ ~grown

\* Some numbers have a least one.
LEMMA LeastOf ==
  ASSUME NEW T, T \subseteq Nat, T # {}
  PROVE  \E n \in T : \A k \in T : n <= k
<1> DEFINE R == OpToRel(<, Nat)
<1>1. IsWellFoundedOn(R, Nat)
  BY NatLessThanWellFounded
<1>2. \E n \in T : \A k \in T : ~ (<<k, n>> \in R)
  <2> HIDE DEF R
  <2> QED BY <1>1, WFMin, Zenon
<1>3. \A k, n \in T : <<k, n>> \notin R => n <= k
  <2> SUFFICES ASSUME NEW k \in T, NEW n \in T, <<k, n>> \notin R PROVE n <= k
    OBVIOUS
  <2>1. k \in Nat /\ n \in Nat
    OBVIOUS
  <2>2. k < n => <<k, n>> \in R
    BY <2>1 DEF OpToRel
  <2> HIDE DEF R
  <2> QED BY <2>1, <2>2
<1> HIDE DEF R
<1> QED BY <1>2, <1>3

\* Among k or more finitely many numbers there is a k-th smallest.
LEMMA NthIs ==
  ASSUME NEW S \in SUBSET Nat, IsFiniteSet(S), NEW k \in 1 .. Cardinality(S)
  PROVE  Nth(S, k) \in S /\ Cardinality({j \in S : j < Nth(S, k)}) = k - 1
<1> DEFINE Below(i) == {j \in S : j < i}
           Bad == {m \in 1 .. Cardinality(S) : \A i \in S : Cardinality(Below(i)) # m - 1}
<1>1. Cardinality(S) \in Nat
  BY FS_CardinalityType
<1>2. \A i \in S : IsFiniteSet(Below(i))
  <2> TAKE i \in S
  <2>1. Below(i) \in SUBSET S
    OBVIOUS
  <2> QED BY <2>1, FS_Subset
<1>3. ASSUME NEW m \in Bad, \A l \in Bad : m <= l PROVE FALSE
  <2>1. m \in 1 .. Cardinality(S) /\ \A i \in S : Cardinality(Below(i)) # m - 1
    BY <1>3
  <2>2. CASE m = 1
    <3>1. S # {}
      BY <2>1, <2>2, <1>1, FS_EmptySet
    <3>a. S \subseteq Nat
      OBVIOUS
    <3>2. PICK i \in S : \A j \in S : i <= j
      BY <3>1, <3>a, LeastOf, Zenon
    <3>3. Below(i) = {}
      <4>1. \A j \in S : ~(j < i)
        BY <3>2, <3>a
      <4> QED BY <4>1
    <3>4. Cardinality(Below(i)) = 0
      BY <3>3, FS_EmptySet
    <3> QED BY <3>4, <2>1, <2>2
  <2>3. CASE m # 1
    <3>1. m - 1 \in 1 .. Cardinality(S) /\ ~(m <= m - 1)
      BY <2>1, <2>3, <1>1
    <3>2. m - 1 \notin Bad
      BY <3>1, <1>3
    <3>3. PICK i \in S : Cardinality(Below(i)) = (m - 1) - 1
      <4> HIDE DEF Below
      <4> QED BY <3>1, <3>2
    <3> DEFINE Upto == Below(i) \cup {i}
    <3>4. i \notin Below(i)
      OBVIOUS
    <3>5. IsFiniteSet(Below(i))
      BY <1>2
    <3>6. IsFiniteSet(Upto) /\ Cardinality(Upto) = m - 1
      <4>1. IsFiniteSet(Upto) /\ Cardinality(Upto) = Cardinality(Below(i)) + 1
        BY <3>4, <3>5, FS_AddElement
      <4>2. m \in Int
        BY <2>1, <1>1
      <4> HIDE DEF Upto, Below
      <4>3. Cardinality(Upto) = ((m - 1) - 1) + 1
        BY <4>1, <3>3
      <4> QED BY <4>1, <4>2, <4>3
    <3>7. S \ Upto # {}
      <4>1. SUFFICES ASSUME S \ Upto = {} PROVE FALSE
        OBVIOUS
      <4>2. S = Upto
        BY <4>1
      <4> HIDE DEF Upto
      <4> QED BY <4>2, <3>6, <2>1, <1>1
    <3>8. PICK t \in S \ Upto : \A j \in S \ Upto : t <= j
      <4>1. S \ Upto \subseteq Nat
        OBVIOUS
      <4> HIDE DEF Upto
      <4> QED BY <3>7, <4>1, LeastOf
    <3>9. Below(t) = Upto
      <4>1. \A j \in S : j \in Upto <=> j < i \/ j = i
        OBVIOUS
      <4>2. i \in Nat /\ t \in Nat /\ ~(t < i) /\ t # i
        BY <3>8, <4>1
      <4>3. \A j \in S : j < t => j \in Upto
        BY <3>8
      <4>4. \A j \in S : j \in Upto => j < t
        BY <4>1, <4>2
      <4>5. Upto \subseteq S
        OBVIOUS
      <4> QED BY <4>3, <4>4, <4>5
    <3>10. Cardinality(Below(t)) = m - 1
      BY <3>9, <3>6
    <3> QED BY <3>10, <2>1, <3>8
  <2> QED BY <2>2, <2>3
<1>4. Bad = {}
  <2>1. Bad \subseteq Nat
    BY <1>1
  <2> HIDE DEF Bad
  <2> QED BY <2>1, <1>3, LeastOf
<1>5. \E i \in S : Cardinality(Below(i)) = k - 1
  BY <1>4
<1> QED BY <1>5 DEF Nth

\* The members of a list at some places are as many, at different places.
LEMMA TakenIs ==
  ASSUME NEW E, NEW list \in Seq(E), NEW S \in SUBSET (1 .. Len(list))
  PROVE  /\ Cardinality(S) \in Nat /\ Taken(list, S) \in Seq(E) /\ Len(Taken(list, S)) = Cardinality(S)
         /\ \A k \in 1 .. Cardinality(S) : Nth(S, k) \in S /\ Taken(list, S)[k] = list[Nth(S, k)]
         /\ \A j, k \in 1 .. Cardinality(S) : j # k => Nth(S, j) # Nth(S, k)
<1>1. IsFiniteSet(S) /\ Cardinality(S) \in Nat /\ S \in SUBSET Nat
  <2>1. IsFiniteSet(1 .. Len(list)) /\ Len(list) \in Nat
    BY FS_Interval
  <2>2. IsFiniteSet(S)
    BY <2>1, FS_Subset
  <2>3. S \in SUBSET Nat
    BY <2>1
  <2> QED BY <2>2, <2>3, FS_CardinalityType
<1>2. \A k \in 1 .. Cardinality(S) : Nth(S, k) \in S /\ Cardinality({j \in S : j < Nth(S, k)}) = k - 1
  BY <1>1, NthIs
<1>3. \A k \in 1 .. Cardinality(S) : list[Nth(S, k)] \in E
  <2> TAKE k \in 1 .. Cardinality(S)
  <2>1. Nth(S, k) \in 1 .. Len(list)
    BY <1>2
  <2> HIDE DEF Nth
  <2> QED BY <2>1, ElementOfSeq
<1>4. \A j, k \in 1 .. Cardinality(S) : j # k => Nth(S, j) # Nth(S, k)
  <2> SUFFICES ASSUME NEW j \in 1 .. Cardinality(S), NEW k \in 1 .. Cardinality(S), Nth(S, j) = Nth(S, k)
               PROVE  j = k
    OBVIOUS
  <2>1. j - 1 = k - 1
    BY <1>2
  <2> QED BY <2>1, <1>1
<1>5. Taken(list, S) \in [1 .. Cardinality(S) -> E]
  BY <1>3 DEF Taken
<1>6. \A k \in 1 .. Cardinality(S) : Taken(list, S)[k] = list[Nth(S, k)]
  BY DEF Taken
<1>7. Taken(list, S) \in Seq(E) /\ Len(Taken(list, S)) = Cardinality(S)
  BY <1>1, <1>5
<1> QED BY <1>1, <1>2, <1>4, <1>6, <1>7

-----------------------------------------------------------------------------
(* Placing a choice *)

\* The first of some rows.
LEMMA FirstIs ==
  ASSUME NEW S, S \subseteq Nat, S # {}
  PROVE  First(S) \in S
BY LeastOf DEF First

\* A row more after row i.
LEMMA InsertedIs ==
  ASSUME NEW E, NEW rows \in Seq(E), NEW i \in 0 .. Len(rows), NEW pick \in E
  PROVE  /\ InsertAt(rows, i + 1, pick) \in Seq(E) /\ Len(InsertAt(rows, i + 1, pick)) = Len(rows) + 1
         /\ InsertAt(rows, i + 1, pick)[i + 1] = pick
         /\ \A k \in 1 .. i : InsertAt(rows, i + 1, pick)[k] = rows[k]
<1> DEFINE front == SubSeq(rows, 1, i)
           back == SubSeq(rows, i + 1, Len(rows))
<1>0. Len(rows) \in Nat /\ i \in Nat /\ i <= Len(rows)
  OBVIOUS
<1>1. front \in Seq(E) /\ Len(front) = i /\ \A k \in 1 .. i : front[k] = rows[k]
  <2>1. \A k \in 1 .. i : rows[k] \in E
    OBVIOUS
  <2>2. /\ front \in Seq(E) /\ Len(front) = IF 1 <= i THEN i - 1 + 1 ELSE 0
        /\ \A k \in 1 .. i - 1 + 1 : front[k] = rows[1 + k - 1]
    BY <1>0, <2>1, SubSeqProperties
  <2> HIDE DEF front
  <2>3. i - 1 + 1 = i /\ \A k \in 1 .. i : 1 + k - 1 = k
    BY <1>0
  <2> QED BY <1>0, <2>2, <2>3
<1>2. back \in Seq(E) /\ Len(back) = Len(rows) - i
  <2>1. \A k \in i + 1 .. Len(rows) : rows[k] \in E
    OBVIOUS
  <2>2. back \in Seq(E) /\ Len(back) = IF i + 1 <= Len(rows) THEN Len(rows) - (i + 1) + 1 ELSE 0
    BY <1>0, <2>1, SubSeqProperties
  <2> HIDE DEF back
  <2> QED BY <1>0, <2>2
<1>3. InsertAt(rows, i + 1, pick) = (front \o <<pick>>) \o back
  <2> PICK j : j = i + 1
    OBVIOUS
  <2>1. InsertAt(rows, j, pick) = (SubSeq(rows, 1, j - 1) \o <<pick>>) \o SubSeq(rows, j, Len(rows))
    BY DEF InsertAt
  <2>2. j - 1 = i
    BY <1>0
  <2> QED BY <2>1, <2>2
<1> HIDE DEF front, back
<1>a. PICK one : one = <<pick>>
  OBVIOUS
<1>4. one \in Seq(E) /\ Len(one) = 1 /\ one[1] = pick
  BY <1>a
<1> DEFINE head == front \o one
<1>5. /\ head \in Seq(E) /\ Len(head) = i + 1
      /\ \A k \in 1 .. i + 1 : head[k] = IF k <= i THEN front[k] ELSE one[k - i]
  <2>1. /\ front \o one \in Seq(E) /\ Len(front \o one) = Len(front) + Len(one)
        /\ \A k \in 1 .. Len(front) + Len(one) :
             (front \o one)[k] = IF k <= Len(front) THEN front[k] ELSE one[k - Len(front)]
    BY <1>1, <1>4, ConcatProperties
  <2> HIDE DEF head
  <2> QED BY <2>1, <1>1, <1>4 DEF head
<1> HIDE DEF head
<1>6. head \in Seq(E) /\ Len(head) = i + 1 /\ head[i + 1] = pick /\ \A k \in 1 .. i : head[k] = rows[k]
  <2>1. i + 1 - i = 1 /\ ~(i + 1 <= i) /\ i + 1 \in 1 .. i + 1 /\ \A k \in 1 .. i : k \in 1 .. i + 1 /\ k <= i
    BY <1>0
  <2> QED BY <2>1, <1>5, <1>4, <1>1
<1> DEFINE whole == head \o back
<1>7. /\ whole \in Seq(E) /\ Len(whole) = (i + 1) + (Len(rows) - i)
      /\ \A k \in 1 .. (i + 1) + (Len(rows) - i) :
           whole[k] = IF k <= i + 1 THEN head[k] ELSE back[k - (i + 1)]
  <2>1. /\ head \o back \in Seq(E) /\ Len(head \o back) = Len(head) + Len(back)
        /\ \A k \in 1 .. Len(head) + Len(back) :
             (head \o back)[k] = IF k <= Len(head) THEN head[k] ELSE back[k - Len(head)]
    BY <1>6, <1>2, ConcatProperties
  <2> HIDE DEF whole
  <2> QED BY <2>1, <1>6, <1>2 DEF whole
<1> HIDE DEF whole
<1>8. (i + 1) + (Len(rows) - i) = Len(rows) + 1 /\ i + 1 \in 1 .. Len(rows) + 1 /\ \A k \in 1 .. i : k \in 1 .. Len(rows) + 1 /\ k <= i + 1
  BY <1>0
<1>9. InsertAt(rows, i + 1, pick) = whole
  BY <1>3, <1>a, Zenon DEF head, whole
<1>10. whole[i + 1] = pick
  BY <1>7, <1>8, <1>6, <1>0
<1>11. \A k \in 1 .. i : whole[k] = rows[k]
  BY <1>7, <1>8, <1>6
<1> QED BY <1>7, <1>8, <1>9, <1>10, <1>11

\* A row less.
LEMMA RemovedIs ==
  ASSUME NEW E, NEW rows \in Seq(E), NEW i \in 1 .. Len(rows)
  PROVE  /\ RemoveAt(rows, i) \in Seq(E) /\ Len(RemoveAt(rows, i)) = Len(rows) - 1
         /\ \A k \in 1 .. i - 1 : RemoveAt(rows, i)[k] = rows[k]
<1> DEFINE front == SubSeq(rows, 1, i - 1)
           back == SubSeq(rows, i + 1, Len(rows))
<1>0. Len(rows) \in Nat /\ i \in Nat /\ 1 <= i /\ i <= Len(rows)
  OBVIOUS
<1>1. front \in Seq(E) /\ Len(front) = i - 1 /\ \A k \in 1 .. i - 1 : front[k] = rows[k]
  <2>1. \A k \in 1 .. i - 1 : rows[k] \in E
    OBVIOUS
  <2>2. /\ front \in Seq(E) /\ Len(front) = IF 1 <= i - 1 THEN i - 1 - 1 + 1 ELSE 0
        /\ \A k \in 1 .. i - 1 - 1 + 1 : front[k] = rows[1 + k - 1]
    BY <1>0, <2>1, SubSeqProperties
  <2> HIDE DEF front
  <2>3. i - 1 - 1 + 1 = i - 1 /\ \A k \in 1 .. i - 1 : 1 + k - 1 = k
    BY <1>0
  <2> QED BY <1>0, <2>2, <2>3
<1>2. back \in Seq(E) /\ Len(back) = Len(rows) - i
  <2>1. \A k \in i + 1 .. Len(rows) : rows[k] \in E
    BY <1>0
  <2>2. back \in Seq(E) /\ Len(back) = IF i + 1 <= Len(rows) THEN Len(rows) - (i + 1) + 1 ELSE 0
    BY <1>0, <2>1, SubSeqProperties
  <2> HIDE DEF back
  <2> QED BY <1>0, <2>2
<1>3. RemoveAt(rows, i) = front \o back
  BY DEF RemoveAt
<1> HIDE DEF front, back
<1> DEFINE whole == front \o back
<1>4. /\ whole \in Seq(E) /\ Len(whole) = (i - 1) + (Len(rows) - i)
      /\ \A k \in 1 .. (i - 1) + (Len(rows) - i) :
           whole[k] = IF k <= i - 1 THEN front[k] ELSE back[k - (i - 1)]
  <2>1. /\ front \o back \in Seq(E) /\ Len(front \o back) = Len(front) + Len(back)
        /\ \A k \in 1 .. Len(front) + Len(back) :
             (front \o back)[k] = IF k <= Len(front) THEN front[k] ELSE back[k - Len(front)]
    BY <1>1, <1>2, ConcatProperties
  <2> HIDE DEF whole
  <2> QED BY <2>1, <1>1, <1>2 DEF whole
<1>9. RemoveAt(rows, i) = whole
  BY <1>3
<1> HIDE DEF whole
<1>5. (i - 1) + (Len(rows) - i) = Len(rows) - 1 /\ \A k \in 1 .. i - 1 : k \in 1 .. Len(rows) - 1 /\ k <= i - 1
  BY <1>0
<1> QED BY <1>1, <1>9, <1>4, <1>5

\* What a choice does to the rotation: the running row stays, the choice is what comes next, and the rotation
\* grows only where no other copy of it can be used.
PlanGood(rows, row, wrap, pick, plan) ==
  /\ plan \in PlannedRows /\ plan.slot = NextSlot(rows, row, wrap)
  /\ plan.placement = "already-next" <=> plan.slot <= Len(rows) /\ rows[plan.slot] = pick
  /\ plan.placement = "append" => row >= Len(rows) /\ ~(plan.slot <= Len(rows) /\ rows[plan.slot] = pick)
  /\ plan.slot > Len(rows) => plan.placement = "append"
  /\ plan.entries[row] = rows[row]
  /\ Len(plan.entries) >= Len(rows)
  /\ IF row < Len(plan.entries) THEN plan.entries[row + 1] = pick ELSE plan.slot = 1 /\ plan.entries[1] = pick
  /\ plan.slot <= Len(rows) /\ Elsewhere(rows, row, pick) => Len(plan.entries) = Len(rows)

\* Every plan is good.
LEMMA PlanIs ==
  ASSUME NEW rows \in Seq(Selections), NEW row \in 1 .. Len(rows), NEW wrap \in BOOLEAN, NEW pick \in Selections
  PROVE  PlanGood(rows, row, wrap, pick, PlanMapNext(rows, row, wrap, pick))
<1> DEFINE slot == NextSlot(rows, row, wrap)
           later == LaterCopies(rows, row, pick)
           earlier == Matching(rows, 1, row - 1, pick)
           n == Len(rows)
           Plan(entries, where, placement) ==
             [entries |-> entries, slot |-> slot, where |-> where, placement |-> placement]
           moved == InsertAt(RemoveAt(rows, First(later)), row + 1, pick)
           swapped == [rows EXCEPT ![First(earlier)] = rows[slot], ![slot] = pick]
           added == InsertAt(rows, row + 1, pick)
           next == slot <= n /\ rows[slot] = pick
<1>p. PICK plan : plan = PlanMapNext(rows, row, wrap, pick)
  OBVIOUS
<1>s. SUFFICES PlanGood(rows, row, wrap, pick, plan)
  BY <1>p
<1>1. plan = IF next THEN Plan(rows, slot, "already-next")
             ELSE IF later # {} THEN Plan(moved, row + 1, "move")
             ELSE IF earlier # {} /\ slot <= n THEN Plan(swapped, slot, "swap")
             ELSE Plan(added, row + 1, IF row >= n THEN "append" ELSE "insert")
  BY <1>p DEF PlanMapNext
<1>2. n \in Nat /\ n >= 1 /\ row \in 1 .. n
  OBVIOUS
<1>3. slot \in 1 .. n + 1 /\ (row < n => slot = row + 1) /\ (row >= n => slot = IF wrap THEN 1 ELSE n + 1)
  BY <1>2 DEF NextSlot
<1>4. later \subseteq row + 1 .. n /\ earlier \subseteq 1 .. row - 1
  BY DEF LaterCopies, Matching
<1>5. ~next /\ later = {} /\ earlier = {} => ~Elsewhere(rows, row, pick)
  BY <1>2 DEF LaterCopies, Matching, Elsewhere
<1> HIDE DEF slot, later, earlier
<1>6. CASE next
  <2>1. plan = Plan(rows, slot, "already-next")
    BY <1>1, <1>6
  <2>2. plan.entries = rows /\ plan.slot = slot /\ plan.placement = "already-next" /\ plan \in PlannedRows
    BY <2>1, <1>3 DEF PlannedRows
  <2>3. row < n => rows[row + 1] = pick
    BY <1>6, <1>3, <1>2
  <2>4. ~(row < n) => slot = 1 /\ rows[1] = pick
    BY <1>6, <1>3, <1>2
  <2>5. Len(plan.entries) >= Len(rows) /\ plan.entries[row] = rows[row] /\ ~(plan.slot > Len(rows))
    BY <2>2, <1>6, <1>2, <1>3
  <2>6. IF row < Len(plan.entries) THEN plan.entries[row + 1] = pick ELSE plan.slot = 1 /\ plan.entries[1] = pick
    BY <2>2, <2>3, <2>4
  <2>7. plan.placement # "append" /\ Len(plan.entries) = Len(rows) /\ plan.slot <= Len(rows) /\ rows[plan.slot] = pick
    BY <2>2, <1>6
  <2>8. plan.slot = NextSlot(rows, row, wrap)
    BY <2>2 DEF slot
  <2> QED BY <2>2, <2>5, <2>6, <2>7, <2>8, Zenon DEF PlanGood
<1>7. CASE ~next /\ later # {}
  <2>1. plan = Plan(moved, row + 1, "move")
    BY <1>1, <1>7
  <2>2. First(later) \in later
    <3>1. later \subseteq Nat
      BY <1>4, <1>2
    <3> QED BY <3>1, <1>7, FirstIs, Zenon
  <2>3. First(later) \in 1 .. n /\ First(later) > row /\ row < n
    <3> PICK f : f = First(later)
      OBVIOUS
    <3>1. f \in row + 1 .. n
      BY <2>2, <1>4
    <3> HIDE DEF n
    <3> QED BY <3>1, <1>2
  <2> DEFINE short == RemoveAt(rows, First(later))
  <2>4. /\ short \in Seq(Selections) /\ Len(short) = n - 1
        /\ \A k \in 1 .. First(later) - 1 : short[k] = rows[k]
    BY <2>3, RemovedIs
  <2> HIDE DEF short
  <2>5. row \in 0 .. Len(short) /\ row \in 1 .. First(later) - 1
    BY <2>3, <2>4, <1>2
  <2>6. /\ moved \in Seq(Selections) /\ Len(moved) = Len(short) + 1 /\ moved[row + 1] = pick
        /\ \A k \in 1 .. row : moved[k] = short[k]
    <3>1. moved = InsertAt(short, row + 1, pick)
      BY DEF short
    <3> HIDE DEF moved
    <3> DEFINE it == InsertAt(short, row + 1, pick)
    <3>2. /\ it \in Seq(Selections) /\ Len(it) = Len(short) + 1 /\ it[row + 1] = pick
          /\ \A k \in 1 .. row : it[k] = short[k]
      <4>1. pick \in Selections /\ short \in Seq(Selections) /\ row \in 0 .. Len(short)
        BY <2>4, <2>5
      <4> HIDE DEF it, short
      <4>2. /\ InsertAt(short, row + 1, pick) \in Seq(Selections) /\ Len(InsertAt(short, row + 1, pick)) = Len(short) + 1
            /\ InsertAt(short, row + 1, pick)[row + 1] = pick
            /\ \A k \in 1 .. row : InsertAt(short, row + 1, pick)[k] = short[k]
        BY ONLY <4>1, InsertedIs, SMTT(60)
      <4> QED BY ONLY <4>2 DEF it
    <3>3. moved = it
      BY <3>1
    <3> HIDE DEF it
    <3> QED BY <3>2, <3>3
  <2>7. moved[row] = rows[row] /\ Len(moved) = n
    BY <2>4, <2>5, <2>6, <1>2
  <2> HIDE DEF moved
  <2>8. plan.entries = moved /\ plan.slot = slot /\ plan.placement = "move" /\ plan \in PlannedRows
    BY <2>1, <2>6, <1>2, <1>3 DEF PlannedRows
  <2>9. ~(slot > n)
    BY <2>3, <1>3, <1>2
  <2>10. Len(plan.entries) = Len(rows) /\ Len(plan.entries) >= Len(rows) /\ plan.entries[row] = rows[row] /\ ~(plan.slot > Len(rows))
    BY <2>8, <2>7, <2>9, <1>2
  <2>11. IF row < Len(plan.entries) THEN plan.entries[row + 1] = pick ELSE plan.slot = 1 /\ plan.entries[1] = pick
    BY <2>8, <2>6, <2>3, <2>7
  <2>12. plan.placement # "append" /\ plan.placement # "already-next" /\ ~(plan.slot <= Len(rows) /\ rows[plan.slot] = pick)
    BY <2>8, <1>7
  <2>13. plan.slot = NextSlot(rows, row, wrap)
    BY <2>8 DEF slot
  <2> QED BY <2>8, <2>10, <2>11, <2>12, <2>13, Zenon DEF PlanGood
<1>8. CASE ~next /\ later = {} /\ earlier # {} /\ slot <= n
  <2>1. plan = Plan(swapped, slot, "swap")
    BY <1>1, <1>8
  <2>2. First(earlier) \in earlier
    <3>1. earlier \subseteq Nat
      BY <1>4, <1>2
    <3> QED BY <3>1, <1>8, FirstIs, Zenon
  <2>3. First(earlier) \in 1 .. n /\ First(earlier) < row /\ row >= 2
    <3> PICK f : f = First(earlier)
      OBVIOUS
    <3>1. f \in 1 .. row - 1
      BY <2>2, <1>4
    <3> HIDE DEF n
    <3> QED BY <3>1, <1>2
  <2>4. slot \in 1 .. n /\ slot # row
    BY <1>3, <1>8, <2>3, <1>2
  <2>5. rows[slot] \in Selections
    BY <2>4
  <2> DEFINE half == [rows EXCEPT ![First(earlier)] = rows[slot]]
  <2>6. half \in Seq(Selections) /\ Len(half) = n /\ half[row] = rows[row]
    BY <2>3, <2>5, <1>2, ExceptSeq
  <2>7. swapped = [half EXCEPT ![slot] = pick]
    OBVIOUS
  <2> HIDE DEF half, swapped
  <2>8. /\ swapped \in Seq(Selections) /\ Len(swapped) = Len(half)
        /\ \A j \in 1 .. Len(half) : swapped[j] = IF j = slot THEN pick ELSE half[j]
    BY <2>7, <2>6, <2>4, ExceptSeq
  <2>9. swapped[row] = rows[row] /\ swapped[slot] = pick /\ Len(swapped) = n
    BY <2>8, <2>6, <2>4, <1>2
  <2>10. plan.entries = swapped /\ plan.slot = slot /\ plan.placement = "swap" /\ plan \in PlannedRows
    BY <2>1, <2>8, <1>2, <1>3 DEF PlannedRows
  <2>11. row < n => swapped[row + 1] = pick
    BY <2>9, <1>3
  <2>12. ~(row < n) => slot = 1 /\ swapped[1] = pick
    BY <2>9, <1>3, <1>8, <1>2
  <2>13. Len(plan.entries) = Len(rows) /\ Len(plan.entries) >= Len(rows) /\ plan.entries[row] = rows[row] /\ ~(plan.slot > Len(rows))
    BY <2>9, <2>10, <1>8, <1>2, <1>3
  <2>14. IF row < Len(plan.entries) THEN plan.entries[row + 1] = pick ELSE plan.slot = 1 /\ plan.entries[1] = pick
    BY <2>9, <2>10, <2>11, <2>12
  <2>15. plan.placement # "append" /\ plan.placement # "already-next" /\ ~(plan.slot <= Len(rows) /\ rows[plan.slot] = pick)
    BY <2>10, <1>8
  <2>16. plan.slot = NextSlot(rows, row, wrap)
    BY <2>10 DEF slot
  <2> QED BY <2>10, <2>13, <2>14, <2>15, <2>16, Zenon DEF PlanGood
<1>9. CASE ~next /\ later = {} /\ (earlier = {} \/ ~(slot <= n))
  <2>1. plan = Plan(added, row + 1, IF row >= n THEN "append" ELSE "insert")
    BY <1>1, <1>9
  <2>2. /\ added \in Seq(Selections) /\ Len(added) = n + 1 /\ added[row + 1] = pick
        /\ \A k \in 1 .. row : added[k] = rows[k]
    <3>1. row \in 0 .. Len(rows) /\ rows \in Seq(Selections) /\ pick \in Selections
      BY <1>2
    <3>2. /\ InsertAt(rows, row + 1, pick) \in Seq(Selections) /\ Len(InsertAt(rows, row + 1, pick)) = Len(rows) + 1
          /\ InsertAt(rows, row + 1, pick)[row + 1] = pick
          /\ \A k \in 1 .. row : InsertAt(rows, row + 1, pick)[k] = rows[k]
      BY ONLY <3>1, InsertedIs, SMTT(60)
    <3> QED BY ONLY <3>2 DEF added, n
  <2> HIDE DEF added
  <2>3. /\ plan.entries = added /\ plan.slot = slot /\ plan.placement = (IF row >= n THEN "append" ELSE "insert")
        /\ plan \in PlannedRows
    BY <2>1, <2>2, <1>2, <1>3 DEF PlannedRows
  <2>4. added[row] = rows[row] /\ row < n + 1
    BY <2>2, <1>2
  <2>5. slot > n => row >= n
    BY <1>3, <1>2
  <2>6. ~(slot <= n /\ Elsewhere(rows, row, pick))
    BY <1>5, <1>9
  <2>7. Len(plan.entries) >= Len(rows) /\ plan.entries[row] = rows[row]
    BY <2>2, <2>3, <2>4, <1>2
  <2>8. IF row < Len(plan.entries) THEN plan.entries[row + 1] = pick ELSE plan.slot = 1 /\ plan.entries[1] = pick
    BY <2>2, <2>3, <2>4
  <2>9. plan.placement # "already-next" /\ ~(plan.slot <= Len(rows) /\ rows[plan.slot] = pick)
    BY <2>3, <1>9
  <2>10. plan.slot = NextSlot(rows, row, wrap)
    BY <2>3 DEF slot
  <2>11. plan.slot > Len(rows) => plan.placement = "append"
    BY <2>3, <2>5
  <2>12. plan.placement = "append" => row >= Len(rows)
    BY <2>3
  <2>13. ~(plan.slot <= Len(rows) /\ Elsewhere(rows, row, pick))
    BY <2>3, <2>6
  <2> QED BY <2>3, <2>7, <2>8, <2>9, <2>10, <2>11, <2>12, <2>13, Zenon DEF PlanGood
<1> QED BY <1>6, <1>7, <1>8, <1>9

-----------------------------------------------------------------------------
(* The options of a ballot *)

\* Candidates that may be offered together, from the rotation if there is no pool.
Fits(c, rows, row, list) ==
  /\ list \in Seq(Selections)
  /\ \A k \in 1 .. Len(list) : Offerable(c, rows, row, list[k]) /\ (c.pool = <<>> => Elsewhere(rows, row, list[k]))
  /\ \A j, k \in 1 .. Len(list) : j # k => ~SameOption(list[j], list[k])

\* The options of a ballot on the given rows, as OptionsFit and PollKnown ask for them.
BallotGood(c, rows, row, slot, options) ==
  LET normal == {k \in DOMAIN options : ~options[k].event} IN
  /\ Len(options) \in 2 .. c.count /\ normal # {}
  /\ \A k \in DOMAIN options : options[k].event => k = Len(options)
  /\ \A j, k \in normal : j # k => ~SameOption(options[j].entry, options[k].entry)
  /\ (c.maps \/ c.modes) => \A k \in normal : ~SameOption(options[k].entry, rows[row])
  /\ \A k \in normal : PlanMapNext(rows, row, slot = 1, options[k].entry).placement # "append"
  /\ c.pool = <<>> =>
       \A k \in DOMAIN options : ~options[k].event =>
         \E j \in 1 .. Len(rows) : rows[j] = options[k].entry /\ (j # row \/ j = slot)

\* Rotations, pools and picks are lists of selections.
LEMMA SelectionsHold ==
  /\ \A rows \in Rotations : rows \in Seq(Selections) /\ Len(rows) > 0
  /\ \A c \in Policies : c.pool \in Seq(Selections)
  /\ Picks \subseteq Selections
<1>1. ASSUME NEW rows \in Rotations PROVE rows \in Seq(Selections) /\ Len(rows) > 0
  <2>1. rows # <<>> /\ rows \in Seq(Range(rows))
    BY NextMapAssumption
  <2>2. Range(rows) \subseteq Selections
    <3> Range(rows) \in {Range(r) : r \in Rotations}
      OBVIOUS
    <3> QED BY DEF Selections
  <2>3. rows \in Seq(Selections)
    BY <2>1, <2>2, SeqMonotonic
  <2> QED BY <2>1, <2>3, EmptySeq
<1>2. ASSUME NEW c \in Policies PROVE c.pool \in Seq(Selections)
  <2>1. c.pool \in Seq(Range(c.pool))
    BY NextMapAssumption
  <2>2. Range(c.pool) \subseteq Selections
    <3> SUFFICES ASSUME NEW e \in Range(c.pool) PROVE e \in Selections
      BY Zenon
    <3> PICK S : S = Range(c.pool)
      OBVIOUS
    <3>1. S \in {Range(d.pool) : d \in Policies} /\ e \in S
      OBVIOUS
    <3>2. e \in UNION {Range(d.pool) : d \in Policies}
      BY <3>1
    <3> QED BY <3>2, Zenon DEF Selections
  <2> QED BY <2>1, <2>2, SeqMonotonic
<1> QED BY <1>1, <1>2 DEF Selections

\* Turning a rotation never reaches the row it turns from.
LEMMA TurnedIs ==
  ASSUME NEW n \in Nat, NEW row \in 1 .. n, NEW k \in 1 .. n - 1
  PROVE  ((row - 1 + k) % n) + 1 \in 1 .. n /\ ((row - 1 + k) % n) + 1 # row
<1> PICK x : x = row - 1 + k
  OBVIOUS
<1>1. x \in Nat /\ n > 0 /\ x < n + n /\ x # row - 1 /\ x # n + (row - 1)
  OBVIOUS
<1>2. x % n = IF x < n THEN x ELSE x - n
  <2>1. n \in Nat \ {0} /\ x \in Nat
    BY <1>1
  <2>2. CASE x < n
    BY <2>1, <2>2
  <2>3. CASE ~(x < n)
    <3>1. x - n \in 0 .. n - 1
      BY <1>1, <2>3
    <3>2. (x - n) + n * 1 = x
      BY <2>1
    <3> QED BY <2>1, <2>3, <3>1, <3>2
  <2> QED BY <2>2, <2>3
<1> QED BY <1>1, <1>2

\* The rows in turn are rows of the rotation, other than the running one.
LEMMA RotationOrderIs ==
  ASSUME NEW rows \in Seq(Selections), NEW row \in 1 .. Len(rows)
  PROVE  /\ RotationOrder(rows, row) \in Seq(Selections)
         /\ \A k \in 1 .. Len(RotationOrder(rows, row)) : Elsewhere(rows, row, RotationOrder(rows, row)[k])
<1> DEFINE n == Len(rows)
           Place(k) == ((row - 1 + k) % n) + 1
           order == RotationOrder(rows, row)
<1>1. n \in Nat /\ n - 1 \in Nat
  OBVIOUS
<1>2. \A k \in 1 .. n - 1 : Place(k) \in 1 .. n /\ Place(k) # row
  BY <1>1, TurnedIs
<1>3. order = [k \in 1 .. n - 1 |-> rows[Place(k)]]
  BY DEF RotationOrder
<1> HIDE DEF Place, order
<1>4. \A k \in 1 .. n - 1 : rows[Place(k)] \in Selections
  BY <1>2
<1>5. order \in [1 .. n - 1 -> Selections]
  BY <1>3, <1>4
<1>6. order \in Seq(Selections) /\ Len(order) = n - 1
  BY <1>1, <1>5
<1>7. \A k \in 1 .. n - 1 : Elsewhere(rows, row, order[k])
  BY <1>2, <1>3 DEF Elsewhere
<1> QED BY <1>6, <1>7 DEF order

\* The pool by age lists entries of the pool.
LEMMA PoolOrderIs ==
  ASSUME NEW pool \in Seq(Selections), past \in Seq(SelectedMaps)
  PROVE  PoolOrder(pool) \in Seq(Selections)
<1> DEFINE played(e) == LET seen == {i \in DOMAIN past : past[i] = e.map}
                        IN IF seen = {} THEN Len(past) + 1 ELSE First(seen)
           Rank(i) == (Len(past) + 1 - played(pool[i])) * Len(pool) + i
           ranks == {Rank(i) : i \in DOMAIN pool}
           f == [i \in 1 .. Len(pool) |-> Rank(i)]
<1>1. Len(past) \in Nat /\ DOMAIN past = 1 .. Len(past) /\ Len(pool) \in Nat /\ DOMAIN pool = 1 .. Len(pool)
  OBVIOUS
<1>2. \A e : played(e) \in 1 .. Len(past) + 1
  <2> TAKE e
  <2> DEFINE seen == {i \in DOMAIN past : past[i] = e.map}
  <2>1. seen \subseteq 1 .. Len(past) /\ seen \subseteq Nat
    BY <1>1
  <2>2. seen # {} => First(seen) \in seen
    <3> HIDE DEF seen
    <3> QED BY <2>1, FirstIs, Zenon
  <2> HIDE DEF seen
  <2>3. Len(past) + 1 \in 1 .. Len(past) + 1
    BY <1>1
  <2>4. seen # {} => First(seen) \in 1 .. Len(past) + 1
    <3> PICK x : x = First(seen)
      OBVIOUS
    <3>1. seen # {} => x \in 1 .. Len(past)
      BY <2>1, <2>2
    <3> QED BY <3>1, <1>1
  <2> QED BY <2>3, <2>4 DEF seen
<1> HIDE DEF played
<1>3. \A i \in 1 .. Len(pool) : Rank(i) \in Nat
  <2> TAKE i \in 1 .. Len(pool)
  <2> PICK x : x = Len(past) + 1 - played(pool[i])
    OBVIOUS
  <2> PICK n : n = Len(pool)
    OBVIOUS
  <2>1. x \in Nat /\ n \in Nat /\ i \in Nat
    BY <1>1, <1>2
  <2>2. x * n \in Nat
    BY <2>1
  <2> QED BY <2>1, <2>2
<1> HIDE DEF Rank
<1>4. ranks \in SUBSET Nat
  BY <1>1, <1>3
<1>5. f \in Surjection(1 .. Len(pool), ranks)
  BY <1>1 DEF Surjection
<1>6. IsFiniteSet(ranks)
  <2>1. IsFiniteSet(1 .. Len(pool))
    BY <1>1, FS_Interval
  <2> HIDE DEF f, ranks
  <2> QED BY <1>5, <2>1, FS_Surjection
<1>7. Cardinality(ranks) \in Nat
  BY <1>6, FS_CardinalityType
<1>8. \A k \in 1 .. Cardinality(ranks) : \E i \in DOMAIN pool : Rank(i) = Nth(ranks, k)
  <2> TAKE k \in 1 .. Cardinality(ranks)
  <2>1. Nth(ranks, k) \in ranks
    <3> HIDE DEF ranks
    <3> QED BY <1>4, <1>6, NthIs
  <2> QED BY <2>1
<1> DEFINE Place(k) == CHOOSE i \in DOMAIN pool : Rank(i) = Nth(ranks, k)
<1>9. \A k \in 1 .. Cardinality(ranks) : Place(k) \in DOMAIN pool
  BY <1>8
<1>10. PoolOrder(pool) = [k \in 1 .. Cardinality(ranks) |-> pool[Place(k)]]
  BY DEF PoolOrder, played, Rank
<1> HIDE DEF Place, ranks
<1>11. PoolOrder(pool) \in [1 .. Cardinality(ranks) -> Selections]
  BY <1>1, <1>9, <1>10
<1> QED BY <1>7, <1>11

\* What is taken from fitting candidates fits.
LEMMA TakenFits ==
  ASSUME NEW c, NEW rows, NEW row, NEW list, Fits(c, rows, row, list), NEW S \in SUBSET (1 .. Len(list))
  PROVE  Fits(c, rows, row, Taken(list, S))
<1> PICK some : some = Taken(list, S)
  OBVIOUS
<1>1. list \in Seq(Selections)
  BY DEF Fits
<1>2. /\ Cardinality(S) \in Nat /\ some \in Seq(Selections) /\ Len(some) = Cardinality(S)
      /\ \A k \in 1 .. Cardinality(S) : Nth(S, k) \in S /\ some[k] = list[Nth(S, k)]
      /\ \A j, k \in 1 .. Cardinality(S) : j # k => Nth(S, j) # Nth(S, k)
  BY <1>1, TakenIs
<1>3. ASSUME NEW k \in 1 .. Len(some)
      PROVE  Offerable(c, rows, row, some[k]) /\ (c.pool = <<>> => Elsewhere(rows, row, some[k]))
  BY <1>2, <1>3, Zenon DEF Fits
<1>4. ASSUME NEW j \in 1 .. Len(some), NEW k \in 1 .. Len(some), j # k PROVE ~SameOption(some[j], some[k])
  BY <1>2, <1>4, Zenon DEF Fits
<1> QED BY <1>2, <1>3, <1>4, Zenon DEF Fits

\* No two candidates share a map and rule set, and each can be next without being appended.
LEMMA CandidatesFit ==
  ASSUME NEW c \in Policies, NEW rows \in Seq(Selections), NEW row \in 1 .. Len(rows), past \in Seq(SelectedMaps)
  PROVE  Fits(c, rows, row, Candidates(c, rows, row))
<1> PICK order : order = IF c.pool = <<>> THEN RotationOrder(rows, row) ELSE PoolOrder(c.pool)
  OBVIOUS
<1>1. order \in Seq(Selections) /\ (c.pool = <<>> => \A k \in 1 .. Len(order) : Elsewhere(rows, row, order[k]))
  <2>1. CASE c.pool = <<>>
    <3>1. order = RotationOrder(rows, row)
      BY <2>1
    <3> QED BY <3>1, RotationOrderIs, Zenon
  <2>2. CASE c.pool # <<>>
    <3>1. order = PoolOrder(c.pool) /\ c.pool \in Seq(Selections)
      BY <2>2, SelectionsHold
    <3> QED BY <3>1, <2>2, PoolOrderIs, Zenon
  <2> QED BY <2>1, <2>2
<1> DEFINE able == {i \in DOMAIN order : order[i].map \notin gone /\ Offerable(c, rows, row, order[i])}
           S == {i \in able : ~\E j \in able : j < i /\ SameOption(order[j], order[i])}
<1>2. Candidates(c, rows, row) = Taken(order, S)
  BY DEF Candidates
<1>3. DOMAIN order = 1 .. Len(order) /\ Len(order) \in Nat
  BY <1>1
<1>4. S \in SUBSET (1 .. Len(order)) /\ \A i \in S : Offerable(c, rows, row, order[i])
  BY <1>3
<1>5. \A i, j \in S : i # j => ~SameOption(order[i], order[j])
  <2> SUFFICES ASSUME NEW i \in S, NEW j \in S, i < j PROVE ~SameOption(order[i], order[j])
    BY <1>4, <1>3 DEF SameOption
  <2> QED OBVIOUS
<1> HIDE DEF S, able
<1> PICK some : some = Taken(order, S)
  OBVIOUS
<1>6. /\ Cardinality(S) \in Nat /\ some \in Seq(Selections) /\ Len(some) = Cardinality(S)
      /\ \A k \in 1 .. Cardinality(S) : Nth(S, k) \in S /\ some[k] = order[Nth(S, k)]
      /\ \A j, k \in 1 .. Cardinality(S) : j # k => Nth(S, j) # Nth(S, k)
  BY <1>1, <1>4, TakenIs
<1>7. ASSUME NEW k \in 1 .. Len(some)
      PROVE  Offerable(c, rows, row, some[k]) /\ (c.pool = <<>> => Elsewhere(rows, row, some[k]))
  <2>1. Nth(S, k) \in S /\ some[k] = order[Nth(S, k)] /\ Nth(S, k) \in 1 .. Len(order)
    BY <1>6, <1>4
  <2> QED BY <2>1, <1>4, <1>1, Zenon
<1>8. ASSUME NEW j \in 1 .. Len(some), NEW k \in 1 .. Len(some), j # k PROVE ~SameOption(some[j], some[k])
  BY <1>6, <1>5, <1>8, Zenon
<1>9. Fits(c, rows, row, some)
  BY <1>6, <1>7, <1>8, Zenon DEF Fits
<1> QED BY <1>9, <1>2

\* The first n of fitting candidates fit.
LEMMA CutFits ==
  ASSUME NEW c, NEW rows, NEW row, NEW list, Fits(c, rows, row, list), NEW n \in Nat, n <= Len(list)
  PROVE  Fits(c, rows, row, SubSeq(list, 1, n)) /\ Len(SubSeq(list, 1, n)) = n
<1> PICK some : some = SubSeq(list, 1, n)
  OBVIOUS
<1>1. list \in Seq(Selections) /\ Len(list) \in Nat
  BY DEF Fits
<1>2. some \in Seq(Selections) /\ Len(some) = n /\ \A k \in 1 .. n : k \in 1 .. Len(list) /\ some[k] = list[k]
  <2>1. \A k \in 1 .. n : list[k] \in Selections
    BY <1>1
  <2>2. /\ SubSeq(list, 1, n) \in Seq(Selections) /\ Len(SubSeq(list, 1, n)) = IF 1 <= n THEN n - 1 + 1 ELSE 0
        /\ \A k \in 1 .. n - 1 + 1 : SubSeq(list, 1, n)[k] = list[1 + k - 1]
    BY <2>1, SubSeqProperties
  <2>3. n - 1 + 1 = n /\ \A k \in 1 .. n : 1 + k - 1 = k /\ k \in 1 .. Len(list)
    BY <1>1
  <2> QED BY <2>2, <2>3
<1>3. ASSUME NEW k \in 1 .. Len(some)
      PROVE  Offerable(c, rows, row, some[k]) /\ (c.pool = <<>> => Elsewhere(rows, row, some[k]))
  BY <1>2, <1>3, Zenon DEF Fits
<1>4. ASSUME NEW j \in 1 .. Len(some), NEW k \in 1 .. Len(some), j # k PROVE ~SameOption(some[j], some[k])
  BY <1>2, <1>4, Zenon DEF Fits
<1> QED BY <1>2, <1>3, <1>4, Zenon DEF Fits

\* Leaving out the maps played recently keeps that.
LEMMA FreshFit ==
  ASSUME NEW c, NEW rows, NEW row, NEW list, Fits(c, rows, row, list)
  PROVE  Fits(c, rows, row, FreshOnes(c, list))
<1> DEFINE recent == {past[i] : i \in 1 .. IF c.recent < Len(past) THEN c.recent ELSE Len(past)}
           fresh == {i \in DOMAIN list : list[i].map \notin recent}
<1>1. FreshOnes(c, list) = IF c.recent > 0 /\ Cardinality(fresh) >= 2 THEN Taken(list, fresh) ELSE list
  BY DEF FreshOnes
<1> HIDE DEF recent
<1>2. fresh \in SUBSET (1 .. Len(list))
  BY DEF Fits
<1> HIDE DEF fresh
<1>3. Fits(c, rows, row, Taken(list, fresh))
  BY <1>2, TakenFits
<1> QED BY <1>1, <1>3, Zenon

\* A ballot lists fitting candidates, and the next row as 50v50 last.
Listed(c, rows, row, slot, options, list) ==
  /\ Fits(c, rows, row, list) \/ (list = <<rows[slot]>> /\ slot \in 1 .. Len(rows) /\ ~(c.maps \/ c.modes))
  /\ \A k \in 1 .. Len(list) : options[k] = [entry |-> list[k], event |-> FALSE]
  /\ options \in Seq(Options)
  /\ \/ Len(options) = Len(list) /\ Len(list) <= c.count
     \/ /\ Len(options) = Len(list) + 1 /\ Len(list) + 1 <= c.count
        /\ options[Len(list) + 1] = [entry |-> rows[slot], event |-> TRUE]

\* What a ballot lists.
LEMMA BallotLists ==
  ASSUME NEW c \in Policies, NEW rows \in Seq(Selections), NEW row \in 1 .. Len(rows), NEW slot,
         slot = NextSlot(rows, row, wraps), past \in Seq(SelectedMaps), NEW options, options = BuildBallot(c, rows, row),
         Len(options) >= 2
  PROVE  \E list \in Seq(Selections) : Listed(c, rows, row, slot, options, list)
<1> DEFINE fifty == c.fifty /\ slot <= Len(rows) /\ rows[slot].map \notin gone
           Normal(e) == [entry |-> e, event |-> FALSE]
           normal(list) == [k \in DOMAIN list |-> Normal(list[k])]
<1> PICK ordinary : ordinary = FreshOnes(c, Candidates(c, rows, row))
  OBVIOUS
<1> DEFINE Cut(n) == SubSeq(ordinary, 1, IF n < Len(ordinary) THEN n ELSE Len(ordinary))
           beside == IF c.maps \/ c.modes THEN Cut(c.count - 1) ELSE <<rows[slot]>>
<1>1. options = IF ~fifty THEN IF c.maps \/ c.modes THEN normal(Cut(c.count)) ELSE <<>>
                ELSE IF beside = <<>> THEN <<>> ELSE Append(normal(beside), [entry |-> rows[slot], event |-> TRUE])
  BY DEF BuildBallot
<1>2. Fits(c, rows, row, ordinary)
  BY CandidatesFit, FreshFit
<1>3. ordinary \in Seq(Selections) /\ Len(ordinary) \in Nat
  BY <1>2 DEF Fits
<1>4. c.count \in Nat /\ c.count >= 2 /\ c.count - 1 \in Nat
  BY NextMapAssumption
<1>5. \A n \in Nat : Fits(c, rows, row, Cut(n)) /\ Cut(n) \in Seq(Selections) /\ Len(Cut(n)) <= n
  <2> TAKE n \in Nat
  <2> PICK m : m = IF n < Len(ordinary) THEN n ELSE Len(ordinary)
    OBVIOUS
  <2>1. m \in Nat /\ m <= Len(ordinary) /\ m <= n
    BY <1>3
  <2>2. Fits(c, rows, row, SubSeq(ordinary, 1, m)) /\ Len(SubSeq(ordinary, 1, m)) = m
    BY <1>2, <2>1, CutFits
  <2>3. Cut(n) = SubSeq(ordinary, 1, m)
    OBVIOUS
  <2> QED BY <2>1, <2>2, <2>3 DEF Fits
<1> HIDE DEF Cut
<1>6. ASSUME NEW list \in Seq(Selections)
      PROVE  /\ normal(list) \in Seq(Options) /\ Len(normal(list)) = Len(list)
             /\ \A k \in 1 .. Len(list) : normal(list)[k] = Normal(list[k])
  <2>1. DOMAIN list = 1 .. Len(list) /\ Len(list) \in Nat
    OBVIOUS
  <2>2. \A k \in 1 .. Len(list) : Normal(list[k]) \in Options
    BY DEF Options
  <2>3. normal(list) \in [1 .. Len(list) -> Options]
    BY <2>1, <2>2
  <2> QED BY <2>1, <2>3
<1>7. <<>> \in Seq(Options) /\ Len(<<>>) = 0
  OBVIOUS
<1>8. CASE ~fifty
  <2>1. options = normal(Cut(c.count))
    BY <1>1, <1>7, <1>8
  <2> PICK list : list = Cut(c.count)
    OBVIOUS
  <2>2. list \in Seq(Selections) /\ Fits(c, rows, row, list) /\ Len(list) <= c.count
    BY <1>4, <1>5
  <2>3. options \in Seq(Options) /\ Len(options) = Len(list) /\ \A k \in 1 .. Len(list) : options[k] = Normal(list[k])
    <3>1. options = normal(list)
      BY <2>1
    <3> HIDE DEF normal, Normal
    <3> QED BY <3>1, <2>2, <1>6
  <2> QED BY <2>2, <2>3 DEF Listed
<1>9. CASE fifty
  <2>0. slot \in 1 .. Len(rows) /\ rows[slot] \in Selections
    BY <1>9 DEF NextSlot
  <2> PICK list : list = beside
    OBVIOUS
  <2>1. list # <<>> /\ options = Append(normal(list), [entry |-> rows[slot], event |-> TRUE])
    BY <1>1, <1>7, <1>9
  <2>2. list \in Seq(Selections) /\ Len(list) + 1 <= c.count
    <3>1. CASE c.maps \/ c.modes
      <4>1. list = Cut(c.count - 1)
        BY <3>1
      <4>2. list \in Seq(Selections) /\ Len(list) <= c.count - 1
        BY <4>1, <1>4, <1>5
      <4> HIDE DEF beside
      <4>3. Len(list) \in Nat
        BY <4>2
      <4> QED BY <4>2, <4>3, <1>4
    <3>2. CASE ~(c.maps \/ c.modes)
      <4>1. list = <<rows[slot]>>
        BY <3>2
      <4> PICK e : e = rows[slot]
        OBVIOUS
      <4>2. <<e>> \in Seq(Selections) /\ Len(<<e>>) = 1
        BY <2>0
      <4>3. list = <<e>>
        BY <4>1
      <4> QED BY ONLY <4>2, <4>3, <1>4
    <3> QED BY <3>1, <3>2
  <2>3. Fits(c, rows, row, list) \/ (list = <<rows[slot]>> /\ slot \in 1 .. Len(rows) /\ ~(c.maps \/ c.modes))
    <3>1. CASE c.maps \/ c.modes
      <4>1. list = Cut(c.count - 1)
        BY <3>1
      <4> QED BY <4>1, <1>4, <1>5
    <3> QED BY <3>1, <2>0
  <2> PICK last : last = [entry |-> rows[slot], event |-> TRUE]
    OBVIOUS
  <2> PICK some : some = normal(list)
    OBVIOUS
  <2>4. last \in Options
    BY <2>0 DEF Options
  <2>5. some \in Seq(Options) /\ Len(some) = Len(list) /\ \A k \in 1 .. Len(list) : some[k] = Normal(list[k])
    BY <2>2, <1>6
  <2>6. options = Append(some, last)
    BY <2>1
  <2>7. /\ options \in Seq(Options) /\ Len(options) = Len(some) + 1 /\ options[Len(some) + 1] = last
        /\ \A k \in 1 .. Len(some) : options[k] = some[k]
    BY ONLY <2>4, <2>5, <2>6, AppendProperties
  <2>8. /\ options \in Seq(Options) /\ Len(options) = Len(list) + 1 /\ options[Len(list) + 1] = last
        /\ \A k \in 1 .. Len(list) : options[k] = Normal(list[k])
    BY <2>5, <2>7
  <2> QED BY <2>2, <2>3, <2>8 DEF Listed
<1> QED BY <1>8, <1>9

\* A ballot's options fit.
LEMMA OptionsAreFit ==
  ASSUME NEW c \in Policies, NEW rows \in Seq(Selections), NEW row \in 1 .. Len(rows), NEW slot,
         slot = NextSlot(rows, row, wraps), past \in Seq(SelectedMaps), wraps \in BOOLEAN,
         NEW options, options = BuildBallot(c, rows, row), Len(options) >= 2
  PROVE  options \in Seq(Options) /\ BallotGood(c, rows, row, slot, options)
<1>0. PICK list \in Seq(Selections) : Listed(c, rows, row, slot, options, list)
  BY BallotLists, Zenon
<1>1. /\ Fits(c, rows, row, list) \/ (list = <<rows[slot]>> /\ slot \in 1 .. Len(rows) /\ ~(c.maps \/ c.modes))
      /\ \A k \in 1 .. Len(list) : options[k] = [entry |-> list[k], event |-> FALSE]
      /\ options \in Seq(Options)
      /\ \/ Len(options) = Len(list) /\ Len(list) <= c.count
         \/ /\ Len(options) = Len(list) + 1 /\ Len(list) + 1 <= c.count
            /\ options[Len(list) + 1] = [entry |-> rows[slot], event |-> TRUE]
  BY <1>0, Zenon DEF Listed
<1> DEFINE n == Len(list)
           normal == {k \in DOMAIN options : ~options[k].event}
<1>2. n \in Nat /\ options \in Seq(Options) /\ DOMAIN options = 1 .. Len(options) /\ c.count \in Nat
  BY <1>1, NextMapAssumption
<1>3. Len(options) \in 2 .. c.count /\ (Len(options) = n \/ Len(options) = n + 1) /\ n >= 1
  <2> PICK m : m = Len(options)
    OBVIOUS
  <2>1. m \in Nat /\ m >= 2 /\ ((m = n /\ n <= c.count) \/ (m = n + 1 /\ n + 1 <= c.count))
    BY <1>1, <1>2
  <2> QED BY <2>1, <1>2
<1>4. \A k \in 1 .. n : options[k].entry = list[k] /\ ~options[k].event
  <2>1. \A k \in 1 .. n : options[k] = [entry |-> list[k], event |-> FALSE]
    BY <1>1, Zenon
  <2> TAKE k \in 1 .. n
  <2>2. options[k] = [entry |-> list[k], event |-> FALSE]
    BY <2>1, Zenon
  <2>3. options[k].entry = list[k]
    BY ONLY <2>2
  <2>4. options[k].event = FALSE
    BY ONLY <2>2
  <2> QED BY <2>3, <2>4
<1>5. Len(options) = n + 1 => options[n + 1].event
  <2> SUFFICES ASSUME Len(options) = n + 1 PROVE options[n + 1].event
    OBVIOUS
  <2>1. options[n + 1] = [entry |-> rows[slot], event |-> TRUE]
    <3>1. Len(options) # n
      BY <1>2
    <3> QED BY <3>1, <1>1
  <2> QED BY <2>1
<1>6. /\ \A k \in 1 .. Len(options) : k \in 1 .. n \/ (k = n + 1 /\ Len(options) = n + 1)
      /\ \A k \in 1 .. n : k \in 1 .. Len(options)
  <2> PICK m : m = Len(options)
    OBVIOUS
  <2>1. m \in Nat /\ (m = n \/ m = n + 1) /\ n \in Nat
    BY <1>2, <1>3
  <2> HIDE DEF n
  <2>2. /\ \A k \in 1 .. m : k \in 1 .. n \/ (k = n + 1 /\ m = n + 1)
        /\ \A k \in 1 .. n : k \in 1 .. m
    BY ONLY <2>1
  <2> QED BY <2>2
<1>7. normal = 1 .. n /\ \A k \in DOMAIN options : options[k].event => k = Len(options)
  <2>1. \A k \in 1 .. n : k \in normal
    BY <1>2, <1>4, <1>6
  <2>2. \A k \in DOMAIN options : options[k].event => k = Len(options)
    BY <1>2, <1>4, <1>6
  <2>3. \A k \in normal : k \in 1 .. n
    BY <1>2, <1>5, <1>6
  <2> HIDE DEF normal
  <2> QED BY <2>1, <2>2, <2>3
<1>8. 1 \in normal
  <2> HIDE DEF normal, n
  <2>0. n \in Nat /\ n >= 1
    BY <1>2, <1>3, Zenon
  <2>1. 1 \in 1 .. n
    BY ONLY <2>0
  <2> QED BY <1>7, <2>1
<1> HIDE DEF normal
<1>9. \A e : PlanMapNext(rows, row, slot = 1, e) = PlanMapNext(rows, row, wraps, e)
  <2>1. NextSlot(rows, row, slot = 1) = NextSlot(rows, row, wraps)
    BY DEF NextSlot
  <2> QED BY <2>1 DEF PlanMapNext
<1> DEFINE Alone == list = <<rows[slot]>> /\ slot \in 1 .. Len(rows) /\ ~(c.maps \/ c.modes)
<1>10. Alone => n = 1 /\ list[1] = rows[slot]
  OBVIOUS
<1>11. ASSUME NEW k \in 1 .. n
       PROVE  /\ PlanMapNext(rows, row, wraps, list[k]).placement # "append"
              /\ (c.maps \/ c.modes) => ~SameOption(list[k], rows[row])
              /\ c.pool = <<>> => \E j \in 1 .. Len(rows) : rows[j] = list[k] /\ (j # row \/ j = slot)
  <2>1. CASE Fits(c, rows, row, list)
    <3>1. Offerable(c, rows, row, list[k]) /\ (c.pool = <<>> => Elsewhere(rows, row, list[k]))
      BY <2>1 DEF Fits
    <3>2. ~SameOption(list[k], rows[row])
      BY <3>1 DEF Offerable, KindOf, SameOption
    <3>3. PlanMapNext(rows, row, wraps, list[k]).placement # "append"
      BY <3>1 DEF Offerable
    <3> QED BY <3>1, <3>2, <3>3 DEF Elsewhere
  <2>2. CASE Alone
    <3>1. list[k] = rows[slot] /\ slot \in 1 .. Len(rows) /\ ~(c.maps \/ c.modes)
      BY <2>2, <1>10
    <3> PICK e : e = list[k]
      OBVIOUS
    <3>2. e \in Selections
      OBVIOUS
    <3> PICK plan : plan = PlanMapNext(rows, row, wraps, e)
      OBVIOUS
    <3>3. PlanGood(rows, row, wraps, e, plan)
      BY <3>2, PlanIs
    <3>4. plan.placement = "already-next"
      BY <3>1, <3>3 DEF PlanGood
    <3> QED BY <3>1, <3>4
  <2> QED BY <1>1, <2>1, <2>2
<1>12. \A j, k \in 1 .. n : j # k => ~SameOption(list[j], list[k])
  <2>1. CASE Fits(c, rows, row, list)
    BY <2>1, Zenon DEF Fits
  <2>2. CASE Alone
    BY <2>2, <1>10
  <2> QED BY <1>1, <2>1, <2>2
<1>13. BallotGood(c, rows, row, slot, options)
  <2>1. normal # {}
    BY <1>8
  <2>2. \A j, k \in normal : j # k => ~SameOption(options[j].entry, options[k].entry)
    BY <1>7, <1>4, <1>12
  <2>3. (c.maps \/ c.modes) => \A k \in normal : ~SameOption(options[k].entry, rows[row])
    BY <1>7, <1>4, <1>11
  <2>4. \A k \in normal : PlanMapNext(rows, row, slot = 1, options[k].entry).placement # "append"
    BY <1>7, <1>4, <1>9, <1>11
  <2>5. c.pool = <<>> =>
          \A k \in DOMAIN options : ~options[k].event =>
            \E j \in 1 .. Len(rows) : rows[j] = options[k].entry /\ (j # row \/ j = slot)
    <3> SUFFICES ASSUME c.pool = <<>>, NEW k \in normal
                 PROVE  \E j \in 1 .. Len(rows) : rows[j] = options[k].entry /\ (j # row \/ j = slot)
      BY Zenon DEF normal
    <3> QED BY <1>7, <1>4, <1>11
  <2> QED BY <2>1, <2>2, <2>3, <2>4, <2>5, <1>3, <1>7, Zenon DEF BallotGood, normal
<1> QED BY <1>2, <1>13

-----------------------------------------------------------------------------
(* Steps *)

\* The rotation that the game starts with.
LEMMA NextStarts == NextMapInit => NextInv
<1> SUFFICES ASSUME NextMapInit PROVE NextInv
  OBVIOUS
<1>1. rotation \in Seq(Selections) /\ Len(rotation) > 0 /\ running \in 1 .. Len(rotation)
  BY SelectionsHold DEF NextMapInit
<1>2. NextShape
  <2>1. rotation[running] \in Selections /\ playing = rotation[running].map
    BY <1>1 DEF NextMapInit
  <2>2. playing \in SelectedMaps
    BY <2>1 DEF SelectedMaps
  <2>3. past \in Seq(SelectedMaps)
    BY EmptySeq DEF NextMapInit
  <2>4. running \in 0 .. Len(rotation)
    BY <1>1
  <2> QED BY <1>1, <2>2, <2>3, <2>4, NextMapAssumption DEF NextShape, NextMapInit
<1>3. request = NoRequest /\ NoRequest \notin Queued
  BY DEF NextMapInit, NoRequest, Queued
<1>4. ~poll.open /\ promised = {} /\ ~missed /\ ~shifted /\ ~grown
  BY DEF NextMapInit, NoPoll
<1> QED BY <1>2, <1>3, <1>4 DEF NextInv, PromiseStands, RequestKnown, PollKnown

\* The position is that of the running row, and a plan on it is good.
LEMMA PositionIs ==
  ASSUME NextShape, Position # Nowhere
  PROVE  Position = running /\ running \in 1 .. Len(rotation)
BY DEF NextShape, Position, Nowhere

\* The same of a plan on the saved rotation.
LEMMA PlanHere ==
  ASSUME NextShape, Position # Nowhere, NEW pick \in Selections, NEW plan,
         plan = PlanMapNext(rotation, Position, wraps, pick)
  PROVE  PlanGood(rotation, running, wraps, pick, plan) /\ Position = running /\ running \in 1 .. Len(rotation)
<1>1. Position = running /\ running \in 1 .. Len(rotation) /\ wraps \in BOOLEAN /\ rotation \in Seq(Selections)
  BY PositionIs DEF NextShape
<1> QED BY <1>1, PlanIs

\* What the game plays next is a row of the rotation.
LEMMA PlayedIsRow ==
  ASSUME NextShape
  PROVE  PlayedNext \subseteq 1 .. Len(rotation)
<1>1. Len(rotation) \in Nat /\ Len(rotation) > 0 /\ running \in 0 .. Len(rotation)
  BY DEF NextShape
<1> QED BY <1>1 DEF PlayedNext, Nowhere

\* What an open ballot is.
LEMMA OpenedIs ==
  ASSUME NextShape, OpenPoll
  PROVE  /\ poll' \in Polls /\ poll'.seen = rotation
         /\ BallotGood(poll'.controls, poll'.seen, poll'.at, poll'.slot, poll'.options)
<1> PICK c \in Policies :
      LET options == BuildBallot(c, rotation, Position) IN
      /\ Len(options) >= 2
      /\ poll' = [open |-> TRUE, options |-> options, seen |-> rotation, at |-> Position,
                  slot |-> NextSlot(rotation, Position, wraps), match |-> matches, controls |-> c]
  BY DEF OpenPoll
<1> PICK options : options = BuildBallot(c, rotation, Position)
  OBVIOUS
<1> PICK slot : slot = NextSlot(rotation, Position, wraps)
  OBVIOUS
<1> PICK new : new = poll'
  OBVIOUS
<1>1. /\ Len(options) >= 2
      /\ new = [open |-> TRUE, options |-> options, seen |-> rotation, at |-> Position, slot |-> slot,
                match |-> matches, controls |-> c]
  OBVIOUS
<1>2. Position = running /\ running \in 1 .. Len(rotation) /\ wraps \in BOOLEAN /\ rotation \in Seq(Selections)
      /\ past \in Seq(SelectedMaps) /\ matches \in Nat
  BY PositionIs DEF NextShape, OpenPoll
<1>3. options \in Seq(Options) /\ BallotGood(c, rotation, Position, slot, options)
  BY <1>1, <1>2, OptionsAreFit
<1>4. slot \in Nat /\ Position \in Nat \ {0}
  BY <1>2 DEF NextSlot
<1>5. new \in Polls
  BY <1>1, <1>2, <1>3, <1>4 DEF Polls
<1>6. new.options = options /\ new.seen = rotation /\ new.at = Position /\ new.slot = slot /\ new.controls = c
  BY <1>1
<1> QED BY <1>3, <1>5, <1>6

\* The winner of a ballot over the saved rotation has another row, if it is to be written.
LEMMA WinnerIs ==
  ASSUME NextShape, PollKnown, ClosePoll, NEW k \in DOMAIN poll.options, ~poll.options[k].event,
         NEW pick, pick = poll.options[k].entry, NEW plan, plan = PlanMapNext(rotation, Position, wraps, pick),
         plan.placement # "append", plan.slot = poll.slot
  PROVE  /\ pick \in Selections /\ PlanGood(rotation, running, wraps, pick, plan)
         /\ Position = running /\ running \in 1 .. Len(rotation)
         /\ plan.slot \in 1 .. Len(rotation)
         /\ plan.placement # "already-next" /\ poll.controls.pool = <<>> => Elsewhere(rotation, running, pick)
<1>1. poll \in Polls /\ rotation = poll.seen /\ Position = poll.at
  BY DEF ClosePoll, NextShape, NoPoll, PollStands
<1>2. poll.options \in Seq(Options)
  BY <1>1 DEF Polls
<1>3. pick \in Selections
  <2>1. poll.options[k] \in Options
    BY <1>2
  <2> QED BY <2>1 DEF Options
<1>4. Position # Nowhere
  BY <1>1 DEF Polls, Nowhere
<1>5. PlanGood(rotation, running, wraps, pick, plan) /\ Position = running /\ running \in 1 .. Len(rotation)
  BY <1>3, <1>4, PlanHere
<1>6. plan.slot \in 1 .. Len(rotation)
  <2>1. plan.slot = NextSlot(rotation, running, wraps) /\ ~(plan.slot > Len(rotation))
    BY <1>5 DEF PlanGood
  <2>2. Len(rotation) \in Nat /\ plan.slot \in Nat /\ plan.slot >= 1
    BY <2>1, <1>5 DEF NextSlot, NextShape
  <2> QED BY <2>1, <2>2
<1>7. ASSUME plan.placement # "already-next", poll.controls.pool = <<>> PROVE Elsewhere(rotation, running, pick)
  <2>1. PICK j \in 1 .. Len(rotation) : rotation[j] = pick /\ (j # running \/ j = plan.slot)
    BY <1>1, <1>5, <1>7 DEF PollKnown, ClosePoll
  <2>2. ~(plan.slot <= Len(rotation) /\ rotation[plan.slot] = pick)
    BY <1>5, <1>7 DEF PlanGood
  <2>3. j # running
    BY <2>1, <2>2, <1>6
  <2> QED BY <2>1, <2>3 DEF Elsewhere
<1> QED BY <1>3, <1>5, <1>6, <1>7

\* What is written is planned on the rotation that is saved.
LEMMA WrittenIs ==
  ASSUME NextShape, RequestKnown, WriteChange
  PROVE  /\ request \in Queued /\ rotation' = request.plan.entries /\ edits' = edits + 1 /\ edits < MaxEdits
         /\ request.at \in 1 .. Len(rotation)
         /\ \E wrap \in BOOLEAN : PlanGood(rotation, request.at, wrap, request.entry, request.plan)
<1>1. request \in Queued /\ request.stage = "planned" /\ edits = request.revision
  BY DEF NextShape, WriteChange, NoRequest
<1>2. Stands(request)
  BY <1>1 DEF RequestKnown
<1>3. request.at \in 1 .. Len(rotation) /\ request.entry \in Selections /\ rotation \in Seq(Selections)
  BY <1>1, <1>2 DEF Stands, Queued, NextShape
<1>4. PICK wrap \in BOOLEAN : request.plan = PlanMapNext(rotation, request.at, wrap, request.entry)
  BY <1>1, <1>2 DEF Stands
<1>5. PlanGood(rotation, request.at, wrap, request.entry, request.plan)
  BY <1>3, <1>4, PlanIs
<1> QED BY <1>1, <1>3, <1>5 DEF WriteChange

\* Each part of the invariant is kept: the shapes,
LEMMA ShapeStep == NextInv /\ [NextMapNext]_nextVars => NextShape'
<1> SUFFICES ASSUME NextInv, [NextMapNext]_nextVars PROVE NextShape'
  OBVIOUS
<1>0. NextShape /\ RequestKnown /\ PollKnown
  BY DEF NextInv
<1>a. MaxEdits \in Nat /\ MaxRounds \in Nat
  BY NextMapAssumption
<1> DEFINE Saved == rotation \in Seq(Selections) /\ Len(rotation) > 0 /\ running \in 0 .. Len(rotation)
           Counts == edits \in 0 .. MaxEdits /\ matches \in 1 .. MaxRounds /\ wraps \in BOOLEAN
           Maps == playing \in SelectedMaps /\ past \in Seq(SelectedMaps)
           Asks == request \in {NoRequest} \cup Queued
           Votes == poll \in {NoPoll} \cup Polls
<1>b. Saved /\ Counts /\ Maps /\ Asks /\ Votes
  BY <1>0 DEF NextShape
<1>c. SUFFICES Saved' /\ Counts' /\ Maps' /\ Asks' /\ Votes'
  BY DEF NextShape
<1> HIDE DEF Saved, Counts, Maps, Asks, Votes
<1>r. UNCHANGED <<rotation, running>> => Saved'
  BY <1>b DEF Saved
<1>k. UNCHANGED <<edits, matches, wraps>> => Counts'
  BY <1>b DEF Counts
<1>m. UNCHANGED <<playing, past>> => Maps'
  BY <1>b DEF Maps
<1>q. UNCHANGED request => Asks'
  BY <1>b DEF Asks
<1>v. UNCHANGED poll => Votes'
  BY <1>b DEF Votes
<1>1. CASE Advance
  <2>1. PICK row \in PlayedNext : running' = row /\ playing' = rotation[row].map
    BY <1>1 DEF Advance
  <2>2. row \in 1 .. Len(rotation)
    BY <1>0, PlayedIsRow
  <2>3. Saved'
    BY <2>1, <2>2, <1>b, <1>1 DEF Saved, Advance
  <2>4. playing' \in SelectedMaps
    <3>1. rotation[row] \in Selections
      BY <2>2, <1>b DEF Saved
    <3> QED BY <3>1, <2>1 DEF SelectedMaps
  <2>5. Maps'
    BY <2>4, <1>b, <1>1 DEF Maps, Advance
  <2>6. Counts'
    BY <1>1, <1>a, <1>b DEF Counts, Advance
  <2> QED BY <2>3, <2>5, <2>6, <1>q, <1>v, <1>1 DEF Advance
<1>2. CASE ChangeMap
  <2>1. Saved'
    BY <1>b, <1>2 DEF Saved, ChangeMap, Nowhere
  <2>2. playing' \in SelectedMaps
    BY <1>2, SelectionsHold DEF ChangeMap, SelectedMaps
  <2>3. Maps'
    BY <2>2, <1>b, <1>2 DEF Maps, ChangeMap
  <2>4. Counts'
    BY <1>2, <1>a, <1>b DEF Counts, ChangeMap
  <2> QED BY <2>1, <2>3, <2>4, <1>q, <1>v, <1>2 DEF ChangeMap
<1>3. CASE ReportWrap
  <2>1. Counts'
    BY <1>3, <1>b DEF Counts, ReportWrap
  <2> QED BY <2>1, <1>r, <1>m, <1>q, <1>v, <1>3 DEF ReportWrap
<1>4. CASE LoseMap
  BY <1>r, <1>k, <1>m, <1>q, <1>v, <1>4 DEF LoseMap, gameSide
<1>5. CASE SaveRotation
  <2>1. Counts'
    BY <1>5, <1>a, <1>b DEF Counts, SaveRotation, gameSide
  <2>2. PICK rows \in Rotations : rotation' = rows /\ running <= Len(rows)
    BY <1>5 DEF SaveRotation
  <2>3. rows \in Seq(Selections) /\ Len(rows) > 0
    BY SelectionsHold
  <2>4. running' = running /\ running \in Nat
    BY <1>5, <1>b DEF SaveRotation, gameSide, Saved
  <2>5. Saved'
    BY <2>2, <2>3, <2>4 DEF Saved
  <2> QED BY <2>1, <2>5, <1>m, <1>q, <1>v, <1>5 DEF SaveRotation, gameSide
<1>6. CASE OpenPoll
  <2>1. Votes'
    BY <1>6, <1>0, OpenedIs DEF Votes
  <2>2. Maps'
    <3> PICK m : m = IF past = <<>> THEN 1 ELSE 2
      OBVIOUS
    <3>1. past' = SubSeq(<<playing>> \o past, 1, m) /\ playing' = playing
      BY <1>6 DEF OpenPoll, gameSide
    <3>2. <<playing>> \in Seq(SelectedMaps) /\ past \in Seq(SelectedMaps) /\ Len(<<playing>>) = 1
      BY <1>b DEF Maps
    <3> PICK long : long = <<playing>> \o past
      OBVIOUS
    <3>3. long \in Seq(SelectedMaps) /\ Len(long) = 1 + Len(past)
      BY <3>2, ConcatProperties
    <3>4. past # <<>> => Len(past) >= 1
      BY <3>2, EmptySeq
    <3>5. m \in 1 .. Len(long)
      BY <3>2, <3>3, <3>4
    <3>6. \A k \in 1 .. m : long[k] \in SelectedMaps
      BY <3>3, <3>5
    <3>7. SubSeq(long, 1, m) \in Seq(SelectedMaps)
      BY <3>5, <3>6, SubSeqProperties
    <3> QED BY <3>1, <3>7, <1>b DEF Maps
  <2> QED BY <2>1, <2>2, <1>r, <1>k, <1>q, <1>6 DEF OpenPoll, gameSide
<1>7. CASE CancelPoll
  <2>1. Votes'
    BY <1>7 DEF CancelPoll, Votes
  <2> QED BY <2>1, <1>r, <1>k, <1>m, <1>q, <1>7 DEF CancelPoll, gameSide
<1>8. CASE CloseUnchanged
  <2>1. Votes'
    BY <1>8 DEF CloseUnchanged, Votes
  <2> QED BY <2>1, <1>r, <1>k, <1>m, <1>q, <1>8 DEF CloseUnchanged, gameSide
<1>9. CASE ClosePoll
  <2>1. Votes'
    BY <1>9 DEF ClosePoll, Votes
  <2>2. Asks'
    <3>1. PICK k \in DOMAIN poll.options :
            LET pick == poll.options[k].entry
                plan == PlanMapNext(rotation, Position, wraps, pick) IN
            /\ ~poll.options[k].event /\ plan.placement # "append" /\ plan.slot = poll.slot
            /\ IF plan.placement = "already-next"
               THEN promised' = {pick} /\ UNCHANGED request
               ELSE /\ request' = [stage |-> "asked", entry |-> pick, revision |-> edits, at |-> Position,
                                   map |-> playing, slot |-> plan.slot, match |-> matches, plan |-> NoPlan,
                                   fromRotation |-> poll.controls.pool = <<>>]
                    /\ UNCHANGED promised
      BY <1>9 DEF ClosePoll
    <3> PICK pick : pick = poll.options[k].entry
      OBVIOUS
    <3> PICK plan : plan = PlanMapNext(rotation, Position, wraps, pick)
      OBVIOUS
    <3>2. /\ pick \in Selections /\ Position = running /\ running \in 1 .. Len(rotation)
          /\ plan.slot \in 1 .. Len(rotation)
      BY <3>1, <1>0, <1>9, WinnerIs
    <3>3. edits \in Nat /\ matches \in Nat /\ playing \in SelectedMaps /\ Position \in Nat /\ plan.slot \in Nat
      BY <3>2, <1>b, <1>a DEF Counts, Maps
    <3>4. CASE plan.placement = "already-next"
      BY <3>1, <3>4, <1>q
    <3>5. CASE plan.placement # "already-next"
      <4>1. request' = [stage |-> "asked", entry |-> pick, revision |-> edits, at |-> Position,
                        map |-> playing, slot |-> plan.slot, match |-> matches, plan |-> NoPlan,
                        fromRotation |-> poll.controls.pool = <<>>]
        BY <3>1, <3>5
      <4>2. request' \in Queued
        BY <4>1, <3>2, <3>3 DEF Queued
      <4> QED BY <4>2 DEF Asks
    <3> QED BY <3>4, <3>5
  <2> QED BY <2>1, <2>2, <1>r, <1>k, <1>m, <1>9 DEF ClosePoll, gameSide
<1>10. CASE AskNext
  <2>1. PICK e \in Picks :
          request' = [stage |-> "asked", entry |-> e, revision |-> edits, at |-> Position, map |-> playing,
                      slot |-> Nowhere, match |-> matches, plan |-> NoPlan, fromRotation |-> FALSE]
    BY <1>10 DEF AskNext
  <2>2. Position \in Nat /\ edits \in Nat /\ matches \in Nat /\ playing \in SelectedMaps /\ Nowhere \in Nat
    BY <1>0, <1>10, <1>a, <1>b, PositionIs DEF AskNext, Counts, Maps, Nowhere
  <2>3. request' \in Queued
    BY <2>1, <2>2, SelectionsHold DEF Queued
  <2>4. Asks'
    BY <2>3 DEF Asks
  <2> QED BY <2>4, <1>r, <1>k, <1>m, <1>v, <1>10 DEF AskNext, gameSide
<1>11. CASE PlanChange
  <2>1. request \in Queued /\ Position # Nowhere
    BY <1>0, <1>11 DEF NextShape, PlanChange, NoRequest, MayPlan
  <2>2. PlanGood(rotation, running, wraps, request.entry, NextPlan)
    BY <2>1, <1>0, PlanHere DEF Queued, NextPlan
  <2>3. Asks'
    <3>1. CASE NextPlan.placement = "already-next"
      BY <3>1, <1>11 DEF PlanChange, Asks
    <3>2. CASE NextPlan.placement # "already-next"
      <4> PICK new : new = [request EXCEPT !.stage = "planned", !.plan = NextPlan, !.match = matches]
        OBVIOUS
      <4>1. NextPlan \in PlannedRows /\ matches \in Nat
        BY <2>2, <1>a, <1>b DEF PlanGood, Counts
      <4>2. new \in Queued
        BY <2>1, <4>1 DEF Queued
      <4>3. request' = new
        BY <3>2, <1>11 DEF PlanChange
      <4> QED BY <4>2, <4>3 DEF Asks
    <3> QED BY <3>1, <3>2
  <2> QED BY <2>3, <1>r, <1>k, <1>m, <1>v, <1>11 DEF PlanChange, gameSide
<1>12. CASE RefuseChange
  <2>1. Asks'
    BY <1>12 DEF RefuseChange, Asks
  <2> QED BY <2>1, <1>r, <1>k, <1>m, <1>v, <1>12 DEF RefuseChange, gameSide
<1>13. CASE WriteChange
  <2>1. PICK wrap \in BOOLEAN : PlanGood(rotation, request.at, wrap, request.entry, request.plan)
    BY <1>0, <1>13, WrittenIs
  <2>2. rotation' = request.plan.entries /\ edits' = edits + 1 /\ edits < MaxEdits
    BY <1>0, <1>13, WrittenIs
  <2>3. request.plan.entries \in Seq(Selections) /\ Len(request.plan.entries) >= Len(rotation)
    BY <2>1 DEF PlanGood, PlannedRows
  <2>4. Saved'
    <3> PICK n : n = Len(rotation')
      OBVIOUS
    <3>1. n \in Nat /\ n >= Len(rotation) /\ Len(rotation) \in Nat /\ Len(rotation) > 0 /\ running \in 0 .. Len(rotation)
      BY <2>2, <2>3, <1>b DEF Saved
    <3>2. n > 0 /\ running \in 0 .. n
      BY ONLY <3>1
    <3>3. running' = running
      BY <1>13 DEF WriteChange, gameSide
    <3> QED BY <2>2, <2>3, <3>2, <3>3 DEF Saved
  <2>5. Counts'
    BY <2>2, <1>a, <1>b, <1>13 DEF Counts, WriteChange, gameSide
  <2>6. Asks'
    BY <1>13 DEF WriteChange, Asks
  <2> QED BY <2>4, <2>5, <2>6, <1>m, <1>v, <1>13 DEF WriteChange, gameSide
<1>14. CASE UNCHANGED nextVars
  BY <1>r, <1>k, <1>m, <1>q, <1>v, <1>14 DEF nextVars, gameSide
<1> QED BY <1>1, <1>2, <1>3, <1>4, <1>5, <1>6, <1>7, <1>8, <1>9, <1>10, <1>11, <1>12, <1>13, <1>14 DEF NextMapNext

\* A choice that is next already is what the game plays.
LEMMA NextIsPlayed ==
  ASSUME NextShape, running \in 1 .. Len(rotation), NEW pick, NEW plan,
         PlanGood(rotation, running, wraps, pick, plan), plan.placement = "already-next", promised' = {pick},
         UNCHANGED <<rotation, running, wraps>>
  PROVE  PromiseStands'
<1>1. plan.slot = NextSlot(rotation, running, wraps) /\ plan.slot <= Len(rotation) /\ rotation[plan.slot] = pick
  BY DEF PlanGood
<1>2. Len(rotation) \in Nat /\ wraps \in BOOLEAN
  BY DEF NextShape
<1>3. running # Nowhere /\ (running < Len(rotation) \/ wraps)
  BY <1>1, <1>2 DEF NextSlot, Nowhere
<1>4. plan.slot = IF running >= Len(rotation) THEN 1 ELSE running + 1
  BY <1>1, <1>2, <1>3 DEF NextSlot
<1> QED BY <1>1, <1>3, <1>4 DEF PromiseStands

\* what was promised,
LEMMA PromiseStep == NextInv /\ [NextMapNext]_nextVars => PromiseStands'
<1> SUFFICES ASSUME NextInv, [NextMapNext]_nextVars PROVE PromiseStands'
  OBVIOUS
<1>0. NextShape /\ PromiseStands /\ RequestKnown /\ PollKnown
  BY DEF NextInv
<1>u. UNCHANGED <<promised, rotation, running, wraps>> => PromiseStands'
  BY <1>0 DEF PromiseStands
<1>e. promised' = {} => PromiseStands'
  BY DEF PromiseStands
<1>1. CASE Advance \/ ChangeMap \/ ReportWrap \/ SaveRotation
  BY <1>1, <1>e DEF Advance, ChangeMap, ReportWrap, SaveRotation
<1>2. CASE LoseMap \/ OpenPoll \/ CancelPoll \/ CloseUnchanged \/ AskNext \/ RefuseChange
  BY <1>2, <1>u DEF LoseMap, OpenPoll, CancelPoll, CloseUnchanged, AskNext, RefuseChange, gameSide, history
<1>3. CASE ClosePoll
  <2>0. UNCHANGED <<rotation, running, wraps>>
    BY <1>3 DEF ClosePoll, gameSide
  <2>1. PICK k \in DOMAIN poll.options :
          LET pick == poll.options[k].entry
              plan == PlanMapNext(rotation, Position, wraps, pick) IN
          /\ ~poll.options[k].event /\ plan.placement # "append" /\ plan.slot = poll.slot
          /\ IF plan.placement = "already-next" THEN promised' = {pick} ELSE UNCHANGED promised
    BY <1>3 DEF ClosePoll
  <2> PICK pick : pick = poll.options[k].entry
    OBVIOUS
  <2> PICK plan : plan = PlanMapNext(rotation, Position, wraps, pick)
    OBVIOUS
  <2>2. PlanGood(rotation, running, wraps, pick, plan) /\ running \in 1 .. Len(rotation)
    BY <2>1, <1>0, <1>3, WinnerIs
  <2>3. CASE plan.placement = "already-next"
    <3>1. promised' = {pick}
      BY <2>1, <2>3
    <3> QED BY <3>1, <2>0, <2>2, <2>3, <1>0, NextIsPlayed
  <2>4. CASE plan.placement # "already-next"
    BY <2>0, <2>1, <2>4, <1>u
  <2> QED BY <2>3, <2>4
<1>4. CASE PlanChange
  <2>0. UNCHANGED <<rotation, running, wraps>>
    BY <1>4 DEF PlanChange, gameSide
  <2> PICK plan : plan = NextPlan
    OBVIOUS
  <2>1. request.entry \in Selections /\ Position # Nowhere
    BY <1>0, <1>4 DEF NextShape, PlanChange, NoRequest, MayPlan, Queued
  <2>2. PlanGood(rotation, running, wraps, request.entry, plan) /\ running \in 1 .. Len(rotation)
    BY <2>1, <1>0, PlanHere DEF NextPlan
  <2>3. CASE plan.placement = "already-next"
    <3>1. promised' = {request.entry}
      BY <2>3, <1>4 DEF PlanChange
    <3> QED BY <3>1, <2>0, <2>2, <2>3, <1>0, NextIsPlayed
  <2>4. CASE plan.placement # "already-next"
    <3>1. UNCHANGED promised
      BY <2>4, <1>4 DEF PlanChange
    <3> QED BY <3>1, <2>0, <1>u
  <2> QED BY <2>3, <2>4
<1>5. CASE WriteChange
  <2> PICK plan : plan = request.plan
    OBVIOUS
  <2> PICK pick : pick = request.entry
    OBVIOUS
  <2>1. PICK wrap \in BOOLEAN : PlanGood(rotation, request.at, wrap, pick, plan)
    BY <1>0, <1>5, WrittenIs
  <2>2. request \in Queued /\ rotation' = plan.entries /\ request.at \in 1 .. Len(rotation) /\ request.stage = "planned"
    BY <1>0, <1>5, WrittenIs DEF WriteChange
  <2>3. UNCHANGED <<running, wraps>>
    BY <1>5 DEF WriteChange, gameSide
  <2>4. CASE matches = request.match /\ NextSlot(rotation, running, wraps) = plan.slot
    <3>1. promised' = {pick}
      BY <2>4, <1>5 DEF WriteChange
    <3>2. running = request.at
      BY <2>2, <2>4, <1>0 DEF RequestKnown
    <3> PICK n : n = Len(rotation')
      OBVIOUS
    <3> PICK old : old = Len(rotation)
      OBVIOUS
    <3>3. plan.entries \in Seq(Selections) /\ n = Len(plan.entries) /\ n >= old
      BY <2>1, <2>2 DEF PlanGood, PlannedRows
    <3>4. n \in Nat /\ old \in Nat /\ running \in 1 .. old
      BY <3>2, <3>3, <2>2, <1>0 DEF NextShape
    <3>5. IF running < n THEN plan.entries[running + 1] = pick ELSE plan.slot = 1 /\ plan.entries[1] = pick
      BY <2>1, <3>2, <3>3 DEF PlanGood
    <3>6. CASE running < n
      <4>1. ~(running >= n) /\ running # Nowhere
        BY <3>4, <3>6 DEF Nowhere
      <4> QED BY <4>1, <3>1, <3>5, <3>6, <2>2, <2>3 DEF PromiseStands
    <3>7. CASE ~(running < n)
      <4>1. running >= n /\ running >= old /\ running # Nowhere
        BY <3>3, <3>4, <3>7 DEF Nowhere
      <4>2. wraps
        BY <4>1, <3>4, <3>5, <3>7, <2>4, <1>0 DEF NextSlot, NextShape
      <4> QED BY <4>1, <4>2, <3>1, <3>5, <3>7, <2>2, <2>3 DEF PromiseStands
    <3> QED BY <3>6, <3>7
  <2>5. CASE ~(matches = request.match /\ NextSlot(rotation, running, wraps) = plan.slot)
    <3>1. promised' = {}
      BY <2>5, <1>5 DEF WriteChange
    <3> QED BY <3>1, <1>e
  <2> QED BY <2>4, <2>5
<1>6. CASE UNCHANGED nextVars
  BY <1>6, <1>u DEF nextVars, gameSide, history
<1> QED BY <1>1, <1>2, <1>3, <1>4, <1>5, <1>6 DEF NextMapNext

\* what is known of a request,
LEMMA RequestStep == NextInv /\ [NextMapNext]_nextVars => RequestKnown'
<1> SUFFICES ASSUME NextInv, [NextMapNext]_nextVars PROVE RequestKnown'
  OBVIOUS
<1>0. NextShape /\ RequestKnown /\ PollKnown /\ edits \in Nat /\ matches \in Nat
  BY NextMapAssumption DEF NextInv, NextShape
<1>u. UNCHANGED <<request, rotation, edits, running, matches>> => RequestKnown'
  BY <1>0 DEF RequestKnown, Stands
<1>n. request' = NoRequest => RequestKnown'
  BY DEF RequestKnown, NoRequest, Queued
<1>1. CASE Advance \/ ChangeMap
  <2>1. UNCHANGED <<request, rotation, edits>> /\ matches' = matches + 1
    BY <1>1 DEF Advance, ChangeMap
  <2>2. request \in Queued => Stands(request)' = Stands(request)
    BY <2>1 DEF Stands
  <2>3. request \in Queued => request.match \in Nat /\ request.match <= matches
    BY <1>0 DEF RequestKnown, Queued
  <2>4. request \in Queued => request.match <= matches + 1 /\ request.match # matches + 1
    BY <2>3, <1>0
  <2> QED BY <2>1, <2>2, <2>4, <1>0 DEF RequestKnown
<1>2. CASE ReportWrap \/ LoseMap \/ OpenPoll \/ CancelPoll \/ CloseUnchanged
  BY <1>2, <1>u DEF ReportWrap, LoseMap, OpenPoll, CancelPoll, CloseUnchanged, gameSide
<1>3. CASE SaveRotation
  <2>1. UNCHANGED <<request, running, matches>> /\ edits' = edits + 1
    BY <1>3 DEF SaveRotation, gameSide
  <2>2. request \in Queued => request.revision \in Nat /\ request.revision <= edits
    BY <1>0 DEF RequestKnown, Queued
  <2>3. request \in Queued => request.revision <= edits + 1 /\ request.revision # edits + 1
    BY <2>2, <1>0
  <2> QED BY <2>1, <2>3, <1>0 DEF RequestKnown
<1>4. CASE ClosePoll
  <2>0. UNCHANGED <<rotation, edits, running, matches>>
    BY <1>4 DEF ClosePoll, gameSide
  <2>1. PICK k \in DOMAIN poll.options :
          LET pick == poll.options[k].entry
              plan == PlanMapNext(rotation, Position, wraps, pick) IN
          /\ ~poll.options[k].event /\ plan.placement # "append" /\ plan.slot = poll.slot
          /\ IF plan.placement = "already-next"
             THEN UNCHANGED request
             ELSE request' = [stage |-> "asked", entry |-> pick, revision |-> edits, at |-> Position,
                              map |-> playing, slot |-> plan.slot, match |-> matches, plan |-> NoPlan,
                              fromRotation |-> poll.controls.pool = <<>>]
    BY <1>4 DEF ClosePoll
  <2> PICK pick : pick = poll.options[k].entry
    OBVIOUS
  <2> PICK plan : plan = PlanMapNext(rotation, Position, wraps, pick)
    OBVIOUS
  <2>2. /\ Position = running /\ running \in 1 .. Len(rotation) /\ plan.slot \in 1 .. Len(rotation)
        /\ plan.placement # "already-next" /\ poll.controls.pool = <<>> => Elsewhere(rotation, running, pick)
    BY <2>1, <1>0, <1>4, WinnerIs
  <2>3. CASE plan.placement = "already-next"
    BY <2>0, <2>1, <2>3, <1>u
  <2>4. CASE plan.placement # "already-next"
    <3> PICK new : new = request'
      OBVIOUS
    <3>1. new = [stage |-> "asked", entry |-> pick, revision |-> edits, at |-> Position, map |-> playing,
                 slot |-> plan.slot, match |-> matches, plan |-> NoPlan, fromRotation |-> poll.controls.pool = <<>>]
      BY <2>1, <2>4
    <3>2. /\ new.stage = "asked" /\ new.entry = pick /\ new.revision = edits /\ new.at = running
          /\ new.slot = plan.slot /\ new.match = matches
      BY <3>1, <2>2
    <3>3. new.fromRotation = (poll.controls.pool = <<>>)
      BY <3>1
    <3>4. new.at \in 1 .. Len(rotation) /\ (new.fromRotation => new.slot \in 1 .. Len(rotation) /\ Elsewhere(rotation, new.at, new.entry))
      BY <3>2, <3>3, <2>2, <2>4
    <3>5. Stands(request)'
      <4>1. request' = new /\ rotation' = rotation
        BY <2>0
      <4> QED BY <4>1, <3>2, <3>4 DEF Stands
    <3>6. request'.revision = edits' /\ request'.match = matches' /\ request'.stage = "asked"
      BY <3>2, <2>0
    <3>7. edits' \in Nat /\ matches' \in Nat
      BY <2>0, <1>0
    <3> QED BY <3>5, <3>6, <3>7 DEF RequestKnown
  <2> QED BY <2>3, <2>4
<1>5. CASE AskNext
  <2>0. UNCHANGED <<rotation, edits, running, matches>>
    BY <1>5 DEF AskNext, gameSide
  <2>1. Position = running /\ running \in 1 .. Len(rotation)
    BY <1>0, <1>5, PositionIs DEF AskNext
  <2>2. /\ request'.stage = "asked" /\ request'.revision = edits /\ request'.at = Position
        /\ request'.match = matches /\ request'.fromRotation = FALSE
    BY <1>5 DEF AskNext
  <2>3. Stands(request)'
    BY <2>0, <2>1, <2>2 DEF Stands
  <2>4. request'.revision <= edits' /\ request'.match <= matches'
    BY <2>0, <2>2, <1>0
  <2> QED BY <2>2, <2>3, <2>4 DEF RequestKnown
<1>6. CASE PlanChange
  <2>0. UNCHANGED <<rotation, edits, running, matches>>
    BY <1>6 DEF PlanChange, gameSide
  <2>1. request \in Queued /\ MayPlan
    BY <1>0, <1>6 DEF NextShape, PlanChange, NoRequest
  <2>2. edits = request.revision /\ Position = request.at /\ Position = running /\ SlotAgrees(NextPlan) /\ wraps \in BOOLEAN
    BY <2>1, <1>0, PositionIs DEF MayPlan, NextShape
  <2>3. Stands(request)
    BY <2>1, <2>2, <1>0 DEF RequestKnown
  <2>4. CASE NextPlan.placement = "already-next"
    BY <2>4, <1>6, <1>n DEF PlanChange
  <2>5. CASE NextPlan.placement # "already-next"
    <3> PICK q : q = request
      OBVIOUS
    <3> PICK plan : plan = NextPlan
      OBVIOUS
    <3> PICK new : new = [q EXCEPT !.stage = "planned", !.plan = plan, !.match = matches]
      OBVIOUS
    <3>1. request' = new
      BY <2>5, <1>6 DEF PlanChange
    <3>2. /\ new.stage = "planned" /\ new.plan = plan /\ new.match = matches /\ new.entry = q.entry
          /\ new.revision = q.revision /\ new.at = q.at /\ new.slot = q.slot /\ new.fromRotation = q.fromRotation
      BY <2>1 DEF Queued
    <3>3. plan = PlanMapNext(rotation, q.at, wraps, q.entry)
      BY <2>2 DEF NextPlan
    <3>4. Stands(request)'
      <4>1. new.at \in 1 .. Len(rotation)
        BY <3>2, <2>3 DEF Stands
      <4>2. new.fromRotation => new.slot \in 1 .. Len(rotation) /\ Elsewhere(rotation, new.at, new.entry)
        BY <3>2, <2>3 DEF Stands
      <4>3. \E wrap \in BOOLEAN : new.plan = PlanMapNext(rotation, new.at, wrap, new.entry)
        BY <3>2, <3>3, <2>2
      <4> QED BY <4>1, <4>2, <4>3, <3>1, <2>0 DEF Stands
    <3>5. new.slot \in {Nowhere, new.plan.slot}
      BY <3>2, <2>2 DEF SlotAgrees
    <3>6. new.revision = edits /\ new.match = matches /\ running = new.at
      BY <3>2, <2>2
    <3> QED BY <3>1, <3>4, <3>5, <3>6, <2>0, <1>0 DEF RequestKnown
  <2> QED BY <2>4, <2>5
<1>7. CASE RefuseChange \/ WriteChange
  BY <1>7, <1>n DEF RefuseChange, WriteChange
<1>8. CASE UNCHANGED nextVars
  BY <1>8, <1>u DEF nextVars, gameSide
<1> QED BY <1>1, <1>2, <1>3, <1>4, <1>5, <1>6, <1>7, <1>8 DEF NextMapNext

\* what is known of a ballot,
LEMMA PollStep == NextInv /\ [NextMapNext]_nextVars => PollKnown'
<1> SUFFICES ASSUME NextInv, [NextMapNext]_nextVars PROVE PollKnown'
  OBVIOUS
<1>0. NextShape /\ PollKnown
  BY DEF NextInv
<1>u. UNCHANGED poll => PollKnown'
  BY <1>0 DEF PollKnown, OptionsFit
<1>n. poll' = NoPoll => PollKnown'
  BY DEF PollKnown, NoPoll
<1>1. CASE OpenPoll
  <2>1. BallotGood(poll'.controls, poll'.seen, poll'.at, poll'.slot, poll'.options)
    BY <1>0, <1>1, OpenedIs
  <2>2. OptionsFit'
    BY <2>1, Zenon DEF OptionsFit, BallotGood
  <2>3. poll'.controls.pool = <<>> =>
          \A k \in DOMAIN poll'.options : ~poll'.options[k].event =>
            \E j \in 1 .. Len(poll'.seen) :
              poll'.seen[j] = poll'.options[k].entry /\ (j # poll'.at \/ j = poll'.slot)
    BY <2>1, Zenon DEF BallotGood
  <2> QED BY <2>2, <2>3, Zenon DEF PollKnown
<1>2. CASE CancelPoll \/ CloseUnchanged \/ ClosePoll
  BY <1>2, <1>n DEF CancelPoll, CloseUnchanged, ClosePoll
<1>3. CASE Advance \/ ChangeMap \/ ReportWrap \/ LoseMap \/ SaveRotation
  BY <1>3, <1>u DEF Advance, ChangeMap, ReportWrap, LoseMap, SaveRotation
<1>4. CASE AskNext \/ PlanChange \/ RefuseChange \/ WriteChange
  BY <1>4, <1>u DEF AskNext, PlanChange, RefuseChange, WriteChange
<1>5. CASE UNCHANGED nextVars
  BY <1>5, <1>u DEF nextVars
<1> QED BY <1>1, <1>2, <1>3, <1>4, <1>5 DEF NextMapNext

\* and that no promise was missed, no running row shifted and no rotation grew by a ballot.
LEMMA HistoryStep == NextInv /\ [NextMapNext]_nextVars => ~missed' /\ ~shifted' /\ ~grown'
<1> SUFFICES ASSUME NextInv, [NextMapNext]_nextVars PROVE ~missed' /\ ~shifted' /\ ~grown'
  OBVIOUS
<1>0. NextShape /\ PromiseStands /\ RequestKnown /\ ~missed /\ ~shifted /\ ~grown
  BY DEF NextInv
<1>1. CASE Advance
  <2>1. PICK row \in PlayedNext :
          missed' = (missed \/ (promised # {} /\ rotation[row] \notin promised))
    BY <1>1 DEF Advance
  <2>2. promised # {} => row = IF running >= Len(rotation) THEN 1 ELSE running + 1
    <3>1. Len(rotation) \in Nat /\ running \in Nat
      BY <1>0 DEF NextShape
    <3> QED BY <3>1, <1>0 DEF PromiseStands, PlayedNext
  <2>3. promised # {} => rotation[row] \in promised
    BY <2>2, <1>0 DEF PromiseStands
  <2> QED BY <2>1, <2>3, <1>0, <1>1 DEF Advance
<1>2. CASE WriteChange
  <2> PICK plan : plan = request.plan
    OBVIOUS
  <2> PICK pick : pick = request.entry
    OBVIOUS
  <2>1. PICK wrap \in BOOLEAN : PlanGood(rotation, request.at, wrap, pick, plan)
    BY <1>0, <1>2, WrittenIs
  <2>2. request \in Queued /\ rotation' = plan.entries /\ request.at \in 1 .. Len(rotation) /\ request.stage = "planned"
    BY <1>0, <1>2, WrittenIs DEF WriteChange
  <2>3. matches = request.match => rotation'[running] = rotation[running]
    <3> SUFFICES ASSUME matches = request.match PROVE rotation'[running] = rotation[running]
      OBVIOUS
    <3>1. running = request.at
      BY <2>2, <1>0 DEF RequestKnown
    <3> QED BY <3>1, <2>1, <2>2 DEF PlanGood
  <2>4. request.fromRotation => Len(rotation') = Len(rotation)
    <3> SUFFICES ASSUME request.fromRotation PROVE Len(rotation') = Len(rotation)
      OBVIOUS
    <3>1. Stands(request) /\ request.slot \in {Nowhere, plan.slot}
      BY <2>2, <1>0, <1>2 DEF RequestKnown, WriteChange
    <3>2. request.slot \in 1 .. Len(rotation) /\ Elsewhere(rotation, request.at, pick)
      BY <3>1 DEF Stands
    <3>3. plan.slot <= Len(rotation)
      BY <3>1, <3>2 DEF Nowhere
    <3> QED BY <3>2, <3>3, <2>1, <2>2 DEF PlanGood
  <2>5. ~missed' /\ ~shifted'
    BY <2>3, <1>0, <1>2 DEF WriteChange
  <2>6. ~grown'
    <3>1. request.fromRotation => ~(Len(rotation') > Len(rotation))
      <4>1. Len(rotation) \in Nat
        BY <1>0 DEF NextShape
      <4> QED BY <4>1, <2>4
    <3> QED BY <3>1, <1>0, <1>2 DEF WriteChange
  <2> QED BY <2>5, <2>6
<1>3. CASE ChangeMap \/ ReportWrap \/ LoseMap \/ SaveRotation \/ OpenPoll \/ CancelPoll \/ CloseUnchanged
  BY <1>3, <1>0 DEF ChangeMap, ReportWrap, LoseMap, SaveRotation, OpenPoll, CancelPoll, CloseUnchanged, history
<1>4. CASE ClosePoll \/ AskNext \/ PlanChange \/ RefuseChange
  BY <1>4, <1>0 DEF ClosePoll, AskNext, PlanChange, RefuseChange, history
<1>5. CASE UNCHANGED nextVars
  BY <1>5, <1>0 DEF nextVars, history
<1> QED BY <1>1, <1>2, <1>3, <1>4, <1>5 DEF NextMapNext

LEMMA NextInvariant == NextMapSpec => []NextInv
<1>1. NextInv /\ [NextMapNext]_nextVars => NextInv'
  BY ShapeStep, PromiseStep, RequestStep, PollStep, HistoryStep DEF NextInv
<1> QED BY <1>1, NextStarts, PTL DEF NextMapSpec

\* Rotations keep rows, revisions and rounds stay within their bounds, and the running row is one of the rotation
\* (planMapNext, changeServerConfiguration).
THEOREM NextMapTypeCorrect == NextMapSpec => []NextMapTypeOK
<1>1. NextInv => NextMapTypeOK
  BY DEF NextInv, NextShape, NextMapTypeOK, NoRequest, Queued
<1> QED BY <1>1, NextInvariant, PTL

\* For any rotations, picks, voting controls and order of rounds, saves, reports and map-nexts: a choice that was written
\* is what the game plays next, the running row stays where it is, a ballot over the rotation never lengthens it, and its
\* options fit (planMapNext, buildBallot, close, changeServerConfiguration).
THEOREM ChosenMapIsNext == NextMapSpec => []NextMapHolds
<1>1. NextInv => NextMapHolds
  <2> SUFFICES ASSUME NextInv PROVE NextMapHolds
    OBVIOUS
  <2>1. OptionsFit
    BY DEF NextInv, PollKnown, OptionsFit
  <2>2. ~missed /\ ~shifted /\ ~grown
    BY DEF NextInv
  <2> QED BY <2>1, <2>2 DEF NextMapHolds, ChoicePlaysNext, RotationKept, RunningRowStays, RotationNeverGrows
<1> QED BY <1>1, NextInvariant, PTL
=============================================================================
