------------------------------- MODULE Telemetry -------------------------------
(***************************************************************************)
(* The combat feed of one server: batches of the game are stored, several  *)
(* at a time and some more than once, with the count of event types per    *)
(* day, the tracked span and the daily cleanup (telemetry.store.ts), and    *)
(* the leaderboard reads them through a short cache (telemetry.service.ts). *)
(* A batch is a transaction: it sees what was committed before, and holds   *)
(* its new events, and later the tracking row, until it ends. Time is in    *)
(* days.                                                                    *)
(***************************************************************************)
EXTENDS Integers, FiniteSets

CONSTANTS Deliveries,  \* requests that can be under way at once
          Kills,       \* the kill events of the game, by event ID
          OtherTypes,  \* event types besides "killed"
          Viewers,     \* readers of the leaderboard
          TypeLimit,   \* MAX_FEED_TYPES_PER_DAY
          Retention,   \* RETENTION_MS, in days
          LastDay,     \* bound: the last day
          MaxBatches   \* bound: accepted batches

ASSUME TelemetryAssumption ==
  {TypeLimit, Retention, LastDay, MaxBatches} \subseteq Nat /\ IsFiniteSet(OtherTypes)

NoDay == -1
NotSeen == [first |-> NoDay, last |-> NoDay, cleanup |-> NoDay]
IdleDelivery == [step |-> "idle"]
NoEntry == [load |-> "none"]
NotReading == [step |-> "idle"]

VARIABLES
  today,     \* the day
  stored,    \* combat_events: the committed [id, day]
  typeRows,  \* game_feed_event_types: the committed [type, day], "killed" aside
  tracking,  \* combat_tracking: the tracked span and the last cleanup, or NotSeen
  rowHeld,   \* the deliveries that hold the tracking row
  delivery,  \* [Deliveries -> what its transaction read and is about to commit]
  snapshots, \* the cache entry of the leaderboard: [load, rows], or NoEntry
  viewer,    \* [Viewers -> its read]
  batches,   \* history: accepted batches
  receipted  \* history: the stored events of batches whose receipt was answered

feedStore == <<stored, typeRows, tracking>>
feedVars == <<today, feedStore, rowHeld, delivery, snapshots, viewer, batches, receipted>>

FeedInit ==
  /\ today = 0 /\ stored = {} /\ typeRows = {} /\ tracking = NotSeen /\ rowHeld = {}
  /\ delivery = [d \in Deliveries |-> IdleDelivery]
  /\ snapshots = NoEntry /\ viewer = [v \in Viewers |-> NotReading]
  /\ batches = 0 /\ receipted = {}

IdsOf(rows) == {r.id : r \in rows}
\* Bound: no batch is under way for as long as events are kept, 90 days.
AnsweredInTime == \A d \in Deliveries :
                    delivery[d].step # "idle" => today < delivery[d].day + Retention
NextDay ==
  /\ today < LastDay /\ AnsweredInTime /\ today' = today + 1 /\ snapshots' = NoEntry
  /\ UNCHANGED <<feedStore, rowHeld, delivery, viewer, batches, receipted>>

-----------------------------------------------------------------------------
(* ingest *)

SetDelivery(d, value) == delivery' = [delivery EXCEPT ![d] = value]

\* A batch with the feed token and something to count. The day is read before the transaction.
Receive(d) ==
  /\ delivery[d].step = "idle" /\ batches < MaxBatches /\ batches' = batches + 1
  /\ \E kills \in SUBSET Kills, types \in SUBSET OtherTypes :
       /\ kills # {} \/ types # {}
       /\ SetDelivery(d, [step |-> "events", day |-> today, kills |-> kills, types |-> types,
                          fresh |-> {}, counted |-> {}])
  /\ UNCHANGED <<today, feedStore, rowHeld, snapshots, viewer, receipted>>

Uncommitted(e) == delivery[e].step \in {"tracking", "types", "cleanup"}
\* Known events are left out; those another transaction is about to add are waited for.
InsertEvents(d) ==
  /\ delivery[d].step = "events"
  /\ \A e \in Deliveries \ {d} : Uncommitted(e) => delivery[e].fresh \cap delivery[d].kills = {}
  /\ SetDelivery(d, [delivery[d] EXCEPT !.step = "tracking",
                                        !.fresh = delivery[d].kills \ IdsOf(stored)])
  /\ UNCHANGED <<today, feedStore, rowHeld, snapshots, viewer, batches, receipted>>

\* Mutant: the tracking row is not waited for.
RowAnyway(d) == TRUE
RowFree(d) == rowHeld \subseteq {d}

\* The upsert of the tracking row, which is held until the transaction ends.
TrackReceipt(d) ==
  /\ delivery[d].step = "tracking" /\ RowFree(d) /\ rowHeld' = rowHeld \cup {d}
  /\ SetDelivery(d, [delivery[d] EXCEPT !.step = "types"])
  /\ UNCHANGED <<today, feedStore, snapshots, viewer, batches, receipted>>

\* Types that have a row today count; the first of the others get one while there is room.
TallyTypes(d) ==
  LET job == delivery[d]
      known == {r.type : r \in {x \in typeRows : x.day = job.day}}
      room == TypeLimit - Cardinality(known) IN
  /\ job.step = "types"
  /\ \E added \in SUBSET (job.types \ known) :
       /\ Cardinality(added) = IF room < Cardinality(job.types \ known)
                               THEN room ELSE Cardinality(job.types \ known)
       /\ SetDelivery(d, [job EXCEPT !.step = "cleanup", !.counted = added])
  /\ UNCHANGED <<today, feedStore, rowHeld, snapshots, viewer, batches, receipted>>

\* Mutant: the newest batch to commit sets the span.
LatestSpan(old, day) == [first |-> IF old.first = NoDay THEN day ELSE old.first, last |-> day]
Span(old, day) ==
  [first |-> IF old.first = NoDay \/ day < old.first THEN day ELSE old.first,
   last |-> IF day > old.last THEN day ELSE old.last]

\* Once a day the rows past the retention go; then everything commits at once.
CleanAndCommit(d) ==
  LET job == delivery[d]
      span == Span(tracking, job.day)
      due == tracking.cleanup = NoDay \/ tracking.cleanup < job.day - 1
      Kept(rows) == {r \in rows : ~due \/ r.day >= job.day - Retention} IN
  /\ job.step = "cleanup"
  /\ stored' = Kept(stored \cup {[id |-> k, day |-> job.day] : k \in job.fresh})
  /\ typeRows' = Kept(typeRows \cup {[type |-> t, day |-> job.day] : t \in job.counted})
  /\ tracking' = [first |-> span.first, last |-> span.last,
                  cleanup |-> IF due THEN job.day ELSE tracking.cleanup]
  /\ rowHeld' = rowHeld \ {d} /\ SetDelivery(d, [job EXCEPT !.step = "answer"])
  /\ UNCHANGED <<today, snapshots, viewer, batches, receipted>>

\* The transaction fails: nothing of it stays, and the game gets an error.
StorageFails(d) ==
  /\ delivery[d].step \in {"events", "tracking", "types", "cleanup"}
  /\ rowHeld' = rowHeld \ {d} /\ SetDelivery(d, IdleDelivery)
  /\ UNCHANGED <<today, feedStore, snapshots, viewer, batches, receipted>>

\* Mutant: a leaderboard that is still being read stays in the cache.
DroppedWhenRead(entry) == IF entry.load = "ready" THEN NoEntry ELSE entry
Dropped(entry) == NoEntry

\* The cached leaderboards of the server are dropped before the receipt is answered.
AnswerReceipt(d) ==
  /\ delivery[d].step = "answer"
  /\ snapshots' = Dropped(snapshots)
  /\ receipted' = receipted \cup {r \in stored : r.id \in delivery[d].kills} /\ SetDelivery(d, IdleDelivery)
  /\ UNCHANGED <<today, feedStore, rowHeld, viewer, batches>>

-----------------------------------------------------------------------------
(* snapshot: a reader shares the entry that is cached, or starts its own. A reader *)
(* that waits for an entry gets that entry, cached or not any more.                *)

ViewLeaderboard(v) ==
  /\ viewer[v].step = "idle"
  /\ IF snapshots.load = "none"
     THEN /\ snapshots' = [load |-> "running", by |-> v]
          /\ viewer' = [viewer EXCEPT ![v] = [step |-> "asking", by |-> v, must |-> receipted]]
     ELSE /\ IF snapshots.load = "running"
             THEN viewer' = [viewer EXCEPT ![v] = [step |-> "waiting", by |-> snapshots.by,
                                                   must |-> receipted]]
             ELSE viewer' = [viewer EXCEPT ![v] = [step |-> "shown", must |-> receipted,
                                                   rows |-> snapshots.rows]]
          /\ UNCHANGED snapshots
  /\ UNCHANGED <<today, feedStore, rowHeld, delivery, batches, receipted>>

OwnEntry(v) == snapshots.load = "running" /\ snapshots.by = v
WaitsFor(v) == {w \in Viewers : viewer[w].step \in {"asking", "waiting"} /\ viewer[w].by = v}

\* The query of v's entry sees what is committed now.
QueryLeaderboard(v) ==
  /\ viewer[v].step = "asking"
  /\ viewer' = [viewer EXCEPT ![v] = [step |-> "waiting", by |-> v, must |-> viewer[v].must,
                                     rows |-> stored]]
  /\ UNCHANGED <<today, feedStore, rowHeld, delivery, snapshots, batches, receipted>>

\* Its result reaches all who wait for it; the entry stays if it is still the cached one.
LoadLeaderboard(v) ==
  /\ viewer[v].step = "waiting" /\ viewer[v].by = v
  /\ snapshots' = IF OwnEntry(v) THEN [load |-> "ready", rows |-> viewer[v].rows] ELSE snapshots
  /\ viewer' = [w \in Viewers |->
                  IF w \in WaitsFor(v)
                  THEN [step |-> "shown", must |-> viewer[w].must, rows |-> viewer[v].rows]
                  ELSE viewer[w]]
  /\ UNCHANGED <<today, feedStore, rowHeld, delivery, batches, receipted>>

\* A failed read leaves the cache, unless a later entry is there.
LoadFails(v) ==
  /\ viewer[v].step \in {"asking", "waiting"} /\ viewer[v].by = v
  /\ snapshots' = IF OwnEntry(v) THEN NoEntry ELSE snapshots
  /\ viewer' = [w \in Viewers |-> IF w \in WaitsFor(v) THEN NotReading ELSE viewer[w]]
  /\ UNCHANGED <<today, feedStore, rowHeld, delivery, batches, receipted>>

LeavePage(v) ==
  /\ viewer[v].step = "shown" /\ viewer' = [viewer EXCEPT ![v] = NotReading]
  /\ UNCHANGED <<today, feedStore, rowHeld, delivery, snapshots, batches, receipted>>

\* Ten seconds pass.
SnapshotExpires ==
  /\ snapshots.load # "none" /\ snapshots' = NoEntry
  /\ UNCHANGED <<today, feedStore, rowHeld, delivery, viewer, batches, receipted>>

FeedNext ==
  \/ NextDay \/ SnapshotExpires
  \/ \E d \in Deliveries :
       Receive(d) \/ InsertEvents(d) \/ TrackReceipt(d) \/ TallyTypes(d) \/ CleanAndCommit(d)
       \/ StorageFails(d) \/ AnswerReceipt(d)
  \/ \E v \in Viewers : ViewLeaderboard(v) \/ QueryLeaderboard(v) \/ LoadLeaderboard(v) \/ LoadFails(v) \/ LeavePage(v)
FeedSpec == FeedInit /\ [][FeedNext]_feedVars

-----------------------------------------------------------------------------
(* Properties *)

\* However many batches are stored at the same time, a server and day never have more event types
\* than the limit, killed aside.
TypesBounded ==
  \A day \in 0 .. LastDay : Cardinality({r \in typeRows : r.day = day}) <= TypeLimit

FeedTypeOK ==
  /\ today \in 0 .. LastDay /\ batches \in 0 .. MaxBatches /\ rowHeld \subseteq Deliveries
  /\ stored \subseteq [id : Kills, day : 0 .. LastDay]
  /\ typeRows \subseteq [type : OtherTypes, day : 0 .. LastDay]
  /\ receipted \subseteq [id : Kills, day : 0 .. LastDay]

\* The tracked span covers every stored event, though batches commit in another order than they came.
SpanCovers == \A r \in stored : tracking.first <= r.day /\ r.day <= tracking.last

\* A leaderboard asked for after a batch was answered shows its events, although it may be shared
\* with readers who asked before: unless they are past the retention.
ReadAfterReceipt ==
  \A v \in Viewers : viewer[v].step = "shown" => viewer[v].must \cap stored \subseteq viewer[v].rows

\* What is stored and shown of the deliveries, in whatever order they run and commit.
FeedCountsTrue == TypesBounded /\ SpanCovers /\ ReadAfterReceipt
=============================================================================
