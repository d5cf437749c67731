---------------------------- MODULE FeedDeliveries ----------------------------
(***************************************************************************)
(* The ingest route of the game feed: the limit of each minute, the token   *)
(* that tells the game's own deliveries from any other request, what staff  *)
(* are shown of refused and stored deliveries, and the warnings in the log  *)
(* (telemetry.module.ts, telemetry.credentials.ts, telemetry.deliveries.ts, *)
(* the refusals of ingest in telemetry.service.ts). Storing a batch is the  *)
(* subject of module Telemetry.                                             *)
(***************************************************************************)
EXTENDS Integers, FiniteSets, Sequences

CONSTANTS Servers,
          Addresses,    \* where requests come from
          MinuteLimit,  \* requests of one bucket in a minute
          MaxPeers,     \* addresses counted at a time
          Minute,       \* the minute of the limit, and FEED_WARNING_INTERVAL_MS
          MaxArrivals   \* bound: requests

Nowhere == "no server"
Unscoped == "unscoped"  \* the route without a server, which the game appends to its base address

\* Servers and addresses are counted in maps of their own.
ASSUME DeliveriesAssumption ==
  /\ {MinuteLimit, MaxPeers, MaxArrivals} \subseteq Nat /\ Minute \in Nat \ {0}
  /\ Nowhere \notin Servers /\ Unscoped \notin Servers /\ Servers \cap Addresses = {}

VARIABLES
  feedOn,    \* WARDOGS_FEED_ENABLED
  buckets,   \* tokened and feeds: [Servers \cup Addresses -> time left and count, or NoBucket]
  refusals,  \* rejections: [Servers -> count and the last reason], with the server's token
  others,    \* rejectionsWithoutToken, likewise
  batches,   \* [Servers -> whether the last stored batch had invalid entries, or "none"]
  warnings,  \* [kinds of warning -> time left and suppressed]
  arrivals,  \* bound: requests
  happened,  \* history: [Servers -> refused deliveries of the game: count and last reason]
  recent,    \* history: [Servers -> times left of the deliveries of the game in the last minute]
  warned,    \* history: [kinds of warning -> how often there was one]
  logged,    \* history: [kinds of warning -> how many of them the log tells of]
  lockedOut  \* history: the game was limited although it kept to the limit

arrivalVars == <<feedOn, buckets, refusals, others, batches, warnings, arrivals, happened,
                 recent, warned, logged, lockedOut>>

Reasons == {"unreadable", "rate limited", "unknown server", "disabled", "credentials", "payload", "storage"}
Requests == [route : Servers \cup {Unscoped, "unknown"}, token : Servers \cup {"wrong"}, from : Addresses]
Kinds == [server : Servers \cup {Nowhere}, token : BOOLEAN, reason : Reasons \cup {"invalid entries"}]
NoBucket == [left |-> 0, count |-> 0]
NoRequests == [count |-> 0, last |-> "none"]
NoWarning == [left |-> 0, suppressed |-> 0]

DeliveriesInit ==
  /\ feedOn \in BOOLEAN /\ arrivals = 0 /\ lockedOut = FALSE
  /\ buckets = [k \in Servers \cup Addresses |-> NoBucket] /\ warnings = [k \in Kinds |-> NoWarning]
  /\ refusals = [s \in Servers |-> NoRequests] /\ others = [s \in Servers |-> NoRequests]
  /\ batches = [s \in Servers |-> "none"]
  /\ happened = [s \in Servers |-> NoRequests] /\ recent = [s \in Servers |-> <<>>]
  /\ warned = [k \in Kinds |-> 0] /\ logged = [k \in Kinds |-> 0]

-----------------------------------------------------------------------------
\* A delivery of a server's game has its token, on its own route or the one without a server.
OfGame(r) == r.token \in Servers /\ r.route \in {r.token, Unscoped}

(* feedServer: a named route, or the server whose token the route without one carries *)
Target(r) ==
  CASE r.route \in Servers -> r.route
    [] r.route = Unscoped /\ r.token \in Servers -> r.token
    [] OTHER -> Nowhere
Carries(r) == Target(r) # Nowhere /\ r.token = Target(r)

(* The middleware: a delivery with the token counts for its server, any other for its address. *)

\* Mutant: every request counts for its address.
ByAddress(r) == r.from
BucketOf(r) == IF Carries(r) THEN r.token ELSE r.from
Room(r) ==
  \/ buckets[BucketOf(r)] # NoBucket \/ Carries(r)
  \/ Cardinality({a \in Addresses : buckets[a] # NoBucket}) < MaxPeers
Passes(r) == Room(r) /\ buckets[BucketOf(r)].count < MinuteLimit
\* Counts beyond the limit are alike.
Count(r) ==
  buckets' = IF ~Room(r) THEN buckets
             ELSE [buckets EXCEPT ![BucketOf(r)] =
                     [left |-> IF @.left = 0 THEN Minute ELSE @.left,
                      count |-> IF @.count > MinuteLimit THEN @.count ELSE @.count + 1]]

(* warn: one in an interval for each kind; the next one tells how many there were in between. *)
Warn(server, token, reason) ==
  LET kind == [server |-> server, token |-> token, reason |-> reason]
      open == warnings[kind].left > 0 IN
  /\ warnings' = [warnings EXCEPT ![kind] =
                    IF open THEN [left |-> @.left, suppressed |-> @.suppressed + 1]
                    ELSE [left |-> Minute, suppressed |-> 0]]
  /\ warned' = [warned EXCEPT ![kind] = @ + 1]
  /\ logged' = IF open THEN logged ELSE [logged EXCEPT ![kind] = @ + 1 + warnings[kind].suppressed]

(* record: for its server, by whether it carried the token *)
Tally(tally, s, reason) == [tally EXCEPT ![s] = [count |-> @.count + 1, last |-> reason]]
Refuse(r, reason) ==
  LET s == Target(r) IN
  /\ refusals' = IF Carries(r) THEN Tally(refusals, s, reason) ELSE refusals
  /\ others' = IF s # Nowhere /\ ~Carries(r) THEN Tally(others, s, reason) ELSE others
  /\ Warn(s, Carries(r), reason)
  /\ happened' = IF OfGame(r) THEN Tally(happened, r.token, reason) ELSE happened
  /\ UNCHANGED batches

DeliveryArrives(r) == arrivals < MaxArrivals /\ arrivals' = arrivals + 1 /\ UNCHANGED feedOn
Remember(r) ==
  recent' = IF OfGame(r) THEN [recent EXCEPT ![r.token] = Append(@, Minute)] ELSE recent

\* Its body cannot be read: refused before the middleware counts it.
Unreadable(r) ==
  /\ DeliveryArrives(r) /\ Refuse(r, "unreadable") /\ UNCHANGED <<buckets, recent, lockedOut>>
RateLimited(r) ==
  /\ DeliveryArrives(r) /\ ~Passes(r) /\ Count(r) /\ Refuse(r, "rate limited") /\ Remember(r)
  /\ lockedOut' = (lockedOut \/ (OfGame(r) /\ Len(recent[r.token]) < MinuteLimit))

\* ingest: the server, whether the feed is on, the token, the body and the storage, in this order.
Refusal(r) ==
  CASE Target(r) = Nowhere -> {"unknown server"}
    [] Target(r) # Nowhere /\ ~feedOn -> {"disabled"}
    [] Target(r) # Nowhere /\ feedOn /\ ~Carries(r) -> {"credentials"}
    [] OTHER -> {"payload", "storage"}
TurnedAway(r) ==
  /\ DeliveryArrives(r) /\ Passes(r) /\ Count(r) /\ Remember(r)
  /\ \E reason \in Refusal(r) : Refuse(r, reason)
  /\ UNCHANGED lockedOut
\* Stored: some of its entries may be invalid, unless all of them are.
Stored(r, invalid) ==
  /\ DeliveryArrives(r) /\ Passes(r) /\ Count(r) /\ Remember(r)
  /\ feedOn /\ Carries(r)
  /\ batches' = [batches EXCEPT ![r.token] = IF invalid THEN "partly" ELSE "whole"]
  /\ IF invalid THEN Warn(r.token, TRUE, "invalid entries") ELSE UNCHANGED <<warnings, warned, logged>>
  /\ UNCHANGED <<refusals, others, happened, lockedOut>>

Less(n) == IF n = 0 THEN 0 ELSE n - 1
\* The times left after one more tick; the oldest deliveries come first.
Younger(times) ==
  SubSeq([i \in DOMAIN times |-> times[i] - 1], Cardinality({i \in DOMAIN times : times[i] <= 1}) + 1, Len(times))
Elapse ==
  /\ \E k \in Servers \cup Addresses : buckets[k].left > 0
  /\ buckets' = [k \in Servers \cup Addresses |->
                   IF buckets[k].left <= 1 THEN NoBucket ELSE [buckets[k] EXCEPT !.left = @ - 1]]
  /\ warnings' = [k \in Kinds |-> [warnings[k] EXCEPT !.left = Less(@)]]
  /\ recent' = [s \in Servers |-> Younger(recent[s])]
  /\ UNCHANGED <<feedOn, refusals, others, batches, arrivals, happened, warned, logged, lockedOut>>
Restart ==
  /\ arrivals > 0
  /\ buckets' = [k \in Servers \cup Addresses |-> NoBucket] /\ warnings' = [k \in Kinds |-> NoWarning]
  /\ refusals' = [s \in Servers |-> NoRequests] /\ others' = [s \in Servers |-> NoRequests]
  /\ batches' = [s \in Servers |-> "none"]
  /\ happened' = [s \in Servers |-> NoRequests] /\ recent' = [s \in Servers |-> <<>>]
  /\ warned' = [k \in Kinds |-> 0] /\ logged' = [k \in Kinds |-> 0]
  /\ UNCHANGED <<feedOn, arrivals, lockedOut>>

DeliveriesNext ==
  \/ \E r \in Requests :
       Unreadable(r) \/ RateLimited(r) \/ TurnedAway(r) \/ \E invalid \in BOOLEAN : Stored(r, invalid)
  \/ Elapse \/ Restart

-----------------------------------------------------------------------------
(* Properties *)

DeliveriesTypeOK ==
  /\ \A k \in Servers \cup Addresses : buckets[k].left \in 0 .. Minute /\ buckets[k].count \in 0 .. MinuteLimit + 1
  /\ arrivals \in 0 .. MaxArrivals /\ \A s \in Servers : batches[s] \in {"none", "whole", "partly"}

\* Staff see every refused delivery of the game, whichever step refused it, and its last reason; requests
\* without the token neither add to them nor replace it.
GameRefusalsShown == refusals = happened

\* The game is limited by its own deliveries alone: other requests neither use up its minute nor fill the
\* list of addresses for it.
GameNotLockedOut == ~lockedOut

\* Of the warnings of a kind the log tells of all, but for those since its last one.
WarningsCounted == \A k \in Kinds : warned[k] = logged[k] + warnings[k].suppressed

DeliveriesTold == GameRefusalsShown /\ GameNotLockedOut /\ WarningsCounted
=============================================================================
