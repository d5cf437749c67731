------------------------------ MODULE ServerProofs ------------------------------
(***************************************************************************)
(* Proofs about what is posted about a server: the components of MCServer. *)
(* Each part states its inductive invariant, shows that every step keeps   *)
(* it, and ends with the theorems it is for: AlertDelivery (AlertsInv),    *)
(* ServerHealth (HealthInv), WatchList (WatchInv), CombatCounters          *)
(* (CountersInv), Community (CommunityInv), SeedingPing (SeedingInv),      *)
(* WeeklyBoard (BoardInv), FeedDeliveries (DeliveriesInv) and the types of *)
(* CombatStats (StatsInv). The last part composes them: ServerInv holds in *)
(* every state of MCServer, whichever component a behaviour explores.      *)
(***************************************************************************)
EXTENDS MCServer, FiniteSetTheorems, SequenceTheorems, WellFoundedInduction, TLAPS
-----------------------------------------------------------------------------
(* Staff alerts: what the alerts, the lists and the last ping say *)

Fates == {"snoozed", "suppressed", "failed", "checking", "sending", "posted"}
Moments == Nat \cup {Never}
AlertSet == [server : GameServers, key : AlertKeys, at : Nat, auto : BOOLEAN, high : BOOLEAN, delivery : Fates,
             ping : BOOLEAN, previous : Moments]
AlertPlaces == 1 .. Len(alerts)
AlertTypes ==
  /\ clock \in 0 .. LastAlertTime /\ alerts \in Seq(AlertSet) /\ Len(alerts) <= MaxAlerts
  /\ raised \in [GameServers \X AlertKeys -> Moments] /\ lastPing \in Moments
  /\ recentPosts \in [GameServers -> SUBSET AlertPlaces] /\ posting \in [GameServers -> Nat]

\* Alerts are recorded as they come, and a key is marked with its newest.
AlertsInOrder ==
  /\ \A i \in AlertPlaces : alerts[i].at <= clock /\ alerts[i].at <= raised[<<alerts[i].server, alerts[i].key>>]
  /\ \A i, j \in AlertPlaces : i < j => alerts[i].at <= alerts[j].at
  /\ NoRepeats

\* The list of a server has every post of its last hour.
HourListed ==
  \A s \in GameServers :
    /\ Cardinality(recentPosts[s]) <= PerHour
    /\ \A i \in AlertPlaces :
         alerts[i].server = s /\ Tried(i) /\ clock - alerts[i].at < AlertHour => i \in recentPosts[s]
InHour(s, from) == {i \in AlertPlaces : /\ alerts[i].server = s /\ Tried(i)
                                        /\ alerts[i].at \in from .. from + AlertHour - 1}
HoursBounded == \A s \in GameServers : \A from \in 0 .. LastAlertTime : Cardinality(InHour(s, from)) <= PerHour

\* The worker counts the posts it waits for.
QueuedPosts(s) == {i \in AlertPlaces : alerts[i].server = s /\ ~alerts[i].auto /\ Running(i)}
QueueCounted == \A s \in GameServers : posting[s] = Cardinality(QueuedPosts(s)) /\ posting[s] <= PostsMax

\* A ping is reserved from the moment its message is on its way. The reservations are the interval apart; none is
\* later than the last, and one that is given back leaves those before it covered.
Pinging(i) == alerts[i].ping /\ alerts[i].delivery \in {"sending", "posted"}
PingsReserved ==
  /\ \A i \in AlertPlaces : Pinging(i) => alerts[i].at <= lastPing
  /\ \A i, j \in AlertPlaces : i < j /\ Pinging(i) /\ Pinging(j) => Apart(i, j, PingGap)
  /\ \A i, j \in AlertPlaces :
       /\ Pinging(i) /\ alerts[i].delivery = "sending" /\ Pinging(j) /\ alerts[j].at < alerts[i].at
       => alerts[j].at <= alerts[i].previous

AlertsInv == AlertTypes /\ AlertsInOrder /\ HourListed /\ HoursBounded /\ QueueCounted /\ PingsReserved

LEMMA RecordFields ==
  ASSUME NEW A, NEW B, NEW C, NEW D, NEW E, NEW F, NEW G, NEW H,
         NEW r \in [server : A, key : B, at : C, auto : D, high : E, delivery : F, ping : G, previous : H]
  PROVE  /\ r.server \in A /\ r.key \in B /\ r.at \in C /\ r.auto \in D
         /\ r.high \in E /\ r.delivery \in F /\ r.ping \in G /\ r.previous \in H
OBVIOUS

LEMMA AlertFields ==
  ASSUME NEW r \in AlertSet
  PROVE  /\ r.server \in GameServers /\ r.key \in AlertKeys /\ r.at \in Nat /\ r.auto \in BOOLEAN
         /\ r.high \in BOOLEAN /\ r.delivery \in Fates /\ r.ping \in BOOLEAN /\ r.previous \in Moments
<1>1. r \in [server : GameServers, key : AlertKeys, at : Nat, auto : BOOLEAN, high : BOOLEAN, delivery : Fates,
             ping : BOOLEAN, previous : Moments]
  BY DEF AlertSet
<1> QED BY <1>1, RecordFields, Zenon

LEMMA PlaceTypes ==
  ASSUME AlertTypes
  PROVE  /\ Len(alerts) \in Nat /\ \A i \in AlertPlaces : alerts[i] \in AlertSet
BY DEF AlertTypes, AlertPlaces

LEMMA PlacesFinite ==
  ASSUME AlertTypes
  PROVE  /\ IsFiniteSet(AlertPlaces)
         /\ \A S \in SUBSET AlertPlaces : IsFiniteSet(S) /\ Cardinality(S) \in Nat
<1>1. Len(alerts) \in Nat
  BY PlaceTypes
<1>2. IsFiniteSet(AlertPlaces)
  BY <1>1, FS_Interval DEF AlertPlaces
<1>3. ASSUME NEW S \in SUBSET AlertPlaces PROVE IsFiniteSet(S) /\ Cardinality(S) \in Nat
  BY <1>2, FS_Subset, FS_CardinalityType
<1> QED BY <1>2, <1>3

-----------------------------------------------------------------------------
(* The alerts a step leaves *)

Added(s, k, e) ==
  /\ e \in AlertSet /\ e.server = s /\ e.key = k /\ e.at = clock /\ ~e.ping
  /\ e.delivery \in {"snoozed", "suppressed", "checking"}
  /\ alerts' \in Seq(AlertSet) /\ Len(alerts') = Len(alerts) + 1
  /\ alerts'[Len(alerts) + 1] = e /\ \A j \in AlertPlaces : alerts'[j] = alerts[j]

OthersKept(i) ==
  /\ alerts' \in Seq(AlertSet) /\ Len(alerts') = Len(alerts)
  /\ \A j \in AlertPlaces : j # i => alerts'[j] = alerts[j]
  /\ alerts'[i].server = alerts[i].server /\ alerts'[i].key = alerts[i].key
  /\ alerts'[i].at = alerts[i].at /\ alerts'[i].auto = alerts[i].auto

LEMMA RaiseAdds ==
  ASSUME AlertsInv, NEW s \in GameServers, NEW k \in AlertKeys, NEW auto \in BOOLEAN, NEW high \in BOOLEAN,
         NEW delivery \in {"snoozed", "suppressed", "checking"}, NEW e,
         e = [server |-> s, key |-> k, at |-> clock, auto |-> auto, high |-> high,
              delivery |-> delivery, ping |-> FALSE, previous |-> Never],
         alerts' = Append(alerts, e)
  PROVE  Added(s, k, e)
<1>1. clock \in Nat /\ alerts \in Seq(AlertSet)
  BY DeliveryAssumption DEF AlertsInv, AlertTypes
<1>2. e \in AlertSet
  BY <1>1 DEF AlertSet, Fates, Moments
<1> QED BY <1>1, <1>2 DEF Added, AlertPlaces

LEMMA RecordKept ==
  ASSUME AlertsInv, NEW i \in AlertPlaces, NEW r \in AlertSet, alerts' = [alerts EXCEPT ![i] = r],
         r.server = alerts[i].server, r.key = alerts[i].key, r.at = alerts[i].at, r.auto = alerts[i].auto
  PROVE  OthersKept(i) /\ alerts'[i] = r
<1>1. alerts \in Seq(AlertSet)
  BY DEF AlertsInv, AlertTypes
<1>2. /\ alerts' \in Seq(AlertSet) /\ Len(alerts') = Len(alerts)
      /\ \A j \in AlertPlaces : alerts'[j] = IF j = i THEN r ELSE alerts[j]
  BY <1>1, ExceptSeq DEF AlertPlaces
<1> QED BY <1>2 DEF OthersKept

LEMMA CheckKeeps ==
  ASSUME AlertsInv, NEW i \in AlertPlaces, NEW ping \in BOOLEAN,
         alerts' = [alerts EXCEPT ![i].delivery = "sending", ![i].ping = ping, ![i].previous = lastPing]
  PROVE  /\ OthersKept(i) /\ alerts'[i].delivery = "sending" /\ alerts'[i].ping = ping
         /\ alerts'[i].previous = lastPing
<1> DEFINE r == [alerts[i] EXCEPT !.delivery = "sending", !.ping = ping, !.previous = lastPing]
<1>1. alerts \in Seq(AlertSet) /\ lastPing \in Moments /\ alerts[i] \in AlertSet
  BY PlaceTypes DEF AlertsInv, AlertTypes
<1>2. r \in AlertSet
  BY <1>1 DEF AlertSet, Fates
<1>3. alerts' = [alerts EXCEPT ![i] = r]
  BY <1>1 DEF AlertPlaces, AlertSet
<1>4. /\ r.server = alerts[i].server /\ r.key = alerts[i].key /\ r.at = alerts[i].at /\ r.auto = alerts[i].auto
      /\ r.delivery = "sending" /\ r.ping = ping /\ r.previous = lastPing
  BY <1>1 DEF AlertSet
<1> HIDE DEF r
<1>5. OthersKept(i) /\ alerts'[i] = r
  BY <1>2, <1>3, <1>4, RecordKept
<1> QED BY <1>4, <1>5

LEMMA EndKeeps ==
  ASSUME AlertsInv, NEW i \in AlertPlaces, NEW fate \in {"failed", "posted"}, Ended(i, fate)
  PROVE  /\ OthersKept(i) /\ alerts'[i].delivery = fate
         /\ alerts'[i].ping <=> (alerts[i].ping /\ fate = "posted")
<1> DEFINE r == [alerts[i] EXCEPT !.delivery = fate, !.high = FALSE, !.previous = Never,
                                  !.ping = alerts[i].ping /\ fate = "posted"]
<1>1. alerts \in Seq(AlertSet) /\ alerts[i] \in AlertSet
  BY PlaceTypes DEF AlertsInv, AlertTypes
<1>2. r \in AlertSet
  BY <1>1 DEF AlertSet, Fates, Moments
<1>3. alerts' = [alerts EXCEPT ![i] = r]
  BY <1>1 DEF AlertPlaces, AlertSet, Ended
<1>4. /\ r.server = alerts[i].server /\ r.key = alerts[i].key /\ r.at = alerts[i].at /\ r.auto = alerts[i].auto
      /\ r.delivery = fate /\ r.ping = (alerts[i].ping /\ fate = "posted")
  BY <1>1 DEF AlertSet
<1> HIDE DEF r
<1>5. OthersKept(i) /\ alerts'[i] = r
  BY <1>2, <1>3, <1>4, RecordKept
<1> QED BY <1>4, <1>5

-----------------------------------------------------------------------------
(* What each part of the invariant needs of a step *)

\* A step that records an alert, or one that moves an alert on, keeps the order.
LEMMA AddedInOrder ==
  ASSUME AlertsInv, NEW s \in GameServers, NEW k \in AlertKeys, NEW e, Added(s, k, e), clock' = clock,
         ~Repeats(s, k), raised' = [raised EXCEPT ![<<s, k>>] = clock]
  PROVE  AlertsInOrder'
<1> DEFINE n == Len(alerts) + 1
<1>1. /\ Len(alerts) \in Nat /\ clock \in Nat /\ RepeatFor \in Nat
      /\ \A i \in AlertPlaces : /\ alerts[i].server \in GameServers /\ alerts[i].key \in AlertKeys
                                /\ alerts[i].at \in Nat
      /\ raised \in [GameServers \X AlertKeys -> Moments]
  BY PlaceTypes, AlertFields, DeliveryAssumption DEF AlertsInv, AlertTypes
<1>2. /\ AlertPlaces' = AlertPlaces \cup {n} /\ n \notin AlertPlaces
      /\ alerts'[n].server = s /\ alerts'[n].key = k /\ alerts'[n].at = clock
      /\ \A i \in AlertPlaces : alerts'[i] = alerts[i] /\ i < n
  BY <1>1 DEF Added, AlertPlaces
<1>3. /\ \A i \in AlertPlaces : alerts[i].at <= clock /\ alerts[i].at <= raised[<<alerts[i].server, alerts[i].key>>]
      /\ \A i, j \in AlertPlaces : i < j => alerts[i].at <= alerts[j].at
      /\ NoRepeats
  BY DEF AlertsInv, AlertsInOrder
<1>4. /\ raised'[<<s, k>>] = clock
      /\ \A t \in GameServers, l \in AlertKeys : <<t, l>> # <<s, k>> => raised'[<<t, l>>] = raised[<<t, l>>]
  BY <1>1
<1>5. raised[<<s, k>>] # Never => clock - raised[<<s, k>>] >= RepeatFor
  <2>1. raised[<<s, k>>] \in Moments
    BY <1>1
  <2> QED BY <2>1, <1>1 DEF Repeats, Moments, Never
<1>6. \A i \in AlertPlaces : alerts[i].server = s /\ alerts[i].key = k => clock - alerts[i].at >= RepeatFor
  <2> TAKE i \in AlertPlaces
  <2> HAVE alerts[i].server = s /\ alerts[i].key = k
  <2>1. alerts[i].at <= raised[<<s, k>>] /\ alerts[i].at \in Nat /\ raised[<<s, k>>] \in Moments
    BY <1>1, <1>3
  <2> QED BY <2>1, <1>1, <1>5 DEF Moments, Never
<1>7. \A i \in AlertPlaces' : alerts'[i].at <= clock' /\ alerts'[i].at <= raised'[<<alerts'[i].server, alerts'[i].key>>]
  <2> TAKE i \in AlertPlaces'
  <2>1. CASE i = n
    BY <2>1, <1>1, <1>2, <1>4
  <2>2. CASE i \in AlertPlaces
    <3>1. alerts'[i] = alerts[i] /\ alerts[i].at <= clock /\ alerts[i].at <= raised[<<alerts[i].server, alerts[i].key>>]
      BY <2>2, <1>2, <1>3
    <3>2. CASE <<alerts[i].server, alerts[i].key>> = <<s, k>>
      BY <3>1, <3>2, <1>4
    <3>3. CASE <<alerts[i].server, alerts[i].key>> # <<s, k>>
      BY <3>1, <3>3, <2>2, <1>1, <1>4
    <3> QED BY <3>2, <3>3
  <2> QED BY <2>1, <2>2, <1>2
<1>8. \A i, j \in AlertPlaces' : i < j => alerts'[i].at <= alerts'[j].at
  <2> TAKE i, j \in AlertPlaces'
  <2> HAVE i < j
  <2>1. i \in AlertPlaces
    BY <1>1, <1>2 DEF AlertPlaces
  <2>2. CASE j = n
    BY <2>1, <2>2, <1>2, <1>3
  <2>3. CASE j \in AlertPlaces
    BY <2>1, <2>3, <1>2, <1>3
  <2> QED BY <2>2, <2>3, <1>2
<1>9. NoRepeats'
  <2> SUFFICES ASSUME NEW i \in AlertPlaces', NEW j \in AlertPlaces', i < j,
                      alerts'[i].key = alerts'[j].key, alerts'[i].server = alerts'[j].server
               PROVE  alerts'[j].at - alerts'[i].at >= RepeatFor
    BY DEF NoRepeats, Apart, AlertPlaces
  <2>1. i \in AlertPlaces
    BY <1>1, <1>2 DEF AlertPlaces
  <2>2. CASE j = n
    BY <2>1, <2>2, <1>2, <1>6
  <2>3. CASE j \in AlertPlaces
    BY <2>1, <2>3, <1>2, <1>3 DEF NoRepeats, Apart, AlertPlaces
  <2> QED BY <2>2, <2>3, <1>2
<1> QED BY <1>7, <1>8, <1>9 DEF AlertsInOrder

LEMMA KeptInOrder ==
  ASSUME AlertsInv, NEW i \in AlertPlaces, OthersKept(i), clock' = clock, raised' = raised
  PROVE  AlertsInOrder'
<1>1. /\ AlertPlaces' = AlertPlaces
      /\ \A j \in AlertPlaces : /\ alerts'[j].at = alerts[j].at /\ alerts'[j].key = alerts[j].key
                                /\ alerts'[j].server = alerts[j].server
  BY DEF OthersKept, AlertPlaces
<1>2. NoRepeats'
  BY <1>1 DEF AlertsInv, AlertsInOrder, NoRepeats, Apart, AlertPlaces
<1> QED BY <1>1, <1>2 DEF AlertsInv, AlertsInOrder

LEMMA HourKept ==
  ASSUME AlertsInv, NEW i \in AlertPlaces, OthersKept(i), clock' = clock, recentPosts' = recentPosts,
         Tried(i), Tried(i)'
  PROVE  HourListed' /\ HoursBounded'
<1>1. /\ AlertPlaces' = AlertPlaces
      /\ \A j \in AlertPlaces : /\ alerts'[j].at = alerts[j].at /\ alerts'[j].server = alerts[j].server
                                /\ Tried(j)' <=> Tried(j)
  BY DEF OthersKept, AlertPlaces, Tried
<1>2. HourListed'
  BY <1>1 DEF AlertsInv, HourListed
<1>3. \A s \in GameServers, from \in 0 .. LastAlertTime : InHour(s, from)' = InHour(s, from)
  BY <1>1 DEF InHour
<1> QED BY <1>2, <1>3 DEF AlertsInv, HoursBounded

LEMMA AddedPlaces ==
  ASSUME AlertsInv, NEW s \in GameServers, NEW k \in AlertKeys, NEW e, Added(s, k, e), NEW n, n = Len(alerts) + 1
  PROVE  /\ n \in Nat /\ AlertPlaces' = AlertPlaces \cup {n} /\ n \notin AlertPlaces
         /\ alerts'[n] = e /\ e.server = s /\ e.at = clock
         /\ Tried(n)' <=> e.delivery = "checking"
         /\ Running(n)' <=> e.delivery = "checking"
         /\ \A i \in AlertPlaces : alerts'[i] = alerts[i]
         /\ \A i \in AlertPlaces : Tried(i)' <=> Tried(i)
         /\ \A i \in AlertPlaces : Running(i)' <=> Running(i)
<1>1. Len(alerts) \in Nat
  BY PlaceTypes DEF AlertsInv
<1>2. n \in Nat /\ AlertPlaces' = AlertPlaces \cup {n} /\ n \notin AlertPlaces
  BY <1>1 DEF Added, AlertPlaces
<1>3. alerts'[n] = e /\ e.server = s /\ e.at = clock /\ e.delivery \in {"snoozed", "suppressed", "checking"}
  BY DEF Added
<1>4. \A i \in AlertPlaces : alerts'[i] = alerts[i]
  BY DEF Added
<1>5. Tried(n)' <=> e.delivery = "checking"
  BY <1>3 DEF Tried
<1>6. Running(n)' <=> e.delivery = "checking"
  BY <1>3 DEF Running
<1>7. \A i \in AlertPlaces : Tried(i)' <=> Tried(i)
  BY <1>4 DEF Tried
<1>8. \A i \in AlertPlaces : Running(i)' <=> Running(i)
  BY <1>4 DEF Running
<1> QED BY <1>2, <1>3, <1>4, <1>5, <1>6, <1>7, <1>8

LEMMA InHourAdded ==
  ASSUME AlertsInv, NEW s \in GameServers, NEW k \in AlertKeys, NEW e, Added(s, k, e), NEW n, n = Len(alerts) + 1,
         NEW t \in GameServers, NEW from \in 0 .. LastAlertTime
  PROVE  /\ e.delivery = "checking" /\ t = s /\ clock \in from .. from + AlertHour - 1
              => InHour(t, from)' = InHour(t, from) \cup {n}
         /\ ~(e.delivery = "checking" /\ t = s /\ clock \in from .. from + AlertHour - 1)
              => InHour(t, from)' = InHour(t, from)
<1>1. /\ AlertPlaces' = AlertPlaces \cup {n} /\ n \notin AlertPlaces
      /\ alerts'[n].server = s /\ alerts'[n].at = clock
      /\ Tried(n)' <=> e.delivery = "checking"
      /\ \A i \in AlertPlaces : alerts'[i] = alerts[i]
      /\ \A i \in AlertPlaces : Tried(i)' <=> Tried(i)
  BY AddedPlaces
<1>2. \A i \in AlertPlaces : i \in InHour(t, from)' <=> i \in InHour(t, from)
  <2> TAKE i \in AlertPlaces
  <2>1. i \in AlertPlaces' /\ alerts'[i] = alerts[i] /\ (Tried(i)' <=> Tried(i))
    BY <1>1
  <2>2. i \in InHour(t, from)' <=> /\ i \in AlertPlaces' /\ alerts'[i].server = t /\ Tried(i)'
                                   /\ alerts'[i].at \in from .. from + AlertHour - 1
    BY DEF InHour
  <2>3. i \in InHour(t, from) <=> /\ i \in AlertPlaces /\ alerts[i].server = t /\ Tried(i)
                                  /\ alerts[i].at \in from .. from + AlertHour - 1
    BY DEF InHour
  <2> QED BY <2>1, <2>2, <2>3
<1>3. n \in InHour(t, from)' <=> (e.delivery = "checking" /\ t = s /\ clock \in from .. from + AlertHour - 1)
  <2>1. n \in InHour(t, from)' <=> /\ n \in AlertPlaces' /\ alerts'[n].server = t /\ Tried(n)'
                                   /\ alerts'[n].at \in from .. from + AlertHour - 1
    BY DEF InHour
  <2> QED BY <2>1, <1>1
<1>4. InHour(t, from)' \subseteq AlertPlaces' /\ InHour(t, from) \subseteq AlertPlaces
  BY DEF InHour
<1> QED BY <1>1, <1>2, <1>3, <1>4

LEMMA HourAdded ==
  ASSUME AlertsInv, NEW s \in GameServers, NEW k \in AlertKeys, NEW e, Added(s, k, e), clock' = clock,
         NEW n, n = Len(alerts) + 1,
         \/ e.delivery # "checking" /\ recentPosts' \in {recentPosts, [recentPosts EXCEPT ![s] = Recent(s)]}
         \/ /\ e.delivery = "checking" /\ ~FullHour(s)
            /\ recentPosts' = [recentPosts EXCEPT ![s] = Recent(s) \cup {n}]
  PROVE  HourListed' /\ HoursBounded' /\ recentPosts' \in [GameServers -> SUBSET (AlertPlaces')]
<1>1. /\ Len(alerts) \in Nat /\ clock \in Nat /\ AlertHour \in Nat /\ PerHour \in Nat
      /\ \A i \in AlertPlaces : alerts[i].server \in GameServers /\ alerts[i].at \in Nat
      /\ recentPosts \in [GameServers -> SUBSET AlertPlaces]
  BY PlaceTypes, AlertFields, DeliveryAssumption DEF AlertsInv, AlertTypes
<1>2. /\ AlertPlaces' = AlertPlaces \cup {n} /\ n \notin AlertPlaces
      /\ alerts'[n].server = s /\ alerts'[n].at = clock
      /\ Tried(n)' <=> e.delivery = "checking"
      /\ \A i \in AlertPlaces : alerts'[i] = alerts[i]
      /\ \A i \in AlertPlaces : Tried(i)' <=> Tried(i)
  BY AddedPlaces
<1>3. \A S \in SUBSET AlertPlaces : IsFiniteSet(S) /\ Cardinality(S) \in Nat
  BY PlacesFinite DEF AlertsInv
<1>4. /\ Recent(s) \subseteq recentPosts[s] /\ recentPosts[s] \subseteq AlertPlaces
      /\ Cardinality(Recent(s)) <= PerHour
      /\ \A i \in recentPosts[s] : clock - alerts[i].at < AlertHour => i \in Recent(s)
  <2>1. Recent(s) \subseteq recentPosts[s] /\ recentPosts[s] \subseteq AlertPlaces
    BY <1>1 DEF Recent
  <2>2. Cardinality(Recent(s)) <= Cardinality(recentPosts[s]) /\ Cardinality(recentPosts[s]) <= PerHour
    BY <2>1, <1>3, FS_Subset DEF AlertsInv, HourListed
  <2>3. Cardinality(Recent(s)) \in Nat /\ Cardinality(recentPosts[s]) \in Nat
    BY <2>1, <1>3
  <2> QED BY <2>1, <2>2, <2>3, <1>1 DEF Recent
<1>5. \A t \in GameServers :
        /\ Cardinality(recentPosts[t]) <= PerHour
        /\ \A i \in AlertPlaces : alerts[i].server = t /\ Tried(i) /\ clock - alerts[i].at < AlertHour
                                   => i \in recentPosts[t]
  BY DEF AlertsInv, HourListed
<1>6. ASSUME NEW t \in GameServers, Cardinality(recentPosts'[t]) <= PerHour,
             t # s => recentPosts'[t] = recentPosts[t],
             t = s => \A i \in recentPosts[s] : clock - alerts[i].at < AlertHour => i \in recentPosts'[s],
             e.delivery = "checking" /\ t = s => n \in recentPosts'[s]
      PROVE  \A i \in AlertPlaces' : alerts'[i].server = t /\ Tried(i)' /\ clock' - alerts'[i].at < AlertHour
                                      => i \in recentPosts'[t]
  <2> TAKE i \in AlertPlaces'
  <2> HAVE alerts'[i].server = t /\ Tried(i)' /\ clock' - alerts'[i].at < AlertHour
  <2>1. CASE i = n
    BY <2>1, <1>2, <1>6
  <2>2. CASE i \in AlertPlaces
    <3>1. alerts[i].server = t /\ Tried(i) /\ clock - alerts[i].at < AlertHour
      BY <2>2, <1>2
    <3>2. i \in recentPosts[t]
      BY <3>1, <2>2, <1>5
    <3> QED BY <3>1, <3>2, <1>6
  <2> QED BY <2>1, <2>2, <1>2
<1>7. CASE e.delivery # "checking"
  <2>1. /\ \A t \in GameServers : t # s => recentPosts'[t] = recentPosts[t]
        /\ recentPosts'[s] = recentPosts[s] \/ recentPosts'[s] = Recent(s)
        /\ recentPosts' \in [GameServers -> SUBSET AlertPlaces]
    BY <1>1, <1>4, <1>7
  <2>2. \A t \in GameServers : Cardinality(recentPosts'[t]) <= PerHour
    BY <2>1, <1>4, <1>5
  <2>3. \A i \in recentPosts[s] : clock - alerts[i].at < AlertHour => i \in recentPosts'[s]
    BY <2>1, <1>4
  <2>4. HourListed'
    BY <2>1, <2>2, <2>3, <1>6, <1>7 DEF HourListed
  <2>5. \A t \in GameServers, from \in 0 .. LastAlertTime : InHour(t, from)' = InHour(t, from)
    BY <1>7, InHourAdded
  <2>6. HoursBounded'
    BY <2>5 DEF AlertsInv, HoursBounded
  <2> QED BY <2>1, <2>4, <2>6, <1>2
<1>8. CASE e.delivery = "checking"
  <2>1. /\ \A t \in GameServers : t # s => recentPosts'[t] = recentPosts[t]
        /\ recentPosts'[s] = Recent(s) \cup {n}
        /\ recentPosts' \in [GameServers -> SUBSET (AlertPlaces \cup {n})]
    BY <1>1, <1>4, <1>8
  <2>2. Cardinality(Recent(s)) < PerHour /\ Cardinality(Recent(s)) \in Nat
    BY <1>1, <1>3, <1>4, <1>8 DEF FullHour
  <2>3. Cardinality(Recent(s) \cup {n}) <= PerHour
    <3>1. n \notin Recent(s) /\ IsFiniteSet(Recent(s))
      BY <1>2, <1>3, <1>4
    <3>2. Cardinality(Recent(s) \cup {n}) = Cardinality(Recent(s)) + 1
      BY <3>1, FS_AddElement
    <3> QED BY <3>2, <2>2, <1>1
  <2>4. \A t \in GameServers : Cardinality(recentPosts'[t]) <= PerHour
    BY <2>1, <2>3, <1>5
  <2>5. HourListed'
    BY <2>1, <2>4, <1>4, <1>6 DEF HourListed
  <2>6. ASSUME NEW t \in GameServers, NEW from \in 0 .. LastAlertTime
        PROVE  Cardinality(InHour(t, from)') <= PerHour
    <3>1. InHour(t, from) \subseteq AlertPlaces /\ Cardinality(InHour(t, from)) <= PerHour
      BY DEF InHour, AlertsInv, HoursBounded
    <3>2. CASE t = s /\ clock \in from .. from + AlertHour - 1
      <4>1. InHour(t, from)' = InHour(t, from) \cup {n}
        BY <3>2, <1>8, InHourAdded
      <4>2. InHour(t, from) \subseteq Recent(s)
        <5> SUFFICES ASSUME NEW i \in InHour(s, from) PROVE i \in Recent(s)
          BY <3>2
        <5>1. i \in AlertPlaces /\ alerts[i].server = s /\ Tried(i) /\ alerts[i].at >= from /\ alerts[i].at \in Nat
          BY <1>1 DEF InHour
        <5>2. clock - alerts[i].at < AlertHour
          BY <5>1, <3>2, <1>1
        <5> QED BY <5>1, <5>2, <1>4, <1>5
      <4>3. Cardinality(InHour(t, from)) <= Cardinality(Recent(s)) /\ Cardinality(InHour(t, from)) \in Nat
        BY <3>1, <4>2, <1>3, <1>4, FS_Subset
      <4>4. Cardinality(InHour(t, from) \cup {n}) = Cardinality(InHour(t, from)) + 1
        <5>1. n \notin InHour(t, from) /\ IsFiniteSet(InHour(t, from))
          BY <3>1, <1>2, <1>3
        <5> QED BY <5>1, FS_AddElement
      <4> QED BY <4>1, <4>3, <4>4, <2>2, <1>1
    <3>3. CASE ~(t = s /\ clock \in from .. from + AlertHour - 1)
      <4>1. InHour(t, from)' = InHour(t, from)
        BY <3>3, InHourAdded
      <4> QED BY <4>1, <3>1
    <3> QED BY <3>2, <3>3
  <2>7. HoursBounded'
    BY <2>6 DEF HoursBounded
  <2> QED BY <2>1, <2>5, <2>7, <1>2
<1> QED BY <1>7, <1>8

LEMMA QueueAdded ==
  ASSUME AlertsInv, NEW s \in GameServers, NEW k \in AlertKeys, NEW e, Added(s, k, e), NEW n, n = Len(alerts) + 1,
         posting' = IF ~e.auto /\ e.delivery = "checking" THEN [posting EXCEPT ![s] = posting[s] + 1] ELSE posting,
         ~e.auto /\ e.delivery = "checking" => posting[s] < PostsMax
  PROVE  QueueCounted' /\ posting' \in [GameServers -> Nat]
<1>1. /\ PostsMax \in Nat /\ posting \in [GameServers -> Nat]
      /\ \A t \in GameServers : posting[t] = Cardinality(QueuedPosts(t)) /\ posting[t] <= PostsMax
  BY DeliveryAssumption DEF AlertsInv, AlertTypes, QueueCounted
<1>2. /\ AlertPlaces' = AlertPlaces \cup {n} /\ n \notin AlertPlaces /\ alerts'[n] = e /\ e.server = s
      /\ Running(n)' <=> e.delivery = "checking"
      /\ \A i \in AlertPlaces : alerts'[i] = alerts[i]
      /\ \A i \in AlertPlaces : Running(i)' <=> Running(i)
  BY AddedPlaces
<1>3. posting' \in [GameServers -> Nat]
  BY <1>1
<1>4. \A t \in GameServers, i \in AlertPlaces : i \in QueuedPosts(t)' <=> i \in QueuedPosts(t)
  <2> TAKE t \in GameServers, i \in AlertPlaces
  <2>1. i \in QueuedPosts(t)' <=> i \in AlertPlaces' /\ alerts'[i].server = t /\ ~alerts'[i].auto /\ Running(i)'
    BY DEF QueuedPosts
  <2>2. i \in QueuedPosts(t) <=> i \in AlertPlaces /\ alerts[i].server = t /\ ~alerts[i].auto /\ Running(i)
    BY DEF QueuedPosts
  <2> QED BY <2>1, <2>2, <1>2
<1>5. \A t \in GameServers : n \in QueuedPosts(t)' <=> (t = s /\ ~e.auto /\ e.delivery = "checking")
  <2> TAKE t \in GameServers
  <2>1. n \in QueuedPosts(t)' <=> n \in AlertPlaces' /\ alerts'[n].server = t /\ ~alerts'[n].auto /\ Running(n)'
    BY DEF QueuedPosts
  <2> QED BY <2>1, <1>2
<1>6. \A t \in GameServers : QueuedPosts(t)' \subseteq AlertPlaces' /\ QueuedPosts(t) \subseteq AlertPlaces
  BY DEF QueuedPosts
<1>7. CASE ~e.auto /\ e.delivery = "checking"
  <2>1. /\ QueuedPosts(s)' = QueuedPosts(s) \cup {n} /\ n \notin QueuedPosts(s) /\ QueuedPosts(s) \subseteq AlertPlaces
        /\ \A t \in GameServers : t # s => QueuedPosts(t)' = QueuedPosts(t)
    <3>1. QueuedPosts(s)' = QueuedPosts(s) \cup {n} /\ n \notin QueuedPosts(s) /\ QueuedPosts(s) \subseteq AlertPlaces
      BY <1>2, <1>4, <1>5, <1>6, <1>7
    <3>2. ASSUME NEW t \in GameServers, t # s PROVE QueuedPosts(t)' = QueuedPosts(t)
      <4>1. n \notin QueuedPosts(t)' /\ QueuedPosts(t)' \subseteq AlertPlaces \cup {n} /\ QueuedPosts(t) \subseteq AlertPlaces
        BY <3>2, <1>2, <1>5, <1>6
      <4>2. \A i \in AlertPlaces : i \in QueuedPosts(t)' <=> i \in QueuedPosts(t)
        BY <1>4
      <4> HIDE DEF QueuedPosts
      <4> QED BY <4>1, <4>2
    <3> QED BY <3>1, <3>2
  <2>2. Cardinality(QueuedPosts(s) \cup {n}) = Cardinality(QueuedPosts(s)) + 1
    BY <2>1, PlacesFinite, FS_AddElement DEF AlertsInv
  <2>3. /\ posting'[s] = posting[s] + 1 /\ posting[s] < PostsMax /\ posting[s] \in Nat
        /\ \A t \in GameServers : t # s => posting'[t] = posting[t]
    BY <1>1, <1>7
  <2>4. posting'[s] = Cardinality(QueuedPosts(s)') /\ posting'[s] <= PostsMax
    BY <2>1, <2>2, <2>3, <1>1
  <2>5. \A t \in GameServers : t # s => posting'[t] = Cardinality(QueuedPosts(t)') /\ posting'[t] <= PostsMax
    BY <2>1, <2>3, <1>1
  <2> QED BY <2>4, <2>5, <1>3 DEF QueueCounted
<1>8. CASE ~(~e.auto /\ e.delivery = "checking")
  <2>1. posting' = posting
    BY <1>8
  <2>2. ASSUME NEW t \in GameServers PROVE QueuedPosts(t)' = QueuedPosts(t)
    <3>1. n \notin QueuedPosts(t)' /\ QueuedPosts(t)' \subseteq AlertPlaces \cup {n} /\ QueuedPosts(t) \subseteq AlertPlaces
      BY <1>2, <1>5, <1>6, <1>8
    <3>2. \A i \in AlertPlaces : i \in QueuedPosts(t)' <=> i \in QueuedPosts(t)
      BY <1>4
    <3> QED BY <3>1, <3>2
  <2> QED BY <2>1, <2>2, <1>1, <1>3 DEF QueueCounted
<1> QED BY <1>7, <1>8

LEMMA QueueKept ==
  ASSUME AlertsInv, NEW i \in AlertPlaces, OthersKept(i), Running(i)' <=> Running(i), posting' = posting
  PROVE  QueueCounted'
<1>1. /\ AlertPlaces' = AlertPlaces
      /\ \A j \in AlertPlaces : /\ alerts'[j].server = alerts[j].server /\ alerts'[j].auto = alerts[j].auto
                                /\ Running(j)' <=> Running(j)
  BY DEF OthersKept, AlertPlaces, Running
<1>2. \A t \in GameServers : QueuedPosts(t)' = QueuedPosts(t)
  BY <1>1 DEF QueuedPosts
<1> QED BY <1>2 DEF AlertsInv, QueueCounted

LEMMA QueueEnded ==
  ASSUME AlertsInv, NEW i \in AlertPlaces, NEW fate \in {"failed", "posted"}, Ended(i, fate), Running(i),
         NEW s, s = alerts[i].server
  PROVE  QueueCounted' /\ posting' \in [GameServers -> Nat]
<1>1. /\ PostsMax \in Nat /\ posting \in [GameServers -> Nat] /\ s \in GameServers
      /\ \A t \in GameServers : posting[t] = Cardinality(QueuedPosts(t)) /\ posting[t] <= PostsMax
  BY PlaceTypes, AlertFields, DeliveryAssumption DEF AlertsInv, AlertTypes, QueueCounted
<1>2. /\ AlertPlaces' = AlertPlaces /\ ~Running(i)'
      /\ \A j \in AlertPlaces : /\ alerts'[j].server = alerts[j].server /\ alerts'[j].auto = alerts[j].auto
                                /\ j # i => (Running(j)' <=> Running(j))
  BY EndKeeps DEF OthersKept, AlertPlaces, Running
<1>3. CASE alerts[i].auto
  <2>1. posting' = posting /\ \A t \in GameServers : QueuedPosts(t)' = QueuedPosts(t)
    BY <1>2, <1>3 DEF QueuedPosts, Ended
  <2> QED BY <2>1, <1>1 DEF QueueCounted
<1>4. CASE ~alerts[i].auto
  <2>1. /\ QueuedPosts(s)' = QueuedPosts(s) \ {i} /\ i \in QueuedPosts(s) /\ QueuedPosts(s) \subseteq AlertPlaces
        /\ \A t \in GameServers : t # s => QueuedPosts(t)' = QueuedPosts(t)
    BY <1>2, <1>4 DEF QueuedPosts
  <2>2. /\ Cardinality(QueuedPosts(s) \ {i}) = Cardinality(QueuedPosts(s)) - 1
        /\ IsFiniteSet(QueuedPosts(s) \ {i})
    BY <2>1, PlacesFinite, FS_RemoveElement DEF AlertsInv
  <2>3. Cardinality(QueuedPosts(s) \ {i}) \in Nat
    BY <2>2, FS_CardinalityType
  <2>4. posting' = [posting EXCEPT ![s] = posting[s] - 1]
    BY <1>4 DEF Ended
  <2>5. posting[s] - 1 \in Nat
    BY <2>2, <2>3, <1>1
  <2>6. /\ posting'[s] = posting[s] - 1 /\ posting' \in [GameServers -> Nat]
        /\ \A t \in GameServers : t # s => posting'[t] = posting[t]
    BY <2>4, <2>5, <1>1
  <2>7. posting'[s] = Cardinality(QueuedPosts(s)') /\ posting'[s] <= PostsMax
    BY <2>1, <2>2, <2>6, <1>1
  <2>8. \A t \in GameServers : t # s => posting'[t] = Cardinality(QueuedPosts(t)') /\ posting'[t] <= PostsMax
    BY <2>1, <2>6, <1>1
  <2>9. QueueCounted'
    <3> SUFFICES ASSUME NEW t \in GameServers
                 PROVE  posting'[t] = Cardinality(QueuedPosts(t)') /\ posting'[t] <= PostsMax
      BY DEF QueueCounted
    <3>1. CASE t = s
      <4>1. QueuedPosts(t)' = QueuedPosts(s)'
        BY <3>1
      <4> QED BY <2>7, <3>1, <4>1
    <3>2. CASE t # s
      BY <2>8, <3>2
    <3> QED BY <3>1, <3>2
  <2> QED BY <2>6, <2>9
<1> QED BY <1>3, <1>4

\* A step that reserves no ping keeps the reservations apart if the last one stays as late as those that remain.
LEMMA PingsKept ==
  ASSUME AlertsInv,
         \A j \in AlertPlaces' : Pinging(j)' =>
           /\ j \in AlertPlaces /\ Pinging(j) /\ alerts'[j].at = alerts[j].at /\ alerts[j].at <= lastPing'
           /\ alerts'[j].delivery = "sending"
                => alerts[j].delivery = "sending" /\ alerts'[j].previous = alerts[j].previous
  PROVE  PingsReserved'
<1>1. /\ \A i, j \in AlertPlaces : i < j /\ Pinging(i) /\ Pinging(j) => Apart(i, j, PingGap)
      /\ \A i, j \in AlertPlaces :
           /\ Pinging(i) /\ alerts[i].delivery = "sending" /\ Pinging(j) /\ alerts[j].at < alerts[i].at
           => alerts[j].at <= alerts[i].previous
  BY DEF AlertsInv, PingsReserved
<1>2. \A i \in AlertPlaces' : Pinging(i)' => alerts'[i].at <= lastPing'
  OBVIOUS
<1>3. \A i, j \in AlertPlaces' : i < j /\ Pinging(i)' /\ Pinging(j)' => Apart(i, j, PingGap)'
  BY <1>1 DEF Apart
<1>4. \A i, j \in AlertPlaces' :
        /\ Pinging(i)' /\ alerts'[i].delivery = "sending" /\ Pinging(j)' /\ alerts'[j].at < alerts'[i].at
        => alerts'[j].at <= alerts'[i].previous
  <2> SUFFICES ASSUME NEW i \in AlertPlaces', NEW j \in AlertPlaces', Pinging(i)', alerts'[i].delivery = "sending",
                      Pinging(j)', alerts'[j].at < alerts'[i].at
               PROVE  alerts'[j].at <= alerts'[i].previous
    OBVIOUS
  <2>1. /\ i \in AlertPlaces /\ Pinging(i) /\ alerts'[i].at = alerts[i].at
        /\ alerts[i].delivery = "sending" /\ alerts'[i].previous = alerts[i].previous
    OBVIOUS
  <2>2. j \in AlertPlaces /\ Pinging(j) /\ alerts'[j].at = alerts[j].at
    OBVIOUS
  <2> QED BY <2>1, <2>2, <1>1
<1> QED BY <1>2, <1>3, <1>4 DEF PingsReserved

LEMMA PingsAdded ==
  ASSUME AlertsInv, NEW s \in GameServers, NEW k \in AlertKeys, NEW e, Added(s, k, e), lastPing' = lastPing,
         NEW n, n = Len(alerts) + 1
  PROVE  PingsReserved'
<1>1. /\ AlertPlaces' = AlertPlaces \cup {n} /\ alerts'[n] = e
      /\ \A j \in AlertPlaces : alerts'[j] = alerts[j]
  BY AddedPlaces
<1>2. ~Pinging(n)'
  BY <1>1 DEF Added, Pinging
<1>3. \A j \in AlertPlaces : (Pinging(j)' <=> Pinging(j)) /\ (Pinging(j) => alerts[j].at <= lastPing)
  BY <1>1 DEF Pinging, AlertsInv, PingsReserved
<1>4. \A j \in AlertPlaces' : Pinging(j)' =>
        /\ j \in AlertPlaces /\ Pinging(j) /\ alerts'[j].at = alerts[j].at /\ alerts[j].at <= lastPing'
        /\ alerts'[j].delivery = "sending"
             => alerts[j].delivery = "sending" /\ alerts'[j].previous = alerts[j].previous
  BY <1>1, <1>2, <1>3
<1> QED BY <1>4, PingsKept

\* The end of a post: nothing is reserved anew, and a ping given back is later than the others still reserved.
LEMMA PingsEnded ==
  ASSUME AlertsInv, NEW i \in AlertPlaces, NEW fate \in {"failed", "posted"}, Ended(i, fate),
         fate = "posted" => alerts[i].delivery = "sending",
         \/ lastPing' = lastPing
         \/ /\ fate = "failed" /\ alerts[i].delivery = "sending" /\ GivesBack(i)
            /\ lastPing' = alerts[i].previous
  PROVE  PingsReserved'
<1>1. /\ AlertPlaces' = AlertPlaces
      /\ alerts'[i].at = alerts[i].at /\ alerts'[i].delivery = fate
      /\ alerts'[i].ping <=> (alerts[i].ping /\ fate = "posted")
      /\ \A j \in AlertPlaces : j # i => alerts'[j] = alerts[j]
  BY EndKeeps DEF OthersKept, AlertPlaces
<1>2. Pinging(i)' => Pinging(i) /\ fate = "posted"
  BY <1>1 DEF Pinging
<1>3. \A j \in AlertPlaces : j # i => (Pinging(j)' <=> Pinging(j))
  BY <1>1 DEF Pinging
<1>4. \A j \in AlertPlaces : alerts[j].at \in Nat
  BY PlaceTypes, AlertFields DEF AlertsInv
<1>5. \A j \in AlertPlaces : Pinging(j) => alerts[j].at <= lastPing
  BY DEF AlertsInv, PingsReserved
<1>6. ASSUME NEW j \in AlertPlaces, Pinging(j)' PROVE alerts[j].at <= lastPing'
  <2>1. CASE lastPing' = lastPing
    BY <2>1, <1>2, <1>3, <1>5, <1>6
  <2>2. CASE /\ fate = "failed" /\ alerts[i].delivery = "sending" /\ GivesBack(i)
             /\ lastPing' = alerts[i].previous
    <3>1. j # i /\ Pinging(j) /\ Pinging(i) /\ lastPing = alerts[i].at
      BY <2>2, <1>2, <1>3, <1>6 DEF GivesBack, Pinging
    <3>2. alerts[j].at # alerts[i].at
      <4>1. i \in Nat /\ j \in Nat /\ PingGap \in Nat /\ PingGap > 0
        BY DeliveryAssumption DEF AlertPlaces
      <4>2. i < j => alerts[j].at - alerts[i].at >= PingGap
        BY <3>1 DEF AlertsInv, PingsReserved, Apart
      <4>3. j < i => alerts[i].at - alerts[j].at >= PingGap
        BY <3>1 DEF AlertsInv, PingsReserved, Apart
      <4> QED BY <4>1, <4>2, <4>3, <3>1, <1>4
    <3>3. alerts[j].at < alerts[i].at
      BY <3>1, <3>2, <1>4, <1>5
    <3> QED BY <3>1, <3>3, <2>2 DEF AlertsInv, PingsReserved
  <2> QED BY <2>1, <2>2
<1>7. \A j \in AlertPlaces' : Pinging(j)' =>
        /\ j \in AlertPlaces /\ Pinging(j) /\ alerts'[j].at = alerts[j].at /\ alerts[j].at <= lastPing'
        /\ alerts'[j].delivery = "sending"
             => alerts[j].delivery = "sending" /\ alerts'[j].previous = alerts[j].previous
  <2> SUFFICES ASSUME NEW j \in AlertPlaces, Pinging(j)'
               PROVE  /\ Pinging(j) /\ alerts'[j].at = alerts[j].at /\ alerts[j].at <= lastPing'
                      /\ alerts'[j].delivery = "sending"
                           => alerts[j].delivery = "sending" /\ alerts'[j].previous = alerts[j].previous
    BY <1>1
  <2>1. alerts[j].at <= lastPing'
    BY <1>6
  <2>2. CASE j = i
    BY <2>1, <2>2, <1>1, <1>2
  <2>3. CASE j # i
    BY <2>1, <2>3, <1>1, <1>3
  <2> QED BY <2>2, <2>3
<1> QED BY <1>7, PingsKept

\* The check before a send: a ping is reserved only the interval after the last one.
LEMMA PingsChecked ==
  ASSUME AlertsInv, NEW i \in AlertPlaces, alerts[i].delivery = "checking", NEW ping \in BOOLEAN,
         alerts' = [alerts EXCEPT ![i].delivery = "sending", ![i].ping = ping, ![i].previous = lastPing],
         ping => PingDue(i), lastPing' = IF ping THEN alerts[i].at ELSE lastPing
  PROVE  PingsReserved'
<1>1. /\ AlertPlaces' = AlertPlaces
      /\ alerts'[i].at = alerts[i].at /\ alerts'[i].delivery = "sending" /\ alerts'[i].ping = ping
      /\ alerts'[i].previous = lastPing
      /\ \A j \in AlertPlaces : j # i => alerts'[j] = alerts[j]
  BY CheckKeeps DEF OthersKept, AlertPlaces
<1>2. (Pinging(i)' <=> ping) /\ ~Pinging(i)
  BY <1>1 DEF Pinging
<1>3. \A j \in AlertPlaces : j # i => (Pinging(j)' <=> Pinging(j))
  BY <1>1 DEF Pinging
<1>4. /\ \A j \in AlertPlaces : alerts[j].at \in Nat
      /\ PingGap \in Int /\ PingGap > 0 /\ lastPing \in Moments /\ \A j \in AlertPlaces : j \in Nat
  BY PlaceTypes, AlertFields, DeliveryAssumption DEF AlertsInv, AlertTypes, AlertPlaces
<1>5. \A j \in AlertPlaces : Pinging(j) => alerts[j].at <= lastPing
  BY DEF AlertsInv, PingsReserved
<1>6. /\ alerts'[i].at = alerts[i].at
      /\ \A j \in AlertPlaces : j # i => alerts'[j] = alerts[j]
  BY <1>1
<1>7. CASE ~ping
  <2>1. \A j \in AlertPlaces' : Pinging(j)' =>
          /\ j \in AlertPlaces /\ Pinging(j) /\ alerts'[j].at = alerts[j].at /\ alerts[j].at <= lastPing'
          /\ alerts'[j].delivery = "sending"
               => alerts[j].delivery = "sending" /\ alerts'[j].previous = alerts[j].previous
    BY <1>1, <1>2, <1>3, <1>5, <1>7
  <2> QED BY <2>1, PingsKept
<1>8. CASE ping
  <2>1. lastPing' = alerts[i].at
    BY <1>8
  <2>2. \A j \in AlertPlaces : Pinging(j) => /\ alerts[j].at <= alerts[i].at - PingGap
                                             /\ alerts[j].at < alerts[i].at
    <3> SUFFICES ASSUME NEW j \in AlertPlaces, Pinging(j) PROVE alerts[j].at <= alerts[i].at - PingGap
      BY <1>4
    <3>1. alerts[j].at <= lastPing
      BY <1>5
    <3>2. lastPing # Never
      BY <3>1, <1>4 DEF Never
    <3>3. alerts[i].at - lastPing >= PingGap
      BY <3>2, <1>8 DEF PingDue
    <3>4. lastPing \in Nat
      BY <3>2, <1>4 DEF Moments
    <3> QED BY <3>1, <3>3, <3>4, <1>4
  <2>3. \A j \in AlertPlaces' : Pinging(j)' => alerts'[j].at <= lastPing'
    <3> SUFFICES ASSUME NEW j \in AlertPlaces, Pinging(j)' PROVE alerts'[j].at <= lastPing'
      BY <1>1
    <3>1. CASE j = i
      BY <3>1, <2>1, <1>1, <1>4
    <3>2. CASE j # i
      <4>1. Pinging(j) /\ alerts'[j] = alerts[j]
        BY <3>2, <1>3, <1>6
      <4>2. alerts[j].at < alerts[i].at /\ alerts[j].at \in Nat /\ alerts[i].at \in Nat
        BY <4>1, <2>2, <1>4
      <4> QED BY <4>1, <4>2, <2>1
    <3> QED BY <3>1, <3>2
  <2>4. \A j, m \in AlertPlaces' : j < m /\ Pinging(j)' /\ Pinging(m)' => Apart(j, m, PingGap)'
    <3> SUFFICES ASSUME NEW j \in AlertPlaces, NEW m \in AlertPlaces, j < m, Pinging(j)', Pinging(m)'
                 PROVE  alerts'[m].at - alerts'[j].at >= PingGap
      BY <1>1 DEF Apart
    <3>1. CASE m = i
      <4>1. j # i /\ Pinging(j) /\ alerts'[j].at = alerts[j].at /\ alerts'[m].at = alerts[i].at
        <5>1. j # i
          BY <3>1, <1>4
        <5> QED BY <5>1, <3>1, <1>3, <1>6
      <4> QED BY <4>1, <2>2, <1>4
    <3>2. CASE j = i
      <4>1. m # i /\ Pinging(m)
        BY <3>2, <1>3, <1>4
      <4>2. alerts[m].at < alerts[i].at
        BY <4>1, <2>2
      <4>3. alerts[i].at <= alerts[m].at
        BY <3>2 DEF AlertsInv, AlertsInOrder
      <4> QED BY <4>2, <4>3, <1>4
    <3>3. CASE j # i /\ m # i
      <4>1. Pinging(j) /\ Pinging(m) /\ alerts'[j] = alerts[j] /\ alerts'[m] = alerts[m]
        BY <3>3, <1>1, <1>3
      <4> QED BY <4>1 DEF AlertsInv, PingsReserved, Apart
    <3> QED BY <3>1, <3>2, <3>3
  <2>5. \A j, m \in AlertPlaces' :
          /\ Pinging(j)' /\ alerts'[j].delivery = "sending" /\ Pinging(m)' /\ alerts'[m].at < alerts'[j].at
          => alerts'[m].at <= alerts'[j].previous
    <3> SUFFICES ASSUME NEW j \in AlertPlaces, NEW m \in AlertPlaces, Pinging(j)', alerts'[j].delivery = "sending",
                        Pinging(m)', alerts'[m].at < alerts'[j].at
                 PROVE  alerts'[m].at <= alerts'[j].previous
      BY <1>1
    <3>1. CASE j = i
      <4>1. m # i /\ Pinging(m) /\ alerts'[m].at = alerts[m].at
        <5>1. m # i
          <6>1. alerts'[j].at = alerts[i].at /\ alerts[i].at \in Nat
            BY <3>1, <1>4, <1>6
          <6>2. ~(alerts[i].at < alerts[i].at)
            BY <6>1
          <6>3. m = i => alerts'[m].at < alerts'[j].at /\ alerts'[m].at = alerts[i].at
            BY <1>6
          <6> QED BY <6>1, <6>2, <6>3
        <5> QED BY <5>1, <1>3, <1>6
      <4> QED BY <4>1, <3>1, <1>1, <1>5
    <3>2. CASE m = i /\ j # i
      <4>1. Pinging(j) /\ alerts'[j].at = alerts[j].at /\ alerts'[m].at = alerts[i].at
        BY <3>2, <1>1, <1>3
      <4>2. alerts[j].at < alerts[i].at
        BY <4>1, <2>2
      <4> QED BY <4>1, <4>2, <1>4
    <3>3. CASE j # i /\ m # i
      <4>1. Pinging(j) /\ Pinging(m) /\ alerts'[j] = alerts[j] /\ alerts'[m] = alerts[m]
        BY <3>3, <1>1, <1>3
      <4> QED BY <4>1 DEF AlertsInv, PingsReserved
    <3> QED BY <3>1, <3>2, <3>3
  <2> QED BY <2>3, <2>4, <2>5 DEF PingsReserved
<1> QED BY <1>7, <1>8

-----------------------------------------------------------------------------
(* Every step keeps the invariant *)

LEMMA AlertsStart ==
  DeliveryInit => AlertsInv
<1> SUFFICES ASSUME DeliveryInit PROVE AlertsInv
  OBVIOUS
<1>1. alerts = <<>> /\ AlertPlaces = {} /\ clock = 0 /\ LastAlertTime \in Nat /\ MaxAlerts \in Nat
      /\ PerHour \in Nat /\ PostsMax \in Nat
  BY DeliveryAssumption DEF DeliveryInit, AlertPlaces
<1>2. AlertTypes
  BY <1>1 DEF AlertTypes, DeliveryInit, Moments
<1>3. AlertsInOrder /\ PingsReserved
  BY <1>1 DEF AlertsInOrder, NoRepeats, PingsReserved, AlertPlaces
<1>4. Cardinality({}) = 0
  BY FS_EmptySet
<1>5. HourListed
  BY <1>1, <1>4 DEF HourListed, DeliveryInit
<1>6. HoursBounded
  <2>1. \A s \in GameServers, from \in 0 .. LastAlertTime : InHour(s, from) = {}
    BY <1>1 DEF InHour
  <2>2. ASSUME NEW s \in GameServers, NEW from \in 0 .. LastAlertTime PROVE Cardinality(InHour(s, from)) <= PerHour
    <3>1. Cardinality(InHour(s, from)) = 0
      BY <2>1, <1>4
    <3> QED BY <3>1, <1>1
  <2> QED BY <2>2 DEF HoursBounded
<1>7. QueueCounted
  <2>1. \A s \in GameServers : QueuedPosts(s) = {} /\ posting[s] = 0
    BY <1>1 DEF QueuedPosts, DeliveryInit
  <2>2. ASSUME NEW s \in GameServers PROVE posting[s] = Cardinality(QueuedPosts(s)) /\ posting[s] <= PostsMax
    <3>1. Cardinality(QueuedPosts(s)) = 0 /\ posting[s] = 0
      BY <2>1, <1>4
    <3> QED BY <3>1, <1>1
  <2> QED BY <2>2 DEF QueueCounted
<1> QED BY <1>2, <1>3, <1>5, <1>6, <1>7 DEF AlertsInv

LEMMA RaiseStep ==
  ASSUME AlertsInv, NEW s \in GameServers, NEW k \in AlertKeys, Raise(s, k)
  PROVE  AlertsInv'
<1>1. PICK auto \in BOOLEAN, high \in BOOLEAN :
        LET backlog == ~auto /\ posting[s] >= PostsMax
            delivery == Delivery(s, auto, backlog) IN
        /\ ~Repeats(s, k) /\ Len(alerts) < MaxAlerts
        /\ raised' = [raised EXCEPT ![<<s, k>>] = clock]
        /\ alerts' = Append(alerts, [server |-> s, key |-> k, at |-> clock, auto |-> auto, high |-> high,
                                     delivery |-> delivery, ping |-> FALSE, previous |-> Never])
        /\ recentPosts' = IF backlog \/ delivery = "snoozed" THEN recentPosts
                          ELSE [recentPosts EXCEPT
                                  ![s] = IF delivery = "checking" THEN Recent(s) \cup {Len(alerts) + 1} ELSE Recent(s)]
        /\ posting' = IF ~auto /\ delivery = "checking" THEN [posting EXCEPT ![s] = posting[s] + 1] ELSE posting
        /\ UNCHANGED <<clock, snoozedTo, lastPing>>
  BY DEF Raise
<1>2. PICK backlog \in BOOLEAN : backlog <=> (~auto /\ posting[s] >= PostsMax)
  OBVIOUS
<1>3. PICK delivery : delivery = Delivery(s, auto, ~auto /\ posting[s] >= PostsMax)
  OBVIOUS
<1>4. /\ delivery \in {"snoozed", "suppressed", "checking"}
      /\ delivery = "checking" => ~backlog /\ ~FullHour(s)
  BY <1>2, <1>3 DEF Delivery
<1>5. PICK e : e = [server |-> s, key |-> k, at |-> clock, auto |-> auto, high |-> high,
                    delivery |-> delivery, ping |-> FALSE, previous |-> Never]
  OBVIOUS
<1>6. e.auto = auto /\ e.delivery = delivery
  BY <1>5
<1>7. PICK n : n = Len(alerts) + 1
  OBVIOUS
<1>8. /\ ~Repeats(s, k) /\ Len(alerts) < MaxAlerts
      /\ raised' = [raised EXCEPT ![<<s, k>>] = clock] /\ alerts' = Append(alerts, e)
      /\ clock' = clock /\ lastPing' = lastPing
  BY <1>1, <1>3, <1>5
<1>9. recentPosts' = IF backlog \/ delivery = "snoozed" THEN recentPosts
                     ELSE [recentPosts EXCEPT
                             ![s] = IF delivery = "checking" THEN Recent(s) \cup {n} ELSE Recent(s)]
  BY <1>1, <1>2, <1>3, <1>7
<1>10. posting' = IF ~e.auto /\ e.delivery = "checking" THEN [posting EXCEPT ![s] = posting[s] + 1] ELSE posting
  BY <1>1, <1>3, <1>6
<1>11. Added(s, k, e)
  BY <1>4, <1>5, <1>8, RaiseAdds
<1>12. AlertsInOrder'
  BY <1>8, <1>11, AddedInOrder
<1>13. \/ e.delivery # "checking" /\ recentPosts' \in {recentPosts, [recentPosts EXCEPT ![s] = Recent(s)]}
       \/ /\ e.delivery = "checking" /\ ~FullHour(s)
          /\ recentPosts' = [recentPosts EXCEPT ![s] = Recent(s) \cup {n}]
  BY <1>4, <1>6, <1>9
<1>14. HourListed' /\ HoursBounded' /\ recentPosts' \in [GameServers -> SUBSET (AlertPlaces')]
  BY <1>7, <1>8, <1>11, <1>13, HourAdded
<1>15. ~e.auto /\ e.delivery = "checking" => posting[s] < PostsMax
  <2>1. posting[s] \in Nat /\ PostsMax \in Nat
    BY DeliveryAssumption DEF AlertsInv, AlertTypes
  <2> QED BY <2>1, <1>2, <1>4, <1>6
<1>16. QueueCounted' /\ posting' \in [GameServers -> Nat]
  BY <1>7, <1>10, <1>11, <1>15, QueueAdded
<1>17. PingsReserved'
  BY <1>7, <1>8, <1>11, PingsAdded
<1>18. AlertTypes'
  <2>1. /\ clock \in 0 .. LastAlertTime /\ LastAlertTime \in Nat /\ raised \in [GameServers \X AlertKeys -> Moments]
        /\ lastPing \in Moments /\ Len(alerts) \in Nat /\ MaxAlerts \in Nat
    BY PlaceTypes, DeliveryAssumption DEF AlertsInv, AlertTypes
  <2>2. clock' \in 0 .. LastAlertTime /\ lastPing' \in Moments
    BY <2>1, <1>8
  <2>3. raised' \in [GameServers \X AlertKeys -> Moments]
    BY <2>1, <1>8 DEF Moments
  <2>4. alerts' \in Seq(AlertSet) /\ Len(alerts') <= MaxAlerts
    BY <2>1, <1>8, <1>11 DEF Added
  <2> QED BY <2>2, <2>3, <2>4, <1>14, <1>16 DEF AlertTypes
<1> QED BY <1>12, <1>14, <1>16, <1>17, <1>18 DEF AlertsInv

LEMMA KeptTypes ==
  ASSUME AlertsInv, NEW i \in AlertPlaces, OthersKept(i), UNCHANGED <<clock, raised, recentPosts>>,
         lastPing' \in Moments, posting' \in [GameServers -> Nat]
  PROVE  AlertTypes'
<1>1. AlertPlaces' = AlertPlaces /\ alerts' \in Seq(AlertSet) /\ Len(alerts') = Len(alerts)
  BY DEF OthersKept, AlertPlaces
<1> QED BY <1>1 DEF AlertsInv, AlertTypes

LEMMA CheckedStep ==
  ASSUME AlertsInv, NEW i \in AlertPlaces, Checked(i)
  PROVE  AlertsInv'
<1>1. PICK roleUsable \in BOOLEAN :
        LET ping == PingDue(i) /\ roleUsable IN
        /\ alerts' = [alerts EXCEPT ![i].delivery = "sending", ![i].ping = ping, ![i].previous = lastPing]
        /\ lastPing' = IF ping THEN Reserved(alerts[i].at) ELSE lastPing
  BY DEF Checked
<1>2. PICK ping \in BOOLEAN : ping = (PingDue(i) /\ roleUsable)
  BY DEF PingDue
<1>3. /\ alerts' = [alerts EXCEPT ![i].delivery = "sending", ![i].ping = ping, ![i].previous = lastPing]
      /\ lastPing' = IF ping THEN alerts[i].at ELSE lastPing
      /\ ping => PingDue(i)
  BY <1>1, <1>2 DEF Reserved
<1>4. alerts[i].delivery = "checking" /\ UNCHANGED <<clock, raised, recentPosts, snoozedTo, posting>>
  BY DEF Checked
<1>5. OthersKept(i) /\ alerts'[i].delivery = "sending"
  BY <1>3, CheckKeeps
<1>6. PingsReserved'
  BY <1>2, <1>3, <1>4, PingsChecked
<1>7. Tried(i) /\ Tried(i)' /\ Running(i) /\ Running(i)'
  BY <1>4, <1>5 DEF Tried, Running
<1>8. AlertsInOrder' /\ HourListed' /\ HoursBounded' /\ QueueCounted'
  BY <1>4, <1>5, <1>7, KeptInOrder, HourKept, QueueKept
<1>9. lastPing' \in Moments /\ posting' \in [GameServers -> Nat]
  BY <1>3, <1>4, PlaceTypes, AlertFields DEF AlertsInv, AlertTypes, Moments
<1>10. AlertTypes'
  BY <1>4, <1>5, <1>9, KeptTypes
<1> QED BY <1>6, <1>8, <1>10 DEF AlertsInv

LEMMA EndedStep ==
  ASSUME AlertsInv, NEW i \in AlertPlaces, Refused(i) \/ SendSucceeds(i) \/ SendFails(i)
  PROVE  AlertsInv'
<1>1. PICK fate \in {"failed", "posted"} :
        /\ Ended(i, fate) /\ alerts[i].delivery \in {"checking", "sending"}
        /\ fate = "posted" => alerts[i].delivery = "sending"
        /\ \/ lastPing' = lastPing
           \/ /\ fate = "failed" /\ alerts[i].delivery = "sending" /\ GivesBack(i)
              /\ lastPing' = alerts[i].previous
        /\ UNCHANGED <<clock, raised, recentPosts, snoozedTo>>
  <2>1. CASE Refused(i)
    BY <2>1 DEF Refused
  <2>2. CASE SendSucceeds(i)
    BY <2>2 DEF SendSucceeds
  <2>3. CASE SendFails(i)
    BY <2>3 DEF SendFails
  <2> QED BY <2>1, <2>2, <2>3
<1>2. OthersKept(i) /\ alerts'[i].delivery = fate
  BY <1>1, EndKeeps
<1>3. Running(i) /\ Tried(i) /\ Tried(i)'
  BY <1>1, <1>2 DEF Running, Tried
<1>4. AlertsInOrder' /\ HourListed' /\ HoursBounded'
  BY <1>1, <1>2, <1>3, KeptInOrder, HourKept
<1>5. QueueCounted' /\ posting' \in [GameServers -> Nat]
  BY <1>1, <1>3, QueueEnded
<1>6. PingsReserved'
  BY <1>1, PingsEnded
<1>7. lastPing' \in Moments
  BY <1>1, PlaceTypes, AlertFields DEF AlertsInv, AlertTypes
<1>8. AlertTypes'
  BY <1>1, <1>2, <1>5, <1>7, KeptTypes
<1> QED BY <1>4, <1>5, <1>6, <1>8 DEF AlertsInv

\* A later clock only lets alerts fall out of the hour.
LEMMA ClockStep ==
  ASSUME AlertsInv, clock' \in 0 .. LastAlertTime, clock <= clock',
         UNCHANGED <<raised, recentPosts, lastPing, alerts, posting>>
  PROVE  AlertsInv'
<1>1. /\ clock \in Nat /\ clock' \in Nat /\ AlertHour \in Nat /\ AlertPlaces' = AlertPlaces
      /\ \A i \in AlertPlaces : alerts[i].at \in Nat
  BY PlaceTypes, AlertFields, DeliveryAssumption DEF AlertsInv, AlertTypes, AlertPlaces
<1>2. AlertTypes'
  BY <1>1 DEF AlertsInv, AlertTypes
<1>3. NoRepeats'
  BY <1>1 DEF AlertsInv, AlertsInOrder, NoRepeats, Apart
<1>4. AlertsInOrder'
  BY <1>1, <1>3 DEF AlertsInv, AlertsInOrder
<1>5. \A i \in AlertPlaces : (Tried(i)' <=> Tried(i)) /\ (clock' - alerts[i].at < AlertHour
                                                        => clock - alerts[i].at < AlertHour)
  BY <1>1 DEF Tried
<1>6. HourListed'
  BY <1>1, <1>5 DEF AlertsInv, HourListed
<1>7. \A s \in GameServers, from \in 0 .. LastAlertTime : InHour(s, from)' = InHour(s, from)
  BY <1>1 DEF InHour, Tried
<1>8. HoursBounded'
  BY <1>7 DEF AlertsInv, HoursBounded
<1>9. \A s \in GameServers : QueuedPosts(s)' = QueuedPosts(s)
  BY <1>1 DEF QueuedPosts, Running
<1>10. QueueCounted'
  BY <1>9 DEF AlertsInv, QueueCounted
<1>11. \A i \in AlertPlaces : Pinging(i)' <=> Pinging(i)
  BY DEF Pinging
<1>12. PingsReserved'
  BY <1>1, <1>11 DEF AlertsInv, PingsReserved, Apart
<1> QED BY <1>2, <1>4, <1>6, <1>8, <1>10, <1>12 DEF AlertsInv

LEMMA AlertsStep ==
  AlertsInv /\ [DeliveryNext]_deliveryVars => AlertsInv'
<1> SUFFICES ASSUME AlertsInv, [DeliveryNext]_deliveryVars PROVE AlertsInv'
  OBVIOUS
<1>1. CASE \E s \in GameServers, k \in AlertKeys : Raise(s, k)
  BY <1>1, RaiseStep
<1>2. CASE \E i \in 1 .. Len(alerts) : Checked(i) \/ Refused(i) \/ SendSucceeds(i) \/ SendFails(i)
  BY <1>2, CheckedStep, EndedStep DEF AlertPlaces
<1>3. CASE \E s \in GameServers : Snooze(s)
  <2>1. UNCHANGED <<clock, raised, recentPosts, lastPing, alerts, posting>>
    BY <1>3 DEF Snooze
  <2> QED BY <2>1, ClockStep, DeliveryAssumption DEF AlertsInv, AlertTypes
<1>4. CASE AlertTimePasses
  <2>1. /\ clock' = clock + 1 /\ clock < LastAlertTime
        /\ UNCHANGED <<raised, recentPosts, lastPing, alerts, posting>>
    BY <1>4 DEF AlertTimePasses
  <2>2. clock' \in 0 .. LastAlertTime /\ clock <= clock'
    BY <2>1, DeliveryAssumption DEF AlertsInv, AlertTypes
  <2> QED BY <2>1, <2>2, ClockStep
<1>5. CASE UNCHANGED deliveryVars
  <2>1. UNCHANGED <<clock, raised, recentPosts, lastPing, alerts, posting>>
    BY <1>5 DEF deliveryVars
  <2> QED BY <2>1, ClockStep, DeliveryAssumption DEF AlertsInv, AlertTypes
<1> QED BY <1>1, <1>2, <1>3, <1>4, <1>5 DEF DeliveryNext

LEMMA AlertsImplied ==
  AlertsInv => AlertsBounded
<1> SUFFICES ASSUME AlertsInv PROVE AlertsBounded
  OBVIOUS
<1>1. NoRepeats
  BY DEF AlertsInv, AlertsInOrder
<1>2. PingsSpaced
  <2> SUFFICES ASSUME NEW i \in AlertPlaces, NEW j \in AlertPlaces, i < j,
                      {alerts[i].delivery, alerts[j].delivery} = {"posted"}, alerts[i].ping, alerts[j].ping
               PROVE  Apart(i, j, PingGap)
    BY DEF PingsSpaced, AlertPlaces
  <2>1. Pinging(i) /\ Pinging(j)
    BY DEF Pinging
  <2> QED BY <2>1 DEF AlertsInv, PingsReserved
<1>3. FloodBounded
  <2>1. ASSUME NEW s \in GameServers, NEW from \in 0 .. LastAlertTime
        PROVE  Cardinality({i \in 1 .. Len(alerts) :
                              /\ alerts[i].server = s /\ Tried(i)
                              /\ alerts[i].at \in from .. from + AlertHour - 1}) <= PerHour
    BY DEF AlertsInv, HoursBounded, InHour, AlertPlaces
  <2>2. ASSUME NEW s \in GameServers
        PROVE  Cardinality({i \in 1 .. Len(alerts) : alerts[i].server = s /\ ~alerts[i].auto /\ Running(i)}) <= PostsMax
    <3>1. QueuedPosts(s) = {i \in 1 .. Len(alerts) : alerts[i].server = s /\ ~alerts[i].auto /\ Running(i)}
      BY DEF QueuedPosts, AlertPlaces
    <3>2. Cardinality(QueuedPosts(s)) <= PostsMax
      BY DEF AlertsInv, QueueCounted
    <3> QED BY <3>1, <3>2
  <2> QED BY <2>1, <2>2 DEF FloodBounded
<1> QED BY <1>1, <1>2, <1>3 DEF AlertsBounded

LEMMA AlertsTyped ==
  ASSUME AlertsInv
  PROVE  DeliveryTypeOK
<1>1. \A i \in 1 .. Len(alerts) : alerts[i].delivery \in Fates
  BY PlaceTypes, AlertFields DEF AlertsInv, AlertPlaces
<1> QED BY <1>1 DEF AlertsInv, AlertTypes, HourListed, DeliveryTypeOK, Fates

\* The records, lists and times of alerts keep their types, and no list is longer than its category allows
\* (the fields of staff-alerts.service.ts).
THEOREM AlertTypeCorrect == DeliverySpec => []DeliveryTypeOK
<1>1. DeliveryInit => AlertsInv
  BY AlertsStart
<1>2. AlertsInv /\ [DeliveryNext]_deliveryVars => AlertsInv'
  BY AlertsStep
<1>3. AlertsInv => DeliveryTypeOK
  BY AlertsTyped
<1> QED BY <1>1, <1>2, <1>3, PTL DEF DeliverySpec

\* Staff are not flooded, whatever the limits: one key is not recorded twice in its repeat window while the first
\* post still waits on Discord, two role mentions are the interval apart in whatever order their sends end or fail,
\* and no hour and no queue of a server goes over its limit (raise and post of staff-alerts.service.ts).
THEOREM StaffNotFlooded == DeliverySpec => []AlertsBounded
<1>1. DeliveryInit => AlertsInv
  BY AlertsStart
<1>2. AlertsInv /\ [DeliveryNext]_deliveryVars => AlertsInv'
  BY AlertsStep
<1>3. AlertsInv => AlertsBounded
  BY AlertsImplied
<1> QED BY <1>1, <1>2, <1>3, PTL DEF DeliverySpec

-----------------------------------------------------------------------------
(* A server's health *)

Outages == [since : Nat, failures : 0 .. 2, down : BOOLEAN, successes : 0 .. 1, first : Int]
Episodes == [start : Nat, pauses : Seq(Int \X Int), pausedSince : Int, notLow : Int,
             restart : BOOLEAN, prime : BOOLEAN]

HealthShape ==
  /\ readAt \in Nat /\ fullAt \in Int /\ fullAt <= readAt /\ boundary.at \in Int
  /\ seen = NotSeenYet \/ (seen \in [at : Nat, players : Counts, build : Builds] /\ seen.at <= readAt)
  /\ outage = NoOutage \/ (outage \in Outages /\ outage.failures # 0)
  /\ held = NotHeld \/ held \in [at : Nat, players : Counts]
  /\ episode = NoEpisode \/ (episode \in Episodes /\ Len(episode.pauses) <= MaxPauses)
  /\ failedLast \in BOOLEAN

\* Nobody has been seen on the server since the loss a held restart, or a single lost read, is about.
EmptySince ==
  /\ held # NotHeld => fullAt < held.at
  /\ outage # NoOutage /\ outage.failures = 1 /\ outage.successes = 0 => fullAt < outage.since

\* What was posted of an episode is what it remembers to have posted.
CallsKnown ==
  /\ episode = NoEpisode => called = {}
  /\ episode # NoEpisode =>
       /\ "restart" \in called <=> episode.restart
       /\ "prime" \in called <=> episode.prime

\* While the episode has forgotten no pause, every time it could not be read is in one.
Remembers(e, lost) == Len(e.pauses) < MaxPauses => \A t \in lost : t >= e.start => Paused(e, t)
PausesKnown ==
  /\ \A t \in blind : t \in Nat /\ t < readAt
  /\ episode # NoEpisode =>
       /\ failedLast => episode.pausedSince # NotYet
       /\ episode.pausedSince <= readAt
       /\ Remembers(episode, blind)

HealthInv == HealthShape /\ DownThenBack /\ EmptySince /\ CallsKnown /\ PausesKnown /\ wrong = {}

LEMMA Numbers ==
  /\ {ReadGap, HoldFor, DownAfter, RestartLimit, LowBelow, LowFor, LowWatch, LowEnd, PrimeFrom,
      PrimeTo, MaxPauses, LastRead} \subseteq Nat
  /\ Counts \subseteq Nat /\ \A gap \in Pauses : gap \in Nat \ {0}
BY HealthAssumption

LEMMA NothingKept ==
  /\ \A o \in Outages : o # NoOutage
  /\ \A e \in Episodes : e # NoEpisode
  /\ \A n \in Nat : [at |-> n] # NotHeld
  /\ \A h \in [at : Nat, players : Counts] : h # NotHeld
  /\ NotYet \notin Nat /\ NotYet \in Int
BY DEF Outages, Episodes, NoOutage, NoEpisode, NotHeld, NotYet

-----------------------------------------------------------------------------
(* The outage *)

LEMMA OutageFields ==
  ASSUME NEW T, NEW U, NEW S, NEW V, NEW W,
         NEW o \in [since : T, failures : U, down : S, successes : V, first : W],
         NEW u \in U, NEW d \in S, NEW v \in V, NEW w \in W
  PROVE  [o EXCEPT !.failures = u, !.down = d, !.successes = v, !.first = w]
         \in [since : T, failures : U, down : S, successes : V, first : W]
OBVIOUS

FailedOnce(o, f, d) == [o EXCEPT !.failures = f, !.down = d, !.successes = 0, !.first = NotYet]

LEMMA OutageFailed ==
  ASSUME NEW o \in Outages, NEW f \in 0 .. 2, NEW d \in BOOLEAN
  PROVE  /\ FailedOnce(o, f, d) \in Outages /\ FailedOnce(o, f, d).since = o.since
         /\ FailedOnce(o, f, d).failures = f /\ FailedOnce(o, f, d).down = d
         /\ FailedOnce(o, f, d).successes = 0
<1>1. 0 \in 0 .. 1 /\ NotYet \in Int
  BY DEF NotYet
<1> QED BY <1>1, OutageFields DEF Outages, FailedOnce

LEMMA FailedOutage ==
  ASSUME HealthShape, DownThenBack, EmptySince, NEW now \in Nat, readAt < now, Failed(now)
  PROVE  /\ outage' \in Outages /\ outage'.failures # 0 /\ DownThenBack' /\ EmptySince'
         /\ UNCHANGED <<seen, held, boundary, fullAt>>
<1> DEFINE fresh == [since |-> now, failures |-> 0, down |-> FALSE, successes |-> 0, first |-> NotYet]
           before == IF outage = NoOutage THEN fresh ELSE outage
           failures == Sooner(2, before.failures + 1)
           posts == ~before.down /\ failures >= 2 /\ now - before.since >= DownAfter
           after(d) == FailedOnce(before, failures, d)
<1>1. /\ outage' = after(before.down \/ posts) /\ downs' = (IF posts THEN downs + 1 ELSE downs)
      /\ UNCHANGED <<seen, held, boundary, fullAt>>
  BY DEF Failed, FailedOnce
<1>2. before \in Outages
  BY DEF HealthShape, Outages, NotYet
<1>3. before.down \in BOOLEAN /\ before.failures \in 0 .. 2 /\ before.since \in Nat
  <2> HIDE DEF before
  <2> QED BY <1>2 DEF Outages
<1>4. failures \in 0 .. 2 /\ failures # 0 /\ failures = (IF before.failures = 0 THEN 1 ELSE 2)
  <2> HIDE DEF before
  <2> QED BY <1>3 DEF Sooner
<1>5. before.down => downs = 1 /\ outage # NoOutage
  BY DEF DownThenBack
<1>6. ~before.down => downs = 0
  BY DEF DownThenBack
<1>7. before.failures = 0 => before.since = now
  BY DEF HealthShape, Outages
<1> HIDE DEF fresh, before, failures
<1>8. \A d \in BOOLEAN : /\ after(d) \in Outages /\ after(d).since = before.since
                          /\ after(d).failures = failures /\ after(d).down = d
  <2>1. ASSUME NEW d \in BOOLEAN
        PROVE  /\ after(d) \in Outages /\ after(d).since = before.since
               /\ after(d).failures = failures /\ after(d).down = d
    <3>1. before \in Outages /\ failures \in 0 .. 2
      BY <1>2, <1>4
    <3> QED BY <3>1, OutageFailed, Zenon
  <2> QED BY <2>1, Zenon
<1>9. PICK d \in BOOLEAN : outage' = after(d) /\ d = (before.down \/ posts)
  <2>1. (before.down \/ posts) \in BOOLEAN
    OBVIOUS
  <2> QED BY <2>1, <1>1
<1> HIDE DEF after
<1>10. outage' \in Outages /\ outage' # NoOutage /\ outage'.down = d /\ outage'.failures # 0
  BY <1>4, <1>8, <1>9, NothingKept
<1>11. DownThenBack'
  <2>1. CASE before.down
    BY <2>1, <1>1, <1>5, <1>9, <1>10, Zenon DEF DownThenBack
  <2>2. CASE ~before.down /\ posts
    <3>1. downs = 0 /\ downs' = downs + 1 /\ outage'.down
      BY <2>2, <1>1, <1>6, <1>9, <1>10, Zenon
    <3> QED BY <3>1, <1>10 DEF DownThenBack
  <2>3. CASE ~before.down /\ ~posts
    <3>1. downs' = 0 /\ ~outage'.down
      BY <2>3, <1>1, <1>6, <1>9, <1>10, Zenon
    <3> QED BY <3>1 DEF DownThenBack
  <2> QED BY <2>1, <2>2, <2>3
<1>12. EmptySince'
  <2>1. held' = held /\ fullAt' = fullAt
    BY <1>1
  <2>2. outage'.failures = 1 => outage'.since = now
    <3>1. outage'.failures = failures /\ outage'.since = before.since
      BY <1>8, <1>9, Zenon
    <3> QED BY <3>1, <1>4, <1>3, <1>7
  <2>3. fullAt < now
    BY DEF HealthShape
  <2> QED BY <2>1, <2>2, <2>3 DEF EmptySince
<1> QED BY <1>1, <1>10, <1>11, <1>12

LEMMA HoldingKnown ==
  ASSUME HealthShape, EmptySince, NEW now \in Nat, readAt < now, NEW read,
         Holding(now, read) # NotHeld
  PROVE  /\ Holding(now, read) \in [at : Nat, players : Counts]
         /\ fullAt < Holding(now, read).at
<1>1. CASE held # NotHeld
  <2>1. Holding(now, read) = held
    BY <1>1, Zenon DEF Holding
  <2> QED BY <1>1, <2>1 DEF HealthShape, EmptySince
<1>2. CASE held = NotHeld
  <2>1. Suspected(now, read)
    BY <1>2, Zenon DEF Holding
  <2>2. Holding(now, read) = [at |-> IF Compared(now) THEN RestartAt(now) ELSE now,
                              players |-> seen.players]
    BY <1>2, <2>1, Zenon DEF Holding
  <2>3. seen # NotSeenYet
    BY <2>1, Zenon DEF Suspected, Compared
  <2>4. seen.players \in Counts
    BY <2>3 DEF HealthShape
  <2>5. CASE Compared(now)
    <3>1. Hitch(now) /\ AfterLoss
      BY <2>1, <2>5, Zenon DEF Suspected, Compared, Hitch
    <3>2. outage \in Outages /\ outage.failures = 1 /\ outage.successes = 0 /\ outage # NoOutage
      <4>1. outage # NoOutage /\ outage.failures < 2 /\ outage.successes = 0
        BY <3>1, Zenon DEF Hitch, AfterLoss
      <4>2. outage \in Outages /\ outage.failures # 0
        BY <4>1 DEF HealthShape
      <4>3. outage.failures \in 0 .. 2
        BY <4>2 DEF Outages
      <4> QED BY <4>1, <4>2, <4>3
    <3>3. RestartAt(now) = outage.since /\ outage.since \in Nat /\ fullAt < outage.since
      BY <3>2 DEF RestartAt, EmptySince, Outages
    <3> QED BY <2>2, <2>4, <2>5, <3>3
  <2>6. CASE ~Compared(now)
    <3>1. fullAt < now
      BY DEF HealthShape
    <3> QED BY <2>2, <2>4, <2>6, <3>1
  <2> QED BY <2>5, <2>6
<1> QED BY <1>1, <1>2

GoodOnce(o, s, f) == [o EXCEPT !.successes = s, !.first = f]

LEMMA GoodFields ==
  ASSUME NEW T, NEW U, NEW S, NEW V, NEW W,
         NEW o \in [since : T, failures : U, down : S, successes : V, first : W], NEW v \in V, NEW w \in W
  PROVE  [o EXCEPT !.successes = v, !.first = w] \in [since : T, failures : U, down : S, successes : V, first : W]
OBVIOUS

LEMMA GoodOnceKept ==
  ASSUME NEW o \in Outages, NEW w \in Int
  PROVE  /\ GoodOnce(o, 1, w) \in Outages /\ (GoodOnce(o, 1, w).down <=> o.down)
         /\ GoodOnce(o, 1, w).failures = o.failures /\ GoodOnce(o, 1, w).successes = 1
<1>1. 1 \in 0 .. 1
  OBVIOUS
<1>2. GoodOnce(o, 1, w) \in Outages
  BY <1>1, GoodFields DEF Outages, GoodOnce
<1>3. GoodOnce(o, 1, w).down <=> o.down
  BY DEF GoodOnce, Outages
<1>4. GoodOnce(o, 1, w).failures = o.failures /\ GoodOnce(o, 1, w).successes = 1
  BY DEF GoodOnce, Outages
<1> QED BY <1>2, <1>3, <1>4, Zenon

LEMMA GoodOutage ==
  ASSUME HealthShape, DownThenBack, EmptySince, NEW now \in Nat, readAt < now,
         NEW read, read.players \in Counts, read.build \in Builds, Good(now, read)
  PROVE  /\ outage' = NoOutage \/ (outage' \in Outages /\ outage'.failures # 0 /\ outage'.successes = 1)
         /\ DownThenBack'
         /\ boundary'.at \in Int /\ fullAt' \in Int /\ fullAt' <= now
         /\ seen' \in [at : Nat, players : Counts, build : Builds] /\ seen'.at = now
         /\ held' = NotHeld \/ held' \in [at : Nat, players : Counts]
         /\ EmptySince'
         /\ ~(Confirmed(now, read) /\ fullAt' >= Holding(now, read).at)
<1> DEFINE successes == IF outage = NoOutage THEN 0 ELSE outage.successes + 1
           first == IF outage # NoOutage /\ outage.first # NotYet THEN outage.first ELSE now
           ends == successes >= 2
           back == ends /\ outage.down
           restart == Reported(now, read) \/ Confirmed(now, read)
           when == IF Confirmed(now, read) THEN Holding(now, read).at ELSE RestartAt(now)
<1>1. /\ outage' = (IF outage = NoOutage \/ ends THEN NoOutage ELSE GoodOnce(outage, successes, first))
      /\ downs' = (IF back THEN downs - 1 ELSE downs)
      /\ held' = Kept(now, read)
      /\ boundary' = (IF back THEN [at |-> first] ELSE IF restart THEN [at |-> when] ELSE boundary)
      /\ seen' = [at |-> now, players |-> read.players, build |-> read.build]
      /\ fullAt' = (IF read.players > 1 THEN now ELSE fullAt)
  BY DEF Good, GoodOnce
<1>2. outage # NoOutage => /\ outage \in Outages /\ outage.failures # 0 /\ outage.successes \in 0 .. 1
                           /\ outage.first \in Int /\ outage.since \in Nat /\ outage.down \in BOOLEAN
  BY DEF HealthShape, Outages
<1>3. first \in Int /\ (~ends /\ outage # NoOutage => successes = 1)
  BY <1>2, NothingKept
<1>4. now \in Int /\ fullAt \in Int /\ fullAt < now /\ boundary.at \in Int
  BY DEF HealthShape
<1>5. fullAt' \in Int /\ fullAt' <= now
  BY <1>1, <1>4
<1>6. seen' \in [at : Nat, players : Counts, build : Builds] /\ seen'.at = now
  BY <1>1
<1>7. ~Refilled(read) => fullAt' = fullAt
  BY <1>1 DEF Refilled
<1>8. ~(Confirmed(now, read) /\ fullAt' >= Holding(now, read).at)
  <2>1. SUFFICES ASSUME Confirmed(now, read) PROVE ~(fullAt' >= Holding(now, read).at)
    OBVIOUS
  <2>2. Holding(now, read) # NotHeld /\ ~Refilled(read)
    BY <2>1, Zenon DEF Confirmed
  <2>3. Holding(now, read).at \in Nat /\ fullAt < Holding(now, read).at
    BY <2>2, HoldingKnown
  <2> QED BY <2>2, <2>3, <1>4, <1>7
<1>9. held' # NotHeld => held' \in [at : Nat, players : Counts] /\ fullAt' < held'.at
  <2>1. SUFFICES ASSUME held' # NotHeld PROVE held' \in [at : Nat, players : Counts] /\ fullAt' < held'.at
    OBVIOUS
  <2>2. held' = Holding(now, read) /\ ~Refilled(read)
    BY <1>1, <2>1, Zenon DEF Kept
  <2> QED BY <2>1, <2>2, <1>7, HoldingKnown
<1>10. boundary'.at \in Int
  <2>1. Confirmed(now, read) => Holding(now, read).at \in Int
    BY HoldingKnown DEF Confirmed
  <2>2. Reported(now, read) => seen # NotSeenYet
    BY Zenon DEF Reported, Compared
  <2>3. Reported(now, read) => RestartAt(now) \in Int
    BY <1>2, <2>2 DEF RestartAt, HealthShape
  <2>4. restart => when \in Int
    BY <2>1, <2>3
  <2> HIDE DEF first, restart, when, back
  <2> QED BY <1>1, <1>3, <1>4, <2>4
<1>11. outage' = NoOutage \/ (outage' \in Outages /\ outage'.failures # 0 /\ outage'.successes = 1)
  <2>1. CASE outage = NoOutage \/ ends
    BY <1>1, <2>1, Zenon
  <2>2. CASE ~(outage = NoOutage \/ ends)
    <3>1. outage' = GoodOnce(outage, 1, first)
      BY <1>1, <1>3, <2>2, Zenon
    <3>2. outage \in Outages /\ outage.failures # 0 /\ 1 \in 0 .. 1
      BY <1>2, <2>2
    <3>3. first \in Int
      BY <1>3
    <3> HIDE DEF first
    <3> QED BY <3>1, <3>2, <3>3, GoodOnceKept
  <2> QED BY <2>1, <2>2
<1>12. DownThenBack'
  <2>1. CASE outage = NoOutage
    <3>1. outage' = NoOutage /\ downs' = downs /\ downs = 0
      BY <1>1, <2>1 DEF DownThenBack
    <3> QED BY <3>1 DEF DownThenBack
  <2>2. CASE outage # NoOutage /\ ends /\ outage.down
    <3>1. outage' = NoOutage /\ downs' = downs - 1 /\ downs = 1
      BY <1>1, <2>2 DEF DownThenBack
    <3> QED BY <3>1 DEF DownThenBack
  <2>3. CASE outage # NoOutage /\ ends /\ ~outage.down
    <3>1. outage' = NoOutage /\ downs' = downs /\ downs = 0
      BY <1>1, <2>3 DEF DownThenBack
    <3> QED BY <3>1 DEF DownThenBack
  <2>4. CASE outage # NoOutage /\ ~ends
    <3>1. outage' = GoodOnce(outage, 1, first) /\ downs' = downs
      BY <1>1, <1>3, <2>4, Zenon
    <3>2. outage \in Outages /\ 1 \in 0 .. 1
      BY <1>2, <2>4
    <3>3. first \in Int
      BY <1>3
    <3>4. outage' \in Outages /\ (outage'.down <=> outage.down)
      <4> HIDE DEF first
      <4> QED BY <3>1, <3>2, <3>3, GoodOnceKept
    <3> QED BY <3>1, <3>4, <2>4, NothingKept DEF DownThenBack
  <2> QED BY <2>1, <2>2, <2>3, <2>4
<1>13. EmptySince'
  BY <1>9, <1>11 DEF EmptySince
<1> QED BY <1>5, <1>6, <1>8, <1>9, <1>10, <1>11, <1>12, <1>13, Zenon

-----------------------------------------------------------------------------
(* The episode *)

PausedFrom(e, t) == [e EXCEPT !.pausedSince = t]
Rejoined(e, p) == [e EXCEPT !.pauses = p, !.pausedSince = NotYet]
NotLowFrom(e, t) == [e EXCEPT !.notLow = t]
CalledFor(e, r, p) == [e EXCEPT !.restart = r, !.prime = p]

LEMMA PausedFields ==
  ASSUME NEW A, NEW B, NEW C, NEW D, NEW E, NEW F,
         NEW e \in [start : A, pauses : B, pausedSince : C, notLow : D, restart : E, prime : F], NEW c \in C
  PROVE  [e EXCEPT !.pausedSince = c] \in [start : A, pauses : B, pausedSince : C, notLow : D, restart : E, prime : F]
OBVIOUS

LEMMA RejoinedFields ==
  ASSUME NEW A, NEW B, NEW C, NEW D, NEW E, NEW F,
         NEW e \in [start : A, pauses : B, pausedSince : C, notLow : D, restart : E, prime : F],
         NEW b \in B, NEW c \in C
  PROVE  [e EXCEPT !.pauses = b, !.pausedSince = c]
         \in [start : A, pauses : B, pausedSince : C, notLow : D, restart : E, prime : F]
OBVIOUS

LEMMA NotLowFields ==
  ASSUME NEW A, NEW B, NEW C, NEW D, NEW E, NEW F,
         NEW e \in [start : A, pauses : B, pausedSince : C, notLow : D, restart : E, prime : F], NEW d \in D
  PROVE  [e EXCEPT !.notLow = d] \in [start : A, pauses : B, pausedSince : C, notLow : D, restart : E, prime : F]
OBVIOUS

LEMMA CalledFields ==
  ASSUME NEW A, NEW B, NEW C, NEW D, NEW E, NEW F,
         NEW e \in [start : A, pauses : B, pausedSince : C, notLow : D, restart : E, prime : F],
         NEW r \in E, NEW p \in F
  PROVE  [e EXCEPT !.restart = r, !.prime = p]
         \in [start : A, pauses : B, pausedSince : C, notLow : D, restart : E, prime : F]
OBVIOUS

LEMMA EpisodeFields ==
  ASSUME NEW e \in Episodes
  PROVE  e.start \in Nat /\ e.pauses \in Seq(Int \X Int) /\ e.pausedSince \in Int /\ e.notLow \in Int
BY DEF Episodes

LEMMA PausedEdit ==
  ASSUME NEW e \in Episodes, NEW t \in Int
  PROVE  /\ PausedFrom(e, t) \in Episodes /\ PausedFrom(e, t).start = e.start
         /\ PausedFrom(e, t).pauses = e.pauses /\ PausedFrom(e, t).pausedSince = t
         /\ PausedFrom(e, t).restart <=> e.restart
         /\ PausedFrom(e, t).prime <=> e.prime
<1>1. PausedFrom(e, t) \in Episodes
  BY PausedFields, NothingKept DEF Episodes, PausedFrom
<1>2. /\ PausedFrom(e, t).start = e.start
      /\ PausedFrom(e, t).pauses = e.pauses /\ PausedFrom(e, t).pausedSince = t
  BY DEF Episodes, PausedFrom
<1>3. PausedFrom(e, t).restart <=> e.restart
  BY DEF Episodes, PausedFrom
<1>4. PausedFrom(e, t).prime <=> e.prime
  BY DEF Episodes, PausedFrom
<1> QED BY <1>1, <1>2, <1>3, <1>4

LEMMA RejoinedEdit ==
  ASSUME NEW e \in Episodes, NEW p \in Seq(Int \X Int)
  PROVE  /\ Rejoined(e, p) \in Episodes /\ Rejoined(e, p).start = e.start
         /\ Rejoined(e, p).pauses = p /\ Rejoined(e, p).pausedSince = NotYet
         /\ Rejoined(e, p).restart <=> e.restart
         /\ Rejoined(e, p).prime <=> e.prime
<1>1. Rejoined(e, p) \in Episodes
  BY RejoinedFields, NothingKept DEF Episodes, Rejoined
<1>2. /\ Rejoined(e, p).start = e.start
      /\ Rejoined(e, p).pauses = p /\ Rejoined(e, p).pausedSince = NotYet
  BY DEF Episodes, Rejoined
<1>3. Rejoined(e, p).restart <=> e.restart
  BY DEF Episodes, Rejoined
<1>4. Rejoined(e, p).prime <=> e.prime
  BY DEF Episodes, Rejoined
<1> QED BY <1>1, <1>2, <1>3, <1>4

LEMMA NotLowEdit ==
  ASSUME NEW e \in Episodes, NEW t \in Int
  PROVE  /\ NotLowFrom(e, t) \in Episodes /\ NotLowFrom(e, t).start = e.start
         /\ NotLowFrom(e, t).pauses = e.pauses /\ NotLowFrom(e, t).pausedSince = e.pausedSince
         /\ NotLowFrom(e, t).restart <=> e.restart
         /\ NotLowFrom(e, t).prime <=> e.prime
<1>1. NotLowFrom(e, t) \in Episodes
  BY NotLowFields, NothingKept DEF Episodes, NotLowFrom
<1>2. /\ NotLowFrom(e, t).start = e.start
      /\ NotLowFrom(e, t).pauses = e.pauses /\ NotLowFrom(e, t).pausedSince = e.pausedSince
  BY DEF Episodes, NotLowFrom
<1>3. NotLowFrom(e, t).restart <=> e.restart
  BY DEF Episodes, NotLowFrom
<1>4. NotLowFrom(e, t).prime <=> e.prime
  BY DEF Episodes, NotLowFrom
<1> QED BY <1>1, <1>2, <1>3, <1>4

LEMMA CalledEdit ==
  ASSUME NEW e \in Episodes, NEW r \in BOOLEAN, NEW p \in BOOLEAN
  PROVE  /\ CalledFor(e, r, p) \in Episodes /\ CalledFor(e, r, p).start = e.start
         /\ CalledFor(e, r, p).pauses = e.pauses /\ CalledFor(e, r, p).pausedSince = e.pausedSince
         /\ CalledFor(e, r, p).restart <=> r
         /\ CalledFor(e, r, p).prime <=> p
<1>1. CalledFor(e, r, p) \in Episodes
  BY CalledFields, NothingKept DEF Episodes, CalledFor
<1>2. /\ CalledFor(e, r, p).start = e.start
      /\ CalledFor(e, r, p).pauses = e.pauses /\ CalledFor(e, r, p).pausedSince = e.pausedSince
  BY DEF Episodes, CalledFor
<1>3. CalledFor(e, r, p).restart <=> r
  BY DEF Episodes, CalledFor
<1>4. CalledFor(e, r, p).prime <=> p
  BY DEF Episodes, CalledFor
<1> QED BY <1>1, <1>2, <1>3, <1>4

\* Paused reads only the pauses.
LEMMA SamePauses ==
  ASSUME NEW e, NEW u, u.pauses = e.pauses, u.pausedSince = e.pausedSince, u.start = e.start
  PROVE  /\ \A t : Paused(u, t) <=> Paused(e, t)
         /\ \A lost : Remembers(e, lost) => Remembers(u, lost)
BY DEF Paused, Remembers

\* The time that is lost with this read.
LEMMA LostKnown ==
  ASSUME HealthShape, PausesKnown, NEW now \in Nat, readAt < now, Passed(now)
  PROVE  /\ readAt' = now /\ \A t \in blind' : t \in Nat /\ t < now
         /\ \A t \in blind' : t \in blind \/ (failedLast /\ readAt <= t)
<1>1. readAt' = now /\ (blind' = blind \/ (failedLast /\ blind' = blind \cup readAt .. now - 1))
  BY DEF Passed
<1> QED BY <1>1 DEF HealthShape, PausesKnown

\* A failed read pauses the low timer.
LEMMA EpisodePaused ==
  ASSUME HealthShape, PausesKnown, CallsKnown, NEW now \in Nat, readAt < now, Passed(now),
         failedLast' = TRUE, UNCHANGED called,
         episode' = IF episode = NoEpisode \/ episode.pausedSince # NotYet THEN episode
                    ELSE [episode EXCEPT !.pausedSince = now]
  PROVE  /\ episode' = NoEpisode \/ (episode' \in Episodes /\ Len(episode'.pauses) <= MaxPauses)
         /\ PausesKnown' /\ CallsKnown'
<1>1. \A t \in blind' : t \in Nat /\ t < readAt'
  BY LostKnown
<1>2. CASE episode = NoEpisode
  BY <1>1, <1>2 DEF PausesKnown, CallsKnown
<1>3. CASE episode # NoEpisode /\ episode.pausedSince # NotYet
  <2>1. episode' = episode /\ episode \in Episodes /\ Len(episode.pauses) <= MaxPauses
    BY <1>3 DEF HealthShape
  <2>2. episode.pausedSince \in Int /\ episode.pausedSince <= readAt /\ readAt' = now
    BY <1>3, <2>1, LostKnown, EpisodeFields DEF PausesKnown
  <2>3. Remembers(episode, blind')
    <3>1. SUFFICES ASSUME Len(episode.pauses) < MaxPauses, NEW t \in blind', t >= episode.start
                   PROVE  Paused(episode, t)
      BY DEF Remembers
    <3>2. CASE t \in blind
      BY <1>3, <3>1, <3>2 DEF PausesKnown, Remembers
    <3>3. CASE t \notin blind
      <4>1. readAt <= t /\ t \in Nat
        BY <3>3, LostKnown
      <4> QED BY <4>1, <2>2, <1>3 DEF Paused, HealthShape
    <3> QED BY <3>2, <3>3
  <2>4. PausesKnown'
    BY <1>1, <1>3, <2>1, <2>2, <2>3 DEF PausesKnown, HealthShape
  <2> QED BY <2>1, <2>4 DEF CallsKnown
<1>4. CASE episode # NoEpisode /\ episode.pausedSince = NotYet
  <2>1. episode \in Episodes /\ Len(episode.pauses) <= MaxPauses /\ ~failedLast
    BY <1>4 DEF HealthShape, PausesKnown
  <2>2. episode' = PausedFrom(episode, now)
    BY <1>4 DEF PausedFrom
  <2>3. /\ episode' \in Episodes /\ episode'.start = episode.start
        /\ episode'.pauses = episode.pauses /\ episode'.pausedSince = now
    <3>1. now \in Int
      OBVIOUS
    <3> QED BY <2>1, <2>2, <3>1, PausedEdit
  <2>4. Remembers(episode', blind')
    <3>1. SUFFICES ASSUME Len(episode.pauses) < MaxPauses, NEW t \in blind', t >= episode.start
                   PROVE  Paused(episode', t)
      BY <2>3 DEF Remembers
    <3>2. t \in blind
      BY <2>1, LostKnown
    <3>3. Paused(episode, t)
      BY <1>4, <3>1, <3>2 DEF PausesKnown, Remembers
    <3>4. PICK i \in 1 .. Len(episode.pauses) : t \in episode.pauses[i][1] .. episode.pauses[i][2] - 1
      BY <1>4, <3>3 DEF Paused
    <3> QED BY <2>3, <3>4 DEF Paused
  <2>5. PausesKnown'
    <3>1. episode'.pausedSince # NotYet /\ episode'.pausedSince <= readAt'
      BY <2>3, LostKnown DEF NotYet
    <3> QED BY <1>1, <2>4, <3>1 DEF PausesKnown
  <2>6. CallsKnown'
    <3>1. (episode'.restart <=> episode.restart) /\ (episode'.prime <=> episode.prime)
      BY <2>1, <2>2, PausedEdit
    <3> QED BY <1>4, <2>3, <3>1, NothingKept DEF CallsKnown
  <2> QED BY <2>1, <2>3, <2>5, <2>6
<1> QED BY <1>2, <1>3, <1>4

\* A good read closes the pause that the failed ones opened.
LEMMA EpisodeResumed ==
  ASSUME HealthShape, PausesKnown, NEW now \in Nat, readAt < now, Passed(now), episode # NoEpisode,
         NEW e, e = Resumed(episode, now)
  PROVE  /\ e \in Episodes /\ Len(e.pauses) <= MaxPauses /\ e # NoEpisode
         /\ e.pausedSince = NotYet /\ Remembers(e, blind')
         /\ (e.restart <=> episode.restart) /\ (e.prime <=> episode.prime)
<1>1. episode \in Episodes /\ Len(episode.pauses) <= MaxPauses
  BY DEF HealthShape
<1>2. \A t \in blind' : t \in Nat /\ t < now /\ (t \in blind \/ (failedLast /\ readAt <= t))
  BY LostKnown
<1>3. CASE episode.pausedSince = NotYet
  <2>1. e = episode /\ ~failedLast
    BY <1>3 DEF Resumed, PausesKnown
  <2>2. Remembers(e, blind')
    BY <1>2, <2>1 DEF PausesKnown, Remembers
  <2> QED BY <1>1, <1>3, <2>1, <2>2
<1>4. CASE episode.pausedSince # NotYet
  <2> DEFINE more == Append(episode.pauses, <<episode.pausedSince, now>>)
             p == LastPauses(more)
  <2>1. e = Rejoined(episode, p)
    BY <1>4 DEF Resumed, Rejoined
  <2>2. episode.pauses \in Seq(Int \X Int) /\ <<episode.pausedSince, now>> \in Int \X Int
    BY <1>1, EpisodeFields
  <2>3. more \in Seq(Int \X Int) /\ Len(more) = Len(episode.pauses) + 1
    BY <2>2
  <2>4. MaxPauses \in Nat /\ Len(episode.pauses) \in Nat
    BY <2>2, Numbers
  <2>5. p \in Seq(Int \X Int) /\ Len(p) <= MaxPauses
    <3> HIDE DEF more
    <3>1. CASE Len(more) > MaxPauses
      <4>1. p = Tail(more) /\ more # <<>>
        BY <3>1, <2>3, <2>4 DEF LastPauses
      <4>2. Tail(more) \in Seq(Int \X Int) /\ Len(Tail(more)) = Len(more) - 1
        BY <4>1, <2>3
      <4> QED BY <4>1, <4>2, <2>3, <2>4, <1>1, SMTT(40)
    <3>2. CASE ~(Len(more) > MaxPauses)
      BY <3>2, <2>3, <2>4 DEF LastPauses
    <3> QED BY <3>1, <3>2
  <2>6. Len(p) < MaxPauses => p = more /\ Len(episode.pauses) < MaxPauses
    <3> HIDE DEF more
    <3>1. CASE Len(more) > MaxPauses
      <4>1. p = Tail(more) /\ more # <<>>
        BY <3>1, <2>3, <2>4 DEF LastPauses
      <4>2. Len(Tail(more)) = Len(more) - 1
        BY <4>1, <2>3
      <4> QED BY <4>1, <4>2, <3>1, <2>3, <2>4, <1>1
    <3>2. CASE ~(Len(more) > MaxPauses)
      BY <3>2, <2>3, <2>4 DEF LastPauses
    <3> QED BY <3>1, <3>2
  <2> HIDE DEF p
  <2>7. /\ e \in Episodes /\ e.start = episode.start /\ e.pauses = p /\ e.pausedSince = NotYet
        /\ (e.restart <=> episode.restart) /\ (e.prime <=> episode.prime)
    BY <1>1, <2>1, <2>5, RejoinedEdit
  <2>8. Remembers(e, blind')
    <3>1. SUFFICES ASSUME Len(p) < MaxPauses, NEW t \in blind', t >= episode.start
                   PROVE  Paused(e, t)
      BY <2>7 DEF Remembers
    <3>2. p = more /\ Len(episode.pauses) < MaxPauses
      BY <2>6, <3>1
    <3>3. e.pauses = more
      BY <2>7, <3>2
    <3>4. CASE t >= episode.pausedSince
      <4>1. more[Len(more)] = <<episode.pausedSince, now>>
        BY <2>2
      <4>2. t \in more[Len(more)][1] .. more[Len(more)][2] - 1
        BY <4>1, <3>4, <1>2, <2>2
      <4>3. Len(more) \in 1 .. Len(more)
        BY <2>3, <2>4
      <4> HIDE DEF more
      <4> QED BY <3>3, <4>2, <4>3 DEF Paused
    <3>5. CASE ~(t >= episode.pausedSince)
      <4>1. t \in blind
        <5>1. episode.pausedSince <= readAt /\ episode.pausedSince \in Int /\ readAt \in Nat
          BY <1>1, EpisodeFields DEF PausesKnown, HealthShape
        <5>2. t \in Nat /\ (t \in blind \/ readAt <= t)
          BY <1>2
        <5> QED BY <5>1, <5>2, <3>5
      <4>2. Paused(episode, t)
        BY <4>1, <3>1, <3>2 DEF PausesKnown, Remembers
      <4>3. PICK i \in 1 .. Len(episode.pauses) : t \in episode.pauses[i][1] .. episode.pauses[i][2] - 1
        BY <4>2, <3>5 DEF Paused
      <4>4. more[i] = episode.pauses[i] /\ i \in 1 .. Len(more)
        BY <2>2, <2>3, <2>4
      <4> HIDE DEF more
      <4> QED BY <3>3, <4>3, <4>4 DEF Paused
    <3> QED BY <3>4, <3>5
  <2> QED BY <2>5, <2>7, <2>8, NothingKept
<1> QED BY <1>3, <1>4

\* The low time an episode counts is never more than the time it was low and could be read.
LEMMA LowTimeSeen ==
  ASSUME NEW e, e.start \in Nat, NEW lost, Remembers(e, lost), Len(e.pauses) < MaxPauses,
         NEW from \in Int, from >= e.start, NEW now \in Nat
  PROVE  LowElapsed(e, from, now) <= Cardinality((from .. now - 1) \ lost)
<1> DEFINE low == {t \in from .. now - 1 : ~Paused(e, t)}
           readable == (from .. now - 1) \ lost
<1>1. IsFiniteSet(from .. now - 1)
  BY FS_Interval
<1>2. readable \subseteq from .. now - 1
  OBVIOUS
<1>3. IsFiniteSet(readable)
  BY <1>1, <1>2, FS_Subset
<1>4. low \subseteq readable
  <2>1. SUFFICES ASSUME NEW t \in from .. now - 1, ~Paused(e, t) PROVE t \notin lost
    OBVIOUS
  <2>2. t >= e.start
    OBVIOUS
  <2> QED BY <2>1, <2>2 DEF Remembers
<1> HIDE DEF readable, low
<1>5. Cardinality(low) <= Cardinality(readable)
  BY <1>3, <1>4, FS_Subset
<1> QED BY <1>5 DEF LowElapsed, low, readable

LEMMA NotLowKept ==
  ASSUME HealthShape, PausesKnown, CallsKnown, NEW now \in Nat, readAt < now, Passed(now),
         failedLast' = FALSE, NotLowRead(Resumed(episode, now), now, {})
  PROVE  /\ episode' = NoEpisode \/ (episode' \in Episodes /\ Len(episode'.pauses) <= MaxPauses)
         /\ PausesKnown' /\ CallsKnown' /\ wrong' = {}
<1>1. readAt' = now /\ \A t \in blind' : t \in Nat /\ t < readAt'
  BY LostKnown
<1>2. CASE episode = NoEpisode
  <2>1. Resumed(episode, now) = NoEpisode
    BY <1>2, Zenon DEF Resumed
  <2>2. episode' = NoEpisode /\ wrong' = {} /\ called' = called
    BY <2>1, Zenon DEF NotLowRead
  <2>3. called' = {}
    BY <1>2, <2>2 DEF CallsKnown
  <2> QED BY <1>1, <2>2, <2>3 DEF PausesKnown, CallsKnown
<1>3. CASE episode # NoEpisode
  <2> DEFINE e == Resumed(episode, now)
             from == IF e.notLow = NotYet THEN now ELSE e.notLow
             ends == now - from >= LowEnd
  <2>1. /\ e \in Episodes /\ Len(e.pauses) <= MaxPauses /\ e # NoEpisode
        /\ e.pausedSince = NotYet /\ Remembers(e, blind')
        /\ (e.restart <=> episode.restart) /\ (e.prime <=> episode.prime)
    BY <1>3, EpisodeResumed
  <2>2. /\ episode' = (IF ends THEN NoEpisode ELSE NotLowFrom(e, from))
        /\ wrong' = When(ends /\ (e.restart \/ e.prime) /\ called = {}, "recovered")
        /\ called' = (IF ends THEN {} ELSE called)
    BY <2>1 DEF NotLowRead, NotLowFrom
  <2>3. wrong' = {}
    <3>1. ~((e.restart \/ e.prime) /\ called = {})
      BY <1>3, <2>1 DEF CallsKnown
    <3>2. ~(ends /\ (e.restart \/ e.prime) /\ called = {})
      BY <3>1
    <3> QED BY <2>2, <3>2, Zenon DEF When
  <2>4. CASE ends
    <3>1. episode' = NoEpisode /\ called' = {}
      BY <2>2, <2>4, Zenon
    <3> QED BY <1>1, <2>3, <3>1 DEF PausesKnown, CallsKnown
  <2>5. CASE ~ends
    <3>1. episode' = NotLowFrom(e, from) /\ called' = called
      BY <2>2, <2>5, Zenon
    <3>2. from \in Int
      BY <2>1, EpisodeFields
    <3> HIDE DEF e, from, ends
    <3>3. /\ episode' \in Episodes /\ episode'.start = e.start
          /\ episode'.pauses = e.pauses /\ episode'.pausedSince = e.pausedSince
          /\ (episode'.restart <=> e.restart) /\ (episode'.prime <=> e.prime)
      BY <2>1, <3>1, <3>2, NotLowEdit
    <3>4. Remembers(episode', blind')
      BY <2>1, <3>3, SamePauses
    <3>5. episode'.pausedSince <= readAt' /\ ~failedLast'
      BY <1>1, <2>1, <3>3 DEF NotYet
    <3>6. PausesKnown'
      BY <1>1, <3>4, <3>5 DEF PausesKnown
    <3>7. CallsKnown'
      BY <1>3, <2>1, <3>1, <3>3, NothingKept DEF CallsKnown
    <3> QED BY <2>1, <2>3, <3>3, <3>6, <3>7
  <2> QED BY <2>4, <2>5
<1> QED BY <1>2, <1>3

LEMMA LowKept ==
  ASSUME HealthShape, PausesKnown, CallsKnown, NEW now \in Nat, readAt < now, Passed(now),
         failedLast' = FALSE, boundary'.at \in Int, LowRead(Resumed(episode, now), now, {})
  PROVE  /\ episode' \in Episodes /\ Len(episode'.pauses) <= MaxPauses
         /\ PausesKnown' /\ CallsKnown' /\ wrong' = {}
<1> DEFINE old == Resumed(episode, now)
           fresh == [start |-> now, pauses |-> <<>>, pausedSince |-> NotYet, notLow |-> NotYet,
                     restart |-> FALSE, prime |-> FALSE]
           e == IF old = NoEpisode THEN fresh ELSE [old EXCEPT !.notLow = NotYet]
           fromRestart == Later(e.start, boundary'.at)
           fromPrime == Later(e.start, PrimeFrom)
           restart == /\ boundary' # NoBoundary /\ now - boundary'.at <= LowWatch /\ ~e.restart
                      /\ LowElapsed(e, fromRestart, now) >= LowFor
           prime == now \in PrimeFrom .. PrimeTo - 1 /\ ~e.prime /\ LowElapsed(e, fromPrime, now) >= LowFor
           posts == When(restart, "restart") \cup When(prime, "prime")
           Early(from) == /\ Len(e.pauses) < MaxPauses
                          /\ Cardinality((from .. now - 1) \ blind') < LowFor
<1>1. readAt' = now /\ \A t \in blind' : t \in Nat /\ t < readAt'
  BY LostKnown
<1>2. /\ e \in Episodes /\ Len(e.pauses) <= MaxPauses /\ e.pausedSince = NotYet /\ Remembers(e, blind')
      /\ ("restart" \in called <=> e.restart) /\ ("prime" \in called <=> e.prime)
  <2>1. CASE episode = NoEpisode
    <3>1. old = NoEpisode
      BY <2>1, Zenon DEF Resumed
    <3>2. e = fresh
      BY <3>1, Zenon
    <3>3. fresh \in Episodes /\ Len(fresh.pauses) = 0 /\ fresh.pausedSince = NotYet /\ fresh.start = now
      BY NothingKept DEF Episodes
    <3>4. ~fresh.restart /\ ~fresh.prime
      OBVIOUS
    <3>5. called = {}
      BY <2>1 DEF CallsKnown
    <3> HIDE DEF fresh, e
    <3>6. Remembers(e, blind')
      BY <1>1, <3>2, <3>3 DEF Remembers
    <3>7. Len(e.pauses) <= MaxPauses
      BY <3>2, <3>3, Numbers
    <3> QED BY <3>2, <3>3, <3>4, <3>5, <3>6, <3>7
  <2>2. CASE episode # NoEpisode
    <3>1. /\ old \in Episodes /\ Len(old.pauses) <= MaxPauses /\ old # NoEpisode
          /\ old.pausedSince = NotYet /\ Remembers(old, blind')
          /\ (old.restart <=> episode.restart) /\ (old.prime <=> episode.prime)
      BY <2>2, EpisodeResumed
    <3>2. e = NotLowFrom(old, NotYet)
      BY <3>1 DEF NotLowFrom
    <3> HIDE DEF old, e
    <3>3. /\ e \in Episodes /\ e.start = old.start
          /\ e.pauses = old.pauses /\ e.pausedSince = old.pausedSince
          /\ (e.restart <=> old.restart) /\ (e.prime <=> old.prime)
      BY <3>1, <3>2, NothingKept, NotLowEdit
    <3>4. Remembers(e, blind')
      BY <3>1, <3>3, SamePauses
    <3> QED BY <2>2, <3>1, <3>3, <3>4 DEF CallsKnown
  <2> QED BY <2>1, <2>2
<1>3. /\ episode' = [e EXCEPT !.restart = e.restart \/ restart, !.prime = e.prime \/ prime]
      /\ called' = called \cup posts
      /\ wrong' = {} \cup When(posts \cap called # {}, "again")
                      \cup When((restart /\ Early(fromRestart)) \/ (prime /\ Early(fromPrime)), "early")
  BY DEF LowRead
<1> HIDE DEF old, fresh, e
<1>4. e.start \in Nat /\ Len(e.pauses) \in Nat /\ LowFor \in Nat /\ PrimeFrom \in Int
  BY <1>2, EpisodeFields, Numbers
<1>5. fromRestart \in Int /\ fromRestart >= e.start /\ fromPrime \in Int /\ fromPrime >= e.start
  BY <1>4 DEF Later
<1> HIDE DEF fromRestart, fromPrime
<1>6. ASSUME NEW from \in Int, from >= e.start, LowElapsed(e, from, now) >= LowFor
      PROVE  ~Early(from)
  <2>1. SUFFICES ASSUME Early(from) PROVE FALSE
    OBVIOUS
  <2>2. LowElapsed(e, from, now) <= Cardinality((from .. now - 1) \ blind')
    BY <1>2, <1>4, <1>6, <2>1, LowTimeSeen
  <2>3. Cardinality((from .. now - 1) \ blind') \in Nat
    <3>1. IsFiniteSet(from .. now - 1)
      BY FS_Interval
    <3>2. IsFiniteSet((from .. now - 1) \ blind')
      BY <3>1, FS_Difference
    <3> QED BY <3>2, FS_CardinalityType
  <2>4. LowElapsed(e, from, now) \in Nat
    <3>1. {t \in from .. now - 1 : ~Paused(e, t)} \subseteq from .. now - 1
      OBVIOUS
    <3>2. IsFiniteSet(from .. now - 1)
      BY FS_Interval
    <3>3. IsFiniteSet({t \in from .. now - 1 : ~Paused(e, t)})
      BY <3>1, <3>2, FS_Subset
    <3> QED BY <3>3, FS_CardinalityType DEF LowElapsed
  <2> QED BY <1>4, <1>6, <2>1, <2>2, <2>3, <2>4
<1>7. ~((restart /\ Early(fromRestart)) \/ (prime /\ Early(fromPrime)))
  BY <1>5, <1>6
<1> HIDE DEF Early
<1>8. posts \cap called = {}
  <2>1. restart => "restart" \notin called
    BY <1>2
  <2>2. prime => "prime" \notin called
    BY <1>2
  <2> HIDE DEF restart, prime
  <2> QED BY <2>1, <2>2 DEF When
<1>9. wrong' = {}
  <2> HIDE DEF posts, restart, prime
  <2> QED BY <1>3, <1>7, <1>8, Zenon DEF When
<1> HIDE DEF restart, prime
<1>10. PICK r \in BOOLEAN, p \in BOOLEAN :
         /\ episode' = CalledFor(e, r, p)
         /\ (r <=> e.restart \/ restart) /\ (p <=> e.prime \/ prime)
  <2>1. (e.restart \/ restart) \in BOOLEAN /\ (e.prime \/ prime) \in BOOLEAN
    OBVIOUS
  <2> QED BY <1>3, <2>1, Zenon DEF CalledFor
<1>11. /\ episode' \in Episodes /\ episode'.start = e.start
       /\ episode'.pauses = e.pauses /\ episode'.pausedSince = e.pausedSince
       /\ (episode'.restart <=> r) /\ (episode'.prime <=> p)
  BY <1>2, <1>10, CalledEdit
<1>12. PausesKnown'
  <2>1. Remembers(episode', blind')
    BY <1>2, <1>11, SamePauses
  <2>2. episode'.pausedSince <= readAt' /\ ~failedLast'
    BY <1>1, <1>2, <1>11 DEF NotYet
  <2> QED BY <1>1, <2>1, <2>2 DEF PausesKnown
<1>13. CallsKnown'
  <2>1. episode' # NoEpisode
    BY <1>11, NothingKept
  <2>2. "restart" \in called' <=> "restart" \in called \/ restart
    BY <1>3 DEF When
  <2>3. "prime" \in called' <=> "prime" \in called \/ prime
    BY <1>3 DEF When
  <2> QED BY <1>2, <1>10, <1>11, <2>1, <2>2, <2>3, Zenon DEF CallsKnown
<1> QED BY <1>2, <1>9, <1>11, <1>12, <1>13

-----------------------------------------------------------------------------
(* Every step *)

LEMMA HealthStarts == HealthInit => HealthInv
<1> SUFFICES ASSUME HealthInit PROVE HealthInv
  OBVIOUS
<1>1. HealthShape
  <2>1. readAt = 0 /\ fullAt = NotYet /\ boundary.at = NotYet /\ failedLast = FALSE
    BY DEF HealthInit, NoBoundary
  <2>2. seen = NotSeenYet /\ outage = NoOutage /\ held = NotHeld /\ episode = NoEpisode
    BY DEF HealthInit
  <2>3. NotYet \in Int /\ NotYet <= 0
    BY DEF NotYet
  <2>4. readAt \in Nat /\ fullAt \in Int /\ fullAt <= readAt /\ boundary.at \in Int /\ failedLast \in BOOLEAN
    BY <2>1, <2>3
  <2> QED BY <2>2, <2>4, Zenon DEF HealthShape
<1> QED BY <1>1 DEF HealthInit, HealthInv, DownThenBack, EmptySince, CallsKnown, PausesKnown

LEMMA ReadFailsKeeps == HealthInv /\ ReadFails => HealthInv'
<1> SUFFICES ASSUME HealthInv, ReadFails PROVE HealthInv'
  OBVIOUS
<1> USE DEF HealthInv
<1>1. PICK gap \in Pauses, asked \in BOOLEAN :
        LET now == readAt + gap IN
        /\ Passed(now) /\ failedLast' = TRUE
        /\ IF asked THEN UNCHANGED healthState ELSE Failed(now)
        /\ episode' = IF episode = NoEpisode \/ episode.pausedSince # NotYet THEN episode
                      ELSE [episode EXCEPT !.pausedSince = now]
        /\ UNCHANGED <<called, wrong>>
  BY Zenon DEF ReadFails
<1> DEFINE now == readAt + gap
<1>2. now \in Nat /\ readAt < now
  BY Numbers DEF HealthShape
<1> HIDE DEF now
<1>3. /\ Passed(now) /\ failedLast' = TRUE /\ UNCHANGED <<called, wrong>>
      /\ episode' = IF episode = NoEpisode \/ episode.pausedSince # NotYet THEN episode
                    ELSE [episode EXCEPT !.pausedSince = now]
  BY <1>1, Zenon DEF now
<1>4. /\ episode' = NoEpisode \/ (episode' \in Episodes /\ Len(episode'.pauses) <= MaxPauses)
      /\ PausesKnown' /\ CallsKnown'
  BY <1>2, <1>3, EpisodePaused
<1>5. readAt' = now
  BY <1>3 DEF Passed
<1>6. /\ outage' = NoOutage \/ (outage' \in Outages /\ outage'.failures # 0)
      /\ DownThenBack' /\ EmptySince' /\ UNCHANGED <<seen, held, boundary, fullAt>>
  <2>1. CASE asked
    <3>1. UNCHANGED <<seen, outage, held, boundary, downs, fullAt>>
      BY <1>1, <2>1 DEF healthState
    <3> QED BY <3>1 DEF HealthShape, DownThenBack, EmptySince
  <2>2. CASE ~asked
    <3>1. Failed(now)
      BY <1>1, <2>2, Zenon DEF now
    <3> QED BY <1>2, <3>1, FailedOutage
  <2> QED BY <2>1, <2>2
<1>7. HealthShape'
  BY <1>2, <1>3, <1>4, <1>5, <1>6 DEF HealthShape
<1> QED BY <1>3, <1>4, <1>6, <1>7

LEMMA ReadSucceedsKeeps == HealthInv /\ ReadSucceeds => HealthInv'
<1> SUFFICES ASSUME HealthInv, ReadSucceeds PROVE HealthInv'
  OBVIOUS
<1> USE DEF HealthInv
<1>1. PICK gap \in Pauses, read \in [players : Counts, moved : BOOLEAN, newRound : BOOLEAN, build : Builds] :
        LET now == readAt + gap IN
        /\ Passed(now) /\ failedLast' = FALSE
        /\ Good(now, read)
        /\ LET e == Resumed(episode, now)
               before == wrong \cup When(Confirmed(now, read) /\ fullAt' >= Holding(now, read).at, "refilled") IN
           IF read.players < LowBelow THEN LowRead(e, now, before) ELSE NotLowRead(e, now, before)
  BY Zenon DEF ReadSucceeds
<1> DEFINE now == readAt + gap
<1>2. now \in Nat /\ readAt < now
  BY Numbers DEF HealthShape
<1> HIDE DEF now
<1>3. /\ Passed(now) /\ failedLast' = FALSE /\ Good(now, read)
      /\ LET e == Resumed(episode, now)
             before == wrong \cup When(Confirmed(now, read) /\ fullAt' >= Holding(now, read).at, "refilled") IN
         IF read.players < LowBelow THEN LowRead(e, now, before) ELSE NotLowRead(e, now, before)
  BY <1>1, Zenon DEF now
<1>4. read.players \in Counts /\ read.build \in Builds
  OBVIOUS
<1>5. /\ outage' = NoOutage \/ (outage' \in Outages /\ outage'.failures # 0 /\ outage'.successes = 1)
      /\ DownThenBack'
      /\ boundary'.at \in Int /\ fullAt' \in Int /\ fullAt' <= now
      /\ seen' \in [at : Nat, players : Counts, build : Builds] /\ seen'.at = now
      /\ held' = NotHeld \/ held' \in [at : Nat, players : Counts]
      /\ EmptySince'
      /\ ~(Confirmed(now, read) /\ fullAt' >= Holding(now, read).at)
  BY <1>2, <1>3, <1>4, GoodOutage
<1>6. wrong \cup When(Confirmed(now, read) /\ fullAt' >= Holding(now, read).at, "refilled") = {}
  BY <1>5 DEF When
<1>7. \/ LowRead(Resumed(episode, now), now, {})
      \/ NotLowRead(Resumed(episode, now), now, {})
  BY <1>3, <1>6, Zenon
<1>8. /\ episode' = NoEpisode \/ (episode' \in Episodes /\ Len(episode'.pauses) <= MaxPauses)
      /\ PausesKnown' /\ CallsKnown' /\ wrong' = {}
  <2>1. CASE LowRead(Resumed(episode, now), now, {})
    BY <1>2, <1>3, <1>5, <2>1, LowKept
  <2>2. CASE NotLowRead(Resumed(episode, now), now, {})
    BY <1>2, <1>3, <2>2, NotLowKept
  <2> QED BY <1>7, <2>1, <2>2
<1>9. readAt' = now
  BY <1>3 DEF Passed
<1>10. HealthShape'
  <2>1. readAt' \in Nat /\ fullAt' \in Int /\ fullAt' <= readAt' /\ boundary'.at \in Int
    BY <1>2, <1>5, <1>9
  <2>2. seen' \in [at : Nat, players : Counts, build : Builds] /\ seen'.at <= readAt'
    BY <1>2, <1>5, <1>9
  <2>3. failedLast' \in BOOLEAN
    BY <1>3
  <2> QED BY <1>5, <1>8, <2>1, <2>2, <2>3 DEF HealthShape
<1> QED BY <1>5, <1>8, <1>10

LEMMA HealthKeeps == HealthInv /\ [HealthNext]_healthVars => HealthInv'
<1>1. ASSUME HealthInv, UNCHANGED healthVars PROVE HealthInv'
  BY <1>1 DEF healthVars, healthState, HealthInv, HealthShape, DownThenBack, EmptySince, CallsKnown,
              PausesKnown, Remembers, Paused
<1> QED BY <1>1, ReadFailsKeeps, ReadSucceedsKeeps DEF HealthNext

\* Nothing is dated later than the last read.
HealthTimes ==
  readAt \in 0 .. LastRead /\ seen.at \in {NotYet} \cup 0 .. LastRead /\ limitAt \in {NotYet} \cup 0 .. LastRead

LEMMA HealthTimesStart == HealthInit => HealthTimes
BY HealthAssumption DEF HealthInit, HealthTimes, NotSeenYet

LEMMA HealthTimesKeep == HealthTimes /\ [HealthNext]_healthVars => HealthTimes'
<1> SUFFICES ASSUME HealthTimes, [HealthNext]_healthVars PROVE HealthTimes' OBVIOUS
<1>1. readAt \in 0 .. LastRead /\ LastRead \in Nat /\ Pauses \subseteq Nat \ {0} BY HealthAssumption DEF HealthTimes
<1>2. CASE ReadFails
  <2>1. PICK gap \in Pauses : Passed(readAt + gap) BY <1>2 DEF ReadFails
  <2> PICK now : now = readAt + gap OBVIOUS
  <2>2. readAt' \in 0 .. LastRead BY <1>1, <2>1 DEF Passed
  <2>3. seen' = seen /\ limitAt' = limitAt BY <1>2 DEF ReadFails, Failed, healthState
  <2> QED BY <2>2, <2>3 DEF HealthTimes
<1>3. CASE ReadSucceeds
  <2>1. PICK gap \in Pauses, read \in [players : Counts, moved : BOOLEAN, newRound : BOOLEAN, build : Builds] :
          Passed(readAt + gap) /\ Good(readAt + gap, read)
    BY <1>3 DEF ReadSucceeds
  <2> PICK now : now = readAt + gap OBVIOUS
  <2>2. readAt' = now /\ now \in 0 .. LastRead BY <1>1, <2>1 DEF Passed
  <2>3. seen'.at = now BY <2>1 DEF Good
  <2>4. limitAt' \in {now, limitAt} BY <2>1 DEF Good
  <2> QED BY <2>2, <2>3, <2>4 DEF HealthTimes
<1>4. CASE UNCHANGED healthVars BY <1>4 DEF healthVars, healthState, HealthTimes
<1> QED BY <1>2, <1>3, <1>4 DEF HealthNext

LEMMA HealthTyped == HealthInv /\ HealthTimes => HealthTypeOK
<1> SUFFICES ASSUME HealthInv, HealthTimes PROVE HealthTypeOK OBVIOUS
<1>1. outage # NoOutage => outage \in Outages /\ outage.failures # 0 BY DEF HealthInv, HealthShape
<1>2. outage # NoOutage => outage.failures \in 1 .. 2 /\ outage.successes \in 0 .. 1 BY <1>1 DEF Outages
<1>3. episode # NoEpisode => Len(episode.pauses) <= MaxPauses BY DEF HealthInv, HealthShape
<1> QED BY <1>2, <1>3 DEF HealthTimes, HealthTypeOK

\* What staff are told of a server's health adds up: a post that the game is down is followed by one that it is
\* back, a restart that only an empty server suggests is never reported after players were seen, and calls for
\* players are posted once and not before their time (health-state.ts, seeding-state.ts).
THEOREM HealthPostsAddUp == HealthSpec => []HealthPostsTrue
<1>1. HealthInv => HealthPostsTrue
  BY DEF HealthInv, HealthPostsTrue, HeldRestartStayedEmpty, CalledInTime
<1> QED BY HealthStarts, HealthKeeps, <1>1, PTL DEF HealthSpec

-----------------------------------------------------------------------------
(* Joins of watched players *)

\* When a read last listed the player.
LastListing(p) == IF visit[p].listed = NoTime THEN visit[p].before ELSE visit[p].listed
Times == Nat \cup {NoTime}
VisitRecords == [from : Nat \cup {0 - 1}, posts : {0, 1}, shown : Times, listed : Times, before : Times]
WatchTimes ==
  /\ watchAt \in Nat /\ watchAt <= LastWatch /\ online \subseteq Watched /\ bootChecked \in BOOLEAN
  /\ loadedAt \in Times /\ bootAt \in Times
  /\ watchSeen \in [Watched -> Times] /\ told \in [Watched -> Times] /\ visit \in [Watched -> VisitRecords]
  /\ lookupFailed \in [Watched -> BOOLEAN]
\* Nothing happened later than the last read.
Dated(p) ==
  /\ told[p] <= watchAt /\ visit[p].listed <= watchAt /\ visit[p].shown <= watchAt /\ visit[p].from <= watchAt
  /\ visit[p].before <= watchAt
\* A visit that no read listed was not posted, and one from before the start only after a map load's time.
VisitTold(p) ==
  /\ visit[p].listed = NoTime => visit[p].posts = 0 /\ visit[p].shown = NoTime
  /\ visit[p].listed # NoTime => bootAt # NoTime /\ visit[p].shown # NoTime
  /\ visit[p].from = 0 - 1 /\ visit[p].posts = 1 => visit[p].shown >= bootAt + MapHold
\* The monitor remembers the last listing of a player or nothing, and of a listed player who stays it does.
SeenTrue(p) ==
  /\ watchSeen[p] \in {NoTime, LastListing(p)}
  /\ p \in online /\ visit[p].listed # NoTime => watchSeen[p] = visit[p].listed
\* A map load hides whom the last read before it listed.
Hidden(p) == loadedAt # NoTime /\ p \in online => visit[p].listed \in {NoTime, loadedAt}
BootTrue ==
  bootChecked => /\ bootAt # NoTime
                 /\ \/ watchAt >= bootAt + MapHold
                    \/ \A p \in online : visit[p].from # 0 - 1 \/ visit[p].listed # NoTime
\* JoinsTold of one player.
JoinTold(p) ==
  (/\ visit[p].listed # NoTime /\ ~lookupFailed[p] /\ bootAt # NoTime
   /\ visit[p].from > bootAt + MapHold
   /\ visit[p].before = NoTime \/ visit[p].from - visit[p].before > StaleAfter)
    => told[p] # NoTime /\ (told[p] >= visit[p].shown \/ visit[p].shown - told[p] < AgainAfter)
PlayerTrue(p) == Dated(p) /\ VisitTold(p) /\ SeenTrue(p) /\ Hidden(p) /\ (p \in online => JoinTold(p))
WatchInv ==
  /\ WatchTimes /\ bootAt <= watchAt /\ loadedAt <= watchAt /\ BootTrue
  /\ \A p \in Watched : PlayerTrue(p)

LEMMA WatchStarts == WatchInit => WatchInv
<1> SUFFICES ASSUME WatchInit PROVE WatchInv OBVIOUS
<1> USE WatchAssumption DEF WatchInit, NoTime, Times
<1>1. WatchTimes
  <2>1. [from |-> 0 - 1, posts |-> 0, shown |-> NoTime, listed |-> NoTime, before |-> NoTime] \in VisitRecords
    BY DEF VisitRecords
  <2>2. visit \in [Watched -> VisitRecords] BY <2>1
  <2>3. watchSeen \in [Watched -> Times] /\ told \in [Watched -> Times] OBVIOUS
  <2>4. lookupFailed \in [Watched -> BOOLEAN] OBVIOUS
  <2>5. online \subseteq Watched OBVIOUS
  <2>6. LastWatch \in Nat BY WatchAssumption
  <2>7. watchAt \in Nat /\ watchAt <= LastWatch /\ loadedAt \in Times /\ bootAt \in Times BY <2>6
  <2>8. bootChecked \in BOOLEAN OBVIOUS
  <2> QED BY <2>2, <2>3, <2>4, <2>5, <2>7, <2>8 DEF WatchTimes
<1>2. bootAt <= watchAt /\ loadedAt <= watchAt /\ BootTrue BY DEF BootTrue
<1>3. ASSUME NEW p \in Watched PROVE PlayerTrue(p)
  BY DEF PlayerTrue, Dated, VisitTold, SeenTrue, Hidden, JoinTold, LastListing
<1> QED BY <1>1, <1>2, <1>3 DEF WatchInv

\* What a player's record says stays so while nothing about it changes.
LEMMA PlayerKept ==
  ASSUME WatchInv, NEW p \in Watched, UNCHANGED <<watchAt, bootAt, watchSeen, told>>,
         visit'[p] = visit[p], lookupFailed'[p] = lookupFailed[p], p \in online' => p \in online,
         loadedAt' \in {NoTime, loadedAt}
  PROVE  PlayerTrue(p)'
BY DEF WatchInv, PlayerTrue, Dated, VisitTold, SeenTrue, Hidden, JoinTold, LastListing

LEMMA ArriveKeeps == ASSUME WatchInv, Arrive PROVE WatchInv'
<1> PICK p \in Watched \ online :
      /\ online' = online \cup {p} /\ loadedAt = NoTime
      /\ visit' = [visit EXCEPT ![p] = NewVisit(visit[p])]
      /\ lookupFailed' = [lookupFailed EXCEPT ![p] = FALSE]
      /\ UNCHANGED <<watchAt, loadedAt, watchSeen, bootAt, bootChecked, told>>
  BY DEF Arrive
<1> USE WatchAssumption DEF WatchInv
<1>1. NewVisit(visit[p]) \in VisitRecords
  BY DEF WatchTimes, VisitRecords, NewVisit, Times
<1>2. visit'[p] = NewVisit(visit[p]) /\ \A q \in Watched \ {p} : visit'[q] = visit[q] /\ lookupFailed'[q] = lookupFailed[q]
  BY DEF WatchTimes
<1>3. WatchTimes' BY <1>1 DEF WatchTimes
<1>4. BootTrue'
  BY <1>2 DEF BootTrue, NewVisit, WatchTimes
<1>5. PlayerTrue(p)'
  BY <1>2 DEF PlayerTrue, Dated, VisitTold, SeenTrue, Hidden, JoinTold, LastListing, NewVisit, WatchTimes, Times, NoTime
<1>6. ASSUME NEW q \in Watched, q # p PROVE PlayerTrue(q)'
  BY <1>2, <1>6, PlayerKept
<1> QED BY <1>3, <1>4, <1>5, <1>6

LEMMA DepartKeeps == ASSUME WatchInv, Depart \/ MapLoaded PROVE WatchInv'
<1>1. /\ UNCHANGED <<watchAt, watchSeen, bootAt, bootChecked, told, visit, lookupFailed>>
      /\ online' \subseteq online /\ loadedAt' \in {NoTime, loadedAt}
  BY DEF Depart, MapLoaded
<1>2. WatchTimes' /\ bootAt' <= watchAt' /\ loadedAt' <= watchAt'
  BY <1>1 DEF WatchInv, WatchTimes, Times, NoTime
<1>3. BootTrue' BY <1>1 DEF WatchInv, BootTrue
<1>4. ASSUME NEW p \in Watched PROVE PlayerTrue(p)'
  BY <1>1, PlayerKept
<1> QED BY <1>2, <1>3, <1>4 DEF WatchInv

LEMMA LoadKeeps == ASSUME WatchInv, MapLoads PROVE WatchInv'
<1>1. /\ UNCHANGED <<watchAt, online, watchSeen, bootAt, bootChecked, told, visit, lookupFailed>>
      /\ loadedAt' = watchAt /\ \A p \in online : visit[p].listed = watchAt
  BY DEF MapLoads
<1>2. WatchTimes' /\ bootAt' <= watchAt' /\ loadedAt' <= watchAt'
  BY <1>1 DEF WatchInv, WatchTimes, Times, NoTime
<1>3. BootTrue' BY <1>1 DEF WatchInv, BootTrue
<1>4. ASSUME NEW p \in Watched PROVE PlayerTrue(p)'
  BY <1>1 DEF WatchInv, PlayerTrue, Dated, VisitTold, SeenTrue, Hidden, JoinTold, LastListing
<1> QED BY <1>2, <1>3, <1>4 DEF WatchInv

LEMMA FailKeeps == ASSUME WatchInv, ReadFailed PROVE WatchInv'
<1> PICK step \in ReadSteps :
      /\ watchAt + step <= LastWatch /\ watchAt' = watchAt + step
      /\ UNCHANGED <<online, loadedAt, watchSeen, bootAt, bootChecked, told, visit, lookupFailed>>
  BY DEF ReadFailed
<1>0. step \in Nat /\ watchAt \in Nat /\ bootAt \in Int /\ loadedAt \in Int /\ MapHold \in Nat
  BY WatchAssumption DEF WatchInv, WatchTimes, Times, NoTime
<1>1. watchAt' \in Nat /\ watchAt' >= watchAt BY <1>0
<1>2. WatchTimes' /\ bootAt' <= watchAt' /\ loadedAt' <= watchAt'
  BY <1>0, <1>1 DEF WatchInv, WatchTimes
<1>3. BootTrue' BY <1>0, <1>1 DEF WatchInv, BootTrue
<1>4. ASSUME NEW p \in Watched PROVE PlayerTrue(p)'
  <2>1. /\ visit[p].listed \in Int /\ visit[p].shown \in Int /\ visit[p].from \in Int /\ visit[p].before \in Int
        /\ told[p] \in Int
    BY DEF WatchInv, WatchTimes, VisitRecords, Times, NoTime
  <2>2. Dated(p)' BY <1>0, <1>1, <2>1 DEF WatchInv, PlayerTrue, Dated
  <2> QED BY <2>2 DEF WatchInv, PlayerTrue, VisitTold, SeenTrue, Hidden, JoinTold, LastListing
<1> QED BY <1>2, <1>3, <1>4 DEF WatchInv


\* What one good read does to what is known of one player.
ReadOf(now, ids, posts, found) ==
  /\ watchAt' = now /\ watchSeen' = Seen(ids, now)
  /\ bootAt' = (IF bootAt = NoTime THEN now ELSE bootAt)
  /\ bootChecked' = (bootChecked \/ ~AtStart(now) \/ (bootAt = NoTime /\ ids # {}))
  /\ told' = [p \in Watched |-> IF p \in posts THEN now ELSE told[p]]
  /\ lookupFailed' = [p \in Watched |-> IF p \in Fresh(ids, now) THEN ~found ELSE lookupFailed[p]]
  /\ visit' = [p \in Watched |->
                 IF p \notin ids THEN visit[p]
                 ELSE ListedNow(Ongoing(visit[p], now), now, IF p \in posts THEN 1 ELSE 0)]
  /\ UNCHANGED <<online, loadedAt>>

\* A player in the roster: their visit goes on, or a new one begins and they are fresh to the monitor.
LEMMA ListedPlayer ==
  ASSUME WatchInv, NEW now \in Nat, NEW ids, NEW posts, NEW found \in BOOLEAN, NEW p \in ids,
         p \in Watched, p \in online, loadedAt = NoTime, now > watchAt
  PROVE  LET v == Ongoing(visit[p], now) IN
         /\ v \in VisitRecords /\ v.listed <= watchAt /\ v.shown <= watchAt /\ v.from <= watchAt /\ v.before <= watchAt
         /\ v.listed = NoTime => v.posts = 0 /\ v.shown = NoTime
         /\ v.listed # NoTime => v = visit[p] /\ p \notin Fresh(ids, now)
         /\ v.listed = NoTime /\ (v.before = NoTime \/ v.from - v.before > StaleAfter) => p \in Fresh(ids, now)
         /\ v.from = 0 - 1 => v = visit[p]
<1> DEFINE v == Ongoing(visit[p], now)
<1> USE WatchAssumption
<1>1. visit[p] \in VisitRecords /\ watchAt \in Nat /\ PlayerTrue(p) /\ watchSeen[p] \in Times /\ StaleAfter \in Nat
  BY DEF WatchInv, WatchTimes
<1>2. CASE visit[p].listed = NoTime \/ now - visit[p].listed <= StaleAfter
  <2>1. v = visit[p] BY <1>2 DEF Ongoing
  <2>2. v.listed # NoTime => p \notin Fresh(ids, now)
    BY <1>1, <1>2, <2>1 DEF Fresh, PlayerTrue, SeenTrue, Times, NoTime
  <2>3. v.listed = NoTime /\ (v.before = NoTime \/ v.from - v.before > StaleAfter) => p \in Fresh(ids, now)
    BY <1>1, <2>1 DEF Fresh, PlayerTrue, SeenTrue, LastListing, Times, NoTime, VisitRecords, Dated
  <2> QED BY <1>1, <2>1, <2>2, <2>3 DEF PlayerTrue, Dated, VisitTold
<1>3. CASE ~(visit[p].listed = NoTime \/ now - visit[p].listed <= StaleAfter)
  <2>1. v = NewVisit(visit[p]) BY <1>3 DEF Ongoing
  <2>2. v = [from |-> watchAt, posts |-> 0, shown |-> NoTime, listed |-> NoTime, before |-> visit[p].listed]
    BY <1>3, <2>1 DEF NewVisit
  <2>3. v \in VisitRecords BY <1>1, <2>2 DEF VisitRecords, Times
  <2>4. p \in Fresh(ids, now)
    BY <1>1, <1>3 DEF Fresh, PlayerTrue, SeenTrue, LastListing, Times, NoTime, VisitRecords
  <2> QED BY <1>1, <2>2, <2>3, <2>4 DEF PlayerTrue, Dated, Times, NoTime, VisitRecords
<1> QED BY <1>2, <1>3


LEMMA ReadKeepsTypes ==
  ASSUME WatchInv, NEW now \in Nat, now <= LastWatch, NEW ids \in SUBSET online, NEW posts \in SUBSET Fresh(ids, now),
         NEW found \in BOOLEAN, now > watchAt, ids # {} => loadedAt = NoTime, ReadOf(now, ids, posts, found)
  PROVE  WatchTimes' /\ bootAt' <= watchAt' /\ loadedAt' <= watchAt'
<1> USE WatchAssumption
<1>1. WatchTimes /\ bootAt <= watchAt /\ loadedAt <= watchAt BY DEF WatchInv
<1>2. watchSeen' \in [Watched -> Times]
  BY <1>1 DEF ReadOf, Seen, WatchTimes, Times
<1>3. told' \in [Watched -> Times] BY <1>1 DEF ReadOf, WatchTimes, Times
<1>4. lookupFailed' \in [Watched -> BOOLEAN] BY <1>1 DEF ReadOf, WatchTimes
<1>5. ASSUME NEW p \in Watched
      PROVE  (IF p \notin ids THEN visit[p]
              ELSE ListedNow(Ongoing(visit[p], now), now, IF p \in posts THEN 1 ELSE 0)) \in VisitRecords
  <2>1. CASE p \notin ids BY <1>1, <2>1 DEF WatchTimes
  <2>2. CASE p \in ids
    <3> PICK v : v = Ongoing(visit[p], now) OBVIOUS
    <3>1. v \in VisitRecords /\ (v.listed = NoTime => v.posts = 0) /\ (v.listed # NoTime => p \notin posts)
      BY <2>2, ListedPlayer DEF Fresh
    <3>2. v.posts + (IF p \in posts THEN 1 ELSE 0) \in {0, 1} BY <3>1 DEF VisitRecords
    <3>3. ListedNow(v, now, IF p \in posts THEN 1 ELSE 0) \in VisitRecords
      BY <3>1, <3>2 DEF VisitRecords, ListedNow, Times
    <3> QED BY <2>2, <3>3
  <2> QED BY <2>1, <2>2
<1>6. visit' \in [Watched -> VisitRecords] BY <1>5 DEF ReadOf
<1>7. /\ watchAt' \in Nat /\ watchAt' <= LastWatch /\ online' \subseteq Watched /\ bootChecked' \in BOOLEAN
      /\ loadedAt' \in Times /\ bootAt' \in Times /\ bootAt' <= watchAt' /\ loadedAt' <= watchAt'
  BY <1>1 DEF ReadOf, WatchTimes, Times, NoTime
<1> QED BY <1>2, <1>3, <1>4, <1>6, <1>7 DEF WatchTimes

\* A player who is not in the roster.
LEMMA UnlistedPlayer ==
  ASSUME WatchInv, NEW now \in Nat, now <= LastWatch, NEW ids \in SUBSET online, NEW posts \in SUBSET Fresh(ids, now),
         NEW found \in BOOLEAN, now > watchAt, ReadOf(now, ids, posts, found), NEW p \in Watched, p \notin ids,
         p \in online => ids = {} /\ loadedAt # NoTime /\ now - loadedAt <= MapHold
  PROVE  PlayerTrue(p)'
<1> USE WatchAssumption
<1>1. PlayerTrue(p) /\ WatchTimes /\ bootAt <= watchAt BY DEF WatchInv
<1>2. p \notin Fresh(ids, now) /\ p \notin posts BY DEF Fresh
<1>3. /\ visit'[p] = visit[p] /\ told'[p] = told[p] /\ lookupFailed'[p] = lookupFailed[p]
      /\ watchSeen'[p] = (IF now - watchSeen[p] > Grace(ids) THEN NoTime ELSE watchSeen[p])
      /\ bootAt' = (IF bootAt = NoTime THEN now ELSE bootAt) /\ watchAt' = now
      /\ online' = online /\ loadedAt' = loadedAt
  BY <1>2 DEF ReadOf, Seen
<1>4. visit[p] \in VisitRecords /\ told[p] \in Times /\ watchSeen[p] \in Times /\ bootAt \in Times /\ watchAt \in Nat
      /\ loadedAt \in Times
  BY <1>1 DEF WatchTimes
<1> USE DEF Times, NoTime, VisitRecords
<1>5. Dated(p)' BY <1>1, <1>3, <1>4 DEF PlayerTrue, Dated
<1>6. VisitTold(p)' BY <1>1, <1>3, <1>4 DEF PlayerTrue, VisitTold
<1>7. SeenTrue(p)'
  <2>1. watchSeen'[p] \in {NoTime, LastListing(p)'}
    BY <1>1, <1>3, <1>4 DEF PlayerTrue, SeenTrue, LastListing
  <2>2. ASSUME p \in online, visit[p].listed # NoTime PROVE watchSeen'[p] = visit[p].listed
    BY <1>1, <1>3, <1>4, <2>2 DEF PlayerTrue, SeenTrue, Hidden, Grace
  <2> QED BY <1>3, <2>1, <2>2 DEF SeenTrue
<1>8. Hidden(p)' BY <1>1, <1>3 DEF PlayerTrue, Hidden
<1>9. p \in online' => JoinTold(p)'
  BY <1>1, <1>3, <1>4 DEF PlayerTrue, JoinTold, VisitTold
<1> QED BY <1>5, <1>6, <1>7, <1>8, <1>9 DEF PlayerTrue


\* A player in the roster.
LEMMA ListedTrue ==
  ASSUME WatchInv, NEW now \in Nat, now <= LastWatch, NEW ids \in SUBSET online, NEW found \in BOOLEAN, now > watchAt,
         loadedAt = NoTime, ReadOf(now, ids, JoinsPosted(ids, found, now), found), NEW p \in ids
  PROVE  PlayerTrue(p)'
<1> USE WatchAssumption
<1>1. WatchTimes /\ bootAt <= watchAt /\ BootTrue /\ p \in Watched /\ p \in online /\ PlayerTrue(p)
  BY DEF WatchInv, WatchTimes
<1> PICK v : v = Ongoing(visit[p], now) OBVIOUS
<1> PICK n : n = (IF p \in JoinsPosted(ids, found, now) THEN 1 ELSE 0) OBVIOUS
<1>2. /\ v \in VisitRecords /\ v.listed <= watchAt /\ v.shown <= watchAt /\ v.from <= watchAt /\ v.before <= watchAt
      /\ v.listed = NoTime => v.posts = 0 /\ v.shown = NoTime
      /\ v.listed # NoTime => v = visit[p] /\ p \notin Fresh(ids, now)
      /\ v.listed = NoTime /\ (v.before = NoTime \/ v.from - v.before > StaleAfter) => p \in Fresh(ids, now)
      /\ v.from = 0 - 1 => v = visit[p]
  BY <1>1, ListedPlayer
<1>3. /\ visit'[p] = ListedNow(v, now, n) /\ watchSeen'[p] = now
      /\ told'[p] = (IF p \in JoinsPosted(ids, found, now) THEN now ELSE told[p])
      /\ lookupFailed'[p] = (IF p \in Fresh(ids, now) THEN ~found ELSE lookupFailed[p])
      /\ bootAt' = (IF bootAt = NoTime THEN now ELSE bootAt) /\ watchAt' = now /\ loadedAt' = NoTime /\ online' = online
  BY <1>1 DEF ReadOf, Seen
<1>4. /\ visit'[p].from = v.from /\ visit'[p].before = v.before /\ visit'[p].listed = now
      /\ visit'[p].shown = (IF v.shown = NoTime THEN now ELSE v.shown) /\ visit'[p].posts = v.posts + n
  BY <1>2, <1>3 DEF ListedNow, VisitRecords
<1>5. /\ v.from \in Int /\ v.before \in Int /\ v.listed \in Times /\ v.shown \in Times /\ v.posts \in {0, 1}
      /\ told[p] \in Times /\ bootAt \in Times /\ watchAt \in Nat /\ MapHold \in Nat /\ StaleAfter \in Nat
      /\ AgainAfter \in Nat
  BY <1>1, <1>2 DEF WatchTimes, VisitRecords, Times, NoTime
<1>6. p \in JoinsPosted(ids, found, now) <=>
        p \in Fresh(ids, now) /\ found /\ ~AtStart(now) /\ (told[p] = NoTime \/ now - told[p] >= AgainAfter)
  BY DEF JoinsPosted
<1> USE DEF Times, NoTime
<1>7. Dated(p)' BY <1>2, <1>3, <1>4, <1>5, <1>1 DEF Dated, PlayerTrue
<1>8. VisitTold(p)'
  <2>1. visit'[p].listed # NoTime /\ bootAt' # NoTime /\ visit'[p].shown # NoTime BY <1>3, <1>4, <1>5
  <2>2. ASSUME v.from = 0 - 1, v.posts + n = 1 PROVE visit'[p].shown >= bootAt' + MapHold
    <3>1. v = visit[p] BY <1>2, <2>2
    <3>2. CASE v.listed # NoTime
      <4>1. n = 0 BY <1>2, <1>6, <3>2
      <4> QED BY <1>1, <1>3, <1>4, <1>5, <2>2, <3>1, <3>2, <4>1 DEF PlayerTrue, VisitTold
    <3>3. CASE v.listed = NoTime
      <4>1. v.posts = 0 /\ v.shown = NoTime BY <1>2, <3>3
      <4>2. p \in JoinsPosted(ids, found, now) BY <2>2, <4>1
      <4>3. ~AtStart(now) BY <1>6, <4>2
      <4>4. CASE bootChecked BY <1>1, <1>3, <1>4, <1>5, <2>2, <3>1, <3>3, <4>1, <4>4 DEF BootTrue
      <4>5. CASE ~bootChecked BY <1>3, <1>4, <1>5, <4>1, <4>3, <4>5 DEF AtStart
      <4> QED BY <4>4, <4>5
    <3> QED BY <3>2, <3>3
  <2> QED BY <1>4, <2>1, <2>2 DEF VisitTold
<1>9. SeenTrue(p)' BY <1>3, <1>4, <1>5 DEF SeenTrue, LastListing
<1>10. Hidden(p)' BY <1>3 DEF Hidden
<1>11. JoinTold(p)'
  <2> SUFFICES ASSUME ~lookupFailed'[p], v.from > bootAt' + MapHold, v.before = NoTime \/ v.from - v.before > StaleAfter
               PROVE  told'[p] # NoTime /\ (told'[p] >= visit'[p].shown \/ visit'[p].shown - told'[p] < AgainAfter)
    BY <1>4 DEF JoinTold
  <2>1. CASE v.listed # NoTime
    <3>1. v = visit[p] /\ p \notin Fresh(ids, now) BY <1>2, <2>1
    <3>2. told'[p] = told[p] /\ ~lookupFailed[p] BY <1>3, <1>6, <3>1
    <3>3. bootAt' = bootAt /\ bootAt # NoTime /\ v.shown # NoTime
      BY <1>1, <1>3, <2>1, <3>1 DEF PlayerTrue, VisitTold
    <3> QED BY <1>1, <1>4, <2>1, <3>1, <3>2, <3>3 DEF PlayerTrue, JoinTold
  <2>2. CASE v.listed = NoTime
    <3>1. p \in Fresh(ids, now) /\ v.shown = NoTime BY <1>2, <2>2
    <3>2. found BY <1>3, <3>1
    <3>3. ~AtStart(now) BY <1>2, <1>3, <1>5 DEF AtStart
    <3>4. visit'[p].shown = now BY <1>4, <3>1
    <3>5. CASE p \in JoinsPosted(ids, found, now)
      <4>1. told'[p] = now BY <1>3, <3>5
      <4> QED BY <3>4, <4>1
    <3>6. CASE p \notin JoinsPosted(ids, found, now)
      <4>1. told'[p] = told[p] BY <1>3, <3>6
      <4>2. ~(told[p] = NoTime \/ now - told[p] >= AgainAfter) BY <1>6, <3>1, <3>2, <3>3, <3>6
      <4> QED BY <1>5, <3>4, <4>1, <4>2
    <3> QED BY <3>5, <3>6
  <2> QED BY <2>1, <2>2
<1> QED BY <1>7, <1>8, <1>9, <1>10, <1>11 DEF PlayerTrue

LEMMA ReadKeepsWatch == ASSUME WatchInv, ReadRoster PROVE WatchInv'
<1> PICK step \in ReadSteps, found \in BOOLEAN :
      LET now == watchAt + step
          ids == IF loadedAt = NoTime THEN online ELSE {}
          posts == JoinsPosted(ids, found, now) IN
      /\ now <= LastWatch /\ (loadedAt = NoTime \/ now - loadedAt <= MapHold)
      /\ watchAt' = now /\ watchSeen' = Seen(ids, now)
      /\ bootAt' = (IF bootAt = NoTime THEN now ELSE bootAt)
      /\ bootChecked' = (bootChecked \/ ~AtStart(now) \/ (bootAt = NoTime /\ ids # {}))
      /\ told' = [p \in Watched |-> IF p \in posts THEN now ELSE told[p]]
      /\ lookupFailed' = [p \in Watched |-> IF p \in Fresh(ids, now) THEN ~found ELSE lookupFailed[p]]
      /\ visit' = [p \in Watched |->
                     IF p \notin ids THEN visit[p]
                     ELSE ListedNow(Ongoing(visit[p], now), now, IF p \in posts THEN 1 ELSE 0)]
      /\ UNCHANGED <<online, loadedAt>>
  BY Zenon DEF ReadRoster
<1> PICK now : now = watchAt + step OBVIOUS
<1> PICK ids : ids = (IF loadedAt = NoTime THEN online ELSE {}) OBVIOUS
<1>1. ReadOf(now, ids, JoinsPosted(ids, found, now), found) BY DEF ReadOf
<1>2. now <= LastWatch /\ (loadedAt = NoTime \/ now - loadedAt <= MapHold) OBVIOUS
<1>3. now \in Nat /\ now > watchAt BY WatchAssumption DEF WatchInv, WatchTimes
<1>4. ids \in SUBSET online /\ (ids # {} => loadedAt = NoTime) OBVIOUS
<1>5. JoinsPosted(ids, found, now) \in SUBSET Fresh(ids, now) BY DEF JoinsPosted
<1>6. WatchTimes' /\ bootAt' <= watchAt' /\ loadedAt' <= watchAt'
  BY <1>1, <1>2, <1>3, <1>4, <1>5, ReadKeepsTypes
<1>7. ASSUME NEW p \in Watched PROVE PlayerTrue(p)'
  <2>1. CASE p \in ids BY <1>1, <1>2, <1>3, <1>4, <2>1, ListedTrue
  <2>2. CASE p \notin ids
    <3>1. p \in online => ids = {} /\ loadedAt # NoTime /\ now - loadedAt <= MapHold BY <1>2, <2>2
    <3> QED BY <1>1, <1>2, <1>3, <1>4, <1>5, <2>2, <3>1, UnlistedPlayer
  <2> QED BY <2>1, <2>2
<1>8. BootTrue'
  <2>1. ASSUME NEW p \in ids PROVE visit'[p].listed = now
    <3>1. p \in Watched BY <1>4 DEF WatchInv, WatchTimes
    <3> PICK v : v = Ongoing(visit[p], now) OBVIOUS
    <3>2. v \in VisitRecords BY <1>3, <1>4, <3>1, ListedPlayer
    <3> PICK n : n = (IF p \in JoinsPosted(ids, found, now) THEN 1 ELSE 0) OBVIOUS
    <3>3. visit'[p] = ListedNow(v, now, n) BY <1>1, <3>1 DEF ReadOf
    <3> QED BY <3>2, <3>3, ZenonT(60) DEF ListedNow, VisitRecords
  <2>2. ASSUME NEW p \in online, ids = {} PROVE visit'[p] = visit[p]
    BY <2>2, <1>1 DEF ReadOf, WatchInv, WatchTimes
  <2>3. /\ bootAt' = (IF bootAt = NoTime THEN now ELSE bootAt) /\ watchAt' = now /\ online' = online
        /\ bootChecked' = (bootChecked \/ ~AtStart(now) \/ (bootAt = NoTime /\ ids # {}))
    BY <1>1 DEF ReadOf
  <2>4. watchAt \in Nat /\ bootAt \in Times /\ MapHold \in Nat BY WatchAssumption DEF WatchInv, WatchTimes
  <2>5. now # NoTime /\ bootAt' # NoTime BY <1>3, <2>3 DEF NoTime
  <2>6. CASE ids # {}
    <3>1. \A p \in online : visit'[p].listed # NoTime BY <2>1, <2>5, <2>6
    <3> QED BY <2>3, <2>5, <3>1 DEF BootTrue
  <2>7. CASE ids = {}
    <3>1. CASE bootChecked
      BY <1>3, <2>2, <2>3, <2>4, <2>5, <2>7, <3>1 DEF WatchInv, BootTrue, Times, NoTime
    <3>2. CASE ~bootChecked
      <4>1. CASE AtStart(now)
        <5>1. ~bootChecked' BY <2>3, <2>7, <3>2, <4>1
        <5> QED BY <5>1 DEF BootTrue
      <4>2. CASE ~AtStart(now)
        <5>1. bootAt # NoTime /\ ~(now - bootAt < MapHold) BY <3>2, <4>2 DEF AtStart
        <5>2. watchAt' >= bootAt' + MapHold BY <1>3, <2>3, <2>4, <5>1 DEF Times, NoTime
        <5> QED BY <2>5, <5>2 DEF BootTrue
      <4> QED BY <4>1, <4>2
    <3> QED BY <3>1, <3>2
  <2> QED BY <2>6, <2>7
<1> QED BY <1>6, <1>7, <1>8 DEF WatchInv

LEMMA WatchKeeps == WatchInv /\ [WatchNext]_watchVars => WatchInv'
<1> SUFFICES ASSUME WatchInv, [WatchNext]_watchVars PROVE WatchInv' OBVIOUS
<1>1. CASE UNCHANGED watchVars
  <2>1. WatchTimes' /\ bootAt' <= watchAt' /\ loadedAt' <= watchAt' BY <1>1 DEF WatchInv, WatchTimes, watchVars
  <2>2. BootTrue' BY <1>1 DEF WatchInv, BootTrue, watchVars
  <2>3. \A p \in Watched : PlayerTrue(p)' BY <1>1, PlayerKept DEF watchVars
  <2> QED BY <2>1, <2>2, <2>3 DEF WatchInv
<1> QED BY <1>1, ArriveKeeps, DepartKeeps, LoadKeeps, FailKeeps, ReadKeepsWatch DEF WatchNext

\* What the invariant says of the joins.
LEMMA WatchTold == WatchInv => WatchTypeOK /\ WatchedOnce
<1> SUFFICES ASSUME WatchInv PROVE WatchTypeOK /\ WatchedOnce OBVIOUS
<1>1. WatchTypeOK
  <2>1. LastWatch \in Nat BY WatchAssumption
  <2> QED BY <2>1 DEF WatchInv, WatchTimes, WatchTypeOK, PlayerTrue, Dated, SeenTrue, LastListing, Times, NoTime, VisitRecords
<1>2. OncePerVisit
  BY WatchAssumption DEF WatchInv, WatchTimes, PlayerTrue, VisitTold, OncePerVisit, VisitRecords, Times, NoTime
<1>3. JoinsTold BY DEF WatchInv, WatchTimes, PlayerTrue, JoinTold, JoinsTold
<1> QED BY <1>1, <1>2, <1>3 DEF WatchedOnce

-----------------------------------------------------------------------------
(* Reviews of players' kill counters *)

\* What is tracked of a player, with what they really did.
Samples == Nat \X Int \X Int
TrackedPlayers ==
  [first : Nat, seen : Nat, missed : 0 .. 2, base : Nat, carried : Nat, last : Nat, samples : Seq(Samples),
   alerted : SUBSET {"window", "match"}, true : Nat]
\* The total (carried + last - base) and each sample count no more than the kills made, whether or not the
\* counter, which shows kills, restarted unseen.
SumsTrue(base, carried, last, made, samples, kills) ==
  /\ base <= last /\ carried + last - base <= made /\ carried + kills - base <= made
  /\ \A i \in 1 .. Len(samples) :
       /\ carried + last - base - samples[i][2] <= made - samples[i][3]
       /\ carried + kills - base - samples[i][2] <= made - samples[i][3]
CountsTrue(t, kills) == SumsTrue(t.base, t.carried, t.last, t.true, t.samples, kills)
CountersTrue(t, kills) == t = NotTracked \/ (t \in TrackedPlayers /\ CountsTrue(t, kills))
PostedPaced ==
  /\ \A a \in posted : a.at \in Nat /\ a.at + CooldownFor <= cooldown
  /\ AskedOncePerRound
CountersInv ==
  /\ counter \in Nat /\ sampledAt \in 0 .. LastReadTime /\ cooldown \in Nat
  /\ CountersTrue(tracked, counter) /\ PostedPaced

\* The samples of the window are some of the samples.
LEMMA InsideParts ==
  ASSUME NEW samples \in Seq(Samples), NEW now \in Nat
  PROVE  /\ Inside(samples, now) \in Seq(Samples)
         /\ \A i \in 1 .. Len(Inside(samples, now)) :
              \E j \in 1 .. Len(samples) : Inside(samples, now)[i] = samples[j]
<1> PICK aged : aged = {i \in DOMAIN samples : samples[i][1] < now - WindowFor} OBVIOUS
<1>1. Len(samples) \in Nat /\ DOMAIN samples = 1 .. Len(samples) OBVIOUS
<1>2. IsFiniteSet(1 .. Len(samples)) /\ aged \subseteq 1 .. Len(samples) BY <1>1, FS_Interval
<1>3. Cardinality(aged) \in Nat BY <1>2, FS_Subset, FS_CardinalityType
<1> PICK c \in Nat : c = Cardinality(aged) BY <1>3
<1>9. 1 + c \in Nat OBVIOUS
<1> PICK m : m = 1 + c OBVIOUS
<1>4. m \in Nat /\ m >= 1 /\ Inside(samples, now) = SubSeq(samples, m, Len(samples)) BY <1>3, <1>9 DEF Inside
<1>5. Inside(samples, now) \in Seq(Samples)
  <2>1. \A i \in m .. Len(samples) : samples[i] \in Samples BY <1>1, <1>4, ElementOfSeq
  <2> QED BY <1>1, <1>4, <2>1, SubSeqProperties
<1>6. ASSUME NEW i \in 1 .. Len(Inside(samples, now))
      PROVE  \E j \in 1 .. Len(samples) : Inside(samples, now)[i] = samples[j]
  <2>1. CASE m <= Len(samples) + 1
    <3>1. Len(Inside(samples, now)) = Len(samples) - m + 1
      BY <1>1, <1>4, <2>1
    <3>2. Inside(samples, now)[i] = samples[m + i - 1] /\ m + i - 1 \in 1 .. Len(samples)
      BY <1>1, <1>4, <2>1, <3>1
    <3> QED BY <3>2
  <2>2. CASE m > Len(samples) + 1
    <3>1. Len(Inside(samples, now)) = 0 BY <1>1, <1>4, <2>2
    <3> QED BY <3>1
  <2> QED BY <1>1, <2>1, <2>2
<1> QED BY <1>5, <1>6

LEMMA SampleFields ==
  ASSUME NEW samples \in Seq(Samples), NEW i \in 1 .. Len(samples)
  PROVE  samples[i][2] \in Int /\ samples[i][3] \in Int
<1>1. samples[i] \in Samples BY ElementOfSeq
<1> QED BY <1>1 DEF Samples

LEMMA SumsOf ==
  ASSUME NEW b, NEW c, NEW l, NEW g, NEW s, NEW k, b <= l, c + l - b <= g /\ c + k - b <= g,
         \A i \in 1 .. Len(s) : c + l - b - s[i][2] <= g - s[i][3] /\ c + k - b - s[i][2] <= g - s[i][3]
  PROVE  SumsTrue(b, c, l, g, s, k)
BY DEF SumsTrue

\* Kills made before and after a restart of the counter are at least those that show; n and m: a sample's.
LEMMA KillsAdd ==
  ASSUME NEW b \in Nat, NEW c \in Nat, NEW l \in Nat, NEW g \in Nat, NEW k \in Nat, NEW before \in Nat, NEW after \in Nat,
         NEW x \in Nat, x = k + before \/ x = after, b <= l, NEW n \in Int, NEW m \in Int,
         c + l - b - n <= g - m, c + k - b - n <= g - m, NEW h \in Nat, h = g + (before + after)
  PROVE  c + l - b - n <= h - m /\ c + x - b - n <= h - m
<1>1. CASE x = k + before BY <1>1
<1>2. CASE x = after BY <1>2
<1> QED BY <1>1, <1>2

LEMMA SumsGrow ==
  ASSUME NEW b \in Nat, NEW c \in Nat, NEW l \in Nat, NEW g \in Nat, NEW s \in Seq(Samples), NEW k \in Nat,
         NEW before \in Nat, NEW after \in Nat, NEW x \in Nat, x = k + before \/ x = after, SumsTrue(b, c, l, g, s, k)
  PROVE  SumsTrue(b, c, l, g + (before + after), s, x)
<1> PICK h \in Nat : h = g + (before + after) OBVIOUS
<1>1. b <= l /\ c + l - b <= g /\ c + k - b <= g BY DEF SumsTrue
<1>2. b <= l /\ c + l - b <= h /\ c + x - b <= h BY <1>1
<1>3. ASSUME NEW n \in Int, NEW m \in Int, c + l - b - n <= g - m, c + k - b - n <= g - m
      PROVE  c + l - b - n <= h - m /\ c + x - b - n <= h - m
  BY <1>1, <1>3, KillsAdd
<1>4. ASSUME NEW i \in 1 .. Len(s) PROVE c + l - b - s[i][2] <= h - s[i][3] /\ c + x - b - s[i][2] <= h - s[i][3]
  <2>1. s[i][2] \in Int /\ s[i][3] \in Int BY SampleFields
  <2>2. c + l - b - s[i][2] <= g - s[i][3] /\ c + k - b - s[i][2] <= g - s[i][3] BY Zenon DEF SumsTrue
  <2> QED BY <1>3, <2>1, <2>2, Zenon
<1>5. SumsTrue(b, c, l, h, s, x) BY <1>2, <1>4, SumsOf, Zenon
<1> QED BY <1>5

LEMMA SumsForgotten ==
  ASSUME NEW b, NEW c, NEW l, NEW g, NEW s, NEW k, SumsTrue(b, c, l, g, s, k)
  PROVE  SumsTrue(b, c, l, g, <<>>, k)
BY DEF SumsTrue

\* A counter that fell is carried, one that rose is read.
LEMMA SumsFell ==
  ASSUME NEW b \in Nat, NEW c \in Nat, NEW l \in Nat, NEW g \in Nat, NEW s \in Seq(Samples), NEW x \in Nat,
         SumsTrue(b, c, l, g, s, x)
  PROVE  /\ c + l - b \in Nat
         /\ SumsTrue(x, c + l - b, x, g, <<>>, x)
         /\ x >= l => SumsTrue(b, c, x, g, s, x)
<1>1. b <= l /\ c + l - b <= g /\ c + x - b <= g BY DEF SumsTrue
<1>2. c + l - b \in Nat /\ c + l - b + x - x <= g BY <1>1
<1>3. SumsTrue(x, c + l - b, x, g, <<>>, x) BY <1>2 DEF SumsTrue
<1>4. ASSUME x >= l PROVE SumsTrue(b, c, x, g, s, x)
  <2>1. b <= x BY <1>1, <1>4
  <2> QED BY <1>1, <2>1 DEF SumsTrue
<1> QED BY <1>2, <1>3, <1>4

LEMMA SumsSampled ==
  ASSUME NEW b \in Nat, NEW c \in Nat, NEW x \in Nat, NEW g \in Nat, NEW s \in Seq(Samples), NEW now \in Nat,
         NEW new \in Samples, new[2] = c + x - b, new[3] = g, SumsTrue(b, c, x, g, s, x)
  PROVE  /\ Inside(Append(s, new), now) \in Seq(Samples)
         /\ SumsTrue(b, c, x, g, Inside(Append(s, new), now), x)
<1> PICK all : all = Append(s, new) OBVIOUS
<1> PICK kept : kept = Inside(all, now) OBVIOUS
<1>1. c + x - b \in Int OBVIOUS
<1>2. new \in Samples /\ new[2] = c + x - b /\ new[3] = g OBVIOUS
<1>3. all \in Seq(Samples) /\ Len(all) = Len(s) + 1 /\ Len(s) \in Nat /\ all[Len(s) + 1] = new BY <1>2
<1>4. kept \in Seq(Samples) /\ \A i \in 1 .. Len(kept) : \E j \in 1 .. Len(all) : kept[i] = all[j]
  <2>1. all \in Seq(Samples) BY <1>3
  <2>2. /\ Inside(all, now) \in Seq(Samples)
        /\ \A i \in 1 .. Len(Inside(all, now)) : \E j \in 1 .. Len(all) : Inside(all, now)[i] = all[j]
    BY <2>1, InsideParts
  <2> QED BY <2>2, Zenon
<1>5. ASSUME NEW i \in 1 .. Len(kept) PROVE c + x - b - kept[i][2] <= g - kept[i][3]
  <2>1. PICK j \in 1 .. Len(s) + 1 : kept[i] = all[j] BY <1>3, <1>4
  <2>2. CASE j = Len(s) + 1
    <3>1. kept[i] = new BY <1>2, <1>3, <2>1, <2>2
    <3>2. kept[i][2] = c + x - b /\ kept[i][3] = g BY <1>2, <3>1
    <3>3. c + x - b - (c + x - b) <= g - g OBVIOUS
    <3> QED BY <3>2, <3>3
  <2>3. CASE j # Len(s) + 1
    <3>1. j \in 1 .. Len(s) BY <1>3, <2>1, <2>3
    <3>2. kept[i] = s[j] BY <1>2, <2>1, <3>1
    <3> QED BY <3>1, <3>2 DEF SumsTrue
  <2> QED BY <2>2, <2>3
<1> QED BY <1>4, <1>5 DEF SumsTrue

\* The numbers a tracked player's record holds.
LEMMA TrackedFields ==
  ASSUME NEW t \in TrackedPlayers
  PROVE  /\ t.first \in Nat /\ t.seen \in Nat /\ t.missed \in 0 .. 2 /\ t.base \in Nat /\ t.last \in Nat
         /\ t.carried \in Nat /\ t.true \in Nat /\ t.samples \in Seq(Samples)
         /\ t.alerted \in SUBSET {"window", "match"}
BY DEF TrackedPlayers

LEMMA CountersStart == CountersInit => CountersInv
<1> SUFFICES ASSUME CountersInit PROVE CountersInv OBVIOUS
<1>1. LastReadTime \in Nat BY CountersAssumption
<1> QED BY <1>1 DEF CountersInit, CountersInv, CountersTrue, PostedPaced, AskedOncePerRound

\* A player first seen in a read.
LEMMA FirstTrue ==
  ASSUME NEW kills \in Nat, NEW now \in Nat
  PROVE  First(kills, now) \in TrackedPlayers /\ CountsTrue(First(kills, now), kills)
<1> PICK t : t = First(kills, now) OBVIOUS
<1>1. <<now, 0, 0>> \in Samples BY DEF Samples
<1>2. <<<<now, 0, 0>>>> \in Seq(Samples) BY <1>1
<1>3. t \in TrackedPlayers BY <1>2 DEF First, TrackedPlayers
<1>4. /\ t.base = kills /\ t.last = kills /\ t.carried = 0 /\ t.true = 0 /\ t.samples = <<<<now, 0, 0>>>>
  BY DEF First
<1>5. SumsTrue(kills, 0, kills, 0, <<<<now, 0, 0>>>>, kills) BY DEF SumsTrue
<1> QED BY <1>3, <1>4, <1>5 DEF CountsTrue

\* A player missing from a read, whose counter goes on or restarts unseen.
LEMMA MissingTrue ==
  ASSUME NEW old \in TrackedPlayers, NEW k \in Nat, CountsTrue(old, k), NEW before \in Nat, NEW after \in Nat,
         NEW x \in Nat, x = k + before \/ x = after, NEW now \in Nat
  PROVE  CountersTrue(Missing(old, now, before + after), x)
<1> PICK g \in Nat : g = old.true + (before + after) BY TrackedFields
<1>1. SumsTrue(old.base, old.carried, old.last, g, old.samples, x) BY TrackedFields, SumsGrow DEF CountsTrue
<1> PICK t : t = [old EXCEPT !.missed = MinOf(2, old.missed + 1), !.true = g] OBVIOUS
<1>2. MinOf(2, old.missed + 1) \in 0 .. 2 BY TrackedFields DEF MinOf
<1>3. t \in TrackedPlayers BY <1>2 DEF TrackedPlayers
<1>4. t.base = old.base /\ t.last = old.last /\ t.carried = old.carried /\ t.samples = old.samples /\ t.true = g
  BY DEF TrackedPlayers
<1>5. CountsTrue(t, x) BY <1>1, <1>4 DEF CountsTrue
<1>6. Missing(old, now, before + after) \in {NotTracked, t} BY DEF Missing
<1> QED BY <1>3, <1>5, <1>6 DEF CountersTrue

LEMMA SampleAdded ==
  ASSUME NEW t \in TrackedPlayers, NEW now \in Nat, CountsTrue(t, t.last)
  PROVE  LET inside == Inside(Append(t.samples, <<now, Counted(t), t.true>>), now)
             read == [t EXCEPT !.samples = inside] IN
         read \in TrackedPlayers /\ CountsTrue(read, t.last)
<1>1. /\ t.base \in Nat /\ t.last \in Nat /\ t.carried \in Nat /\ t.true \in Nat /\ t.samples \in Seq(Samples)
  BY TrackedFields
<1> PICK new : new = <<now, Counted(t), t.true>> OBVIOUS
<1>2. Counted(t) = t.carried + t.last - t.base /\ Counted(t) \in Int BY <1>1 DEF Counted
<1>6. new \in Samples /\ new[2] = t.carried + t.last - t.base /\ new[3] = t.true BY <1>1, <1>2 DEF Samples
<1> PICK inside : inside = Inside(Append(t.samples, new), now) OBVIOUS
<1>3. inside \in Seq(Samples) /\ SumsTrue(t.base, t.carried, t.last, t.true, inside, t.last)
  BY <1>1, <1>6, SumsSampled, Zenon DEF CountsTrue
<1> PICK read : read = [t EXCEPT !.samples = inside] OBVIOUS
<1>4. read \in TrackedPlayers BY <1>3 DEF TrackedPlayers
<1>5. /\ read.base = t.base /\ read.carried = t.carried /\ read.last = t.last /\ read.true = t.true
      /\ read.samples = inside
  BY DEF TrackedPlayers
<1> QED BY <1>3, <1>4, <1>5, Zenon DEF CountsTrue

\* A player read again.
LEMMA SampledTrue ==
  ASSUME NEW old \in TrackedPlayers, NEW k \in Nat, CountsTrue(old, k), NEW before \in Nat, NEW after \in Nat,
         NEW x \in Nat, x = k + before \/ x = after, NEW now \in Nat
  PROVE  Sampled(old, x, before + after, now) \in TrackedPlayers /\ CountsTrue(Sampled(old, x, before + after, now), x)
<1> PICK kept : kept = (IF now - sampledAt > SampleGap \/ old.missed >= 2 THEN <<>> ELSE old.samples) OBVIOUS
<1> PICK g \in Nat : g = old.true + (before + after) BY TrackedFields
<1> PICK t0 : t0 = [old EXCEPT !.samples = kept, !.true = g] OBVIOUS
<1> PICK t1 : t1 = Fell(t0, x) OBVIOUS
<1> PICK t : t = [t1 EXCEPT !.last = x, !.missed = 0, !.seen = now] OBVIOUS
<1>1. Sampled(old, x, before + after, now) =
        [t EXCEPT !.samples = Inside(Append(t.samples, <<now, Counted(t), t.true>>), now)]
  BY DEF Sampled
<1>2. kept \in Seq(Samples) /\ kept \in {<<>>, old.samples} BY TrackedFields
<1>3. t0 \in TrackedPlayers BY <1>2 DEF TrackedPlayers
<1>4. /\ t0.base = old.base /\ t0.carried = old.carried /\ t0.last = old.last /\ t0.true = g /\ t0.samples = kept
  BY DEF TrackedPlayers
<1>5. SumsTrue(old.base, old.carried, old.last, g, old.samples, x) BY TrackedFields, SumsGrow DEF CountsTrue
<1>6. SumsTrue(old.base, old.carried, old.last, g, <<>>, x) BY <1>5, SumsForgotten
<1>7. SumsTrue(t0.base, t0.carried, t0.last, t0.true, t0.samples, x) BY <1>2, <1>4, <1>5, <1>6
<1>8. /\ t1 \in TrackedPlayers
      /\ SumsTrue(t1.base, t1.carried, x, t1.true, t1.samples, x)
  <2>1. /\ t0.carried + t0.last - t0.base \in Nat
        /\ SumsTrue(x, t0.carried + t0.last - t0.base, x, t0.true, <<>>, x)
        /\ x >= t0.last => SumsTrue(t0.base, t0.carried, x, t0.true, t0.samples, x)
    BY <1>3, <1>7, SumsFell, TrackedFields
  <2>2. CASE x < t0.last
    <3> PICK d \in Nat : d = t0.carried + t0.last - t0.base BY <2>1
    <3>1. t1 = [t0 EXCEPT !.carried = d, !.base = x, !.samples = <<>>] BY <2>2 DEF Fell
    <3>2. <<>> \in Seq(Samples) OBVIOUS
    <3>3. t1 \in TrackedPlayers BY <1>3, <3>1, <3>2 DEF TrackedPlayers
    <3>4. t1.carried = d /\ t1.base = x /\ t1.samples = <<>> /\ t1.true = t0.true BY <1>3, <3>1 DEF TrackedPlayers
    <3> QED BY <2>1, <3>3, <3>4
  <2>3. CASE ~(x < t0.last)
    <3>1. t1 = t0 BY <2>3 DEF Fell
    <3>2. x >= t0.last BY <1>3, <2>3, TrackedFields
    <3> QED BY <1>3, <2>1, <3>1, <3>2
  <2> QED BY <2>2, <2>3
<1>9. t \in TrackedPlayers
  <2>1. 0 \in 0 .. 2 OBVIOUS
  <2>2. t1 \in TrackedPlayers BY <1>8
  <2> QED BY <2>1, <2>2, ZenonT(60) DEF TrackedPlayers
<1>10. t.base = t1.base /\ t.carried = t1.carried /\ t.last = x /\ t.true = t1.true /\ t.samples = t1.samples
  BY <1>8 DEF TrackedPlayers
<1>11. CountsTrue(t, t.last) /\ t.last = x BY <1>8, <1>10 DEF CountsTrue
<1>12. /\ [t EXCEPT !.samples = Inside(Append(t.samples, <<now, Counted(t), t.true>>), now)] \in TrackedPlayers
       /\ CountsTrue([t EXCEPT !.samples = Inside(Append(t.samples, <<now, Counted(t), t.true>>), now)], t.last)
  BY <1>9, <1>11, SampleAdded, Zenon
<1> QED BY <1>1, <1>11, <1>12, Zenon

LEMMA CountersKeep == CountersInv /\ [CountersNext]_counterVars => CountersInv'
<1> SUFFICES ASSUME CountersInv, [CountersNext]_counterVars PROVE CountersInv' OBVIOUS
<1>1. CASE UNCHANGED counterVars
  BY <1>1 DEF CountersInv, CountersTrue, PostedPaced, AskedOncePerRound, counterVars
<1>2. CASE ReadCounters
  <2> PICK gap \in Gaps, before \in 0 .. MaxGain, after \in 0 .. MaxGain, present \in BOOLEAN, reset \in BOOLEAN,
           nextRound \in BOOLEAN, restarted \in BOOLEAN, evaluate \in BOOLEAN :
        LET now == sampledAt + gap
            kills == IF reset THEN after ELSE counter + before
            new == nextRound \/ restarted
            old == IF new THEN NotTracked ELSE tracked
            read == IF ~present THEN Missing(old, now, before + after)
                    ELSE IF old = NotTracked THEN First(kills, now) ELSE Sampled(old, kills, before + after, now)
            fresh == IF evaluate /\ present /\ old # NotTracked THEN Matched(read, now) \ old.alerted ELSE {}
            raises == fresh # {} /\ ~Amends(old) /\ ~Cooling(now)
            round == IF nextRound THEN <<roundId[1] + 1, 0>>
                     ELSE IF new THEN <<roundId[1], roundId[2] + 1>> ELSE roundId IN
        /\ now <= LastReadTime /\ (reset \/ after = 0)
        /\ counter' = kills /\ sampledAt' = now /\ roundId' = round
        /\ tracked' = (IF fresh = {} THEN read ELSE [read EXCEPT !.alerted = @ \cup fresh])
        /\ cooldown' = (IF raises THEN now + CooldownFor ELSE cooldown)
        /\ posted' = (IF raises /\ ~\E a \in posted : a.round = round
                      THEN posted \cup {[round |-> round, at |-> now]} ELSE posted)
    BY <1>2, Zenon DEF ReadCounters
  <2> PICK now : now = sampledAt + gap OBVIOUS
  <2> PICK kills : kills = (IF reset THEN after ELSE counter + before) OBVIOUS
  <2> PICK old : old = (IF nextRound \/ restarted THEN NotTracked ELSE tracked) OBVIOUS
  <2> PICK read : read = (IF ~present THEN Missing(old, now, before + after)
                         ELSE IF old = NotTracked THEN First(kills, now) ELSE Sampled(old, kills, before + after, now))
    OBVIOUS
  <2> PICK fresh : fresh = (IF evaluate /\ present /\ old # NotTracked THEN Matched(read, now) \ old.alerted ELSE {})
    OBVIOUS
  <2> PICK round : round = (IF nextRound THEN <<roundId[1] + 1, 0>>
                           ELSE IF nextRound \/ restarted THEN <<roundId[1], roundId[2] + 1>> ELSE roundId)
    OBVIOUS
  <2>1. /\ now <= LastReadTime /\ (reset \/ after = 0)
        /\ counter' = kills /\ sampledAt' = now
        /\ tracked' = (IF fresh = {} THEN read ELSE [read EXCEPT !.alerted = @ \cup fresh])
    BY Zenon
  <2>2. /\ cooldown' = (IF fresh # {} /\ ~Amends(old) /\ ~Cooling(now) THEN now + CooldownFor ELSE cooldown)
        /\ posted' = (IF (fresh # {} /\ ~Amends(old) /\ ~Cooling(now)) /\ ~\E a \in posted : a.round = round
                      THEN posted \cup {[round |-> round, at |-> now]} ELSE posted)
    BY Zenon
  <2>3. /\ before \in Nat /\ after \in Nat /\ now \in Nat /\ counter \in Nat /\ cooldown \in Nat /\ CooldownFor \in Nat
        /\ sampledAt \in Nat /\ LastReadTime \in Nat
    BY CountersAssumption DEF CountersInv
  <2>4. kills \in Nat /\ (kills = counter + before \/ kills = after) BY <2>1, <2>3
  <2>5. CountersTrue(old, counter) BY DEF CountersInv, CountersTrue
  <2>6. CountersTrue(read, kills)
    <3>1. CASE ~present
      <4>1. CASE old = NotTracked BY <3>1, <4>1 DEF Missing, CountersTrue
      <4>2. CASE old # NotTracked BY <2>3, <2>4, <2>5, <3>1, <4>2, MissingTrue DEF CountersTrue
      <4> QED BY <4>1, <4>2
    <3>2. CASE present /\ old = NotTracked BY <2>3, <2>4, <3>2, FirstTrue DEF CountersTrue
    <3>3. CASE present /\ old # NotTracked BY <2>3, <2>4, <2>5, <3>3, SampledTrue DEF CountersTrue
    <3> QED BY <3>1, <3>2, <3>3
  <2>7. CountersTrue(tracked', kills)
    <3>1. CASE fresh = {} BY <2>1, <2>6, <3>1
    <3>2. CASE fresh # {}
      <4>1. present /\ old # NotTracked /\ fresh \subseteq {"window", "match"} BY <3>2 DEF Matched
      <4>2. read \in TrackedPlayers /\ CountsTrue(read, kills)
        BY <2>3, <2>4, <2>5, <4>1, SampledTrue DEF CountersTrue
      <4> PICK all : all = read.alerted \cup fresh OBVIOUS
      <4>3. all \in SUBSET {"window", "match"} BY <4>1, <4>2, TrackedFields
      <4>4. tracked' = [read EXCEPT !.alerted = all] BY <2>1, <3>2
      <4>5. tracked' \in TrackedPlayers BY <4>2, <4>3, <4>4 DEF TrackedPlayers
      <4>6. /\ tracked'.base = read.base /\ tracked'.carried = read.carried /\ tracked'.last = read.last
            /\ tracked'.true = read.true /\ tracked'.samples = read.samples
        BY <4>2, <4>4 DEF TrackedPlayers
      <4> QED BY <4>2, <4>5, <4>6, Zenon DEF CountersTrue, CountsTrue
    <3> QED BY <3>1, <3>2
  <2>8. cooldown' \in Nat /\ cooldown' >= cooldown
    BY <2>2, <2>3 DEF Cooling
  <2>9. PostedPaced'
    <3>1. \A a \in posted : a.at \in Nat /\ a.at + CooldownFor <= cooldown'
      BY <2>3, <2>8 DEF CountersInv, PostedPaced
    <3>2. CASE posted' = posted BY <3>1, <3>2 DEF CountersInv, PostedPaced, AskedOncePerRound
    <3>3. CASE posted' # posted
      <4> PICK one : one = [round |-> round, at |-> now] OBVIOUS
      <4>1. one.round = round /\ one.at = now OBVIOUS
      <4>2. /\ ~Cooling(now) /\ (\A a \in posted : a.round # round) /\ cooldown' = now + CooldownFor
            /\ posted' = posted \cup {one}
        BY <2>2, <3>3
      <4>3. cooldown <= now BY <2>3, <4>2 DEF Cooling
      <4>4. \A a \in posted : a.at \in Nat /\ now - a.at >= CooldownFor
        BY <2>3, <4>3 DEF CountersInv, PostedPaced
      <4>5. \A a \in posted' : a.at \in Nat /\ a.at + CooldownFor <= cooldown' BY <2>3, <3>1, <4>1, <4>2
      <4>6. ASSUME NEW a \in posted', NEW b \in posted', a # b
            PROVE  a.round # b.round /\ (a.at - b.at >= CooldownFor \/ b.at - a.at >= CooldownFor)
        <5>1. CASE a \in posted /\ b \in posted BY <4>6, <5>1 DEF CountersInv, PostedPaced, AskedOncePerRound
        <5>2. CASE a = one /\ b \in posted BY <4>1, <4>2, <4>4, <5>2
        <5>3. CASE a \in posted /\ b = one BY <4>1, <4>2, <4>4, <5>3
        <5> QED BY <4>2, <4>6, <5>1, <5>2, <5>3
      <4> QED BY <4>5, <4>6 DEF PostedPaced, AskedOncePerRound
    <3> QED BY <3>2, <3>3
  <2>10. sampledAt' \in 0 .. LastReadTime BY <2>1, <2>3
  <2> QED BY <2>1, <2>4, <2>7, <2>8, <2>9, <2>10 DEF CountersInv
<1> QED BY <1>1, <1>2 DEF CountersNext

\* What the invariant says of the reviews.
LEMMA CountersFair == CountersInv => CountersTypeOK /\ ReviewsFair
<1> SUFFICES ASSUME CountersInv PROVE CountersTypeOK /\ ReviewsFair OBVIOUS
<1>1. CountersTypeOK BY TrackedFields DEF CountersInv, CountersTrue, CountersTypeOK
<1>2. ASSUME tracked # NotTracked
      PROVE  /\ Counted(tracked) \in 0 .. tracked.true
             /\ tracked.samples # <<>> =>
                  Counted(tracked) - tracked.samples[1][2] <= tracked.true - tracked.samples[1][3]
  <2> PICK t \in TrackedPlayers : t = tracked BY <1>2 DEF CountersInv, CountersTrue
  <2>1. SumsTrue(t.base, t.carried, t.last, t.true, t.samples, counter)
    BY <1>2 DEF CountersInv, CountersTrue, CountsTrue
  <2>2. t.base <= t.last /\ t.carried + t.last - t.base <= t.true BY <2>1 DEF SumsTrue
  <2>3. Counted(t) \in 0 .. t.true BY <2>2, TrackedFields DEF Counted
  <2>4. ASSUME t.samples # <<>> PROVE Counted(t) - t.samples[1][2] <= t.true - t.samples[1][3]
    <3>1. 1 \in 1 .. Len(t.samples) BY <2>4, TrackedFields
    <3>2. t.carried + t.last - t.base - t.samples[1][2] <= t.true - t.samples[1][3] BY <2>1, <3>1 DEF SumsTrue
    <3>3. Counted(t) = t.carried + t.last - t.base BY DEF Counted
    <3>4. t.samples[1][2] \in Int /\ t.samples[1][3] \in Int BY <3>1, TrackedFields, SampleFields
    <3>5. t.base \in Nat /\ t.last \in Nat /\ t.carried \in Nat /\ t.true \in Nat BY TrackedFields
    <3> QED BY <3>2, <3>3, <3>4, <3>5
  <2> QED BY <2>3, <2>4
<1>3. NeverOverCounted BY <1>2 DEF NeverOverCounted
<1>4. AskedOncePerRound BY DEF CountersInv, PostedPaced
<1> QED BY <1>1, <1>3, <1>4 DEF ReviewsFair

-----------------------------------------------------------------------------
(* The messages to players *)

TickTimes == Nat \cup {NotEver}
Messages == [to : Joiners, part : 0 .. WelcomeLength, ready : Nat, expires : Nat]
CommunityStates ==
  [lastAt : TickTimes, populated : BOOLEAN, present : [Joiners -> TickTimes], roundAt : TickTimes, pendingRoundAt : TickTimes]
CommunityShape ==
  /\ tickAt \in Nat /\ tickAt <= LastTick /\ state \in CommunityStates
  /\ queue \in Seq(Messages) /\ Len(queue) <= MaxQueue
  /\ listed \subseteq Joiners /\ stopped \in BOOLEAN
  /\ delivering \in {Nothing, Done} \cup [step : {"beginning", "sending"}, message : Messages]
  /\ lastListed \in [Joiners -> TickTimes] /\ awaySince \in [Joiners -> BOOLEAN]
  /\ sentParts \in [Joiners -> [part : Nat, at : Nat]] /\ \A p \in Joiners : sentParts[p].at <= tickAt
  /\ changes \subseteq Nat /\ usedAt \in TickTimes

\* What is remembered of a player: the last read for the listed, the last time for the welcomed.
PlayersKnown ==
  /\ state.lastAt <= tickAt
  /\ \A p \in listed : state.lastAt # NotEver /\ state.present[p] = state.lastAt /\ lastListed[p] = state.lastAt
  /\ \A p \in Joiners : ~awaySince[p] /\ state.lastAt # NotEver
       => state.present[p] = lastListed[p] /\ lastListed[p] # NotEver

\* A welcome that waits is for a listed player who may be welcomed, and its part is the next.
Due(m) ==
  m.part # 0 =>
    /\ m.to \in listed
    /\ m.part = 1 => awaySince[m.to]
    /\ m.part # 1 => sentParts[m.to].part = m.part - 1 /\ m.ready >= sentParts[m.to].at + WelcomeSpacing
QueueDue ==
  /\ \A i \in 1 .. Len(queue) : Due(queue[i])
  /\ delivering.step = "beginning" => Due(delivering.message) /\ delivering.message.ready <= tickAt
  /\ delivering.step = "sending" /\ delivering.message.part # 0 =>
       delivering.message.to \in listed /\ sentParts[delivering.message.to].part = delivering.message.part

\* Each player has one welcome under way.
OneWelcome ==
  /\ \A i, j \in 1 .. Len(queue) : queue[i].part # 0 /\ queue[j].part # 0 /\ queue[i].to = queue[j].to => i = j
  /\ delivering.step \in {"beginning", "sending"} /\ delivering.message.part # 0 =>
       \A i \in 1 .. Len(queue) : queue[i].part # 0 => queue[i].to # delivering.message.to

\* A pending round message is for the last transition, which had none.
RoundsKnown ==
  /\ state.pendingRoundAt # NotEver =>
       /\ state.pendingRoundAt = state.roundAt /\ state.roundAt \in changes
       /\ usedAt # NotEver => state.roundAt >= usedAt + LeaveGraceFor
  /\ usedAt # NotEver => state.roundAt # NotEver /\ usedAt <= state.roundAt

CommunityInv == CommunityShape /\ PlayersKnown /\ QueueDue /\ OneWelcome /\ RoundsKnown /\ faults = {}

LEMMA LeastOf ==
  ASSUME NEW T, T \subseteq Nat, T # {}
  PROVE  \E n \in T : \A k \in T : n <= k
<1> DEFINE R == OpToRel(<, Nat)
<1>1. IsWellFoundedOn(R, Nat)
  BY NatLessThanWellFounded
<1>2. \E n \in T : \A k \in T : ~ (<<k, n>> \in R)
  <2> HIDE DEF R
  <2> QED BY <1>1, WFMin, Zenon
<1>3. \A k, n \in T : <<k, n>> \notin R => n <= k
  <2> SUFFICES ASSUME NEW k \in T, NEW n \in T, <<k, n>> \notin R PROVE n <= k
    OBVIOUS
  <2>1. k \in Nat /\ n \in Nat
    OBVIOUS
  <2>2. k < n => <<k, n>> \in R
    BY <2>1 DEF OpToRel
  <2> HIDE DEF R
  <2> QED BY <2>1, <2>2
<1> HIDE DEF R
<1> QED BY <1>2, <1>3

\* Any set of places can be listed in increasing order.
LEMMA PlacesListed ==
  ASSUME NEW n \in Nat, NEW S \in SUBSET (1 .. n)
  PROVE  \E s \in [1 .. Cardinality(S) -> S] : \A i, j \in DOMAIN s : i < j => s[i] < s[j]
<1> DEFINE Listed(T) == \E s \in [1 .. Cardinality(T) -> T] : \A i, j \in DOMAIN s : i < j => s[i] < s[j]
           Unlisted == {k \in Nat : \E T \in SUBSET (1 .. k) : ~Listed(T)}
<1>1. SUFFICES ASSUME Unlisted # {} PROVE FALSE
  BY Zenon
<1>2. PICK k \in Unlisted : \A l \in Unlisted : k <= l
  <2> Unlisted \subseteq Nat
    OBVIOUS
  <2> HIDE DEF Unlisted
  <2> QED BY <1>1, LeastOf
<1>3. PICK T \in SUBSET (1 .. k) : ~Listed(T)
  BY <1>2
<1>4. k \in Nat /\ k # 0
  <2>1. CASE k = 0
    <3>1. T = {}
      BY <2>1
    <3>2. Cardinality(T) = 0
      BY <3>1, FS_EmptySet
    <3>3. Listed(T)
      <4> DEFINE s == [x \in 1 .. Cardinality(T) |-> 0]
      <4>1. s \in [1 .. Cardinality(T) -> T]
        BY <3>2
      <4>2. \A i, j \in DOMAIN s : i < j => s[i] < s[j]
        BY <3>2
      <4> QED BY <4>1, <4>2
    <3> QED BY <1>3, <3>3
  <2> QED BY <1>2, <2>1
<1>5. \A U \in SUBSET (1 .. k - 1) : Listed(U)
  <2>1. k - 1 \in Nat /\ ~(k <= k - 1)
    BY <1>4
  <2>2. k - 1 \notin Unlisted
    <3> HIDE DEF Unlisted
    <3> QED BY <1>2, <2>1
  <2> HIDE DEF Listed
  <2> QED BY <2>1, <2>2
<1>6. k \in T
  <2> SUFFICES ASSUME k \notin T PROVE FALSE
    OBVIOUS
  <2>1. T \in SUBSET (1 .. k - 1)
    BY <1>4
  <2> HIDE DEF Listed
  <2> QED BY <1>3, <1>5, <2>1
<1>7. T \ {k} \in SUBSET (1 .. k - 1) /\ IsFiniteSet(T)
  <2>1. T \ {k} \in SUBSET (1 .. k - 1)
    BY <1>4
  <2>2. IsFiniteSet(1 .. k)
    BY <1>4, FS_Interval
  <2> QED BY <2>1, <2>2, FS_Subset
<1>8. PICK s \in [1 .. Cardinality(T \ {k}) -> T \ {k}] : \A i, j \in DOMAIN s : i < j => s[i] < s[j]
  BY <1>5, <1>7
<1>9. Cardinality(T \ {k}) = Cardinality(T) - 1 /\ Cardinality(T) \in Nat /\ Cardinality(T \ {k}) \in Nat
  BY <1>6, <1>7, FS_RemoveElement, FS_CardinalityType, FS_Subset
<1>10. PICK c \in Nat : c = Cardinality(T)
  BY <1>9
<1> DEFINE w == [x \in 1 .. c |-> IF x = c THEN k ELSE s[x]]
<1>11. s \in [1 .. c - 1 -> T \ {k}]
  BY <1>8, <1>9, <1>10
<1>15. \A x \in 1 .. c : x # c => x \in 1 .. c - 1 /\ s[x] \in T /\ s[x] # k
  <2>1. \A x \in 1 .. c : x # c => x \in 1 .. c - 1
    BY <1>10
  <2> QED BY <1>11, <2>1
<1>12. w \in [1 .. c -> T]
  BY <1>6, <1>15
<1>13. ASSUME NEW i \in 1 .. c, NEW j \in 1 .. c, i < j PROVE w[i] < w[j]
  <2>1. i \in 1 .. c - 1 /\ w[i] = s[i] /\ s[i] \in T \ {k}
    <3>1. i # c
      BY <1>10, <1>13
    <3> QED BY <1>15, <3>1
  <2>2. CASE j = c
    <3>1. s[i] \in 1 .. k /\ s[i] # k
      BY <2>1
    <3> QED BY <1>4, <2>1, <2>2, <3>1
  <2>3. CASE j # c
    <3>1. j \in 1 .. c - 1 /\ w[j] = s[j]
      BY <1>10, <2>3
    <3> QED BY <1>8, <1>11, <1>13, <2>1, <3>1
  <2> QED BY <2>2, <2>3
<1>14. Listed(T)
  <2>1. DOMAIN w = 1 .. c
    OBVIOUS
  <2> HIDE DEF w
  <2> QED BY <1>10, <1>12, <1>13, <2>1
<1> QED BY <1>3, <1>14

LEMMA CountsTo ==
  ASSUME NEW n \in Nat, NEW S \in SUBSET (1 .. n)
  PROVE  IsFiniteSet(S) /\ Cardinality(S) \in Nat
<1>1. IsFiniteSet(1 .. n)
  BY FS_Interval
<1>2. IsFiniteSet(S)
  BY <1>1, FS_Subset
<1> QED BY <1>2, FS_CardinalityType

\* What is selected of the queue keeps its messages, each at most once.
LEMMA SelectedParts ==
  ASSUME NEW Ms, queue \in Seq(Ms), NEW S \in SUBSET (1 .. Len(queue))
  PROVE  \E f \in [1 .. Cardinality(S) -> S] :
           /\ Selected(S) = [n \in 1 .. Cardinality(S) |-> queue[f[n]]]
           /\ \A i, j \in 1 .. Cardinality(S) : f[i] = f[j] => i = j
<1>1. Len(queue) \in Nat
  OBVIOUS
<1>2. \E s \in [1 .. Cardinality(S) -> S] : \A i, j \in DOMAIN s : i < j => s[i] < s[j]
  BY <1>1, PlacesListed
<1>3. InOrder(S) \in [1 .. Cardinality(S) -> S] /\ \A i, j \in DOMAIN InOrder(S) : i < j => InOrder(S)[i] < InOrder(S)[j]
  BY <1>2 DEF InOrder
<1>4. PICK f : f = InOrder(S)
  OBVIOUS
<1>5. f \in [1 .. Cardinality(S) -> S] /\ DOMAIN f = 1 .. Cardinality(S) /\ \A i, j \in 1 .. Cardinality(S) : i < j => f[i] < f[j]
  BY <1>3, <1>4
<1>6. Cardinality(S) \in Nat
  BY <1>1, CountsTo
<1>7. ASSUME NEW i \in 1 .. Cardinality(S), NEW j \in 1 .. Cardinality(S), f[i] = f[j] PROVE i = j
  <2>1. f[i] \in Nat /\ f[j] \in Nat
    <3>1. f[i] \in S /\ f[j] \in S
      BY <1>5
    <3>2. f[i] \in 1 .. Len(queue) /\ f[j] \in 1 .. Len(queue)
      BY <3>1
    <3> QED BY <3>2
  <2>2. ~(i < j) /\ ~(j < i)
    BY <1>5, <1>7, <2>1
  <2> QED BY <1>6, <2>2
<1>8. Selected(S) = [n \in 1 .. Cardinality(S) |-> queue[f[n]]]
  BY <1>4, <1>5 DEF Selected
<1> QED BY <1>5, <1>7, <1>8

LEMMA BoundedParts ==
  ASSUME NEW Ms, NEW q \in Seq(Ms)
  PROVE  /\ Bounded(q) \in Seq(Ms) /\ Len(Bounded(q)) <= MaxQueue /\ Len(Bounded(q)) <= Len(q)
         /\ \A i \in 1 .. Len(Bounded(q)) : Bounded(q)[i] = q[i]
<1>1. Len(q) \in Nat /\ MaxQueue \in Nat
  BY CommunityAssumption
<1>2. PICK n \in Nat : n <= Len(q) /\ n <= MaxQueue /\ Bounded(q) = SubSeq(q, 1, n)
  BY <1>1 DEF Bounded
<1>3. Len(SubSeq(q, 1, n)) = n /\ SubSeq(q, 1, n) \in Seq(Ms) /\ \A i \in 1 .. n : SubSeq(q, 1, n)[i] = q[i]
  BY <1>1, <1>2
<1> QED BY <1>2, <1>3

LEMMA MessageParts ==
  ASSUME CommunityShape, NEW to \in Joiners, NEW number \in 0 .. WelcomeLength, NEW ready \in Nat
  PROVE  /\ Message(to, number, ready) \in Messages
         /\ Message(to, number, ready).to = to /\ Message(to, number, ready).part = number /\ Message(to, number, ready).ready = ready
BY CommunityAssumption DEF Message, Messages

\* What a read leaves in the queue: messages that waited for players it lists, and one for each who joined.
Welcomes(r, ids, joined) ==
  /\ \A i \in 1 .. Len(r) : r[i].part # 0 =>
       \/ r[i].to \in ids \ joined /\ \E k \in 1 .. Len(queue) : r[i] = queue[k]
       \/ r[i].part = 1 /\ r[i].to \in joined
  /\ \A i, j \in 1 .. Len(r) : r[i].part # 0 /\ r[j].part # 0 /\ r[i].to = r[j].to => i = j

LEMMA QueueRead ==
  ASSUME CommunityShape, NEW ids \in SUBSET Joiners, NEW now \in Nat, NEW joined \in SUBSET ids, NEW round \in BOOLEAN,
         round => ids # {}, NEW order \in Rosters(joined), IsFiniteSet(joined),
         \A i, j \in 1 .. Len(queue) : queue[i].part # 0 /\ queue[j].part # 0 /\ queue[i].to = queue[j].to => i = j,
         ~Baseline(now) => \A i \in 1 .. Len(queue) : queue[i].part # 0 => queue[i].to \notin joined,
         NEW r, r = Asks(StillWanted(ids, now), round, order, now)
  PROVE  r \in Seq(Messages) /\ Len(r) <= MaxQueue /\ Welcomes(r, ids, joined)
<1>1. queue \in Seq(Messages) /\ Len(queue) \in Nat
  BY DEF CommunityShape
<1>2. PICK old : old = StillWanted(ids, now)
  OBVIOUS
<1>3. /\ old \in Seq(Messages)
      /\ \A i \in 1 .. Len(old) : (\E k \in 1 .. Len(queue) : old[i] = queue[k]) /\ (old[i].part # 0 => old[i].to \in ids \ joined)
      /\ \A i, j \in 1 .. Len(old) : old[i].part # 0 /\ old[j].part # 0 /\ old[i].to = old[j].to => i = j
  <2>1. CASE Baseline(now)
    <3>1. old = <<>>
      BY <1>2, <2>1 DEF StillWanted
    <3> QED BY <3>1
  <2>2. CASE ~Baseline(now)
    <3> DEFINE S == {i \in 1 .. Len(queue) : queue[i].expires > now /\ (queue[i].part = 0 \/ queue[i].to \in ids)}
    <3>1. PICK f \in [1 .. Cardinality(S) -> S] :
            /\ Selected(S) = [n \in 1 .. Cardinality(S) |-> queue[f[n]]]
            /\ \A i, j \in 1 .. Cardinality(S) : f[i] = f[j] => i = j
      <4>1. S \in SUBSET (1 .. Len(queue))
        OBVIOUS
      <4> HIDE DEF S
      <4> QED BY <1>1, <4>1, SelectedParts
    <3>2. old = Selected(S)
      BY <1>2, <2>2 DEF StillWanted
    <3>3. Cardinality(S) \in Nat
      <4>1. S \in SUBSET (1 .. Len(queue))
        OBVIOUS
      <4> HIDE DEF S
      <4> QED BY <1>1, <4>1, CountsTo
    <3>4. PICK c \in Nat : c = Cardinality(S)
      BY <3>3
    <3>5. old = [n \in 1 .. c |-> queue[f[n]]] /\ \A i \in 1 .. c : f[i] \in S
      BY <3>1, <3>2, <3>4
    <3>6. \A i \in 1 .. c : f[i] \in 1 .. Len(queue) /\ queue[f[i]] \in Messages /\ (queue[f[i]].part # 0 => queue[f[i]].to \in ids)
      BY <1>1, <3>5
    <3>7. old \in Seq(Messages) /\ Len(old) = c
      BY <3>5, <3>6
    <3> HIDE DEF S
    <3>8. \A i \in 1 .. c : (\E k \in 1 .. Len(queue) : old[i] = queue[k]) /\ (old[i].part # 0 => old[i].to \in ids \ joined)
      BY <2>2, <3>5, <3>6
    <3>9. \A i, j \in 1 .. c : old[i].part # 0 /\ old[j].part # 0 /\ old[i].to = old[j].to => i = j
      BY <3>1, <3>4, <3>5, <3>6
    <3> QED BY <3>7, <3>8, <3>9
  <2> QED BY <2>1, <2>2
<1>4. PICK first : first = IF round THEN <<Message(CHOOSE p \in Joiners : TRUE, 0, now)>> ELSE <<>>
  OBVIOUS
<1>5. first \in Seq(Messages) /\ Len(first) \in {0, 1} /\ \A i \in 1 .. Len(first) : first[i].part = 0
  <2>1. CASE round
    <3>1. (CHOOSE p \in Joiners : TRUE) \in Joiners
      BY <2>1
    <3>2. PICK to \in Joiners : to = CHOOSE p \in Joiners : TRUE
      BY <3>1
    <3>3. PICK m : m = Message(to, 0, now)
      OBVIOUS
    <3>4. 0 \in 0 .. WelcomeLength
      BY CommunityAssumption
    <3>5. m \in Messages /\ m.part = 0
      BY <3>3, <3>4, MessageParts
    <3>6. first = <<m>>
      BY <1>4, <2>1, <3>2, <3>3
    <3> QED BY <3>5, <3>6
  <2>2. CASE ~round
    BY <1>4, <2>2
  <2> QED BY <2>1, <2>2
<1>6. PICK c \in Nat : c = Cardinality(joined)
  BY FS_CardinalityType
<1>7. order \in [1 .. c -> joined] /\ \A i, j \in 1 .. c : order[i] = order[j] => i = j
  BY <1>6 DEF Rosters
<1>8. PICK new : new = [n \in DOMAIN order |-> Message(order[n], 1, now + WelcomeDelay)]
  OBVIOUS
<1>9. /\ new \in Seq(Messages) /\ Len(new) = c
      /\ \A i \in 1 .. c : new[i].part = 1 /\ new[i].to = order[i] /\ order[i] \in joined
  <2>1. \A i \in 1 .. c : order[i] \in joined /\ order[i] \in Joiners
    BY <1>7
  <2>2. 1 \in 0 .. WelcomeLength /\ now + WelcomeDelay \in Nat
    BY CommunityAssumption
  <2>3. \A i \in 1 .. c : LET m == Message(order[i], 1, now + WelcomeDelay) IN m \in Messages /\ m.part = 1 /\ m.to = order[i]
    BY <2>1, <2>2, MessageParts
  <2>4. new = [n \in 1 .. c |-> Message(order[n], 1, now + WelcomeDelay)]
    BY <1>7, <1>8
  <2> QED BY <2>1, <2>3, <2>4
<1>10. PICK all : all = first \o old \o new
  OBVIOUS
<1>11. PICK a \in Nat, b \in Nat : a = Len(first) /\ b = Len(old)
  BY <1>3, <1>5
<1>12. /\ all \in Seq(Messages) /\ Len(all) = a + b + c
       /\ \A i \in 1 .. a : all[i] = first[i]
       /\ \A i \in a + 1 .. a + b : all[i] = old[i - a]
       /\ \A i \in a + b + 1 .. a + b + c : all[i] = new[i - a - b]
  <2>1. PICK fo : fo = first \o old
    OBVIOUS
  <2>2. /\ fo \in Seq(Messages) /\ Len(fo) = a + b
        /\ \A i \in 1 .. a : fo[i] = first[i]
        /\ \A i \in a + 1 .. a + b : fo[i] = old[i - a]
    BY <1>3, <1>5, <1>11, <2>1
  <2>3. all = fo \o new
    BY <1>10, <2>1
  <2>4. /\ all \in Seq(Messages) /\ Len(all) = a + b + c
        /\ \A i \in 1 .. a + b : all[i] = fo[i]
        /\ \A i \in a + b + 1 .. a + b + c : all[i] = new[i - (a + b)]
    <3>1. Len(new) = c /\ new \in Seq(Messages)
      BY <1>9
    <3>2. fo \in Seq(Messages) /\ Len(fo) = a + b
      BY <2>2
    <3> HIDE DEF Messages
    <3>3. all \in Seq(Messages) /\ Len(all) = Len(fo) + Len(new)
      BY <2>3, <3>1, <3>2, ConcatProperties
    <3>4. \A i \in 1 .. Len(fo) + Len(new) : all[i] = IF i <= Len(fo) THEN fo[i] ELSE new[i - Len(fo)]
      BY <2>3, <3>1, <3>2, ConcatProperties
    <3>5. \A i \in 1 .. a + b : i \in 1 .. a + b + c /\ i <= a + b
      OBVIOUS
    <3>6. \A i \in a + b + 1 .. a + b + c : i \in 1 .. a + b + c /\ ~(i <= a + b)
      OBVIOUS
    <3> QED BY <3>1, <3>2, <3>3, <3>4, <3>5, <3>6
  <2>5. \A i \in 1 .. a : all[i] = first[i]
    <3>1. \A i \in 1 .. a : i \in 1 .. a + b
      OBVIOUS
    <3> QED BY <2>2, <2>4, <3>1
  <2>6. \A i \in a + 1 .. a + b : all[i] = old[i - a]
    <3>1. \A i \in a + 1 .. a + b : i \in 1 .. a + b
      OBVIOUS
    <3> QED BY <2>2, <2>4, <3>1
  <2>7. \A i \in Int : i - (a + b) = i - a - b
    OBVIOUS
  <2>8. \A i \in a + b + 1 .. a + b + c : all[i] = new[i - a - b]
    BY <2>4, <2>7
  <2> QED BY <2>4, <2>5, <2>6, <2>8
<1>13. /\ r \in Seq(Messages) /\ Len(r) <= MaxQueue /\ Len(r) <= a + b + c /\ \A i \in 1 .. Len(r) : r[i] = all[i]
  <2>1. r = Bounded(all)
    BY <1>2, <1>4, <1>8, <1>10 DEF Asks
  <2>2. all \in Seq(Messages) /\ Len(all) = a + b + c
    BY <1>12
  <2> HIDE DEF Messages
  <2>3. /\ r \in Seq(Messages) /\ Len(r) <= MaxQueue /\ Len(r) <= Len(all) /\ \A i \in 1 .. Len(r) : r[i] = all[i]
    BY <2>1, <2>2, BoundedParts
  <2> QED BY <2>2, <2>3
<1>14. ASSUME NEW i \in 1 .. Len(r), r[i].part # 0
       PROVE  \/ i \in a + 1 .. a + b /\ r[i] = old[i - a]
              \/ i \in a + b + 1 .. a + b + c /\ r[i] = new[i - a - b]
  <2>1. i \in 1 .. a + b + c /\ r[i] = all[i]
    BY <1>13
  <2>2. i \notin 1 .. a
    BY <1>5, <1>11, <1>12, <1>14, <2>1
  <2>3. i \in a + 1 .. a + b \/ i \in a + b + 1 .. a + b + c
    BY <2>1, <2>2
  <2> QED BY <1>12, <2>1, <2>3
<1>15. ASSUME NEW i \in 1 .. Len(r), r[i].part # 0
       PROVE  \/ r[i].to \in ids \ joined /\ \E k \in 1 .. Len(queue) : r[i] = queue[k]
              \/ r[i].part = 1 /\ r[i].to \in joined
  <2>1. CASE i \in a + 1 .. a + b /\ r[i] = old[i - a]
    <3>1. i - a \in 1 .. Len(old)
      BY <1>11, <2>1
    <3> QED BY <1>3, <1>15, <2>1, <3>1
  <2>2. CASE i \in a + b + 1 .. a + b + c /\ r[i] = new[i - a - b]
    <3>1. i - a - b \in 1 .. c
      BY <2>2
    <3> QED BY <1>9, <2>2, <3>1
  <2> QED BY <1>14, <1>15, <2>1, <2>2
<1>16. ASSUME NEW i \in 1 .. Len(r), NEW j \in 1 .. Len(r), r[i].part # 0, r[j].part # 0, r[i].to = r[j].to PROVE i = j
  <2>1. ASSUME NEW k \in 1 .. Len(r), k \in a + 1 .. a + b, r[k] = old[k - a], r[k].part # 0 PROVE k - a \in 1 .. Len(old) /\ r[k].to \notin joined
    <3>1. k - a \in 1 .. Len(old)
      BY <1>11, <2>1
    <3> QED BY <1>3, <2>1, <3>1
  <2>2. ASSUME NEW k \in a + b + 1 .. a + b + c, r[k] = new[k - a - b] PROVE k - a - b \in 1 .. c /\ r[k].to \in joined /\ r[k].to = order[k - a - b]
    <3>1. k - a - b \in 1 .. c
      BY <2>2
    <3> QED BY <1>9, <2>2, <3>1
  <2>3. CASE i \in a + 1 .. a + b /\ r[i] = old[i - a] /\ j \in a + 1 .. a + b /\ r[j] = old[j - a]
    <3>1. i - a \in 1 .. Len(old) /\ j - a \in 1 .. Len(old)
      BY <1>16, <2>1, <2>3
    <3>2. i - a = j - a
      BY <1>3, <1>16, <2>3, <3>1
    <3> QED BY <2>3, <3>2
  <2>4. CASE i \in a + b + 1 .. a + b + c /\ r[i] = new[i - a - b] /\ j \in a + b + 1 .. a + b + c /\ r[j] = new[j - a - b]
    <3>1. i - a - b \in 1 .. c /\ j - a - b \in 1 .. c /\ order[i - a - b] = order[j - a - b]
      BY <1>16, <2>2, <2>4
    <3>2. i - a - b = j - a - b
      BY <1>7, <3>1
    <3> QED BY <2>4, <3>2
  <2> QED BY <1>14, <1>16, <2>1, <2>2, <2>3, <2>4
<1> QED BY <1>13, <1>15, <1>16 DEF Welcomes

LEMMA CommunityStarts == CommunityInit => CommunityInv
<1> SUFFICES ASSUME CommunityInit PROVE CommunityInv
  OBVIOUS
<1>1. NotEver \in TickTimes /\ 0 \in Nat /\ NotEver <= 0 /\ Nothing.step = "none" /\ MaxQueue \in Nat /\ LastTick \in Nat
  BY CommunityAssumption DEF TickTimes, NotEver, Nothing
<1>2. Initial \in CommunityStates /\ Initial.lastAt = NotEver /\ Initial.pendingRoundAt = NotEver
  BY <1>1 DEF Initial, CommunityStates
<1>3. CommunityShape
  <2>1. queue = <<>> /\ <<>> \in Seq(Messages) /\ Len(queue) = 0
    BY DEF CommunityInit
  <2>2. \A p \in Joiners : sentParts[p].at <= tickAt
    BY DEF CommunityInit
  <2>3. sentParts \in [Joiners -> [part : Nat, at : Nat]]
    BY <1>1 DEF CommunityInit
  <2>4. state = Initial /\ usedAt = NotEver /\ tickAt = 0
    BY DEF CommunityInit
  <2>5. lastListed \in [Joiners -> TickTimes] /\ awaySince \in [Joiners -> BOOLEAN]
    BY <1>1 DEF CommunityInit
  <2>6. listed \subseteq Joiners /\ stopped \in BOOLEAN /\ delivering = Nothing /\ changes \subseteq Nat
    BY DEF CommunityInit
  <2> QED BY <1>1, <1>2, <2>1, <2>2, <2>3, <2>4, <2>5, <2>6 DEF CommunityShape
<1>4. PlayersKnown
  BY <1>1, <1>2 DEF PlayersKnown, CommunityInit
<1>5. QueueDue /\ OneWelcome
  BY <1>1 DEF QueueDue, OneWelcome, CommunityInit
<1>6. RoundsKnown
  BY <1>2 DEF RoundsKnown, CommunityInit
<1> QED BY <1>3, <1>4, <1>5, <1>6 DEF CommunityInv, CommunityInit

\* A read, with what it makes of the state named.
ReadAs(ids, changed, now, round, joined, noted, fits) ==
  /\ ids \subseteq Joiners /\ changed \in BOOLEAN /\ now \in Nat /\ now > tickAt /\ now <= LastTick
  /\ round \in BOOLEAN /\ (round <=> ~Baseline(now) /\ Round(changed, ids, now))
  /\ joined = IF Baseline(now) THEN {} ELSE Joined(ids, changed, now)
  /\ noted = IF Baseline(now) THEN {} ELSE changes \cup If(changed, now)
  /\ fits = {c \in noted : (usedAt = NotEver \/ c >= usedAt + LeaveGraceFor) /\ now - c <= RoundHold}

LEMMA JoinedAway ==
  ASSUME CommunityInv, NEW ids, NEW changed, NEW now, NEW round, NEW joined, NEW noted, NEW fits,
         ReadAs(ids, changed, now, round, joined, noted, fits)
  PROVE  /\ joined \subseteq ids /\ IsFiniteSet(joined) /\ (Baseline(now) => joined = {})
         /\ \A p \in joined : state.lastAt # NotEver /\ p \notin Present(now)
         /\ ~Baseline(now) => \A p \in listed : p \in Present(now)
<1>1. joined \subseteq ids /\ (Baseline(now) => joined = {}) /\ \A p \in joined : ~Baseline(now) /\ p \notin Present(now)
  BY DEF ReadAs, Joined
<1>2. IsFiniteSet(joined)
  <2>1. joined \subseteq Joiners
    BY <1>1 DEF ReadAs
  <2> QED BY <2>1, CommunityAssumption, FS_Subset
<1>3. ASSUME ~Baseline(now), NEW p \in listed PROVE p \in Present(now)
  <2>1. p \in Joiners /\ state.lastAt # NotEver /\ state.present[p] = state.lastAt
    BY <1>3 DEF CommunityInv, CommunityShape, PlayersKnown
  <2>2. state.lastAt \in Nat
    BY <2>1 DEF CommunityInv, CommunityShape, CommunityStates, TickTimes
  <2>3. now - state.lastAt <= BaselineGap /\ now \in Nat
    BY <1>3, <2>2, CommunityAssumption DEF Baseline, ReadAs
  <2>4. now - state.present[p] < LeaveGraceFor
    BY <2>1, <2>2, <2>3, CommunityAssumption
  <2> QED BY <2>1, <2>4 DEF Present
<1> QED BY <1>1, <1>2, <1>3 DEF Baseline

\* The state after a read, and when a player may be welcomed.
LEMMA StateRead ==
  ASSUME CommunityInv, NEW ids, NEW changed, NEW now, NEW round, NEW joined, NEW noted, NEW fits,
         ReadAs(ids, changed, now, round, joined, noted, fits), NEW next, next = Observed(ids, changed, now)
  PROVE  /\ next \in CommunityStates /\ next.lastAt = now
         /\ \A p \in Joiners : next.present[p] = IF p \in ids THEN now
                ELSE IF ~Baseline(now) /\ p \in Present(now) THEN state.present[p] ELSE NotEver
         /\ next.roundAt = IF Baseline(now) THEN NotEver ELSE IF Begins(changed, ids, now) THEN now ELSE state.roundAt
         /\ next.pendingRoundAt = IF Baseline(now) \/ Round(changed, ids, now) THEN NotEver ELSE Pending(changed, ids, now)
<1>1. now \in TickTimes /\ NotEver \in TickTimes /\ (ids # {}) \in BOOLEAN
  BY DEF ReadAs, TickTimes
<1>2. state.roundAt \in TickTimes /\ state.pendingRoundAt \in TickTimes /\ state.present \in [Joiners -> TickTimes]
  BY DEF CommunityInv, CommunityShape, CommunityStates
<1>3. Pending(changed, ids, now) \in TickTimes
  BY <1>1, <1>2 DEF Pending
<1>4. PICK seenAt : seenAt = [p \in Joiners |-> IF p \in ids THEN now
               ELSE IF ~Baseline(now) /\ p \in Present(now) THEN state.present[p] ELSE NotEver]
  OBVIOUS
<1>5. seenAt \in [Joiners -> TickTimes]
  BY <1>1, <1>2, <1>4
<1>6. PICK ra : ra = IF Baseline(now) THEN NotEver ELSE IF Begins(changed, ids, now) THEN now ELSE state.roundAt
  OBVIOUS
<1>7. PICK pa : pa = IF Baseline(now) \/ Round(changed, ids, now) THEN NotEver ELSE Pending(changed, ids, now)
  OBVIOUS
<1>8. ra \in TickTimes /\ pa \in TickTimes
  BY <1>1, <1>2, <1>3, <1>6, <1>7
<1>9. PICK b \in BOOLEAN : b = (ids # {})
  OBVIOUS
<1>10. next = [lastAt |-> now, populated |-> b, present |-> seenAt, roundAt |-> ra, pendingRoundAt |-> pa]
  BY <1>4, <1>6, <1>7, <1>9 DEF Observed
<1>11. next \in CommunityStates /\ next.lastAt = now /\ next.present = seenAt /\ next.roundAt = ra /\ next.pendingRoundAt = pa
  BY <1>1, <1>5, <1>8, <1>10 DEF CommunityStates
<1> QED BY <1>4, <1>6, <1>7, <1>11

ReadTaken(ids, changed, now, round, joined, noted, fits, order) ==
  /\ tickAt' = now /\ state' = Observed(ids, changed, now) /\ listed' = ids
  /\ order \in Rosters(joined) /\ queue' = Asks(StillWanted(ids, now), round, order, now)
  /\ awaySince' = [p \in Joiners |->
       \/ awaySince[p] \/ (Baseline(now) /\ p \notin ids)
       \/ lastListed[p] # NotEver /\ now - lastListed[p] >= LeaveGraceFor]
  /\ lastListed' = [p \in Joiners |-> IF p \in ids THEN now ELSE lastListed[p]]
  /\ changes' = noted /\ usedAt' = Used(fits, round, now)
  /\ faults' = faults \cup If(round /\ fits = {}, "round twice")
  /\ delivering' = Nothing /\ UNCHANGED <<stopped, sentParts>>

\* Who joined may be welcomed, and who may not is remembered.
LEMMA PlayersRead ==
  ASSUME CommunityInv, NEW ids, NEW changed, NEW now, NEW round, NEW joined, NEW noted, NEW fits, NEW order,
         ReadAs(ids, changed, now, round, joined, noted, fits),
         ReadTaken(ids, changed, now, round, joined, noted, fits, order)
  PROVE  /\ \A p \in Joiners : (awaySince[p] => awaySince'[p]) /\ (p \in joined => awaySince'[p])
         /\ PlayersKnown'
<1>1. /\ lastListed \in [Joiners -> TickTimes] /\ awaySince \in [Joiners -> BOOLEAN] /\ ids \subseteq Joiners
      /\ state.lastAt \in TickTimes /\ state.present \in [Joiners -> TickTimes] /\ now \in Nat /\ now \in TickTimes /\ LeaveGraceFor \in Nat
  BY CommunityAssumption DEF CommunityInv, CommunityShape, CommunityStates, ReadAs, TickTimes
<1>2. ASSUME NEW p \in Joiners
      PROVE  /\ awaySince[p] => awaySince'[p]
             /\ (Baseline(now) /\ p \notin ids) => awaySince'[p]
             /\ (lastListed[p] # NotEver /\ now - lastListed[p] >= LeaveGraceFor) => awaySince'[p]
  <2>1. awaySince' = [x \in Joiners |->
          \/ awaySince[x] \/ (Baseline(now) /\ x \notin ids)
          \/ lastListed[x] # NotEver /\ now - lastListed[x] >= LeaveGraceFor]
    BY DEF ReadTaken
  <2>2. awaySince'[p] = (\/ awaySince[p] \/ (Baseline(now) /\ p \notin ids)
                         \/ lastListed[p] # NotEver /\ now - lastListed[p] >= LeaveGraceFor)
    BY <2>1, Zenon
  <2>3. ASSUME awaySince[p] PROVE awaySince'[p]
    BY <2>2, <2>3, Zenon
  <2>4. ASSUME Baseline(now), p \notin ids PROVE awaySince'[p]
    BY <2>2, <2>4, Zenon
  <2>5. ASSUME lastListed[p] # NotEver, now - lastListed[p] >= LeaveGraceFor PROVE awaySince'[p]
    BY <2>2, <2>5, Zenon
  <2> QED BY <2>3, <2>4, <2>5, Zenon
<1>3. /\ state'.lastAt = now
      /\ \A p \in Joiners : state'.present[p] = IF p \in ids THEN now
                ELSE IF ~Baseline(now) /\ p \in Present(now) THEN state.present[p] ELSE NotEver
  <2>1. PICK next : next = Observed(ids, changed, now)
    OBVIOUS
  <2>2. state' = next
    BY <2>1 DEF ReadTaken
  <2> QED BY <2>1, <2>2, StateRead
<1>4. \A p \in Joiners : lastListed'[p] = IF p \in ids THEN now ELSE lastListed[p]
  BY DEF ReadTaken
<1>5. now # NotEver
  BY <1>1 DEF NotEver
\* Who is not present and was welcomed has been away for the grace.
<1>6. ASSUME NEW p \in Joiners, ~Baseline(now), p \notin Present(now), ~awaySince[p] PROVE awaySince'[p]
  <2>1. state.lastAt # NotEver
    BY <1>6 DEF Baseline
  <2>2. state.present[p] = lastListed[p] /\ lastListed[p] # NotEver
    BY <1>6, <2>1 DEF CommunityInv, PlayersKnown
  <2>3. lastListed[p] \in Nat
    BY <1>1, <2>2 DEF TickTimes
  <2>4. ~(now - state.present[p] < LeaveGraceFor)
    BY <1>6, <2>2 DEF Present
  <2>5. now - lastListed[p] >= LeaveGraceFor
    BY <1>1, <2>2, <2>3, <2>4
  <2> QED BY <1>2, <2>2, <2>5
<1>7. ASSUME NEW p \in Joiners PROVE (awaySince[p] => awaySince'[p]) /\ (p \in joined => awaySince'[p])
  <2>1. awaySince[p] => awaySince'[p]
    BY <1>2, Zenon
  <2>2. ASSUME p \in joined PROVE awaySince'[p]
    <3>1. ~Baseline(now) /\ p \notin Present(now)
      BY <2>2, JoinedAway
    <3> QED BY <1>6, <2>1, <3>1
  <2> QED BY <2>1, <2>2
<1>8. ASSUME NEW p \in Joiners, ~awaySince'[p] PROVE state'.present[p] = lastListed'[p] /\ lastListed'[p] # NotEver
  <2>1. ~awaySince[p] /\ (p \in ids \/ ~Baseline(now))
    BY <1>2, <1>8, Zenon
  <2>2. CASE p \in ids
    BY <1>3, <1>4, <1>5, <2>2
  <2>3. CASE p \notin ids
    <3>1. ~Baseline(now) /\ p \in Present(now)
      BY <1>6, <1>8, <2>1, <2>3
    <3>2. state'.present[p] = state.present[p] /\ lastListed'[p] = lastListed[p]
      BY <1>3, <1>4, <2>3, <3>1
    <3>3. state.lastAt # NotEver
      BY <3>1 DEF Baseline
    <3> QED BY <2>1, <3>2, <3>3 DEF CommunityInv, PlayersKnown
  <2> QED BY <2>2, <2>3
<1>9. tickAt' = now /\ listed' = ids
  BY DEF ReadTaken
<1>10. PlayersKnown'
  <2>1. state'.lastAt <= tickAt'
    BY <1>1, <1>3, <1>9
  <2>2. \A p \in listed' : state'.lastAt # NotEver /\ state'.present[p] = state'.lastAt /\ lastListed'[p] = state'.lastAt
    BY <1>1, <1>3, <1>4, <1>5, <1>9
  <2>3. \A p \in Joiners : ~awaySince'[p] /\ state'.lastAt # NotEver
         => state'.present[p] = lastListed'[p] /\ lastListed'[p] # NotEver
    BY <1>8
  <2> QED BY <2>1, <2>2, <2>3 DEF PlayersKnown
<1> QED BY <1>7, <1>10

\* A message for the round has a transition of its own.
LEMMA RoundsAsRead ==
  ASSUME CommunityInv, NEW ids, NEW changed, NEW now, NEW round, NEW joined, NEW noted, NEW fits, NEW order,
         ReadAs(ids, changed, now, round, joined, noted, fits),
         ReadTaken(ids, changed, now, round, joined, noted, fits, order)
  PROVE  RoundsKnown' /\ (round => fits # {}) /\ noted \subseteq Nat /\ usedAt' \in TickTimes
<1>1. /\ usedAt \in TickTimes /\ state.roundAt \in TickTimes /\ state.pendingRoundAt \in TickTimes /\ changes \subseteq Nat
      /\ now \in Nat /\ changed \in BOOLEAN /\ round \in BOOLEAN /\ LeaveGraceFor \in Nat /\ RoundHold \in Nat
      /\ RoundsKnown
  BY CommunityAssumption DEF CommunityInv, CommunityShape, CommunityStates, ReadAs
<1>2. \A t \in TickTimes : t # NotEver <=> t \in Nat
  BY DEF TickTimes, NotEver
<1>5. /\ state'.roundAt = IF Baseline(now) THEN NotEver ELSE IF Begins(changed, ids, now) THEN now ELSE state.roundAt
      /\ state'.pendingRoundAt = IF Baseline(now) \/ Round(changed, ids, now) THEN NotEver ELSE Pending(changed, ids, now)
  <2>1. PICK next : next = Observed(ids, changed, now)
    OBVIOUS
  <2>2. state' = next
    BY <2>1 DEF ReadTaken
  <2> QED BY <2>1, <2>2, StateRead
<1>3. CASE Baseline(now)
  <2>1. usedAt' = NotEver /\ ~round /\ noted = {}
    BY <1>1, <1>3 DEF ReadAs, ReadTaken, Used
  <2>2. state'.pendingRoundAt = NotEver
    BY <1>3, <1>5
  <2> QED BY <2>1, <2>2 DEF RoundsKnown, TickTimes
<1>4. CASE ~Baseline(now)
  <2> DEFINE pending == Pending(changed, ids, now)
  <2>1. noted = changes \cup If(changed, now) /\ (round <=> Round(changed, ids, now)) /\ changes' = noted
    BY <1>1, <1>4 DEF ReadAs, ReadTaken, Used
  <2>2. noted \subseteq Nat
    BY <1>1, <2>1 DEF If
  <2>3. PICK ra : ra = state'.roundAt
    OBVIOUS
  <2>4. ra = IF Begins(changed, ids, now) THEN now ELSE state.roundAt
    BY <1>4, <1>5, <2>3
  <2>5. ra \in TickTimes
    BY <1>1, <2>4 DEF TickTimes
  \* The transition that is pending now.
  <2>6. ASSUME pending # NotEver
        PROVE  /\ pending = ra /\ ra \in noted /\ ra \in Nat /\ now - ra <= RoundHold
               /\ usedAt # NotEver => ra >= usedAt + LeaveGraceFor
    <3>1. CASE Begins(changed, ids, now)
      <4>1. pending = now /\ ra = now /\ now \in noted
        BY <2>1, <2>4, <3>1 DEF Pending, Begins, If
      <4>2. ASSUME usedAt # NotEver PROVE now >= usedAt + LeaveGraceFor
        <5>1. state.roundAt # NotEver /\ usedAt <= state.roundAt
          BY <1>1, <4>2 DEF RoundsKnown
        <5>2. now - state.roundAt >= LeaveGraceFor
          BY <3>1, <5>1 DEF Begins
        <5> QED BY <1>1, <1>2, <4>2, <5>1, <5>2
      <4> QED BY <1>1, <4>1, <4>2
    <3>2. CASE ~Begins(changed, ids, now)
      <4>1. /\ pending = state.pendingRoundAt /\ state.pendingRoundAt # NotEver /\ ra = state.roundAt
            /\ ~(now - state.pendingRoundAt > RoundHold)
        BY <2>4, <2>6, <3>2 DEF Pending
      <4>2. /\ state.pendingRoundAt = state.roundAt /\ state.roundAt \in changes
            /\ usedAt # NotEver => state.roundAt >= usedAt + LeaveGraceFor
        BY <1>1, <4>1 DEF RoundsKnown
      <4>3. ra \in Nat /\ now - ra <= RoundHold /\ ra \in noted
        <5>1. ra \in changes
          BY <4>1, <4>2
        <5>2. ra \in Nat /\ ra \in noted
          BY <1>1, <2>1, <5>1
        <5>3. ~(now - ra > RoundHold)
          BY <4>1, <4>2
        <5> QED BY <1>1, <5>2, <5>3
      <4> QED BY <4>1, <4>2, <4>3
    <3> QED BY <3>1, <3>2
  <2>7. usedAt # NotEver => ra # NotEver /\ usedAt <= ra
    <3>1. ASSUME usedAt # NotEver PROVE ra # NotEver /\ usedAt <= ra
      <4>1. state.roundAt # NotEver /\ usedAt <= state.roundAt /\ state.roundAt \in Nat /\ usedAt \in Nat
        BY <1>1, <1>2, <3>1 DEF RoundsKnown
      <4>2. CASE Begins(changed, ids, now)
        <5>1. now - state.roundAt >= LeaveGraceFor /\ ra = now
          BY <2>4, <4>1, <4>2 DEF Begins
        <5> QED BY <1>1, <1>2, <4>1, <5>1 DEF TickTimes
      <4>3. CASE ~Begins(changed, ids, now)
        BY <2>4, <4>1, <4>3
      <4> QED BY <4>2, <4>3
    <3> QED BY <3>1
  <2>8. CASE round
    <3>1. pending # NotEver
      BY <2>1, <2>8 DEF Round
    <3>2. state'.pendingRoundAt = NotEver
      BY <1>4, <1>5, <2>1, <2>8
    <3>3. ra \in fits /\ fits \subseteq Nat /\ ra \in Nat
      <4> HIDE DEF pending
      <4> QED BY <2>2, <2>6, <3>1 DEF ReadAs
    <3>4. PICK least \in fits : \A d \in fits : least <= d
      BY <3>3, LeastOf
    <3>5. usedAt' = CHOOSE c \in fits : \A d \in fits : c <= d
      BY <1>4, <2>8, <3>3 DEF ReadTaken, Used
    <3>6. usedAt' \in fits /\ \A d \in fits : usedAt' <= d
      BY <3>4, <3>5
    <3>7. usedAt' \in Nat /\ usedAt' <= ra /\ ra # NotEver
      BY <1>2, <2>5, <3>3, <3>6
    <3> QED BY <2>2, <2>3, <3>2, <3>3, <3>7 DEF RoundsKnown, TickTimes
  <2>9. CASE ~round
    <3>1. usedAt' = usedAt /\ state'.pendingRoundAt = pending
      BY <1>4, <1>5, <2>1, <2>9 DEF ReadTaken, Used
    <3> HIDE DEF pending
    <3> QED BY <1>1, <2>1, <2>2, <2>3, <2>6, <2>7, <2>9, <3>1 DEF RoundsKnown
  <2> QED BY <1>1, <2>8, <2>9
<1> QED BY <1>3, <1>4

LEMMA ReadKeeps ==
  ASSUME CommunityInv, NEW ids, NEW changed, NEW now, NEW round, NEW joined, NEW noted, NEW fits, NEW order,
         ReadAs(ids, changed, now, round, joined, noted, fits),
         ReadTaken(ids, changed, now, round, joined, noted, fits, order)
  PROVE  CommunityInv'
<1>1. /\ ids \in SUBSET Joiners /\ changed \in BOOLEAN /\ now \in Nat /\ now > tickAt /\ now <= LastTick /\ round \in BOOLEAN
      /\ (round => ids # {}) /\ CommunityShape
  BY DEF ReadAs, Round, CommunityInv
<1>2. /\ tickAt' = now /\ listed' = ids /\ delivering' = Nothing /\ stopped' = stopped /\ sentParts' = sentParts
      /\ changes' = noted /\ Nothing.step = "none"
  BY DEF ReadTaken, Nothing
<1>3. /\ \A p \in Joiners : (awaySince[p] => awaySince'[p]) /\ (p \in joined => awaySince'[p])
      /\ PlayersKnown'
  BY PlayersRead
<1>4. RoundsKnown' /\ (round => fits # {}) /\ noted \subseteq Nat /\ usedAt' \in TickTimes
  BY RoundsAsRead
<1>5. /\ joined \in SUBSET ids /\ IsFiniteSet(joined) /\ (Baseline(now) => joined = {})
      /\ \A p \in joined : p \notin Present(now)
      /\ ~Baseline(now) => \A p \in listed : p \in Present(now)
  BY JoinedAway
<1>6. \A i \in 1 .. Len(queue) : queue[i].part # 0 => queue[i].to \in listed
  BY DEF CommunityInv, QueueDue, Due
<1>7. queue' \in Seq(Messages) /\ Len(queue') <= MaxQueue /\ Welcomes(queue', ids, joined)
  <2>1. \A i, j \in 1 .. Len(queue) : queue[i].part # 0 /\ queue[j].part # 0 /\ queue[i].to = queue[j].to => i = j
    BY DEF CommunityInv, OneWelcome
  <2>2. ~Baseline(now) => \A i \in 1 .. Len(queue) : queue[i].part # 0 => queue[i].to \notin joined
    BY <1>5, <1>6
  <2>3. PICK r : r = Asks(StillWanted(ids, now), round, order, now)
    OBVIOUS
  <2>4. order \in Rosters(joined) /\ queue' = r
    BY <2>3 DEF ReadTaken
  <2>5. r \in Seq(Messages) /\ Len(r) <= MaxQueue /\ Welcomes(r, ids, joined)
    BY <1>1, <1>5, <2>1, <2>2, <2>3, <2>4, QueueRead
  <2> QED BY <2>4, <2>5
<1>8. CommunityShape'
  <2>1. state' \in CommunityStates
    <3>1. PICK next : next = Observed(ids, changed, now)
      OBVIOUS
    <3>2. state' = next
      BY <3>1 DEF ReadTaken
    <3> QED BY <3>1, <3>2, StateRead
  <2>2. lastListed' \in [Joiners -> TickTimes]
    BY <1>1 DEF ReadTaken, CommunityShape, TickTimes
  <2>3. awaySince' \in [Joiners -> BOOLEAN]
    BY DEF ReadTaken
  <2>4. sentParts' \in [Joiners -> [part : Nat, at : Nat]]
    BY <1>1, <1>2 DEF CommunityShape
  <2>5. \A p \in Joiners : sentParts'[p].at <= tickAt'
    <3>1. \A p \in Joiners : sentParts[p].at \in Nat /\ sentParts[p].at <= tickAt
      BY <1>1 DEF CommunityShape
    <3>2. tickAt \in Nat
      BY <1>1 DEF CommunityShape
    <3> QED BY <1>1, <1>2, <3>1, <3>2
  <2>6. stopped' \in BOOLEAN /\ listed' \subseteq Joiners /\ tickAt' \in Nat /\ tickAt' <= LastTick
    BY <1>1, <1>2 DEF CommunityShape
  <2> QED BY <1>2, <1>4, <1>7, <2>1, <2>2, <2>3, <2>4, <2>5, <2>6 DEF CommunityShape
<1>9. QueueDue'
  <2>1. ASSUME NEW i \in 1 .. Len(queue'), queue'[i].part # 0
        PROVE  /\ queue'[i].to \in ids
               /\ queue'[i].part = 1 => awaySince'[queue'[i].to]
               /\ queue'[i].part # 1 => /\ sentParts[queue'[i].to].part = queue'[i].part - 1
                                       /\ queue'[i].ready >= sentParts[queue'[i].to].at + WelcomeSpacing
    <3>1. CASE queue'[i].to \in ids \ joined /\ \E k \in 1 .. Len(queue) : queue'[i] = queue[k]
      <4>1. PICK k \in 1 .. Len(queue) : queue'[i] = queue[k]
        BY <3>1
      <4>2. Due(queue[k])
        BY DEF CommunityInv, QueueDue
      <4>3. /\ queue[k].part = 1 => awaySince[queue[k].to]
            /\ queue[k].part # 1 => sentParts[queue[k].to].part = queue[k].part - 1 /\ queue[k].ready >= sentParts[queue[k].to].at + WelcomeSpacing
        BY <2>1, <4>1, <4>2 DEF Due
      <4>4. queue[k].to \in Joiners
        BY <1>1, <3>1, <4>1
      <4>5. queue'[i].part = 1 => awaySince'[queue'[i].to]
        BY <1>3, <4>1, <4>3, <4>4
      <4> QED BY <3>1, <4>1, <4>3, <4>5
    <3>2. CASE queue'[i].part = 1 /\ queue'[i].to \in joined
      BY <1>1, <1>3, <1>5, <3>2
    <3> QED BY <1>7, <2>1, <3>1, <3>2 DEF Welcomes
  <2>2. \A i \in 1 .. Len(queue') : Due(queue[i])'
    BY <1>2, <2>1 DEF Due
  <2> QED BY <1>2, <2>2 DEF QueueDue
<1>10. OneWelcome'
  BY <1>2, <1>7 DEF OneWelcome, Welcomes
<1>11. faults' = {}
  <2>1. faults' = faults \cup If(round /\ fits = {}, "round twice") /\ faults = {}
    BY DEF ReadTaken, CommunityInv
  <2> QED BY <1>4, <2>1 DEF If
<1> QED BY <1>3, <1>4, <1>8, <1>9, <1>10, <1>11 DEF CommunityInv

LEMMA RosterKeeps == ASSUME CommunityInv, ReadRosterNow PROVE CommunityInv'
<1>1. PICK step \in TickSteps, ids \in SUBSET Joiners, changed \in BOOLEAN :
        LET now == tickAt + step
            round == ~Baseline(now) /\ Round(changed, ids, now)
            joined == IF Baseline(now) THEN {} ELSE Joined(ids, changed, now)
            fits == Unanswered(changed, now) IN
        /\ Idle /\ now <= LastTick /\ tickAt' = now
        /\ state' = Observed(ids, changed, now) /\ listed' = ids
        /\ \E order \in Rosters(joined) : queue' = Asks(StillWanted(ids, now), round, order, now)
        /\ awaySince' = [p \in Joiners |->
             \/ awaySince[p] \/ (Baseline(now) /\ p \notin ids)
             \/ lastListed[p] # NotEver /\ now - lastListed[p] >= LeaveGraceFor]
        /\ lastListed' = [p \in Joiners |-> IF p \in ids THEN now ELSE lastListed[p]]
        /\ changes' = ShownChanges(changed, now) /\ usedAt' = Used(fits, round, now)
        /\ faults' = faults \cup If(round /\ fits = {}, "round twice")
        /\ delivering' = Nothing /\ UNCHANGED <<stopped, sentParts>>
  BY DEF ReadRosterNow
<1>2. PICK now : now = tickAt + step
  OBVIOUS
<1>3. PICK round \in BOOLEAN : round = (~Baseline(now) /\ Round(changed, ids, now))
  OBVIOUS
<1>4. PICK noted : noted = ShownChanges(changed, now)
  OBVIOUS
<1>5. PICK joined : joined = IF Baseline(now) THEN {} ELSE Joined(ids, changed, now)
  OBVIOUS
<1>6. PICK fits : fits = Unanswered(changed, now)
  OBVIOUS
<1>7. PICK order \in Rosters(joined) : queue' = Asks(StillWanted(ids, now), round, order, now)
  BY <1>1, <1>2, <1>3, <1>5, Zenon
<1>8. now <= LastTick
  BY <1>1, <1>2
<1>9. ReadAs(ids, changed, now, round, joined, noted, fits)
  <2>1. now \in Nat /\ now > tickAt
    BY <1>2, CommunityAssumption DEF CommunityInv, CommunityShape
  <2>2. round <=> ~Baseline(now) /\ Round(changed, ids, now)
    BY <1>3
  <2> QED BY <1>4, <1>5, <1>6, <1>8, <2>1, <2>2 DEF ReadAs, ShownChanges, Unanswered
<1>10. ReadTaken(ids, changed, now, round, joined, noted, fits, order)
  <2>1. tickAt' = now /\ state' = Observed(ids, changed, now) /\ listed' = ids
    BY <1>1, <1>2, Zenon
  <2>2. awaySince' = [p \in Joiners |->
             \/ awaySince[p] \/ (Baseline(now) /\ p \notin ids)
             \/ lastListed[p] # NotEver /\ now - lastListed[p] >= LeaveGraceFor]
    BY <1>1, <1>2, Zenon
  <2>3. lastListed' = [p \in Joiners |-> IF p \in ids THEN now ELSE lastListed[p]] /\ changes' = noted
    BY <1>1, <1>2, <1>4, Zenon
  <2>4. usedAt' = Used(fits, round, now)
    <3>1. usedAt' = Used(fits, ~Baseline(now) /\ Round(changed, ids, now), now)
      BY <1>1, <1>2, <1>6, Zenon
    <3> QED BY <1>3, <3>1, Zenon
  <2>5. faults' = faults \cup If(round /\ fits = {}, "round twice")
    BY <1>1, <1>2, <1>3, <1>6, Zenon
  <2>6. delivering' = Nothing /\ UNCHANGED <<stopped, sentParts>>
    BY <1>1, Zenon
  <2> QED BY <1>7, <2>1, <2>2, <2>3, <2>4, <2>5, <2>6, Zenon DEF ReadTaken
<1> QED BY <1>9, <1>10, ReadKeeps

LEMMA ReadLost == ASSUME CommunityInv, TickReadFails PROVE CommunityInv'
<1>1. PICK step \in TickSteps : /\ tickAt + step <= LastTick /\ tickAt' = tickAt + step
        /\ state' = Initial /\ queue' = <<>> /\ listed' = {} /\ changes' = {} /\ usedAt' = NotEver
        /\ delivering' = Nothing /\ UNCHANGED <<stopped, lastListed, awaySince, sentParts, faults>>
  BY DEF TickReadFails
<1>2. NotEver \in TickTimes /\ Nothing.step = "none" /\ MaxQueue \in Nat /\ step \in Nat /\ tickAt \in Nat /\ CommunityShape
  BY CommunityAssumption DEF TickTimes, Nothing, CommunityInv, CommunityShape
<1>3. Initial \in CommunityStates /\ Initial.lastAt = NotEver /\ Initial.pendingRoundAt = NotEver
  BY <1>2 DEF Initial, CommunityStates
<1>4. CommunityShape'
  <2>1. queue' \in Seq(Messages) /\ Len(queue') <= MaxQueue
    BY <1>1, <1>2
  <2>2. \A p \in Joiners : sentParts'[p].at <= tickAt'
    <3>1. \A p \in Joiners : sentParts[p].at \in Nat /\ sentParts[p].at <= tickAt
      BY <1>2 DEF CommunityShape
    <3> QED BY <1>1, <1>2, <3>1
  <2> QED BY <1>1, <1>2, <1>3, <2>1, <2>2 DEF CommunityShape
<1>5. PlayersKnown' /\ RoundsKnown'
  BY <1>1, <1>2, <1>3 DEF PlayersKnown, RoundsKnown, NotEver
<1>6. QueueDue' /\ OneWelcome'
  BY <1>1, <1>2 DEF QueueDue, OneWelcome
<1> QED BY <1>1, <1>4, <1>5, <1>6 DEF CommunityInv

LEMMA FrontPart ==
  ASSUME NEW S, NEW rows \in Seq(S), NEW place \in 1 .. Len(rows)
  PROVE  /\ SubSeq(rows, 1, place - 1) \in Seq(S) /\ Len(SubSeq(rows, 1, place - 1)) = place - 1
         /\ \A i \in 1 .. place - 1 : SubSeq(rows, 1, place - 1)[i] = rows[i]
OBVIOUS

\* Taking a message leaves the others, each once.
LEMMA TakeKeeps == ASSUME CommunityInv, Take PROVE CommunityInv'
<1>1. /\ Ready # {} /\ CommunityShape /\ Idle
      /\ UNCHANGED <<tickAt, state, listed, stopped, lastListed, awaySince, sentParts, changes, usedAt, faults>>
  BY DEF Take, CommunityInv
<1>2. PICK t : t = CHOOSE i \in Ready : \A j \in Ready : i <= j
  OBVIOUS
<1>3. t \in Ready
  <2>1. Ready \subseteq Nat
    BY DEF Ready
  <2>2. \E i \in Ready : \A j \in Ready : i <= j
    BY <1>1, <2>1, LeastOf
  <2> QED BY <1>2, <2>2
<1>4. t \in 1 .. Len(queue) /\ queue[t].ready <= tickAt
  BY <1>3 DEF Ready
<1>5. /\ queue' = SubSeq(queue, 1, t - 1) \o SubSeq(queue, t + 1, Len(queue))
      /\ delivering' = [step |-> "beginning", message |-> queue[t]]
  BY <1>2 DEF Take
<1>6. queue \in Seq(Messages) /\ Len(queue) \in Nat /\ queue[t] \in Messages /\ Len(queue) <= MaxQueue /\ MaxQueue \in Nat
  BY <1>1, <1>4, CommunityAssumption DEF CommunityShape
<1>7. /\ queue' \in Seq(Messages) /\ Len(queue') = Len(queue) - 1
      /\ \A i \in 1 .. Len(queue) - 1 : queue'[i] = IF i < t THEN queue[i] ELSE queue[i + 1]
  <2>1. PICK a : a = SubSeq(queue, 1, t - 1)
    OBVIOUS
  <2>2. PICK b : b = SubSeq(queue, t + 1, Len(queue))
    OBVIOUS
  <2>3. a \in Seq(Messages) /\ Len(a) = t - 1 /\ \A i \in 1 .. t - 1 : a[i] = queue[i]
    BY <1>4, <1>6, <2>1, FrontPart
  <2>4. b \in Seq(Messages) /\ Len(b) = Len(queue) - t /\ \A i \in 1 .. Len(queue) - t : b[i] = queue[t + i]
    BY <1>4, <1>6, <2>2
  <2>5. queue' = a \o b
    BY <1>5, <2>1, <2>2
  <2> HIDE DEF Messages
  <2>6. /\ queue' \in Seq(Messages) /\ Len(queue') = Len(a) + Len(b)
        /\ \A i \in 1 .. Len(a) + Len(b) : queue'[i] = IF i <= Len(a) THEN a[i] ELSE b[i - Len(a)]
    BY <2>3, <2>4, <2>5, ConcatProperties
  <2>7. Len(a) + Len(b) = Len(queue) - 1
    BY <1>4, <1>6, <2>3, <2>4
  <2>8. ASSUME NEW i \in 1 .. Len(queue) - 1 PROVE queue'[i] = IF i < t THEN queue[i] ELSE queue[i + 1]
    <3>1. CASE i < t
      <4>1. i \in 1 .. t - 1 /\ i <= Len(a)
        BY <1>4, <2>3, <3>1
      <4> QED BY <2>3, <2>6, <2>7, <3>1, <4>1
    <3>2. CASE ~(i < t)
      <4>1. i - (t - 1) \in 1 .. Len(queue) - t /\ ~(i <= Len(a)) /\ t + (i - (t - 1)) = i + 1
        BY <1>4, <1>6, <2>3, <3>2
      <4> QED BY <2>3, <2>4, <2>6, <2>7, <3>2, <4>1
    <3> QED BY <3>1, <3>2
  <2> QED BY <2>6, <2>7, <2>8
\* Where each message that stays was.
<1>8. PICK was : was = [i \in 1 .. Len(queue) - 1 |-> IF i < t THEN i ELSE i + 1]
  OBVIOUS
<1>9. ASSUME NEW i \in 1 .. Len(queue') PROVE was[i] \in 1 .. Len(queue) /\ was[i] # t /\ queue'[i] = queue[was[i]]
  <2>1. i \in 1 .. Len(queue) - 1
    BY <1>7
  <2> QED BY <1>4, <1>6, <1>7, <1>8, <2>1
<1>10. ASSUME NEW i \in 1 .. Len(queue'), NEW j \in 1 .. Len(queue'), was[i] = was[j] PROVE i = j
  <2>1. i \in 1 .. Len(queue) - 1 /\ j \in 1 .. Len(queue) - 1
    BY <1>7
  <2> QED BY <1>4, <1>6, <1>8, <1>10, <2>1
<1>11. CommunityShape'
  <2>1. delivering' \in [step : {"beginning", "sending"}, message : Messages]
    BY <1>5, <1>6
  <2>2. Len(queue') <= MaxQueue
    BY <1>6, <1>7
  <2> QED BY <1>1, <1>7, <2>1, <2>2 DEF CommunityShape
<1>12. delivering'.step = "beginning" /\ delivering'.message = queue[t]
  BY <1>5
<1>13. \A i \in 1 .. Len(queue) : Due(queue[i])
  BY DEF CommunityInv, QueueDue
<1>14. QueueDue'
  <2>1. \A i \in 1 .. Len(queue') : Due(queue'[i])
    BY <1>9, <1>13
  <2>2. \A i \in 1 .. Len(queue') : Due(queue[i])'
    BY <1>1, <2>1 DEF Due
  <2>3. Due(delivering.message)'
    BY <1>1, <1>4, <1>12, <1>13 DEF Due
  <2> QED BY <1>1, <1>4, <1>12, <2>2, <2>3 DEF QueueDue
<1>15. OneWelcome'
  <2>1. \A i, j \in 1 .. Len(queue) : queue[i].part # 0 /\ queue[j].part # 0 /\ queue[i].to = queue[j].to => i = j
    BY DEF CommunityInv, OneWelcome
  <2>2. ASSUME NEW i \in 1 .. Len(queue'), NEW j \in 1 .. Len(queue'), queue'[i].part # 0, queue'[j].part # 0, queue'[i].to = queue'[j].to
        PROVE  i = j
    BY <1>9, <1>10, <2>1, <2>2
  <2>3. ASSUME NEW i \in 1 .. Len(queue'), queue'[i].part # 0, queue[t].part # 0 PROVE queue'[i].to # queue[t].to
    BY <1>4, <1>9, <2>1, <2>3
  <2> QED BY <1>12, <2>2, <2>3 DEF OneWelcome
<1>16. PlayersKnown' /\ RoundsKnown'
  BY <1>1 DEF CommunityInv, PlayersKnown, RoundsKnown
<1> QED BY <1>1, <1>11, <1>14, <1>15, <1>16 DEF CommunityInv

LEMMA BegunKeeps == ASSUME CommunityInv, Begun PROVE CommunityInv'
<1>1. /\ delivering.step = "beginning" /\ CommunityShape
      /\ UNCHANGED <<tickAt, state, queue, listed, stopped, lastListed, changes, usedAt>>
  BY DEF Begun, CommunityInv
<1>2. PICK m : m = delivering.message
  OBVIOUS
<1>3. /\ m \in Messages /\ m.to \in Joiners /\ m.part \in Nat /\ m.ready \in Nat /\ delivering = [step |-> "beginning", message |-> m]
      /\ Done.step = "done" /\ Nothing.step = "none"
  <2>1. delivering \in [step : {"beginning", "sending"}, message : Messages]
    BY <1>1 DEF CommunityShape, Nothing, Done
  <2>2. m \in Messages
    BY <1>2, <2>1
  <2> QED BY <1>1, <1>2, <2>1, <2>2, CommunityAssumption DEF Messages, Nothing, Done
<1>4. Due(m) /\ m.ready <= tickAt
  BY <1>1, <1>2 DEF CommunityInv, QueueDue
<1>5. tickAt \in Nat
  BY <1>1 DEF CommunityShape
<1>6. CASE stopped
  <2>1. delivering' = Done /\ UNCHANGED <<awaySince, sentParts, faults>>
    BY <1>6 DEF Begun, StopNoticed
  <2>2. CommunityShape'
    BY <1>1, <2>1 DEF CommunityShape
  <2>3. QueueDue' /\ OneWelcome'
    BY <1>1, <1>3, <2>1 DEF CommunityInv, QueueDue, OneWelcome, Due
  <2>4. PlayersKnown' /\ RoundsKnown'
    BY <1>1, <2>1 DEF CommunityInv, PlayersKnown, RoundsKnown
  <2> QED BY <2>1, <2>2, <2>3, <2>4 DEF CommunityInv
<1>7. CASE ~stopped
  <2>1. /\ delivering' = [delivering EXCEPT !.step = "sending"]
        /\ sentParts' = IF m.part = 0 THEN sentParts ELSE [sentParts EXCEPT ![m.to] = [part |-> m.part, at |-> tickAt]]
        /\ awaySince' = IF m.part = 1 THEN [awaySince EXCEPT ![m.to] = FALSE] ELSE awaySince
        /\ faults' = faults \cup If(stopped, "after stop") \cup If(m.part = 1 /\ ~awaySince[m.to], "welcomed twice")
              \cup If(m.part > 1 /\ (sentParts[m.to].part # m.part - 1 \/ tickAt - sentParts[m.to].at < WelcomeSpacing), "out of order")
              \cup If(m.part > 0 /\ m.to \notin listed, "gone")
    BY <1>2, <1>7 DEF Begun, StopNoticed
  <2>2. delivering' = [step |-> "sending", message |-> m]
    BY <1>3, <2>1
  <2>3. sentParts \in [Joiners -> [part : Nat, at : Nat]] /\ awaySince \in [Joiners -> BOOLEAN]
    BY <1>1 DEF CommunityShape
  <2>4. PICK was : was = [part |-> m.part, at |-> tickAt]
    OBVIOUS
  <2>5. was \in [part : Nat, at : Nat] /\ was.part = m.part /\ was.at = tickAt
    BY <1>3, <1>5, <2>4
  <2>6. \A p \in Joiners : sentParts'[p] = IF m.part # 0 /\ p = m.to THEN was ELSE sentParts[p]
    BY <1>3, <2>1, <2>3, <2>4
  <2>7. sentParts' \in [Joiners -> [part : Nat, at : Nat]]
    BY <1>3, <2>1, <2>3, <2>4, <2>5
  <2>8. /\ \A p \in Joiners : p # m.to \/ m.part # 1 => awaySince'[p] = awaySince[p]
        /\ awaySince' \in [Joiners -> BOOLEAN]
    <3>1. CASE m.part = 1
      BY <1>3, <2>1, <2>3, <3>1
    <3>2. CASE m.part # 1
      BY <2>1, <2>3, <3>2
    <3> QED BY <3>1, <3>2
  <2>9. CommunityShape'
    <3>1. \A p \in Joiners : sentParts[p].at <= tickAt
      BY <1>1 DEF CommunityShape
    <3>2. \A p \in Joiners : sentParts'[p].at <= tickAt
      BY <1>5, <2>5, <2>6, <3>1
    <3>3. delivering' \in [step : {"beginning", "sending"}, message : Messages]
      BY <1>3, <2>2
    <3> QED BY <1>1, <2>7, <2>8, <3>2, <3>3 DEF CommunityShape
  <2>10. faults' = {}
    <3>1. ~(m.part = 1 /\ ~awaySince[m.to])
      BY <1>4 DEF Due
    <3>2. ~(m.part > 0 /\ m.to \notin listed)
      BY <1>3, <1>4 DEF Due
    <3>3. ~(m.part > 1 /\ (sentParts[m.to].part # m.part - 1 \/ tickAt - sentParts[m.to].at < WelcomeSpacing))
      <4>1. CASE m.part > 1
        <5>1. sentParts[m.to].part = m.part - 1 /\ m.ready >= sentParts[m.to].at + WelcomeSpacing /\ sentParts[m.to].at \in Nat
          BY <1>3, <1>4, <2>3, <4>1 DEF Due
        <5>2. ~(tickAt - sentParts[m.to].at < WelcomeSpacing)
          BY <1>3, <1>4, <1>5, <5>1, CommunityAssumption
        <5> QED BY <5>1, <5>2
      <4> QED BY <4>1
    <3>4. faults = {}
      BY DEF CommunityInv
    <3> QED BY <1>7, <2>1, <3>1, <3>2, <3>3, <3>4 DEF If
  \* The other messages are for other players.
  <2>11. ASSUME NEW i \in 1 .. Len(queue), queue[i].part # 0
         PROVE  queue[i].to \in Joiners /\ (m.part # 0 => queue[i].to # m.to)
    <3>1. Due(queue[i]) /\ listed \subseteq Joiners
      BY <1>1 DEF CommunityInv, QueueDue, CommunityShape
    <3>2. queue[i].to \in Joiners
      BY <2>11, <3>1 DEF Due
    <3>3. m.part # 0 => queue[i].to # m.to
      BY <1>1, <1>2, <2>11 DEF CommunityInv, OneWelcome
    <3> QED BY <3>2, <3>3
  <2>12. QueueDue'
    <3>1. ASSUME NEW i \in 1 .. Len(queue) PROVE Due(queue[i])'
      <4>1. Due(queue[i])
        BY DEF CommunityInv, QueueDue
      <4>2. CASE queue[i].part # 0
        <5>1. queue[i].to \in Joiners /\ (m.part # 0 => queue[i].to # m.to)
          BY <2>11, <4>2
        <5>2. sentParts'[queue[i].to] = sentParts[queue[i].to]
          BY <2>6, <5>1
        <5>3. awaySince'[queue[i].to] = awaySince[queue[i].to]
          BY <2>8, <5>1
        <5> QED BY <1>1, <4>1, <5>2, <5>3 DEF Due
      <4>3. CASE queue[i].part = 0
        BY <1>1, <4>3 DEF Due
      <4> QED BY <4>2, <4>3
    <3>2. m.part # 0 => m.to \in listed /\ sentParts'[m.to].part = m.part
      BY <1>3, <1>4, <2>5, <2>6 DEF Due
    <3>3. delivering'.step = "sending" /\ delivering'.message = m
      BY <2>2
    <3> QED BY <1>1, <3>1, <3>2, <3>3 DEF QueueDue
  <2>13. OneWelcome'
    <3>1. delivering'.step = "sending" /\ delivering'.message = m
      BY <2>2
    <3> QED BY <1>1, <2>11, <3>1 DEF CommunityInv, OneWelcome
  <2>14. PlayersKnown'
    <3>1. ASSUME NEW p \in Joiners, ~awaySince'[p], state.lastAt # NotEver
          PROVE  state.present[p] = lastListed[p] /\ lastListed[p] # NotEver
      <4>1. CASE p = m.to /\ m.part = 1
        <5>1. p \in listed
          BY <1>4, <4>1 DEF Due
        <5>2. state.present[p] = state.lastAt /\ lastListed[p] = state.lastAt
          BY <5>1 DEF CommunityInv, PlayersKnown
        <5> QED BY <3>1, <5>2
      <4>2. CASE ~(p = m.to /\ m.part = 1)
        <5>1. ~awaySince[p]
          BY <2>8, <3>1, <4>2
        <5> QED BY <3>1, <5>1 DEF CommunityInv, PlayersKnown
      <4> QED BY <4>1, <4>2
    <3>2. /\ state.lastAt <= tickAt
          /\ \A p \in listed : state.lastAt # NotEver /\ state.present[p] = state.lastAt /\ lastListed[p] = state.lastAt
      BY DEF CommunityInv, PlayersKnown
    <3> QED BY <1>1, <3>1, <3>2 DEF PlayersKnown
  <2>15. RoundsKnown'
    BY <1>1 DEF CommunityInv, RoundsKnown
  <2> QED BY <2>9, <2>10, <2>12, <2>13, <2>14, <2>15 DEF CommunityInv
<1> QED BY <1>6, <1>7

LEMMA NotBegunKeeps == ASSUME CommunityInv, NotBegun PROVE CommunityInv'
<1>1. /\ delivering' = Done /\ Done.step = "done" /\ CommunityShape
      /\ UNCHANGED <<tickAt, state, queue, listed, stopped, lastListed, awaySince, changes, usedAt, sentParts, faults>>
  BY DEF NotBegun, history, Done, CommunityInv
<1>2. CommunityShape'
  BY <1>1 DEF CommunityShape
<1>3. QueueDue' /\ OneWelcome'
  BY <1>1 DEF CommunityInv, QueueDue, OneWelcome, Due
<1>4. PlayersKnown' /\ RoundsKnown'
  BY <1>1 DEF CommunityInv, PlayersKnown, RoundsKnown
<1> QED BY <1>1, <1>2, <1>3, <1>4 DEF CommunityInv

LEMMA StopKeeps == ASSUME CommunityInv, Stop PROVE CommunityInv'
<1>1. /\ stopped' = TRUE /\ queue' = <<>> /\ CommunityShape
      /\ UNCHANGED <<tickAt, state, listed, delivering, lastListed, awaySince, changes, usedAt, sentParts, faults>>
  BY DEF Stop, history, CommunityInv
<1>2. queue' \in Seq(Messages) /\ Len(queue') = 0 /\ MaxQueue \in Nat
  BY <1>1, CommunityAssumption
<1>3. CommunityShape'
  BY <1>1, <1>2 DEF CommunityShape
<1>4. QueueDue' /\ OneWelcome'
  BY <1>1, <1>2 DEF CommunityInv, QueueDue, OneWelcome, Due
<1>5. PlayersKnown' /\ RoundsKnown'
  BY <1>1 DEF CommunityInv, PlayersKnown, RoundsKnown
<1> QED BY <1>1, <1>3, <1>4, <1>5 DEF CommunityInv

LEMMA AnsweredKeeps == ASSUME CommunityInv, SendAnswered PROVE CommunityInv'
<1>1. PICK confirmed \in BOOLEAN, step \in {0} \cup TickSteps :
        /\ delivering.step = "sending" /\ tickAt + step <= LastTick
        /\ tickAt' = tickAt + step /\ delivering' = Done
        /\ LET m == delivering.message
               follows == Follows(confirmed) /\ ~stopped /\ m.part \in 1 .. WelcomeLength - 1 IN
           /\ queue' = IF follows THEN Bounded(Append(queue, Message(m.to, m.part + 1, tickAt + step + WelcomeSpacing)))
                       ELSE queue
           /\ sentParts' = IF confirmed \/ m.part = 0 THEN sentParts ELSE [sentParts EXCEPT ![m.to].part = WelcomeLength + 1]
        /\ UNCHANGED <<state, listed, stopped, history, faults>>
  BY DEF SendAnswered
<1>2. /\ CommunityShape /\ Done.step = "done" /\ tickAt \in Nat /\ step \in Nat /\ tickAt' \in Nat /\ tickAt' >= tickAt
      /\ queue \in Seq(Messages) /\ WelcomeSpacing \in Nat /\ WelcomeLength \in Nat
      /\ UNCHANGED <<state, listed, stopped, lastListed, awaySince, changes, usedAt, faults>>
  <2>1. CommunityShape /\ tickAt \in Nat /\ step \in Nat /\ queue \in Seq(Messages)
    <3>1. step \in Nat
      BY CommunityAssumption
    <3> QED BY <3>1 DEF CommunityInv, CommunityShape
  <2> QED BY <1>1, <2>1, CommunityAssumption DEF Done, history
<1>20. tickAt' + WelcomeSpacing \in Nat
  <2>1. PICK a \in Nat, b \in Nat : a = tickAt' /\ b = WelcomeSpacing
    BY <1>2
  <2>2. a + b \in Nat
    OBVIOUS
  <2> QED BY <2>1, <2>2, Zenon
<1>3. PICK m : m = delivering.message
  OBVIOUS
<1>4. m \in Messages /\ m.to \in Joiners /\ m.part \in 0 .. WelcomeLength
  <2>1. delivering \in [step : {"beginning", "sending"}, message : Messages]
    BY <1>1 DEF CommunityInv, CommunityShape, Nothing, Done
  <2>2. m \in Messages
    BY <1>3, <2>1
  <2> QED BY <2>2 DEF Messages
<1>5. PICK next : next = Message(m.to, m.part + 1, tickAt' + WelcomeSpacing)
  OBVIOUS
<1>6. PICK was : was = [sentParts[m.to] EXCEPT !.part = WelcomeLength + 1]
  OBVIOUS
<1>7. /\ m.part # 0 => m.to \in listed /\ sentParts[m.to].part = m.part
      /\ m.part # 0 => \A i \in 1 .. Len(queue) : queue[i].part # 0 => queue[i].to # m.to
  BY <1>1, <1>3 DEF CommunityInv, QueueDue, OneWelcome
<1>8. /\ sentParts \in [Joiners -> [part : Nat, at : Nat]] /\ \A p \in Joiners : sentParts[p].at <= tickAt
  BY <1>2 DEF CommunityShape
<1>9. sentParts' = IF confirmed \/ m.part = 0 THEN sentParts ELSE [sentParts EXCEPT ![m.to] = was]
  BY <1>1, <1>3, <1>6
<1>10. was \in [part : Nat, at : Nat] /\ was.at = sentParts[m.to].at
  <2>1. sentParts[m.to] \in [part : Nat, at : Nat] /\ WelcomeLength + 1 \in Nat
    BY <1>2, <1>4, <1>8
  <2> QED BY <1>6, <2>1
<1>11. /\ sentParts' \in [Joiners -> [part : Nat, at : Nat]]
       /\ \A p \in Joiners : sentParts'[p].at = sentParts[p].at
       /\ \A p \in Joiners : (p # m.to \/ m.part = 0 \/ confirmed) => sentParts'[p] = sentParts[p]
  <2>1. CASE confirmed \/ m.part = 0
    BY <1>8, <1>9, <2>1
  <2>2. CASE ~(confirmed \/ m.part = 0)
    BY <1>4, <1>8, <1>9, <1>10, <2>2
  <2> QED BY <2>1, <2>2
<1>12. \A i \in 1 .. Len(queue) : Due(queue[i])
  BY DEF CommunityInv, QueueDue
<1>13. \A i \in 1 .. Len(queue) : queue[i].part # 0 => queue[i].to \in Joiners
  BY <1>2, <1>12 DEF Due, CommunityShape
\* The messages that were there.
<1>14. ASSUME NEW i \in 1 .. Len(queue), NEW x, x = queue[i] PROVE Due(x)'
  <2>1. Due(x)
    BY <1>12, <1>14
  <2>2. CASE x.part # 0
    <3>1. sentParts'[x.to] = sentParts[x.to]
      BY <1>7, <1>11, <1>13, <1>14, <2>2
    <3> QED BY <1>2, <2>1, <2>2, <3>1 DEF Due
  <2>3. CASE x.part = 0
    BY <2>3 DEF Due
  <2> QED BY <2>2, <2>3
<1>15. delivering'.step = "done"
  BY <1>1, <1>2
<1>16. PlayersKnown' /\ RoundsKnown' /\ faults' = {}
  <2>1. PlayersKnown'
    <3>1. state.lastAt <= tickAt /\ state.lastAt \in TickTimes
      BY <1>2 DEF CommunityInv, PlayersKnown, CommunityShape, CommunityStates
    <3>2. state.lastAt <= tickAt'
      BY <1>2, <3>1 DEF TickTimes, NotEver
    <3> QED BY <1>2, <3>2 DEF CommunityInv, PlayersKnown
  <2> QED BY <1>2, <2>1 DEF CommunityInv, RoundsKnown
\* It is enough that what is left in the queue is a due message of before or the next of this welcome.
<1>17. ASSUME queue' \in Seq(Messages), Len(queue') <= MaxQueue, \A i \in 1 .. Len(queue') : Due(queue[i])', OneWelcome'
       PROVE  CommunityInv'
  <2>1. \A p \in Joiners : sentParts'[p].at <= tickAt'
    <3>1. \A p \in Joiners : sentParts[p].at \in Nat
      BY <1>8
    <3> QED BY <1>2, <1>8, <1>11, <3>1
  <2>2. CommunityShape'
    <3>1. tickAt' <= LastTick /\ delivering' = Done
      BY <1>1
    <3> QED BY <1>2, <1>11, <1>17, <2>1, <3>1 DEF CommunityShape
  <2>3. QueueDue'
    BY <1>15, <1>17 DEF QueueDue
  <2> QED BY <1>16, <1>17, <2>2, <2>3 DEF CommunityInv
<1>18. CASE Follows(confirmed) /\ ~stopped /\ m.part \in 1 .. WelcomeLength - 1
  <2>1. queue' = Bounded(Append(queue, next)) /\ confirmed
    BY <1>1, <1>3, <1>5, <1>18 DEF Follows
  <2>2. m.part # 0 /\ m.part \in Nat /\ m.part + 1 \in 0 .. WelcomeLength /\ tickAt' + WelcomeSpacing \in Nat
    <3>1. tickAt' + WelcomeSpacing \in Nat
      BY <1>20
    <3>2. m.part \in 1 .. WelcomeLength - 1 /\ WelcomeLength \in Nat
      BY <1>2, <1>18
    <3> QED BY <3>1, <3>2
  <2>3. next \in Messages /\ next.to = m.to /\ next.part = m.part + 1 /\ next.ready = tickAt' + WelcomeSpacing
    BY <1>2, <1>4, <1>5, <2>2, MessageParts
  <2>4. Due(next)'
    <3>1. sentParts'[m.to] = sentParts[m.to] /\ sentParts[m.to].part = m.part /\ m.to \in listed
      BY <1>4, <1>7, <1>11, <2>1, <2>2
    <3>2. sentParts[m.to].at \in Nat /\ sentParts[m.to].at <= tickAt
      BY <1>4, <1>8
    <3>3. next.ready >= sentParts[m.to].at + WelcomeSpacing /\ next.part # 1 /\ m.part = next.part - 1
      BY <1>2, <2>2, <2>3, <3>2, SMTT(40)
    <3> QED BY <1>2, <2>3, <3>1, <3>3 DEF Due
  <2>5. PICK all : all = Append(queue, next)
    OBVIOUS
  <2> HIDE DEF Messages
  <2>6. /\ all \in Seq(Messages) /\ Len(all) = Len(queue) + 1 /\ Len(queue) \in Nat
        /\ \A i \in 1 .. Len(queue) : all[i] = queue[i]
        /\ all[Len(queue) + 1] = next
    BY <1>2, <2>3, <2>5
  <2>7. /\ queue' \in Seq(Messages) /\ Len(queue') <= MaxQueue /\ Len(queue') <= Len(all)
        /\ \A i \in 1 .. Len(queue') : queue'[i] = all[i]
    BY <2>1, <2>5, <2>6, BoundedParts
  <2>8. ASSUME NEW i \in 1 .. Len(queue')
        PROVE  (i \in 1 .. Len(queue) /\ queue'[i] = queue[i]) \/ (i = Len(queue) + 1 /\ queue'[i] = next)
    BY <2>6, <2>7
  <2>9. ASSUME NEW i \in 1 .. Len(queue') PROVE Due(queue[i])'
    <3>1. PICK x : x = queue'[i]
      OBVIOUS
    <3>2. Due(x)'
      <4>1. CASE i \in 1 .. Len(queue) /\ queue'[i] = queue[i]
        BY <1>14, <3>1, <4>1
      <4>2. CASE queue'[i] = next
        BY <2>4, <3>1, <4>2
      <4> QED BY <2>8, <4>1, <4>2
    <3> QED BY <3>1, <3>2
  <2>10. OneWelcome'
    <3>1. \A i, j \in 1 .. Len(queue) : queue[i].part # 0 /\ queue[j].part # 0 /\ queue[i].to = queue[j].to => i = j
      BY DEF CommunityInv, OneWelcome
    <3>2. \A i \in 1 .. Len(queue) : queue[i].part # 0 => queue[i].to # next.to
      BY <1>7, <2>2, <2>3
    <3>3. ASSUME NEW i \in 1 .. Len(queue'), NEW j \in 1 .. Len(queue'), queue'[i].part # 0, queue'[j].part # 0, queue'[i].to = queue'[j].to
          PROVE  i = j
      BY <2>8, <3>1, <3>2, <3>3
    <3> QED BY <1>15, <3>3 DEF OneWelcome
  <2> QED BY <1>17, <2>7, <2>9, <2>10
<1>19. CASE ~(Follows(confirmed) /\ ~stopped /\ m.part \in 1 .. WelcomeLength - 1)
  <2>1. queue' = queue
    BY <1>1, <1>3, <1>19
  <2>2. \A i \in 1 .. Len(queue') : Due(queue[i])'
    <3> SUFFICES ASSUME NEW i \in 1 .. Len(queue') PROVE Due(queue[i])'
      OBVIOUS
    <3>1. PICK x : x = queue'[i]
      OBVIOUS
    <3>2. Due(x)'
      BY <1>14, <2>1, <3>1
    <3> QED BY <3>1, <3>2
  <2>3. OneWelcome'
    BY <1>15, <2>1 DEF CommunityInv, OneWelcome
  <2>4. Len(queue') <= MaxQueue /\ queue' \in Seq(Messages)
    BY <2>1 DEF CommunityInv, CommunityShape
  <2> QED BY <1>17, <2>2, <2>3, <2>4
<1> QED BY <1>18, <1>19

LEMMA CommunityKeeps == CommunityInv /\ [CommunityNext]_communityVars => CommunityInv'
<1> SUFFICES ASSUME CommunityInv, [CommunityNext]_communityVars PROVE CommunityInv'
  OBVIOUS
<1>1. CASE UNCHANGED communityVars
  BY <1>1 DEF communityVars, CommunityInv, CommunityShape, PlayersKnown, QueueDue, OneWelcome, RoundsKnown, Due
<1>2. CASE CommunityNext
  BY <1>2, ReadLost, RosterKeeps, TakeKeeps, BegunKeeps, NotBegunKeeps, AnsweredKeeps, StopKeeps DEF CommunityNext
<1> QED BY <1>1, <1>2

LEMMA CommunityTyped == CommunityInv => CommunityTypeOK
<1> SUFFICES ASSUME CommunityInv PROVE CommunityTypeOK
  OBVIOUS
<1>1. ASSUME NEW i \in 1 .. Len(queue) PROVE queue[i].to \in Joiners /\ queue[i].part \in 0 .. WelcomeLength
  <2>1. queue[i] \in Messages
    BY DEF CommunityInv, CommunityShape
  <2> QED BY <2>1 DEF Messages
<1>2. tickAt \in 0 .. LastTick /\ Len(queue) <= MaxQueue /\ listed \subseteq Joiners /\ stopped \in BOOLEAN
  BY CommunityAssumption DEF CommunityInv, CommunityShape
<1> QED BY <1>1, <1>2 DEF CommunityTypeOK

\* The state between ticks, the queue and the message under way keep their types (server-community.service.ts).
THEOREM CommunityTypeCorrect == CommunitySpec => []CommunityTypeOK
BY CommunityTyped, CommunityStarts, CommunityKeeps, PTL DEF CommunitySpec

\* MessagesFit: a player who stayed is welcomed once, the parts of a welcome come in order and spaced to a
\* listed player, a transition has one message, and nothing is sent once the process stops.
THEOREM MessagesAreFit == CommunitySpec => []MessagesFit
<1>1. CommunityInv => MessagesFit
  BY DEF CommunityInv, MessagesFit
<1> QED BY <1>1, CommunityStarts, CommunityKeeps, PTL DEF CommunitySpec

-----------------------------------------------------------------------------
(* Staff calls for players *)

CallSteps == {"new", "held", "reading", "sending", "posted", "unconfirmed", "lost", "refused"}
CallShape ==
  /\ callTime \in 0 .. LastCallTime
  /\ claim \in {NoClaim} \cup [by : Calls, until : 1 .. LastCallTime + CooldownMs]
  /\ calls \in [Calls -> [step : CallSteps, at : 0 .. LastCallTime]]

\* A call that may still post or has posted holds the cooldown, until its time is over.
Standing(c) == calls[c].step \in {"reading", "sending", "posted", "unconfirmed", "lost"}
Holds(c) == claim # NoClaim /\ claim.by = c /\ claim.until = calls[c].at + CooldownMs
Elapsed(c) == calls[c].at + CooldownMs <= callTime
AreApart(c, d) == calls[c].at - calls[d].at >= CooldownMs \/ calls[d].at - calls[c].at >= CooldownMs
CooldownHeld ==
  /\ \A c \in Calls : Standing(c) => Holds(c) \/ Elapsed(c)
  /\ \A c, d \in Calls : c # d /\ Standing(c) /\ Standing(d) => AreApart(c, d)
SeedingInv == CallShape /\ CooldownHeld

LEMMA CallsStart == SeedingInit => SeedingInv
<1> SUFFICES ASSUME SeedingInit PROVE SeedingInv OBVIOUS
<1>1. LastCallTime \in Nat /\ "new" \in CallSteps BY SeedingAssumption DEF CallSteps
<1>2. \A c \in Calls : calls[c] = [step |-> "new", at |-> 0] BY DEF SeedingInit
<1>3. CallShape BY <1>1 DEF SeedingInit, CallShape
<1>4. CooldownHeld BY <1>2 DEF CooldownHeld, Standing
<1> QED BY <1>3, <1>4 DEF SeedingInv

\* A step of one call that keeps the claim.
LEMMA CallGoesOn ==
  ASSUME SeedingInv, NEW c \in Calls, NEW step \in CallSteps, Standing(c) \/ step \in {"held", "refused"},
         calls' = [calls EXCEPT ![c].step = step], callTime' = callTime, claim' = claim
  PROVE  SeedingInv'
<1>1. CallShape /\ CooldownHeld BY DEF SeedingInv
<1>2. calls \in [Calls -> [step : CallSteps, at : 0 .. LastCallTime]] BY <1>1 DEF CallShape
<1>3. calls' \in [Calls -> [step : CallSteps, at : 0 .. LastCallTime]] BY <1>2
<1>4. \A d \in Calls : calls'[d].at = calls[d].at /\ (d # c => calls'[d].step = calls[d].step)
                       /\ (d = c => calls'[d].step = step)
  BY <1>2
<1>5. \A d \in Calls : Standing(d)' => Standing(d) BY <1>4 DEF Standing
<1>6. CallShape' BY <1>1, <1>3 DEF CallShape
<1>7. CooldownHeld'
  <2>1. \A d \in Calls : Standing(d)' => (Holds(d) \/ Elapsed(d))' BY <1>1, <1>4, <1>5 DEF CooldownHeld, Holds, Elapsed
  <2>2. \A d, e \in Calls : d # e /\ Standing(d)' /\ Standing(e)' => AreApart(d, e)'
    BY <1>1, <1>4, <1>5 DEF CooldownHeld, AreApart
  <2> QED BY <2>1, <2>2 DEF CooldownHeld
<1> QED BY <1>6, <1>7 DEF SeedingInv

\* A call that posts nothing ends; the claim it gives back, if any, is its own.
LEMMA CallEnds ==
  ASSUME SeedingInv, NEW c \in Calls, EndsUnposted(c, "refused"), callTime' = callTime
  PROVE  SeedingInv'
<1>1. CallShape /\ CooldownHeld BY DEF SeedingInv
<1>2. calls \in [Calls -> [step : CallSteps, at : 0 .. LastCallTime]] BY <1>1 DEF CallShape
<1>3. "refused" \in CallSteps /\ calls' = [calls EXCEPT ![c].step = "refused"] BY DEF CallSteps, EndsUnposted
<1>4. calls' \in [Calls -> [step : CallSteps, at : 0 .. LastCallTime]] BY <1>2, <1>3
<1>5. \A d \in Calls : calls'[d].at = calls[d].at /\ (d # c => calls'[d].step = calls[d].step)
                       /\ (d = c => calls'[d].step = "refused")
  BY <1>2, <1>3
<1>6. \A d \in Calls : Standing(d)' => d # c /\ Standing(d) BY <1>5 DEF Standing
<1>7. claim' \in {NoClaim, claim} /\ (claim' # claim => Releases(c)) BY DEF EndsUnposted
<1>8. CallShape' BY <1>1, <1>4, <1>7 DEF CallShape
<1>9. CooldownHeld'
  <2>1. ASSUME NEW d \in Calls, Standing(d)' PROVE (Holds(d) \/ Elapsed(d))'
    <3>1. d # c /\ Standing(d) BY <2>1, <1>6
    <3>2. CASE Holds(d)
      <4>1. ~Releases(c) BY <3>1, <3>2 DEF Holds, Releases
      <4>2. claim' = claim BY <4>1, <1>7
      <4> QED BY <4>2, <3>2, <1>5 DEF Holds
    <3>3. CASE Elapsed(d) BY <3>3, <1>5 DEF Elapsed
    <3> QED BY <3>1, <3>2, <3>3, <1>1 DEF CooldownHeld
  <2>2. \A d, e \in Calls : d # e /\ Standing(d)' /\ Standing(e)' => AreApart(d, e)'
    BY <1>1, <1>5, <1>6 DEF CooldownHeld, AreApart
  <2> QED BY <2>1, <2>2 DEF CooldownHeld
<1> QED BY <1>8, <1>9 DEF SeedingInv

\* A call claims a cooldown that is over, so that every standing call is past.
LEMMA StaffPingsKeeps ==
  ASSUME SeedingInv, NEW c \in Calls, StaffPings(c)
  PROVE  SeedingInv'
<1>1. CallShape /\ CooldownHeld BY DEF SeedingInv
<1>2. calls \in [Calls -> [step : CallSteps, at : 0 .. LastCallTime]] BY <1>1 DEF CallShape
<1>3. calls[c].step = "new" /\ callTime' = callTime BY DEF StaffPings
<1>4. CASE claim.until > callTime
  <2>1. calls' = [calls EXCEPT ![c].step = "held"] /\ claim' = claim BY <1>4 DEF StaffPings
  <2>2. "held" \in CallSteps BY DEF CallSteps
  <2> QED BY <2>1, <2>2, <1>3, CallGoesOn
<1>5. CASE ~(claim.until > callTime)
  <2>1. calls' = [calls EXCEPT ![c] = [step |-> "reading", at |-> callTime]]
        /\ claim' = [by |-> c, until |-> callTime + CooldownMs]
    BY <1>5 DEF StaffPings, Claim
  <2>2. callTime \in 0 .. LastCallTime /\ CooldownMs \in Nat \ {0} /\ LastCallTime \in Nat
    BY <1>1, SeedingAssumption DEF CallShape
  <2>3. [step |-> "reading", at |-> callTime] \in [step : CallSteps, at : 0 .. LastCallTime] BY <2>2 DEF CallSteps
  <2>4. calls' \in [Calls -> [step : CallSteps, at : 0 .. LastCallTime]] BY <2>1, <2>3, <1>2
  <2>5. /\ calls'[c].step = "reading" /\ calls'[c].at = callTime
        /\ \A d \in Calls : d # c => calls'[d] = calls[d]
    BY <2>1, <1>2
  <2>6. callTime + CooldownMs \in 1 .. LastCallTime + CooldownMs BY <2>2
  <2>7. claim' \in [by : Calls, until : 1 .. LastCallTime + CooldownMs] BY <2>1, <2>6
  <2>8. CallShape' BY <1>1, <1>3, <2>4, <2>7 DEF CallShape
  <2>9. ASSUME NEW d \in Calls, d # c, Standing(d) PROVE calls[d].at + CooldownMs <= callTime
    <3>1. CASE Holds(d)
      <4>1. claim.until = calls[d].at + CooldownMs BY <3>1 DEF Holds
      <4>2. calls[d].at \in Nat BY <1>2, <2>2
      <4> QED BY <4>1, <4>2, <1>5, <2>2
    <3>2. CASE Elapsed(d) BY <3>2 DEF Elapsed
    <3> QED BY <3>1, <3>2, <2>9, <1>1 DEF CooldownHeld
  <2>10. claim' # NoClaim
    <3>1. claim'.until = callTime + CooldownMs BY <2>1
    <3>2. NoClaim.until = 0 /\ callTime + CooldownMs # 0 BY <2>2 DEF NoClaim
    <3> QED BY <3>1, <3>2
  <2>11. Holds(c)' BY <2>1, <2>5, <2>10 DEF Holds
  <2>12. \A d \in Calls : d # c => (Standing(d)' <=> Standing(d)) BY <2>5 DEF Standing
  <2>13. CooldownHeld'
    <3>1. ASSUME NEW d \in Calls, Standing(d)' PROVE (Holds(d) \/ Elapsed(d))'
      <4>1. CASE d = c BY <4>1, <2>11
      <4>2. CASE d # c BY <4>2, <2>9, <2>12, <3>1, <2>5, <1>3 DEF Elapsed
      <4> QED BY <4>1, <4>2
    <3>2. ASSUME NEW d \in Calls, d # c, Standing(d) PROVE AreApart(c, d)' /\ AreApart(d, c)'
      <4>1. calls[d].at + CooldownMs <= callTime BY <2>9, <3>2
      <4>2. calls[d].at \in Nat BY <1>2, <2>2
      <4>3. callTime - calls[d].at >= CooldownMs BY <4>1, <4>2, <2>2
      <4> QED BY <4>3, <2>5, <3>2 DEF AreApart
    <3>3. ASSUME NEW d \in Calls, NEW e \in Calls, d # e, Standing(d)', Standing(e)' PROVE AreApart(d, e)'
      <4>1. CASE d = c BY <4>1, <3>2, <3>3, <2>12
      <4>2. CASE e = c BY <4>2, <3>2, <3>3, <2>12
      <4>3. CASE d # c /\ e # c BY <4>3, <3>3, <2>12, <2>5, <1>1 DEF CooldownHeld, AreApart
      <4> QED BY <4>1, <4>2, <4>3
    <3> QED BY <3>1, <3>3 DEF CooldownHeld
  <2> QED BY <2>8, <2>13 DEF SeedingInv
<1> QED BY <1>4, <1>5

LEMMA CallTimeKeeps ==
  ASSUME SeedingInv, CallTimePasses
  PROVE  SeedingInv'
<1>1. CallShape /\ CooldownHeld BY DEF SeedingInv
<1>2. callTime \in 0 .. LastCallTime /\ callTime' = callTime + 1 /\ callTime < LastCallTime /\ LastCallTime \in Nat
  BY <1>1, SeedingAssumption DEF CallShape, CallTimePasses
<1>3. claim' = claim /\ calls' = calls BY DEF CallTimePasses
<1>4. callTime' \in 0 .. LastCallTime BY <1>2
<1>5. CallShape' BY <1>1, <1>3, <1>4 DEF CallShape
<1>6. ASSUME NEW d \in Calls, Elapsed(d) PROVE Elapsed(d)'
  <2>1. calls[d].at \in Nat /\ CooldownMs \in Nat BY <1>1, SeedingAssumption DEF CallShape
  <2> QED BY <2>1, <1>2, <1>3, <1>6 DEF Elapsed
<1>7. CooldownHeld' BY <1>1, <1>3, <1>6 DEF CooldownHeld, Standing, Holds, AreApart
<1> QED BY <1>5, <1>7 DEF SeedingInv

LEMMA SeedingUnchanged ==
  ASSUME SeedingInv, callTime' = callTime, claim' = claim, calls' = calls
  PROVE  SeedingInv'
BY DEF SeedingInv, CallShape, CooldownHeld, Standing, Holds, Elapsed, AreApart

LEMMA SeedingKeeps == SeedingInv /\ [SeedingNext]_seedingVars => SeedingInv'
<1> SUFFICES ASSUME SeedingInv, [SeedingNext]_seedingVars PROVE SeedingInv' OBVIOUS
<1>1. CASE \E c \in Calls : StaffPings(c) BY <1>1, StaffPingsKeeps
<1>2. CASE \E c \in Calls : PingChecks(c)
  <2>1. PICK c \in Calls : PingChecks(c) BY <1>2
  <2>2. callTime' = callTime BY <2>1 DEF PingChecks
  <2>3. CASE EndsUnposted(c, "refused") BY <2>2, <2>3, CallEnds
  <2>4. CASE calls' = [calls EXCEPT ![c].step = "sending"] /\ claim' = claim
    <3>1. Standing(c) /\ "sending" \in CallSteps BY <2>1 DEF PingChecks, Standing, CallSteps
    <3> QED BY <2>2, <2>4, <3>1, CallGoesOn
  <2> QED BY <2>1, <2>3, <2>4 DEF PingChecks
<1>3. CASE \E c \in Calls : PingSent(c)
  <2>1. PICK c \in Calls : PingSent(c) BY <1>3
  <2>2. callTime' = callTime BY <2>1 DEF PingSent
  <2>3. CASE EndsUnposted(c, "refused") BY <2>2, <2>3, CallEnds
  <2>4. CASE \E answer \in {"posted", "unconfirmed", "lost"} :
               calls' = [calls EXCEPT ![c].step = answer] /\ claim' = claim
    <3>1. PICK answer \in {"posted", "unconfirmed", "lost"} :
            calls' = [calls EXCEPT ![c].step = answer] /\ claim' = claim
      BY <2>4
    <3>2. Standing(c) /\ answer \in CallSteps BY <2>1 DEF PingSent, Standing, CallSteps
    <3> QED BY <2>2, <3>1, <3>2, CallGoesOn
  <2> QED BY <2>1, <2>3, <2>4 DEF PingSent
<1>4. CASE CallTimePasses BY <1>4, CallTimeKeeps
<1>5. CASE RoleSetChanges BY <1>5, SeedingUnchanged DEF RoleSetChanges
<1>6. CASE \E p \in Presses : Press(p) \/ Pressed(p) BY <1>6, SeedingUnchanged DEF Press, Pressed
<1>7. CASE UNCHANGED seedingVars BY <1>7, SeedingUnchanged DEF seedingVars
<1> QED BY <1>1, <1>2, <1>3, <1>4, <1>5, <1>6, <1>7 DEF SeedingNext

LEMMA CallsHeld == SeedingInv => SeedingTypeOK /\ CallsSpaced
<1> SUFFICES ASSUME SeedingInv PROVE SeedingTypeOK /\ CallsSpaced OBVIOUS
<1>1. CallShape /\ CooldownHeld BY DEF SeedingInv
<1>2. claim.until \in 0 .. LastCallTime + CooldownMs
  <2>1. LastCallTime \in Nat /\ CooldownMs \in Nat BY SeedingAssumption
  <2>2. CASE claim = NoClaim BY <2>1, <2>2 DEF NoClaim
  <2>3. CASE claim \in [by : Calls, until : 1 .. LastCallTime + CooldownMs] BY <2>1, <2>3
  <2> QED BY <2>2, <2>3, <1>1 DEF CallShape
<1>3. SeedingTypeOK BY <1>1, <1>2 DEF CallShape, SeedingTypeOK
<1>4. \A c \in Calls : MayHavePosted(c) => Standing(c) BY DEF MayHavePosted, Standing
<1>5. CallsSpaced BY <1>1, <1>4 DEF CooldownHeld, CallsSpaced, AreApart
<1> QED BY <1>3, <1>5

-----------------------------------------------------------------------------
(* The weekly leaderboard *)

BoardChecks ==
  [step : {"idle", "evaluating", "looking", "looked", "sending"}, week : 0 .. LastWeek, found : {"yes", "no"}]
BoardShape ==
  /\ week \in Weeks /\ starts \in 1 .. MaxStarts /\ late \in BOOLEAN
  /\ decided \subseteq Weeks /\ refused \subseteq Weeks /\ inFlight \subseteq Weeks /\ remembered \subseteq Weeks
  /\ checks \in [Callers -> BoardChecks] /\ \A c \in Callers : checks[c].step # "idle" => checks[c].week \in Weeks
  /\ channel \in [Weeks -> Nat]

IsSending(c, w) == checks[c].step = "sending" /\ checks[c].week = w
FoundNothing(c, w) == checks[c].step = "looked" /\ checks[c].found = "no" /\ checks[c].week = w

\* A week has one sender, whose claim stands and which no send of this process may have posted.
OneSender ==
  /\ \A c \in Callers, w \in Weeks : IsSending(c, w) => w \in decided \ doubted
  /\ \A c, d \in Callers, w \in Weeks : IsSending(c, w) /\ IsSending(d, w) => c = d
  /\ doubted \subseteq decided /\ tried \subseteq decided \cup refused

\* Once the nonce of a posted week is forgotten, nothing that could post it again is on its way.
PostedForGood ==
  \A w \in Weeks : channel[w] >= 1 /\ w \notin remembered
    => w \notin inFlight /\ \A c \in Callers : ~IsSending(c, w) /\ ~FoundNothing(c, w)
BoardInv == BoardShape /\ OneSender /\ PostedForGood /\ WeekPostedOnce

LEMMA BoardStarts == BoardInit => BoardInv
<1> SUFFICES ASSUME BoardInit PROVE BoardInv OBVIOUS
<1>1. 1 \in Weeks /\ 1 \in 1 .. MaxStarts /\ 0 \in 0 .. LastWeek BY BoardAssumption DEF Weeks
<1>2. \A c \in Callers : checks[c].step = "idle" BY DEF BoardInit, Resting
<1>3. checks \in [Callers -> BoardChecks] BY <1>1 DEF BoardInit, Resting, BoardChecks
<1>4. channel \in [Weeks -> Nat] /\ \A w \in Weeks : channel[w] = 0 BY DEF BoardInit
<1>5. BoardShape BY <1>1, <1>2, <1>3, <1>4 DEF BoardShape, BoardInit
<1>6. OneSender BY <1>2 DEF OneSender, IsSending, BoardInit
<1>7. PostedForGood BY <1>2, <1>4 DEF PostedForGood
<1>8. WeekPostedOnce BY <1>4 DEF WeekPostedOnce, BoardInit
<1> QED BY <1>5, <1>6, <1>7, <1>8 DEF BoardInv

\* A step after which no caller sends or found nothing that did not before, and the claims only grow.
LEMMA BoardGoesOn ==
  ASSUME BoardInv, BoardShape',
         \A c \in Callers, w \in Weeks : IsSending(c, w)' => IsSending(c, w),
         \A c \in Callers, w \in Weeks : FoundNothing(c, w)' => FoundNothing(c, w) \/ channel[w] = 0,
         decided \subseteq decided', refused' = refused, inFlight' = inFlight, channel' = channel, remembered' = remembered,
         doubted' = doubted, tried' = tried, amiss' = amiss
  PROVE  BoardInv'
<1>1. BoardShape /\ OneSender /\ PostedForGood /\ WeekPostedOnce BY DEF BoardInv
<1>2. OneSender' BY <1>1 DEF OneSender
<1>3. PostedForGood' BY <1>1 DEF PostedForGood
<1>4. WeekPostedOnce' BY <1>1 DEF WeekPostedOnce
<1> QED BY <1>2, <1>3, <1>4 DEF BoardInv

\* One caller's check changes, to something that is neither a send nor a look that found nothing.
LEMMA CheckSet ==
  ASSUME BoardInv, NEW c \in Callers, NEW value \in BoardChecks, SetCheck(c, value),
         value.step # "idle" => value.week \in Weeks
  PROVE  /\ checks' \in [Callers -> BoardChecks] /\ \A d \in Callers : checks'[d].step # "idle" => checks'[d].week \in Weeks
         /\ checks'[c] = value /\ \A d \in Callers : d # c => checks'[d] = checks[d]
<1>1. checks \in [Callers -> BoardChecks] /\ \A d \in Callers : checks[d].step # "idle" => checks[d].week \in Weeks
  BY DEF BoardInv, BoardShape
<1>2. checks' = [checks EXCEPT ![c] = value] BY DEF SetCheck
<1>3. checks' \in [Callers -> BoardChecks] BY <1>1, <1>2
<1>4. checks'[c] = value /\ \A d \in Callers : d # c => checks'[d] = checks[d] BY <1>1, <1>2
<1> QED BY <1>1, <1>3, <1>4

LEMMA RestingIsCheck == Resting \in BoardChecks /\ Resting.step = "idle" /\ Resting.found = "no"
BY BoardAssumption DEF Resting, BoardChecks

\* A caller's check takes a step that neither sends nor finds nothing.
LEMMA CheckGoesOn ==
  ASSUME BoardInv, NEW c \in Callers, NEW value \in BoardChecks, SetCheck(c, value),
         value.step # "idle" => value.week \in Weeks, value.step # "sending",
         value.step = "looked" /\ value.found = "no" => channel[value.week] = 0,
         decided \subseteq decided', decided' \subseteq Weeks, UNCHANGED boardWorld, refused' = refused,
         UNCHANGED boardDiscord, UNCHANGED boardHistory
  PROVE  BoardInv'
<1>1. /\ checks' \in [Callers -> BoardChecks] /\ \A d \in Callers : checks'[d].step # "idle" => checks'[d].week \in Weeks
      /\ checks'[c] = value /\ \A d \in Callers : d # c => checks'[d] = checks[d]
  BY CheckSet
<1>2. BoardShape' BY <1>1 DEF BoardInv, BoardShape, boardWorld, boardDiscord
<1>3. \A d \in Callers, w \in Weeks : IsSending(d, w)' => IsSending(d, w) BY <1>1 DEF IsSending
<1>4. \A d \in Callers, w \in Weeks : FoundNothing(d, w)' => FoundNothing(d, w) \/ channel[w] = 0
  BY <1>1 DEF FoundNothing
<1>5. /\ inFlight' = inFlight /\ channel' = channel /\ remembered' = remembered
      /\ doubted' = doubted /\ tried' = tried /\ amiss' = amiss
  BY DEF boardDiscord, boardHistory
<1> QED BY <1>2, <1>3, <1>4, <1>5, BoardGoesOn

LEMMA EvaluationsKeep ==
  ASSUME BoardInv, NEW c \in Callers,
         \/ c \in Admins /\ AdminPosts(c)
         \/ Ineligible(c) \/ Eligible(c) \/ LookForMarker(c) \/ MarkerUnread(c) \/ MarkerFound(c) \/ Overtaken(c)
  PROVE  BoardInv'
<1>1. /\ checks[c] \in BoardChecks /\ (checks[c].step # "idle" => checks[c].week \in Weeks) /\ week \in Weeks
      /\ decided \subseteq Weeks /\ channel \in [Weeks -> Nat]
  BY DEF BoardInv, BoardShape
<1>2. CASE c \in Admins /\ AdminPosts(c)
  <2> PICK value : value = [step |-> "evaluating", week |-> week, found |-> "no"] OBVIOUS
  <2>1. week \in 0 .. LastWeek BY <1>1 DEF Weeks
  <2>2. value \in BoardChecks /\ value.step = "evaluating" /\ value.week \in Weeks BY <1>1, <2>1 DEF BoardChecks
  <2>3. SetCheck(c, value) /\ decided' = decided /\ refused' = refused /\ UNCHANGED boardWorld
        /\ UNCHANGED boardDiscord /\ UNCHANGED boardHistory
    BY <1>2 DEF AdminPosts, boardMemory
  <2> QED BY <2>2, <2>3, <1>1, CheckGoesOn
<1>3. CASE Ineligible(c)
  <2>1. SetCheck(c, Resting) /\ refused' = refused /\ UNCHANGED boardWorld /\ UNCHANGED boardDiscord /\ UNCHANGED boardHistory
    BY <1>3 DEF Ineligible, CheckEnds
  <2>2. decided \subseteq decided' /\ decided' \subseteq Weeks BY <1>3, <1>1 DEF Ineligible
  <2> QED BY <2>1, <2>2, RestingIsCheck, CheckGoesOn
<1>4. CASE Eligible(c)
  <2> PICK value : value = [checks[c] EXCEPT !.step = "looking"] OBVIOUS
  <2>1. value \in BoardChecks /\ value.step = "looking" /\ value.week = checks[c].week BY <1>1 DEF BoardChecks
  <2>2. value.week \in Weeks BY <2>1, <1>1, <1>4 DEF Eligible
  <2>3. SetCheck(c, value) /\ decided' = decided /\ refused' = refused /\ UNCHANGED boardWorld
        /\ UNCHANGED boardDiscord /\ UNCHANGED boardHistory
    BY <1>4 DEF Eligible, boardMemory
  <2> QED BY <2>1, <2>2, <2>3, <1>1, CheckGoesOn
<1>5. CASE LookForMarker(c)
  <2> PICK answer : answer = IF channel[checks[c].week] > 0 THEN "yes" ELSE "no" OBVIOUS
  <2> PICK value : value = [checks[c] EXCEPT !.step = "looked", !.found = answer] OBVIOUS
  <2>1. checks[c].week \in Weeks BY <1>1, <1>5 DEF LookForMarker
  <2>2. answer \in {"yes", "no"} /\ (answer = "no" => channel[checks[c].week] = 0) BY <1>1, <2>1
  <2>3. value \in BoardChecks /\ value.step = "looked" /\ value.week = checks[c].week /\ value.found = answer
    BY <1>1, <2>2 DEF BoardChecks
  <2>4. SetCheck(c, value) /\ decided' = decided /\ refused' = refused /\ UNCHANGED boardWorld
        /\ UNCHANGED boardDiscord /\ UNCHANGED boardHistory
    BY <1>5 DEF LookForMarker, boardMemory
  <2> QED BY <2>1, <2>2, <2>3, <2>4, <1>1, CheckGoesOn
<1>6. CASE MarkerUnread(c)
  <2>1. SetCheck(c, Resting) /\ refused' = refused /\ UNCHANGED boardWorld /\ UNCHANGED boardDiscord /\ UNCHANGED boardHistory
    BY <1>6 DEF MarkerUnread, CheckEnds
  <2>2. decided \subseteq decided' /\ decided' \subseteq Weeks BY <1>6, <1>1 DEF MarkerUnread
  <2> QED BY <2>1, <2>2, RestingIsCheck, CheckGoesOn
<1>7. CASE MarkerFound(c)
  <2>1. SetCheck(c, Resting) /\ refused' = refused /\ UNCHANGED boardWorld /\ UNCHANGED boardDiscord /\ UNCHANGED boardHistory
    BY <1>7 DEF MarkerFound, CheckEnds
  <2>2. decided \subseteq decided' /\ decided' \subseteq Weeks BY <1>7, <1>1 DEF MarkerFound
  <2> QED BY <2>1, <2>2, RestingIsCheck, CheckGoesOn
<1>8. CASE Overtaken(c)
  <2>1. SetCheck(c, Resting) /\ refused' = refused /\ decided' = decided /\ UNCHANGED boardWorld
        /\ UNCHANGED boardDiscord /\ UNCHANGED boardHistory
    BY <1>8 DEF Overtaken, CheckEnds, boardMemory
  <2> QED BY <2>1, <1>1, RestingIsCheck, CheckGoesOn
<1> QED BY <1>2, <1>3, <1>4, <1>5, <1>6, <1>7, <1>8

LEMMA ScheduleChecksKeeps ==
  ASSUME BoardInv, ScheduleChecks
  PROVE  BoardInv'
<1>1. week \in Weeks /\ decided \subseteq Weeks /\ channel \in [Weeks -> Nat] /\ BoardShape BY DEF BoardInv, BoardShape
<1>2. refused' = refused /\ UNCHANGED boardWorld /\ UNCHANGED boardDiscord /\ UNCHANGED boardHistory BY DEF ScheduleChecks
<1>3. "schedule" \in Callers BY DEF Callers
<1>4. CASE ~enabled
  <2>1. decided' = decided \cup {week} /\ checks' = checks BY <1>4 DEF ScheduleChecks
  <2>2. decided \subseteq decided' /\ decided' \subseteq Weeks BY <2>1, <1>1
  <2>3. BoardShape' BY <1>1, <1>2, <2>1, <2>2 DEF BoardShape, boardWorld, boardDiscord
  <2>4. /\ \A c \in Callers, w \in Weeks : IsSending(c, w)' => IsSending(c, w)
        /\ \A c \in Callers, w \in Weeks : FoundNothing(c, w)' => FoundNothing(c, w)
    BY <2>1 DEF IsSending, FoundNothing
  <2>5. /\ inFlight' = inFlight /\ channel' = channel /\ remembered' = remembered
        /\ doubted' = doubted /\ tried' = tried /\ amiss' = amiss
    BY <1>2 DEF boardDiscord, boardHistory
  <2> QED BY <2>2, <2>3, <2>4, <2>5, <1>2, BoardGoesOn
<1>5. CASE enabled
  <2> PICK value : value = [step |-> "evaluating", week |-> week, found |-> "no"] OBVIOUS
  <2>1. week \in 0 .. LastWeek BY <1>1 DEF Weeks
  <2>2. value \in BoardChecks /\ value.step = "evaluating" /\ value.week \in Weeks BY <1>1, <2>1 DEF BoardChecks
  <2>3. SetCheck("schedule", value) /\ decided' = decided BY <1>5 DEF ScheduleChecks
  <2> QED BY <2>2, <2>3, <1>1, <1>2, <1>3, CheckGoesOn
<1> QED BY <1>4, <1>5

\* The claim is looked at in the turn that makes it, so that no other send of the week is under way.
LEMMA ClaimAndSendKeeps ==
  ASSUME BoardInv, NEW c \in Callers, ClaimAndSend(c)
  PROVE  BoardInv'
<1>1. BoardShape /\ OneSender /\ PostedForGood /\ WeekPostedOnce BY DEF BoardInv
<1> PICK w : w = checks[c].week OBVIOUS
<1> PICK value : value = [checks[c] EXCEPT !.step = "sending"] OBVIOUS
<1>2. checks[c].step = "looked" /\ checks[c].found = "no" /\ ~Taken(c) BY DEF ClaimAndSend
<1>3. w \in Weeks /\ checks[c] \in BoardChecks BY <1>1, <1>2 DEF BoardShape
<1>4. value \in BoardChecks /\ value.step = "sending" /\ value.week = w BY <1>3 DEF BoardChecks
<1>5. SetCheck(c, value) BY DEF ClaimAndSend
<1>6. /\ checks' \in [Callers -> BoardChecks] /\ \A d \in Callers : checks'[d].step # "idle" => checks'[d].week \in Weeks
      /\ checks'[c] = value /\ \A d \in Callers : d # c => checks'[d] = checks[d]
  BY <1>3, <1>4, <1>5, CheckSet
<1>7. /\ decided' = decided \cup {w} /\ refused' = refused \ {w} /\ doubted' = doubted
      /\ tried' = (IF c = "schedule" THEN tried \cup {w} ELSE tried)
      /\ UNCHANGED boardWorld /\ inFlight' = inFlight /\ channel' = channel /\ remembered' = remembered
  BY DEF ClaimAndSend, ClaimWeek, boardDiscord
<1>8. w \notin decided /\ (c = "schedule" => w \notin refused) BY <1>2 DEF Taken
<1>9. w \notin doubted /\ (c = "schedule" => w \notin tried) BY <1>8, <1>1 DEF OneSender
<1>10. amiss' = {} BY <1>9, <1>1 DEF ClaimAndSend, WeekPostedOnce
<1>11. \A d \in Callers : ~IsSending(d, w) BY <1>8, <1>1, <1>3 DEF OneSender
<1>12. \A d \in Callers, v \in Weeks : IsSending(d, v)' <=> (IF d = c THEN v = w ELSE IsSending(d, v)) BY <1>6, <1>4 DEF IsSending
<1>13. \A d \in Callers, v \in Weeks : FoundNothing(d, v)' => FoundNothing(d, v) BY <1>6, <1>4 DEF FoundNothing
<1>14. BoardShape' BY <1>1, <1>3, <1>6, <1>7 DEF BoardShape, boardWorld
<1>15. OneSender' 
  <2>1. \A d \in Callers, v \in Weeks : IsSending(d, v)' => v \in decided' \ doubted'
    BY <1>1, <1>7, <1>9, <1>12 DEF OneSender
  <2>2. \A d, e \in Callers, v \in Weeks : IsSending(d, v)' /\ IsSending(e, v)' => d = e
    BY <1>1, <1>11, <1>12 DEF OneSender
  <2>3. doubted' \subseteq decided' /\ tried' \subseteq decided' \cup refused'
    BY <1>1, <1>7 DEF OneSender
  <2> QED BY <2>1, <2>2, <2>3 DEF OneSender
<1>16. PostedForGood'
  <2>1. FoundNothing(c, w) BY <1>2 DEF FoundNothing
  <2>2. ~(channel[w] >= 1 /\ w \notin remembered) BY <2>1, <1>1, <1>3 DEF PostedForGood
  <2> QED BY <2>2, <1>1, <1>7, <1>12, <1>13 DEF PostedForGood
<1>17. WeekPostedOnce' BY <1>1, <1>7, <1>10 DEF WeekPostedOnce
<1> QED BY <1>14, <1>15, <1>16, <1>17 DEF BoardInv

\* A message that arrives for a week with nothing in the channel, or whose nonce is remembered.
LEMMA ArrivalKept ==
  ASSUME BoardInv, NEW w \in Weeks, Arrives(w), w \in remembered \/ channel[w] = 0
  PROVE  /\ channel' \in [Weeks -> Nat] /\ \A v \in Weeks : channel'[v] <= 1
         /\ \A v \in Weeks : channel'[v] >= 1 /\ v \notin remembered' => channel[v] >= 1 /\ v \notin remembered
         /\ remembered' \subseteq Weeks
<1>1. channel \in [Weeks -> Nat] /\ (\A v \in Weeks : channel[v] <= 1) /\ remembered \subseteq Weeks
  BY DEF BoardInv, BoardShape, WeekPostedOnce
<1>2. CASE w \in remembered
  <2>1. channel' = channel /\ remembered' = remembered BY <1>2 DEF Arrives
  <2> QED BY <2>1, <1>1
<1>3. CASE w \notin remembered
  <2>1. channel' = [channel EXCEPT ![w] = channel[w] + 1] /\ remembered' = remembered \cup {w} BY <1>3 DEF Arrives
  <2>2. channel[w] + 1 = 1 /\ 1 \in Nat BY <1>3
  <2>3. \A v \in Weeks : channel'[v] = IF v = w THEN 1 ELSE channel[v] BY <2>1, <2>2, <1>1
  <2>4. channel' \in [Weeks -> Nat] BY <2>1, <2>2, <1>1
  <2> QED BY <2>1, <2>3, <2>4, <1>1
<1> QED BY <1>2, <1>3

LEMMA SendPostedKeeps ==
  ASSUME BoardInv, NEW c \in Callers, SendPosted(c)
  PROVE  BoardInv'
<1>1. BoardShape /\ OneSender /\ PostedForGood /\ WeekPostedOnce BY DEF BoardInv
<1> PICK w : w = checks[c].week OBVIOUS
<1>2. checks[c].step = "sending" /\ Arrives(w) /\ SetCheck(c, Resting) BY DEF SendPosted, CheckEnds
<1>3. w \in Weeks /\ IsSending(c, w) BY <1>1, <1>2 DEF BoardShape, IsSending
<1>4. w \in remembered \/ channel[w] = 0
  <2>1. channel[w] \in Nat BY <1>1, <1>3 DEF BoardShape
  <2> QED BY <2>1, <1>1, <1>3 DEF PostedForGood
<1>5. /\ channel' \in [Weeks -> Nat] /\ \A v \in Weeks : channel'[v] <= 1
      /\ \A v \in Weeks : channel'[v] >= 1 /\ v \notin remembered' => channel[v] >= 1 /\ v \notin remembered
      /\ remembered' \subseteq Weeks
  BY <1>2, <1>3, <1>4, ArrivalKept
<1>6. /\ checks' \in [Callers -> BoardChecks] /\ \A d \in Callers : checks'[d].step # "idle" => checks'[d].week \in Weeks
      /\ checks'[c] = Resting /\ \A d \in Callers : d # c => checks'[d] = checks[d]
  BY <1>2, RestingIsCheck, CheckSet
<1>7. decided' = decided \cup {w} /\ refused' = refused /\ inFlight' = inFlight /\ UNCHANGED boardWorld
      /\ doubted' = doubted /\ tried' = tried /\ amiss' = amiss
  BY DEF SendPosted, boardHistory
<1>8. BoardShape' BY <1>1, <1>3, <1>5, <1>6, <1>7 DEF BoardShape, boardWorld
<1>9. \A d \in Callers, v \in Weeks : IsSending(d, v)' => IsSending(d, v) BY <1>6, RestingIsCheck DEF IsSending
<1>10. \A d \in Callers, v \in Weeks : FoundNothing(d, v)' => FoundNothing(d, v) BY <1>6, RestingIsCheck DEF FoundNothing
<1>11. OneSender' BY <1>1, <1>7, <1>9 DEF OneSender
<1>12. PostedForGood' BY <1>1, <1>5, <1>7, <1>9, <1>10 DEF PostedForGood
<1>13. WeekPostedOnce' BY <1>1, <1>5, <1>7 DEF WeekPostedOnce
<1> QED BY <1>8, <1>11, <1>12, <1>13 DEF BoardInv

LEMMA SendNotPostedKeeps ==
  ASSUME BoardInv, NEW c \in Callers, SendNotPosted(c)
  PROVE  BoardInv'
<1>1. BoardShape /\ OneSender /\ PostedForGood /\ WeekPostedOnce BY DEF BoardInv
<1> PICK w : w = checks[c].week OBVIOUS
<1>2. checks[c].step = "sending" /\ SetCheck(c, Resting) BY DEF SendNotPosted, CheckEnds
<1>3. w \in Weeks /\ IsSending(c, w) BY <1>1, <1>2 DEF BoardShape, IsSending
<1>4. PICK result \in {"failed", "unknown"} :
        /\ IF ReleasesWeek(result) THEN decided' = decided \ {w} /\ refused' = refused \cup {w}
                               ELSE decided' = decided \cup {w} /\ UNCHANGED refused
        /\ inFlight' = IF result = "unknown" THEN inFlight \cup {w} ELSE inFlight
        /\ doubted' = IF result = "unknown" THEN doubted \cup {w} ELSE doubted
  BY DEF SendNotPosted
<1>5. UNCHANGED boardWorld /\ channel' = channel /\ remembered' = remembered /\ tried' = tried /\ amiss' = amiss
  BY DEF SendNotPosted
<1>6. /\ checks' \in [Callers -> BoardChecks] /\ \A d \in Callers : checks'[d].step # "idle" => checks'[d].week \in Weeks
      /\ checks'[c] = Resting /\ \A d \in Callers : d # c => checks'[d] = checks[d]
  BY <1>2, RestingIsCheck, CheckSet
<1>7. \A d \in Callers, v \in Weeks : IsSending(d, v)' => IsSending(d, v) /\ v # w
  BY <1>1, <1>3, <1>6, RestingIsCheck DEF OneSender, IsSending
<1>8. \A d \in Callers, v \in Weeks : FoundNothing(d, v)' => FoundNothing(d, v) BY <1>6, RestingIsCheck DEF FoundNothing
<1>9. BoardShape' BY <1>1, <1>3, <1>4, <1>5, <1>6 DEF BoardShape, boardWorld
<1>10. OneSender'
  <2>1. w \in decided \ doubted BY <1>1, <1>3 DEF OneSender
  <2>2. CASE result = "failed"
    <3>1. decided' = decided \ {w} /\ refused' = refused \cup {w} /\ doubted' = doubted BY <1>4, <2>2 DEF ReleasesWeek
    <3> QED BY <3>1, <2>1, <1>1, <1>5, <1>7 DEF OneSender
  <2>3. CASE result = "unknown"
    <3>1. decided' = decided \cup {w} /\ refused' = refused /\ doubted' = doubted \cup {w} BY <1>4, <2>3 DEF ReleasesWeek
    <3> QED BY <3>1, <2>1, <1>1, <1>5, <1>7 DEF OneSender
  <2> QED BY <2>2, <2>3
<1>11. PostedForGood'
  <2>1. ~(channel[w] >= 1 /\ w \notin remembered) BY <1>1, <1>3 DEF PostedForGood
  <2> QED BY <2>1, <1>1, <1>4, <1>5, <1>7, <1>8 DEF PostedForGood
<1>12. WeekPostedOnce' BY <1>1, <1>5 DEF WeekPostedOnce
<1> QED BY <1>9, <1>10, <1>11, <1>12 DEF BoardInv

LEMMA DiscordKeeps ==
  ASSUME BoardInv, NEW w \in Weeks, LateSend(w) \/ NonceForgotten(w)
  PROVE  BoardInv'
<1>1. BoardShape /\ OneSender /\ PostedForGood /\ WeekPostedOnce BY DEF BoardInv
<1>2. UNCHANGED boardWorld /\ decided' = decided /\ refused' = refused /\ checks' = checks
      /\ doubted' = doubted /\ tried' = tried /\ amiss' = amiss
  BY DEF LateSend, NonceForgotten, boardMemory, boardHistory
<1>3. \A c \in Callers, v \in Weeks : (IsSending(c, v)' <=> IsSending(c, v)) /\ (FoundNothing(c, v)' <=> FoundNothing(c, v))
  BY <1>2 DEF IsSending, FoundNothing
<1>4. OneSender' BY <1>1, <1>2, <1>3 DEF OneSender
<1>5. CASE LateSend(w)
  <2>1. w \in inFlight /\ inFlight' = inFlight \ {w} BY <1>5 DEF LateSend
  <2>2. /\ channel' \in [Weeks -> Nat] /\ \A v \in Weeks : channel'[v] <= 1
        /\ \A v \in Weeks : channel'[v] >= 1 /\ v \notin remembered' => channel[v] >= 1 /\ v \notin remembered
        /\ remembered' \subseteq Weeks
    <3>1. channel[w] \in Nat BY <1>1 DEF BoardShape
    <3>2. w \in remembered \/ channel[w] = 0 BY <3>1, <2>1, <1>1 DEF PostedForGood
    <3>3. CASE Arrives(w) BY <3>2, <3>3, ArrivalKept
    <3>4. CASE channel' = channel /\ remembered' = remembered BY <3>4, <1>1 DEF BoardShape, WeekPostedOnce
    <3> QED BY <3>3, <3>4, <1>5 DEF LateSend
  <2>3. BoardShape' BY <1>1, <1>2, <2>1, <2>2 DEF BoardShape, boardWorld
  <2>4. PostedForGood' BY <1>1, <1>3, <2>1, <2>2 DEF PostedForGood
  <2>5. WeekPostedOnce' BY <1>1, <1>2, <2>2 DEF WeekPostedOnce
  <2> QED BY <1>4, <2>3, <2>4, <2>5 DEF BoardInv
<1>6. CASE NonceForgotten(w)
  <2>1. /\ w \notin inFlight /\ \A c \in Callers : checks[c].week = w => checks[c].step \notin {"looked", "sending"}
        /\ remembered' = remembered \ {w} /\ inFlight' = inFlight /\ channel' = channel
    BY <1>6 DEF NonceForgotten
  <2>2. \A c \in Callers : ~IsSending(c, w) /\ ~FoundNothing(c, w) BY <2>1 DEF IsSending, FoundNothing
  <2>3. BoardShape' BY <1>1, <1>2, <2>1 DEF BoardShape, boardWorld
  <2>4. PostedForGood' BY <1>1, <1>3, <2>1, <2>2 DEF PostedForGood
  <2>5. WeekPostedOnce' BY <1>1, <1>2, <2>1 DEF WeekPostedOnce
  <2> QED BY <1>4, <2>3, <2>4, <2>5 DEF BoardInv
<1> QED BY <1>5, <1>6

\* What was being sent may still arrive after a restart; the new process has claimed nothing yet.
LEMMA StartBoardKeeps ==
  ASSUME BoardInv, StartBoard
  PROVE  BoardInv'
<1>1. BoardShape /\ OneSender /\ PostedForGood /\ WeekPostedOnce BY DEF BoardInv
<1>2. /\ starts < MaxStarts /\ starts' = starts + 1 /\ week' = week /\ late' = late /\ channel' = channel
      /\ remembered' = remembered /\ amiss' = amiss
      /\ decided' = {} /\ refused' = {} /\ doubted' = {} /\ tried' = {} /\ checks' = [c \in Callers |-> Resting]
  BY DEF StartBoard
<1> PICK senders : senders = {d \in Callers : checks[d].step = "sending"} OBVIOUS
<1>3. inFlight' = inFlight \cup {checks[c].week : c \in senders} BY DEF StartBoard
<1>4. inFlight' \subseteq Weeks
  <2>1. \A c \in senders : checks[c].week \in Weeks BY <1>1 DEF BoardShape
  <2> QED BY <2>1, <1>1, <1>3 DEF BoardShape
<1>5. starts' \in 1 .. MaxStarts
  <2>1. starts \in 1 .. MaxStarts /\ MaxStarts \in Nat BY <1>1, BoardAssumption DEF BoardShape
  <2> QED BY <2>1, <1>2
<1>6. \A c \in Callers : checks'[c] = Resting BY <1>2
<1>7. checks' \in [Callers -> BoardChecks] BY <1>2, RestingIsCheck
<1>8. BoardShape' BY <1>1, <1>2, <1>4, <1>5, <1>6, <1>7, RestingIsCheck DEF BoardShape
<1>9. \A c \in Callers, w \in Weeks : ~IsSending(c, w)' /\ ~FoundNothing(c, w)'
  BY <1>6, RestingIsCheck DEF IsSending, FoundNothing
<1>10. OneSender' BY <1>2, <1>9 DEF OneSender
<1>11. PostedForGood'
  <2>1. ASSUME NEW w \in Weeks, channel[w] >= 1, w \notin remembered PROVE w \notin inFlight'
    <3>1. w \notin inFlight /\ \A c \in Callers : ~IsSending(c, w) BY <2>1, <1>1 DEF PostedForGood
    <3>2. \A c \in senders : checks[c].week # w BY <3>1 DEF IsSending
    <3> QED BY <3>1, <3>2, <1>3
  <2> QED BY <2>1, <1>2, <1>9 DEF PostedForGood
<1>12. WeekPostedOnce' BY <1>1, <1>2 DEF WeekPostedOnce
<1> QED BY <1>8, <1>10, <1>11, <1>12 DEF BoardInv

LEMMA BoardWorldKeeps ==
  ASSUME BoardInv, TimeGoesOn \/ StopBoard \/ UNCHANGED boardVars
  PROVE  BoardInv'
<1>1. BoardShape BY DEF BoardInv
<1>2. /\ starts' = starts /\ decided' = decided /\ refused' = refused /\ checks' = checks /\ inFlight' = inFlight
      /\ channel' = channel /\ remembered' = remembered /\ doubted' = doubted /\ tried' = tried /\ amiss' = amiss
  BY DEF TimeGoesOn, StopBoard, boardVars, boardMemory, boardDiscord, boardHistory
<1>3. week' \in Weeks /\ late' \in BOOLEAN
  <2>1. week \in Weeks /\ late \in BOOLEAN /\ LastWeek \in Nat BY <1>1, BoardAssumption DEF BoardShape
  <2>2. CASE TimeGoesOn
    <3>1. CASE late
      <4>1. week < LastWeek /\ week' = week + 1 /\ late' = FALSE BY <2>2, <3>1 DEF TimeGoesOn
      <4>2. week \in 1 .. LastWeek BY <2>1 DEF Weeks
      <4>3. week + 1 \in 1 .. LastWeek BY <4>1, <4>2, <2>1
      <4>4. late' \in BOOLEAN BY <4>1
      <4> QED BY <4>1, <4>3, <4>4 DEF Weeks
    <3>2. CASE ~late BY <2>1, <2>2, <3>2 DEF TimeGoesOn
    <3> QED BY <3>1, <3>2
  <2>3. CASE week' = week /\ late' = late BY <2>1, <2>3
  <2> QED BY <2>2, <2>3 DEF StopBoard, boardVars
<1>4. BoardShape' BY <1>1, <1>2, <1>3 DEF BoardShape
<1>5. /\ \A c \in Callers, w \in Weeks : IsSending(c, w)' => IsSending(c, w)
      /\ \A c \in Callers, w \in Weeks : FoundNothing(c, w)' => FoundNothing(c, w)
  BY <1>2 DEF IsSending, FoundNothing
<1> QED BY <1>2, <1>4, <1>5, BoardGoesOn

LEMMA BoardKeeps == BoardInv /\ [BoardNext]_boardVars => BoardInv'
<1> SUFFICES ASSUME BoardInv, [BoardNext]_boardVars PROVE BoardInv' OBVIOUS
<1>1. CASE TimeGoesOn \/ StopBoard \/ UNCHANGED boardVars BY <1>1, BoardWorldKeeps
<1>2. CASE StartBoard BY <1>2, StartBoardKeeps
<1>3. CASE ScheduleChecks BY <1>3, ScheduleChecksKeeps
<1>4. CASE \E w \in Weeks : LateSend(w) \/ NonceForgotten(w) BY <1>4, DiscordKeeps
<1>5. CASE \E c \in Admins : AdminPosts(c)
  <2>1. Admins \subseteq Callers BY DEF Callers
  <2> QED BY <2>1, <1>5, EvaluationsKeep
<1>6. CASE \E c \in Callers : Ineligible(c) \/ Eligible(c) \/ LookForMarker(c) \/ MarkerUnread(c) \/ MarkerFound(c)
                              \/ Overtaken(c)
  BY <1>6, EvaluationsKeep
<1>7. CASE \E c \in Callers : ClaimAndSend(c) BY <1>7, ClaimAndSendKeeps
<1>8. CASE \E c \in Callers : SendPosted(c) BY <1>8, SendPostedKeeps
<1>9. CASE \E c \in Callers : SendNotPosted(c) BY <1>9, SendNotPostedKeeps
<1> QED BY <1>1, <1>2, <1>3, <1>4, <1>5, <1>6, <1>7, <1>8, <1>9 DEF BoardNext

LEMMA BoardHolds == BoardInv => BoardTypeOK /\ WeekPostedOnce
BY DEF BoardInv, BoardShape, BoardChecks, BoardTypeOK

-----------------------------------------------------------------------------
(* The deliveries of the feed *)

Tallies == [count : Nat, last : Reasons \cup {"none"}]
ArrivalShape ==
  /\ arrivals \in 0 .. MaxArrivals /\ lockedOut \in BOOLEAN
  /\ buckets \in [Servers \cup Addresses -> [left : 0 .. Minute, count : 0 .. MinuteLimit + 1]]
  /\ warnings \in [Kinds -> [left : Nat, suppressed : Nat]]
  /\ warned \in [Kinds -> Nat] /\ logged \in [Kinds -> Nat]
  /\ refusals \in [Servers -> Tallies] /\ happened \in [Servers -> Tallies]
  /\ batches \in [Servers -> {"none", "whole", "partly"}]
  /\ recent \in [Servers -> Seq(Int)]

\* A server's bucket counts no more than the deliveries of its last minute, the last of which outlive it.
Covers(left, count, times) ==
  /\ count <= Len(times) /\ (left = 0 => count = 0)
  /\ \A i \in 1 .. Len(times) : i > Len(times) - count => times[i] >= left
BucketsCovered == \A s \in Servers : Covers(buckets[s].left, buckets[s].count, recent[s])
DeliveriesInv == ArrivalShape /\ BucketsCovered /\ DeliveriesTold

LEMMA RequestsOfGame ==
  ASSUME NEW r \in Requests
  PROVE  /\ Carries(r) <=> OfGame(r)
         /\ OfGame(r) => r.token \in Servers /\ Target(r) = r.token /\ BucketOf(r) = r.token
         /\ ~OfGame(r) => BucketOf(r) \in Addresses
         /\ Target(r) \in Servers \cup {Nowhere}
<1>1. Nowhere \notin Servers /\ Unscoped \notin Servers BY DeliveriesAssumption
<1>2. r.from \in Addresses BY DEF Requests
<1>3. CASE r.route \in Servers
  <2>1. Target(r) = r.route /\ r.route # Unscoped BY <1>1, <1>3 DEF Target
  <2> QED BY <2>1, <1>1, <1>2, <1>3 DEF Carries, OfGame, BucketOf
<1>4. CASE r.route \notin Servers /\ r.route = Unscoped /\ r.token \in Servers
  <2>1. Target(r) = r.token BY <1>4 DEF Target
  <2> QED BY <2>1, <1>1, <1>2, <1>4 DEF Carries, OfGame, BucketOf
<1>5. CASE r.route \notin Servers /\ ~(r.route = Unscoped /\ r.token \in Servers)
  <2>1. Target(r) = Nowhere BY <1>5 DEF Target
  <2>2. ~OfGame(r) BY <1>5 DEF OfGame
  <2> QED BY <2>1, <2>2, <1>1, <1>2 DEF Carries, BucketOf
<1> QED BY <1>3, <1>4, <1>5

LEMMA DeliveriesStart == DeliveriesInit => DeliveriesInv
<1> SUFFICES ASSUME DeliveriesInit PROVE DeliveriesInv OBVIOUS
<1>1. {MinuteLimit, MaxPeers, MaxArrivals} \subseteq Nat /\ Minute \in Nat \ {0} BY DeliveriesAssumption
<1>2. NoBucket \in [left : 0 .. Minute, count : 0 .. MinuteLimit + 1] /\ NoBucket.left = 0 /\ NoBucket.count = 0
  BY <1>1 DEF NoBucket
<1>3. NoWarning \in [left : Nat, suppressed : Nat] /\ NoWarning.suppressed = 0 BY DEF NoWarning
<1>4. NoRequests \in Tallies BY DEF NoRequests, Tallies
<1>5. ArrivalShape
  <2>1. 0 \in 0 .. MaxArrivals /\ <<>> \in Seq(Int) BY <1>1
  <2> QED BY <1>2, <1>3, <1>4, <2>1 DEF DeliveriesInit, ArrivalShape
<1>6. BucketsCovered
  <2>1. \A s \in Servers : buckets[s] = NoBucket /\ recent[s] = <<>> BY DEF DeliveriesInit
  <2> QED BY <2>1, <1>2 DEF BucketsCovered, Covers
<1>7. DeliveriesTold
  <2>1. \A k \in Kinds : warned[k] = 0 /\ logged[k] = 0 /\ warnings[k] = NoWarning BY DEF DeliveriesInit
  <2>2. WarningsCounted BY <2>1, <1>3 DEF WarningsCounted
  <2>3. GameRefusalsShown /\ GameNotLockedOut BY DEF DeliveriesInit, GameRefusalsShown, GameNotLockedOut
  <2> QED BY <2>2, <2>3 DEF DeliveriesTold
<1> QED BY <1>5, <1>6, <1>7 DEF DeliveriesInv

LEMMA SumsWarned ==
  ASSUME NEW n \in Nat, NEW x \in Nat, NEW m, m = n + x
  PROVE  x + 1 \in Nat /\ n + 1 + x \in Nat /\ m + 1 \in Nat /\ m + 1 = n + (x + 1) /\ m + 1 = (n + 1 + x) + 0
OBVIOUS

\* A warning is told or counted.
Warned(k) ==
  /\ warnings' = [warnings EXCEPT ![k] = IF warnings[k].left > 0
                                         THEN [left |-> warnings[k].left, suppressed |-> warnings[k].suppressed + 1]
                                         ELSE [left |-> Minute, suppressed |-> 0]]
  /\ warned' = [warned EXCEPT ![k] = warned[k] + 1]
  /\ logged' = IF warnings[k].left > 0 THEN logged
               ELSE [logged EXCEPT ![k] = logged[k] + 1 + warnings[k].suppressed]

LEMMA WarnedKeeps ==
  ASSUME ArrivalShape, WarningsCounted, NEW k \in Kinds, Warned(k)
  PROVE  /\ warnings' \in [Kinds -> [left : Nat, suppressed : Nat]] /\ warned' \in [Kinds -> Nat] /\ logged' \in [Kinds -> Nat]
         /\ WarningsCounted'
<1>1. k \in Kinds OBVIOUS
<1>2. /\ warnings \in [Kinds -> [left : Nat, suppressed : Nat]] /\ warned \in [Kinds -> Nat] /\ logged \in [Kinds -> Nat]
      /\ \A j \in Kinds : warned[j] = logged[j] + warnings[j].suppressed
  BY DEF ArrivalShape, WarningsCounted
<1> PICK l \in Nat, x \in Nat : l = warnings[k].left /\ x = warnings[k].suppressed BY <1>1, <1>2
<1> PICK m \in Nat, n \in Nat : m = warned[k] /\ n = logged[k] BY <1>1, <1>2
<1>3. m = n + x BY <1>1, <1>2
<1>4. warned' = [warned EXCEPT ![k] = m + 1] BY DEF Warned
<1>5. PICK left \in Nat, suppressed \in Nat, number \in Nat :
        /\ warnings' = [warnings EXCEPT ![k] = [left |-> left, suppressed |-> suppressed]]
        /\ logged' = [logged EXCEPT ![k] = number] /\ m + 1 = number + suppressed
  <2>1. CASE l > 0
    <3>1. warnings' = [warnings EXCEPT ![k] = [left |-> l, suppressed |-> x + 1]] BY <2>1 DEF Warned
    <3>2. logged' = logged BY <2>1 DEF Warned
    <3>3. logged' = [logged EXCEPT ![k] = n] BY <3>2, <1>1, <1>2
    <3>4. x + 1 \in Nat /\ m + 1 = n + (x + 1) BY <1>3, SumsWarned
    <3> QED BY <3>1, <3>3, <3>4
  <2>2. CASE ~(l > 0)
    <3>1. warnings' = [warnings EXCEPT ![k] = [left |-> Minute, suppressed |-> 0]] BY <2>2 DEF Warned
    <3>2. logged' = [logged EXCEPT ![k] = n + 1 + x] BY <2>2 DEF Warned
    <3>3. n + 1 + x \in Nat /\ m + 1 = (n + 1 + x) + 0 BY <1>3, SumsWarned
    <3>4. Minute \in Nat BY DeliveriesAssumption
    <3> QED BY <3>1, <3>2, <3>3, <3>4
  <2> QED BY <2>1, <2>2
<1>6. [left |-> left, suppressed |-> suppressed] \in [left : Nat, suppressed : Nat] /\ m + 1 \in Nat
  <2>1. [left |-> left, suppressed |-> suppressed] \in [left : Nat, suppressed : Nat] OBVIOUS
  <2>2. m + 1 \in Nat BY <1>3, SumsWarned
  <2> QED BY <2>1, <2>2
<1>7. warnings' \in [Kinds -> [left : Nat, suppressed : Nat]] /\ warned' \in [Kinds -> Nat] /\ logged' \in [Kinds -> Nat]
  BY <1>2, <1>4, <1>5, <1>6
<1>8. WarningsCounted'
  <2>1. ASSUME NEW j \in Kinds PROVE warned'[j] = logged'[j] + warnings'[j].suppressed
    <3>1. CASE j = k
      <4>1. warned'[j] = m + 1 /\ logged'[j] = number /\ warnings'[j].suppressed = suppressed BY <3>1, <1>1, <1>2, <1>4, <1>5
      <4> QED BY <4>1, <1>5
    <3>2. CASE j # k
      <4>1. warned'[j] = warned[j] /\ logged'[j] = logged[j] /\ warnings'[j] = warnings[j] BY <3>2, <1>2, <1>4, <1>5
      <4> QED BY <4>1, <1>2
    <3> QED BY <3>1, <3>2
  <2> QED BY <2>1 DEF WarningsCounted
<1> QED BY <1>7, <1>8

LEMMA WarnKeeps ==
  ASSUME ArrivalShape, WarningsCounted, NEW server \in Servers \cup {Nowhere}, NEW token \in BOOLEAN,
         NEW reason \in Reasons \cup {"invalid entries"}, Warn(server, token, reason)
  PROVE  /\ warnings' \in [Kinds -> [left : Nat, suppressed : Nat]] /\ warned' \in [Kinds -> Nat] /\ logged' \in [Kinds -> Nat]
         /\ WarningsCounted'
<1> PICK k : k = [server |-> server, token |-> token, reason |-> reason] OBVIOUS
<1>1. k \in Kinds BY DEF Kinds
<1>2. Warned(k) BY DEF Warn, Warned
<1> QED BY <1>1, <1>2, WarnedKeeps

\* A refusal of the game's own delivery is tallied for its server, and no other.
LEMMA RefuseKeeps ==
  ASSUME ArrivalShape, DeliveriesTold, NEW r \in Requests, NEW reason \in Reasons, Refuse(r, reason)
  PROVE  /\ warnings' \in [Kinds -> [left : Nat, suppressed : Nat]] /\ warned' \in [Kinds -> Nat] /\ logged' \in [Kinds -> Nat]
         /\ refusals' \in [Servers -> Tallies] /\ happened' \in [Servers -> Tallies] /\ batches' = batches
         /\ WarningsCounted' /\ GameRefusalsShown'
<1>1. Target(r) \in Servers \cup {Nowhere} /\ (Carries(r) <=> OfGame(r))
      /\ (OfGame(r) => r.token \in Servers /\ Target(r) = r.token)
  BY RequestsOfGame
<1>2. Carries(r) \in BOOLEAN BY DEF Carries
<1>3. Warn(Target(r), Carries(r), reason) /\ batches' = batches BY DEF Refuse
<1>4. WarningsCounted /\ refusals = happened BY DEF DeliveriesTold, GameRefusalsShown
<1>5. /\ warnings' \in [Kinds -> [left : Nat, suppressed : Nat]] /\ warned' \in [Kinds -> Nat] /\ logged' \in [Kinds -> Nat]
      /\ WarningsCounted'
  BY <1>1, <1>2, <1>3, <1>4, WarnKeeps
<1>6. refusals \in [Servers -> Tallies] BY DEF ArrivalShape
<1>7. CASE OfGame(r)
  <2> PICK tally : tally = [count |-> refusals[r.token].count + 1, last |-> reason] OBVIOUS
  <2>1. refusals[r.token].count \in Nat BY <1>1, <1>6, <1>7 DEF Tallies
  <2>2. tally \in Tallies BY <2>1 DEF Tallies
  <2>3. refusals' = [refusals EXCEPT ![r.token] = tally] BY <1>1, <1>7 DEF Refuse, Tally
  <2>4. happened' = [refusals EXCEPT ![r.token] = tally] BY <1>4, <1>7 DEF Refuse, Tally
  <2> QED BY <2>2, <2>3, <2>4, <1>3, <1>5, <1>6 DEF GameRefusalsShown
<1>8. CASE ~OfGame(r)
  <2>1. refusals' = refusals /\ happened' = happened BY <1>1, <1>8 DEF Refuse
  <2> QED BY <2>1, <1>3, <1>4, <1>5, <1>6 DEF GameRefusalsShown
<1> QED BY <1>7, <1>8

\* A counted delivery of the game is remembered with a full minute left.
LEMMA CoversOneMore ==
  ASSUME NEW left \in 0 .. Minute, NEW count \in 0 .. MinuteLimit + 1, NEW times \in Seq(Int), Covers(left, count, times),
         NEW more \in 0 .. MinuteLimit + 1, more \in {count, count + 1}
  PROVE  Covers(IF left = 0 THEN Minute ELSE left, more, Append(times, Minute))
<1>1. Minute \in Nat \ {0} /\ MinuteLimit \in Nat BY DeliveriesAssumption
<1> PICK n \in Nat : n = Len(times) OBVIOUS
<1> PICK new \in Nat : new = (IF left = 0 THEN Minute ELSE left) BY <1>1
<1>2. new # 0 /\ new <= Minute /\ (left # 0 => new = left) /\ new \in Nat BY <1>1
<1>3. count <= n /\ (left = 0 => count = 0) /\ \A i \in 1 .. n : i > n - count => times[i] >= left BY DEF Covers
<1>4. Len(Append(times, Minute)) = n + 1 BY <1>1
<1>5. more <= n + 1 BY <1>3
<1>6. ASSUME NEW i \in 1 .. n + 1, i > (n + 1) - more PROVE Append(times, Minute)[i] >= new
  <2>1. CASE i = n + 1
    <3>1. Append(times, Minute)[i] = Minute BY <2>1, <1>1
    <3> QED BY <3>1, <1>2, <1>1
  <2>2. CASE i # n + 1
    <3>1. i \in 1 .. n /\ i > n - count BY <2>2, <1>6
    <3>2. left # 0 BY <3>1, <1>3
    <3>3. Append(times, Minute)[i] = times[i] BY <3>1, <1>1
    <3> QED BY <3>1, <3>2, <3>3, <1>2, <1>3
  <2> QED BY <2>1, <2>2
<1> QED BY <1>2, <1>4, <1>5, <1>6 DEF Covers

LEMMA Dropped ==
  ASSUME NEW s \in Seq(Int), NEW c \in Nat, c <= Len(s)
  PROVE  /\ SubSeq(s, c + 1, Len(s)) \in Seq(Int) /\ Len(SubSeq(s, c + 1, Len(s))) = Len(s) - c
         /\ \A i \in 1 .. Len(s) - c : SubSeq(s, c + 1, Len(s))[i] = s[c + i]
OBVIOUS

\* A tick drops no delivery that the bucket of a later minute would still count.
LEMMA YoungerParts ==
  ASSUME NEW times \in Seq(Int), NEW keep \in Nat, keep <= Len(times),
         \A i \in 1 .. Len(times) : i > Len(times) - keep => times[i] > 1
  PROVE  \E c \in 0 .. Len(times) - keep :
           /\ Younger(times) \in Seq(Int) /\ Len(Younger(times)) = Len(times) - c
           /\ \A i \in 1 .. Len(times) - c : Younger(times)[i] = times[c + i] - 1
<1> PICK n \in Nat : n = Len(times) OBVIOUS
<1> PICK old : old = {i \in DOMAIN times : times[i] <= 1} OBVIOUS
<1> PICK shifted : shifted = [i \in DOMAIN times |-> times[i] - 1] OBVIOUS
<1>1. DOMAIN times = 1 .. n /\ \A i \in 1 .. n : times[i] \in Int OBVIOUS
<1>2. n - keep \in Nat OBVIOUS
<1>3. old \subseteq 1 .. n - keep
  <2>1. ASSUME NEW i \in old PROVE i \in 1 .. n - keep
    <3>1. i \in 1 .. n /\ times[i] <= 1 /\ times[i] \in Int BY <1>1
    <3>2. ~(times[i] > 1) BY <3>1
    <3>3. ~(i > n - keep) BY <3>1, <3>2
    <3> QED BY <3>1, <3>3, <1>2
  <2> QED BY <2>1
<1>4. IsFiniteSet(1 .. n - keep) /\ Cardinality(1 .. n - keep) = n - keep
  <2>1. 1 \in Int /\ n - keep \in Int BY <1>2
  <2>2. Cardinality(1 .. n - keep) = IF 1 > n - keep THEN 0 ELSE (n - keep) - 1 + 1 BY <2>1, FS_Interval
  <2>3. IsFiniteSet(1 .. n - keep) BY <2>1, FS_Interval
  <2> QED BY <2>2, <2>3, <1>2
<1>5. Cardinality(old) \in Nat /\ Cardinality(old) <= n - keep BY <1>3, <1>4, FS_Subset, FS_CardinalityType
<1> PICK c \in Nat : c = Cardinality(old) BY <1>5
<1>6. shifted \in Seq(Int) /\ Len(shifted) = n /\ \A i \in 1 .. n : shifted[i] = times[i] - 1
  <2>1. shifted \in [1 .. n -> Int] BY <1>1
  <2> QED BY <2>1, <1>1
<1>7. c \in 0 .. n - keep /\ c <= n BY <1>5, <1>2
<1>8. Younger(times) = SubSeq(shifted, c + 1, Len(shifted)) BY <1>6 DEF Younger
<1>9. /\ Younger(times) \in Seq(Int) /\ Len(Younger(times)) = n - c
      /\ \A i \in 1 .. n - c : Younger(times)[i] = shifted[c + i]
  <2>1. c \in Nat /\ c <= Len(shifted) /\ shifted \in Seq(Int) BY <1>6, <1>7
  <2>2. /\ SubSeq(shifted, c + 1, Len(shifted)) \in Seq(Int) /\ Len(SubSeq(shifted, c + 1, Len(shifted))) = Len(shifted) - c
        /\ \A i \in 1 .. Len(shifted) - c : SubSeq(shifted, c + 1, Len(shifted))[i] = shifted[c + i]
    BY <2>1, Dropped, Zenon
  <2>3. Len(shifted) = n BY <1>6
  <2> QED BY <2>2, <2>3, <1>8, Zenon
<1>10. ASSUME NEW i \in 1 .. n - c PROVE Younger(times)[i] = times[c + i] - 1
  <2>1. c + i \in 1 .. n OBVIOUS
  <2> QED BY <2>1, <1>6, <1>9
<1> QED BY <1>7, <1>9, <1>10

LEMMA CoversElapsed ==
  ASSUME NEW left \in 0 .. Minute, NEW count \in 0 .. MinuteLimit + 1, NEW times \in Seq(Int), Covers(left, count, times)
  PROVE  /\ Younger(times) \in Seq(Int)
         /\ IF left <= 1 THEN Covers(0, 0, Younger(times)) ELSE Covers(left - 1, count, Younger(times))
<1>1. Minute \in Nat /\ MinuteLimit \in Nat /\ left \in Nat /\ count \in Nat BY DeliveriesAssumption
<1> PICK n \in Nat : n = Len(times) OBVIOUS
<1>2. count <= n /\ \A i \in 1 .. n : times[i] \in Int /\ (i > n - count => times[i] >= left) BY DEF Covers
<1>3. CASE left <= 1
  <2>1. Younger(times) \in Seq(Int)
    <3>1. \A i \in 1 .. n : i > n - 0 => times[i] > 1 OBVIOUS
    <3> QED BY <3>1, YoungerParts
  <2>2. Covers(0, 0, Younger(times)) BY <2>1 DEF Covers
  <2> QED BY <2>1, <2>2, <1>3
<1>4. CASE left > 1
  <2>1. \A i \in 1 .. n : i > n - count => times[i] > 1 BY <1>2, <1>4, <1>1
  <2>2. PICK c \in 0 .. n - count :
          /\ Younger(times) \in Seq(Int) /\ Len(Younger(times)) = n - c
          /\ \A i \in 1 .. n - c : Younger(times)[i] = times[c + i] - 1
    BY <2>1, <1>1, <1>2, YoungerParts
  <2>3. count <= n - c BY <1>1, <1>2, <2>2
  <2>4. ASSUME NEW i \in 1 .. n - c, i > (n - c) - count PROVE Younger(times)[i] >= left - 1
    <3>1. c + i \in 1 .. n /\ c + i > n - count BY <2>2, <2>4, <1>1
    <3>2. times[c + i] \in Int /\ times[c + i] >= left BY <3>1, <1>2
    <3>3. Younger(times)[i] = times[c + i] - 1 BY <2>2, <2>4
    <3> QED BY <3>2, <3>3, <1>1
  <2>5. left - 1 # 0 BY <1>1, <1>4
  <2>6. Covers(left - 1, count, Younger(times)) BY <2>2, <2>3, <2>4, <2>5 DEF Covers
  <2> QED BY <2>2, <2>6, <1>4, <1>1
<1> QED BY <1>3, <1>4, <1>1
\* A request that is counted: its bucket and what is remembered of the game go up together.
LEMMA CountKeeps ==
  ASSUME DeliveriesInv, NEW r \in Requests, Count(r), Remember(r)
  PROVE  /\ buckets' \in [Servers \cup Addresses -> [left : 0 .. Minute, count : 0 .. MinuteLimit + 1]]
         /\ recent' \in [Servers -> Seq(Int)] /\ BucketsCovered'
<1>1. /\ ArrivalShape /\ BucketsCovered
      /\ buckets \in [Servers \cup Addresses -> [left : 0 .. Minute, count : 0 .. MinuteLimit + 1]]
      /\ recent \in [Servers -> Seq(Int)]
  BY DEF DeliveriesInv, ArrivalShape
<1>2. /\ (OfGame(r) => r.token \in Servers /\ BucketOf(r) = r.token /\ Carries(r)) /\ (~OfGame(r) => BucketOf(r) \in Addresses)
      /\ Servers \cap Addresses = {} /\ Minute \in Nat \ {0} /\ MinuteLimit \in Nat
  BY RequestsOfGame, DeliveriesAssumption
<1> PICK k \in Servers \cup Addresses : k = BucketOf(r) BY <1>2
<1> PICK left \in 0 .. Minute, count \in 0 .. MinuteLimit + 1 : left = buckets[k].left /\ count = buckets[k].count BY <1>1
<1>3. PICK more \in 0 .. MinuteLimit + 1 :
        /\ more \in {count, count + 1}
        /\ more = IF count > MinuteLimit THEN count ELSE count + 1
  <2>1. count > MinuteLimit \/ count + 1 \in 0 .. MinuteLimit + 1 BY <1>2
  <2> QED BY <2>1
<1>4. PICK new \in 0 .. Minute : new = IF left = 0 THEN Minute ELSE left BY <1>2
<1>5. \/ ~Room(r) /\ buckets' = buckets
      \/ Room(r) /\ buckets' = [buckets EXCEPT ![k] = [left |-> new, count |-> more]]
  <2>1. CASE ~Room(r)
    <3>1. buckets' = buckets BY <2>1 DEF Count
    <3> QED BY <2>1, <3>1
  <2>2. CASE Room(r)
    <3>1. buckets' = [buckets EXCEPT ![k] = [left |-> IF buckets[k].left = 0 THEN Minute ELSE buckets[k].left,
                                             count |-> IF buckets[k].count > MinuteLimit THEN buckets[k].count
                                                       ELSE buckets[k].count + 1]]
      BY <2>2 DEF Count
    <3>2. buckets' = [buckets EXCEPT ![k] = [left |-> IF left = 0 THEN Minute ELSE left,
                                             count |-> IF count > MinuteLimit THEN count ELSE count + 1]]
      BY <3>1
    <3> QED BY <2>2, <3>2, <1>3, <1>4
  <2> QED BY <2>1, <2>2
<1>6. [left |-> new, count |-> more] \in [left : 0 .. Minute, count : 0 .. MinuteLimit + 1] OBVIOUS
<1>7. buckets' \in [Servers \cup Addresses -> [left : 0 .. Minute, count : 0 .. MinuteLimit + 1]] BY <1>1, <1>5, <1>6
<1>8. CASE OfGame(r)
  <2>1. k = r.token /\ k \in Servers BY <1>2, <1>8
  <2>2. recent' = [recent EXCEPT ![k] = Append(recent[k], Minute)] BY <2>1, <1>8 DEF Remember
  <2>3. Room(r) BY <1>2, <1>8 DEF Room
  <2>4. buckets' = [buckets EXCEPT ![k] = [left |-> new, count |-> more]] BY <2>3, <1>5
  <2>5. recent[k] \in Seq(Int) /\ Append(recent[k], Minute) \in Seq(Int) BY <2>1, <1>1, <1>2
  <2>6. recent' \in [Servers -> Seq(Int)] BY <2>2, <2>5, <1>1
  <2>7. Covers(left, count, recent[k]) BY <2>1, <1>1 DEF BucketsCovered
  <2>8. Covers(new, more, Append(recent[k], Minute)) BY <2>5, <2>7, <1>3, <1>4, CoversOneMore
  <2>9. ASSUME NEW s \in Servers PROVE Covers(buckets'[s].left, buckets'[s].count, recent'[s])
    <3>1. CASE s = k
      <4>1. buckets'[s].left = new /\ buckets'[s].count = more BY <3>1, <2>1, <2>4, <1>1
      <4>2. recent'[s] = Append(recent[k], Minute) BY <3>1, <2>1, <2>2, <1>1
      <4> QED BY <4>1, <4>2, <2>8
    <3>2. CASE s # k
      <4>1. buckets'[s] = buckets[s] /\ recent'[s] = recent[s] BY <3>2, <2>2, <2>4, <1>1
      <4> QED BY <4>1, <1>1 DEF BucketsCovered
    <3> QED BY <3>1, <3>2
  <2> QED BY <2>6, <2>9, <1>7 DEF BucketsCovered
<1>9. CASE ~OfGame(r)
  <2>1. k \in Addresses /\ recent' = recent BY <1>2, <1>9 DEF Remember
  <2>2. \A s \in Servers : s # k BY <2>1, <1>2
  <2>3. \A s \in Servers : buckets'[s] = buckets[s] BY <2>2, <1>1, <1>5
  <2> QED BY <2>1, <2>3, <1>1, <1>7 DEF BucketsCovered
<1> QED BY <1>8, <1>9

\* A delivery of the game that is limited comes after as many others as the limit, all in its minute.
LEMMA LimitedByItself ==
  ASSUME DeliveriesInv, NEW r \in Requests, ~Passes(r), OfGame(r)
  PROVE  Len(recent[r.token]) >= MinuteLimit
<1> PICK s : s = r.token OBVIOUS
<1>1. s \in Servers /\ BucketOf(r) = s /\ Carries(r) BY RequestsOfGame
<1>2. ~(buckets[s].count < MinuteLimit) BY <1>1 DEF Passes, Room
<1>3. buckets[s].count \in Int /\ recent[s] \in Seq(Int) /\ MinuteLimit \in Nat
  BY <1>1, DeliveriesAssumption DEF DeliveriesInv, ArrivalShape
<1>4. buckets[s].count <= Len(recent[s]) BY <1>1 DEF DeliveriesInv, BucketsCovered, Covers
<1> QED BY <1>2, <1>3, <1>4

LEMMA ArrivalCounted ==
  ASSUME DeliveriesInv, NEW r \in Requests, DeliveryArrives(r)
  PROVE  arrivals' \in 0 .. MaxArrivals
<1>1. arrivals \in 0 .. MaxArrivals /\ MaxArrivals \in Nat BY DeliveriesAssumption DEF DeliveriesInv, ArrivalShape
<1> QED BY <1>1 DEF DeliveryArrives

LEMMA UnreadableKeeps ==
  ASSUME DeliveriesInv, NEW r \in Requests, Unreadable(r)
  PROVE  DeliveriesInv'
<1>1. ArrivalShape /\ BucketsCovered /\ DeliveriesTold BY DEF DeliveriesInv
<1>2. arrivals' \in 0 .. MaxArrivals BY ArrivalCounted DEF Unreadable
<1>3. /\ buckets' = buckets /\ recent' = recent /\ lockedOut' = lockedOut /\ "unreadable" \in Reasons
      /\ Refuse(r, "unreadable")
  BY DEF Unreadable, Reasons
<1>4. /\ warnings' \in [Kinds -> [left : Nat, suppressed : Nat]] /\ warned' \in [Kinds -> Nat] /\ logged' \in [Kinds -> Nat]
      /\ refusals' \in [Servers -> Tallies] /\ happened' \in [Servers -> Tallies] /\ batches' = batches
      /\ WarningsCounted' /\ GameRefusalsShown'
  BY <1>1, <1>3, RefuseKeeps
<1>5. ArrivalShape' BY <1>1, <1>2, <1>3, <1>4 DEF ArrivalShape
<1>6. BucketsCovered' BY <1>1, <1>3 DEF BucketsCovered
<1>7. DeliveriesTold' BY <1>1, <1>3, <1>4 DEF DeliveriesTold, GameNotLockedOut
<1> QED BY <1>5, <1>6, <1>7 DEF DeliveriesInv

LEMMA RefusedKeeps ==
  ASSUME DeliveriesInv, NEW r \in Requests, NEW reason \in Reasons, DeliveryArrives(r), Count(r), Remember(r),
         Refuse(r, reason), lockedOut' = FALSE
  PROVE  DeliveriesInv'
<1>1. ArrivalShape /\ BucketsCovered /\ DeliveriesTold BY DEF DeliveriesInv
<1>2. arrivals' \in 0 .. MaxArrivals BY ArrivalCounted
<1>3. /\ buckets' \in [Servers \cup Addresses -> [left : 0 .. Minute, count : 0 .. MinuteLimit + 1]]
      /\ recent' \in [Servers -> Seq(Int)] /\ BucketsCovered'
  BY CountKeeps
<1>4. /\ warnings' \in [Kinds -> [left : Nat, suppressed : Nat]] /\ warned' \in [Kinds -> Nat] /\ logged' \in [Kinds -> Nat]
      /\ refusals' \in [Servers -> Tallies] /\ happened' \in [Servers -> Tallies] /\ batches' = batches
      /\ WarningsCounted' /\ GameRefusalsShown'
  BY <1>1, RefuseKeeps
<1>5. ArrivalShape' BY <1>1, <1>2, <1>3, <1>4 DEF ArrivalShape
<1>6. DeliveriesTold' BY <1>4 DEF DeliveriesTold, GameNotLockedOut
<1> QED BY <1>3, <1>5, <1>6 DEF DeliveriesInv

LEMMA StoredKeeps ==
  ASSUME DeliveriesInv, NEW r \in Requests, NEW invalid \in BOOLEAN, Stored(r, invalid)
  PROVE  DeliveriesInv'
<1>1. ArrivalShape /\ BucketsCovered /\ DeliveriesTold BY DEF DeliveriesInv
<1>2. arrivals' \in 0 .. MaxArrivals BY ArrivalCounted DEF Stored
<1>3. /\ buckets' \in [Servers \cup Addresses -> [left : 0 .. Minute, count : 0 .. MinuteLimit + 1]]
      /\ recent' \in [Servers -> Seq(Int)] /\ BucketsCovered'
  BY CountKeeps DEF Stored
<1>4. Carries(r) /\ refusals' = refusals /\ happened' = happened /\ lockedOut' = lockedOut BY DEF Stored
<1>5. r.token \in Servers BY <1>4, RequestsOfGame
<1>6. batches' \in [Servers -> {"none", "whole", "partly"}]
  <2>1. \E kind \in {"none", "whole", "partly"} : batches' = [batches EXCEPT ![r.token] = kind] BY DEF Stored
  <2> QED BY <2>1, <1>1 DEF ArrivalShape
<1>7. /\ warnings' \in [Kinds -> [left : Nat, suppressed : Nat]] /\ warned' \in [Kinds -> Nat] /\ logged' \in [Kinds -> Nat]
      /\ WarningsCounted'
  <2>1. WarningsCounted BY <1>1 DEF DeliveriesTold
  <2>2. CASE invalid
    <3>1. Warn(r.token, TRUE, "invalid entries") BY <2>2 DEF Stored
    <3> QED BY <3>1, <2>1, <1>1, <1>5, WarnKeeps
  <2>3. CASE ~invalid
    <3>1. warnings' = warnings /\ warned' = warned /\ logged' = logged BY <2>3 DEF Stored
    <3> QED BY <3>1, <2>1, <1>1 DEF ArrivalShape, WarningsCounted
  <2> QED BY <2>2, <2>3
<1>8. ArrivalShape' BY <1>1, <1>2, <1>3, <1>4, <1>6, <1>7 DEF ArrivalShape
<1>9. DeliveriesTold' BY <1>1, <1>4, <1>7 DEF DeliveriesTold, GameRefusalsShown, GameNotLockedOut
<1> QED BY <1>3, <1>8, <1>9 DEF DeliveriesInv

LEMMA ElapseKeeps ==
  ASSUME DeliveriesInv, Elapse
  PROVE  DeliveriesInv'
<1>1. ArrivalShape /\ BucketsCovered /\ DeliveriesTold BY DEF DeliveriesInv
<1>2. /\ buckets' = [k \in Servers \cup Addresses |->
                       IF buckets[k].left <= 1 THEN NoBucket ELSE [buckets[k] EXCEPT !.left = buckets[k].left - 1]]
      /\ warnings' = [k \in Kinds |-> [warnings[k] EXCEPT !.left = Less(warnings[k].left)]]
      /\ recent' = [s \in Servers |-> Younger(recent[s])]
      /\ refusals' = refusals /\ batches' = batches /\ arrivals' = arrivals /\ happened' = happened
      /\ warned' = warned /\ logged' = logged /\ lockedOut' = lockedOut
  BY DEF Elapse
<1>3. /\ buckets \in [Servers \cup Addresses -> [left : 0 .. Minute, count : 0 .. MinuteLimit + 1]]
      /\ warnings \in [Kinds -> [left : Nat, suppressed : Nat]] /\ recent \in [Servers -> Seq(Int)]
      /\ Minute \in Nat /\ MinuteLimit \in Nat
  BY <1>1, DeliveriesAssumption DEF ArrivalShape
<1>4. ASSUME NEW k \in Servers \cup Addresses
      PROVE  /\ buckets'[k] \in [left : 0 .. Minute, count : 0 .. MinuteLimit + 1]
             /\ buckets[k].left <= 1 => buckets'[k].left = 0 /\ buckets'[k].count = 0
             /\ ~(buckets[k].left <= 1) => buckets'[k].left = buckets[k].left - 1 /\ buckets'[k].count = buckets[k].count
  <2> PICK left \in 0 .. Minute, count \in 0 .. MinuteLimit + 1 :
        buckets[k] = [left |-> left, count |-> count] /\ left = buckets[k].left /\ count = buckets[k].count
    BY <1>3
  <2>1. CASE left <= 1
    <3>1. buckets'[k] = [left |-> 0, count |-> 0] BY <2>1, <1>2 DEF NoBucket
    <3>2. 0 \in 0 .. Minute /\ 0 \in 0 .. MinuteLimit + 1 BY <1>3
    <3> QED BY <3>1, <3>2, <2>1
  <2>2. CASE ~(left <= 1)
    <3>1. buckets'[k] = [left |-> left - 1, count |-> count] BY <2>2, <1>2
    <3>2. left - 1 \in 0 .. Minute BY <2>2, <1>3
    <3> QED BY <3>1, <3>2, <2>2
  <2> QED BY <2>1, <2>2
<1>5. buckets' \in [Servers \cup Addresses -> [left : 0 .. Minute, count : 0 .. MinuteLimit + 1]]
  <2>1. \A k \in Servers \cup Addresses : buckets'[k] \in [left : 0 .. Minute, count : 0 .. MinuteLimit + 1] BY <1>4
  <2> QED BY <2>1, <1>2
<1>6. ASSUME NEW s \in Servers
      PROVE  recent'[s] \in Seq(Int) /\ Covers(buckets'[s].left, buckets'[s].count, recent'[s])
  <2> PICK left \in 0 .. Minute, count \in 0 .. MinuteLimit + 1 : left = buckets[s].left /\ count = buckets[s].count
    BY <1>3
  <2>1. recent[s] \in Seq(Int) /\ Covers(left, count, recent[s]) /\ recent'[s] = Younger(recent[s])
    BY <1>1, <1>2, <1>3 DEF BucketsCovered
  <2>2. /\ Younger(recent[s]) \in Seq(Int)
        /\ IF left <= 1 THEN Covers(0, 0, Younger(recent[s])) ELSE Covers(left - 1, count, Younger(recent[s]))
    BY <2>1, CoversElapsed
  <2>3. /\ left <= 1 => buckets'[s].left = 0 /\ buckets'[s].count = 0
        /\ ~(left <= 1) => buckets'[s].left = left - 1 /\ buckets'[s].count = count
    BY <1>4
  <2> QED BY <2>1, <2>2, <2>3
<1>7. recent' \in [Servers -> Seq(Int)] BY <1>2, <1>6
<1>8. \A k \in Kinds : /\ warnings'[k] \in [left : Nat, suppressed : Nat]
                        /\ warnings'[k].suppressed = warnings[k].suppressed
  <2> TAKE k \in Kinds
  <2> PICK left \in Nat, suppressed \in Nat : warnings[k] = [left |-> left, suppressed |-> suppressed] BY <1>3
  <2>1. Less(left) \in Nat BY DEF Less
  <2>2. warnings'[k] = [left |-> Less(left), suppressed |-> suppressed] BY <1>2
  <2> QED BY <2>1, <2>2
<1>9. warnings' \in [Kinds -> [left : Nat, suppressed : Nat]] BY <1>2, <1>8
<1>10. ArrivalShape' BY <1>1, <1>2, <1>5, <1>7, <1>9 DEF ArrivalShape
<1>11. BucketsCovered' BY <1>6 DEF BucketsCovered
<1>12. WarningsCounted' BY <1>1, <1>2, <1>8 DEF DeliveriesTold, WarningsCounted
<1>13. DeliveriesTold' BY <1>1, <1>2, <1>12 DEF DeliveriesTold, GameRefusalsShown, GameNotLockedOut
<1> QED BY <1>10, <1>11, <1>13 DEF DeliveriesInv

LEMMA RestartKeeps ==
  ASSUME DeliveriesInv, Restart
  PROVE  DeliveriesInv'
<1>1. ArrivalShape /\ DeliveriesTold /\ Minute \in Nat /\ MinuteLimit \in Nat BY DeliveriesAssumption DEF DeliveriesInv
<1>2. /\ NoBucket \in [left : 0 .. Minute, count : 0 .. MinuteLimit + 1] /\ NoBucket.left = 0 /\ NoBucket.count = 0
      /\ NoWarning \in [left : Nat, suppressed : Nat] /\ NoWarning.suppressed = 0
      /\ NoRequests \in Tallies /\ <<>> \in Seq(Int)
  <2>1. 0 \in 0 .. Minute /\ 0 \in 0 .. MinuteLimit + 1 BY <1>1
  <2> QED BY <2>1 DEF NoBucket, NoWarning, NoRequests, Tallies
<1>3. ArrivalShape' BY <1>1, <1>2 DEF Restart, ArrivalShape
<1>4. BucketsCovered'
  <2>1. \A s \in Servers : buckets'[s] = NoBucket /\ recent'[s] = <<>> BY DEF Restart
  <2> QED BY <2>1, <1>2 DEF BucketsCovered, Covers
<1>5. WarningsCounted'
  <2>1. \A k \in Kinds : warned'[k] = 0 /\ logged'[k] = 0 /\ warnings'[k] = NoWarning BY DEF Restart
  <2> QED BY <2>1, <1>2 DEF WarningsCounted
<1>6. DeliveriesTold' BY <1>1, <1>5 DEF Restart, DeliveriesTold, GameRefusalsShown, GameNotLockedOut
<1> QED BY <1>3, <1>4, <1>6 DEF DeliveriesInv

LEMMA DeliveriesKeep == DeliveriesInv /\ [DeliveriesNext]_arrivalVars => DeliveriesInv'
<1> SUFFICES ASSUME DeliveriesInv, [DeliveriesNext]_arrivalVars PROVE DeliveriesInv' OBVIOUS
<1>1. CASE \E r \in Requests : Unreadable(r) BY <1>1, UnreadableKeeps
<1>2. CASE \E r \in Requests : RateLimited(r)
  <2> PICK r \in Requests : RateLimited(r) BY <1>2
  <2>1. ~lockedOut BY DEF DeliveriesInv, DeliveriesTold, GameNotLockedOut
  <2>2. ~(OfGame(r) /\ Len(recent[r.token]) < MinuteLimit)
    <3> SUFFICES ASSUME OfGame(r) PROVE ~(Len(recent[r.token]) < MinuteLimit) OBVIOUS
    <3>1. r.token \in Servers BY RequestsOfGame
    <3>2. Len(recent[r.token]) \in Nat /\ MinuteLimit \in Nat
      BY <3>1, DeliveriesAssumption DEF DeliveriesInv, ArrivalShape
    <3>3. Len(recent[r.token]) >= MinuteLimit BY LimitedByItself DEF RateLimited
    <3> QED BY <3>2, <3>3
  <2>3. lockedOut' = FALSE BY <2>1, <2>2 DEF RateLimited
  <2>4. "rate limited" \in Reasons BY DEF Reasons
  <2> QED BY <2>3, <2>4, RefusedKeeps DEF RateLimited
<1>3. CASE \E r \in Requests : TurnedAway(r)
  <2> PICK r \in Requests : TurnedAway(r) BY <1>3
  <2>1. lockedOut' = FALSE BY DEF TurnedAway, DeliveriesInv, ArrivalShape, DeliveriesTold, GameNotLockedOut
  <2>2. PICK reason \in Refusal(r) : Refuse(r, reason) BY DEF TurnedAway
  <2>3. reason \in Reasons BY <2>2 DEF Refusal, Reasons
  <2> QED BY <2>1, <2>2, <2>3, RefusedKeeps DEF TurnedAway
<1>4. CASE \E r \in Requests, invalid \in BOOLEAN : Stored(r, invalid) BY <1>4, StoredKeeps
<1>5. CASE Elapse BY <1>5, ElapseKeeps
<1>6. CASE Restart BY <1>6, RestartKeeps
<1>7. CASE UNCHANGED arrivalVars
  <2>1. ArrivalShape' BY <1>7 DEF arrivalVars, DeliveriesInv, ArrivalShape
  <2>2. BucketsCovered' BY <1>7 DEF arrivalVars, DeliveriesInv, BucketsCovered
  <2>3. DeliveriesTold'
    BY <1>7 DEF arrivalVars, DeliveriesInv, DeliveriesTold, GameRefusalsShown, GameNotLockedOut, WarningsCounted
  <2> QED BY <2>1, <2>2, <2>3 DEF DeliveriesInv
<1> QED BY <1>1, <1>2, <1>3, <1>4, <1>5, <1>6, <1>7 DEF DeliveriesNext

LEMMA DeliveriesHold == DeliveriesInv => DeliveriesTypeOK /\ DeliveriesTold
<1> SUFFICES ASSUME DeliveriesInv PROVE DeliveriesTypeOK /\ DeliveriesTold OBVIOUS
<1>1. DeliveriesTold /\ ArrivalShape BY DEF DeliveriesInv
<1>2. DeliveriesTypeOK BY <1>1 DEF ArrivalShape, DeliveriesTypeOK
<1> QED BY <1>1, <1>2

-----------------------------------------------------------------------------
(* The stored events *)

StoredEvents == [event : Shapes, at : Nat \ {0}, time : Clocks, suicide : BOOLEAN]
StatsInv ==
  /\ events \in Seq(StoredEvents) /\ Len(events) <= MaxEvents
  /\ batch \in Nat \ {0} /\ since \in Nat \ {0} /\ since <= batch /\ (batch = 1 \/ batch <= Len(events))
  /\ \A i \in 1 .. Len(events) : events[i].at <= batch

LEMMA StatsStart == StatsInit => StatsInv
<1> SUFFICES ASSUME StatsInit PROVE StatsInv OBVIOUS
<1>1. MaxEvents \in Nat BY StatsAssumption
<1>2. events = <<>> /\ batch = 1 /\ since = 1 BY DEF StatsInit
<1> QED BY <1>1, <1>2 DEF StatsInv

LEMMA StatsKeep == StatsInv /\ [StatsNext]_statsVars => StatsInv'
<1> SUFFICES ASSUME StatsInv, [StatsNext]_statsVars PROVE StatsInv' OBVIOUS
<1>1. CASE Ingest
  <2>1. PICK e \in Shapes, t \in Clocks, next \in {0, 1} :
          /\ next = 1 => events # <<>>
          /\ batch' = batch + next
          /\ events' = Append(events, [event |-> e, at |-> batch + next, time |-> t, suicide |-> Suicide(e)])
    BY <1>1 DEF Ingest
  <2> PICK number \in Nat \ {0} : number = batch + next BY DEF StatsInv
  <2> PICK stored : stored = [event |-> e, at |-> number, time |-> t, suicide |-> Suicide(e)] OBVIOUS
  <2>2. Suicide(e) \in BOOLEAN BY DEF Suicide
  <2>3. stored \in StoredEvents /\ stored.at = number BY <2>2 DEF StoredEvents
  <2>4. events' = Append(events, stored) /\ batch' = number BY <2>1
  <2>5. events \in Seq(StoredEvents) /\ Len(events) < MaxEvents /\ MaxEvents \in Nat /\ since' = since
    BY <1>1, StatsAssumption DEF StatsInv, Ingest
  <2>6. events' \in Seq(StoredEvents) /\ Len(events') = Len(events) + 1 BY <2>3, <2>4, <2>5
  <2>7. Len(events') <= MaxEvents BY <2>5, <2>6
  <2>8. batch' \in Nat \ {0} /\ since' \in Nat \ {0} /\ since' <= batch' BY <2>4, <2>5 DEF StatsInv
  <2>9. batch' = 1 \/ batch' <= Len(events')
    <3>1. next = 1 => Len(events) >= 1 BY <2>1, <2>5
    <3>2. batch = 1 \/ batch <= Len(events) BY DEF StatsInv
    <3>3. batch \in Nat /\ Len(events) \in Nat BY <2>5 DEF StatsInv
    <3> QED BY <2>4, <2>6, <3>1, <3>2, <3>3
  <2>10. ASSUME NEW i \in 1 .. Len(events') PROVE events'[i].at <= batch'
    <3>1. CASE i = Len(events') BY <2>3, <2>4, <2>5, <2>6, <3>1
    <3>2. CASE i # Len(events')
      <4>1. i \in 1 .. Len(events) /\ events'[i] = events[i] BY <2>4, <2>5, <2>6, <3>2
      <4>2. events[i] \in StoredEvents BY <4>1, <2>5
      <4>3. events[i].at \in Nat /\ events[i].at <= batch BY <4>1, <4>2 DEF StatsInv, StoredEvents
      <4>4. batch \in Nat /\ batch <= batch' BY <2>4 DEF StatsInv
      <4> QED BY <4>1, <4>3, <4>4, <2>8
    <3> QED BY <3>1, <3>2
  <2> QED BY <2>6, <2>7, <2>8, <2>9, <2>10 DEF StatsInv
<1>2. CASE Slide
  <2>1. events' = events /\ batch' = batch /\ since' = since + 1 /\ since < batch BY <1>2 DEF Slide
  <2>2. since' \in Nat \ {0} /\ since' <= batch' BY <2>1 DEF StatsInv
  <2> QED BY <2>1, <2>2 DEF StatsInv
<1>3. CASE UNCHANGED statsVars BY <1>3 DEF statsVars, StatsInv
<1> QED BY <1>1, <1>2, <1>3 DEF StatsNext

LEMMA StatsTyped == StatsInv => StatsTypeOK
<1> SUFFICES ASSUME StatsInv PROVE StatsTypeOK OBVIOUS
<1>1. batch \in Nat \ {0} /\ since \in Nat \ {0} /\ MaxEvents \in Nat \ {0} /\ events \in Seq(StoredEvents)
  BY StatsAssumption DEF StatsInv
<1>2. batch \in 1 .. MaxEvents /\ since \in 1 .. batch BY <1>1 DEF StatsInv
<1>3. ASSUME NEW i \in 1 .. Len(events) PROVE events[i].event \in Shapes /\ events[i].at \in 1 .. batch
  <2>1. events[i] \in StoredEvents BY <1>1
  <2>2. events[i].at \in Nat \ {0} /\ events[i].at <= batch BY <2>1 DEF StatsInv, StoredEvents
  <2>3. events[i].at \in 1 .. batch BY <1>1, <2>2
  <2> QED BY <2>1, <2>3 DEF StoredEvents
<1> QED BY <1>2, <1>3 DEF StatsTypeOK

-----------------------------------------------------------------------------
(* The components beside each other: each step is one component's, and leaves the others as they are. *)

ServerInv ==
  /\ HealthInv /\ HealthTimes /\ AlertsInv /\ CountersInv /\ WatchInv /\ CommunityInv
  /\ SeedingInv /\ BoardInv /\ DeliveriesInv /\ StatsInv

LEMMA ServerStarts == Init => ServerInv
<1> SUFFICES ASSUME Init PROVE ServerInv OBVIOUS
<1>1. HealthInv /\ HealthTimes BY HealthStarts, HealthTimesStart DEF Init
<1>2. AlertsInv BY AlertsStart DEF Init
<1>3. CountersInv BY CountersStart DEF Init
<1>4. WatchInv BY WatchStarts DEF Init
<1>5. CommunityInv BY CommunityStarts DEF Init
<1>6. SeedingInv BY CallsStart DEF Init
<1>7. BoardInv BY BoardStarts DEF Init
<1>8. DeliveriesInv BY DeliveriesStart DEF Init
<1>9. StatsInv BY StatsStart DEF Init
<1> QED BY <1>1, <1>2, <1>3, <1>4, <1>5, <1>6, <1>7, <1>8, <1>9 DEF ServerInv

\* A step of the whole is a step or a stutter of every component.
LEMMA EachSteps ==
  [Next]_vars =>
    /\ [HealthNext]_healthVars /\ [DeliveryNext]_deliveryVars /\ [CountersNext]_counterVars /\ [WatchNext]_watchVars
    /\ [CommunityNext]_communityVars /\ [SeedingNext]_seedingVars /\ [BoardNext]_boardVars
    /\ [DeliveriesNext]_arrivalVars /\ [StatsNext]_statsVars
<1>1. [Next]_vars => [HealthNext]_healthVars BY DEF Next, vars
<1>2. [Next]_vars => [DeliveryNext]_deliveryVars BY DEF Next, vars
<1>3. [Next]_vars => [CountersNext]_counterVars BY DEF Next, vars
<1>4. [Next]_vars => [WatchNext]_watchVars BY DEF Next, vars
<1>5. [Next]_vars => [CommunityNext]_communityVars BY DEF Next, vars
<1>6. [Next]_vars => [SeedingNext]_seedingVars BY DEF Next, vars
<1>7. [Next]_vars => [BoardNext]_boardVars BY DEF Next, vars
<1>8. [Next]_vars => [DeliveriesNext]_arrivalVars BY DEF Next, vars
<1>9. [Next]_vars => [StatsNext]_statsVars BY DEF Next, vars
<1> QED BY <1>1, <1>2, <1>3, <1>4, <1>5, <1>6, <1>7, <1>8, <1>9

LEMMA ServerKeeps == ServerInv /\ [Next]_vars => ServerInv'
<1> SUFFICES ASSUME ServerInv, [Next]_vars PROVE ServerInv' OBVIOUS
<1>1. HealthInv' /\ HealthTimes' BY EachSteps, HealthKeeps, HealthTimesKeep DEF ServerInv
<1>2. AlertsInv' BY EachSteps, AlertsStep DEF ServerInv
<1>3. CountersInv' BY EachSteps, CountersKeep DEF ServerInv
<1>4. WatchInv' BY EachSteps, WatchKeeps DEF ServerInv
<1>5. CommunityInv' BY EachSteps, CommunityKeeps DEF ServerInv
<1>6. SeedingInv' BY EachSteps, SeedingKeeps DEF ServerInv
<1>7. BoardInv' BY EachSteps, BoardKeeps DEF ServerInv
<1>8. DeliveriesInv' BY EachSteps, DeliveriesKeep DEF ServerInv
<1>9. StatsInv' BY EachSteps, StatsKeep DEF ServerInv
<1> QED BY <1>1, <1>2, <1>3, <1>4, <1>5, <1>6, <1>7, <1>8, <1>9 DEF ServerInv

LEMMA ServerInvariant == Spec => []ServerInv
BY ServerStarts, ServerKeeps, PTL DEF Spec

\* Whoever staff are asked to review has made the kills that are claimed, as often as the cooldown allows and once
\* in a round; a join of a watched player is posted at most once a visit, when the player was seen away, and missed
\* only behind the windows of the monitor; and what staff are shown of refused deliveries is what became of the
\* game's own, which no other request can limit (kill-counters.ts, staff-alerts.service.ts, telemetry.deliveries.ts).
THEOREM StaffAreAskedFairly == Spec => []StaffAskedFairly
<1>1. ServerInv => StaffAskedFairly
  BY CountersFair, WatchTold, DeliveriesHold DEF ServerInv, StaffAskedFairly
<1> QED BY ServerInvariant, <1>1, PTL

\* Every component keeps its types. Two calls that Discord posted are a cooldown apart, whatever became of the calls
\* between them, and a week of the leaderboard is in the channel at most once, through restarts, lost answers and
\* forgotten nonces (seeding.service.ts, weekly-leaderboard.service.ts).
THEOREM PostsComeOnTime == Spec => []PostsOnTime
<1>1. ServerInv => TypeOK
  <2> SUFFICES ASSUME ServerInv PROVE TypeOK OBVIOUS
  <2>1. HealthTypeOK BY HealthTyped DEF ServerInv
  <2>2. DeliveryTypeOK BY AlertsTyped DEF ServerInv
  <2>3. CountersTypeOK BY CountersFair DEF ServerInv
  <2>4. WatchTypeOK BY WatchTold DEF ServerInv
  <2>5. CommunityTypeOK BY CommunityTyped DEF ServerInv
  <2>6. SeedingTypeOK BY CallsHeld DEF ServerInv
  <2>7. BoardTypeOK BY BoardHolds DEF ServerInv
  <2>8. DeliveriesTypeOK BY DeliveriesHold DEF ServerInv
  <2>9. StatsTypeOK BY StatsTyped DEF ServerInv
  <2> QED BY <2>1, <2>2, <2>3, <2>4, <2>5, <2>6, <2>7, <2>8, <2>9 DEF TypeOK
<1>2. ServerInv => PostsOnTime
  BY <1>1, CallsHeld, BoardHolds DEF ServerInv, PostsOnTime
<1> QED BY ServerInvariant, <1>2, PTL
===============================================================================
