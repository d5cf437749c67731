----------------------------- MODULE AlertDelivery -----------------------------
(***************************************************************************)
(* How a staff alert is recorded, held back or posted                       *)
(* (staff-alerts.service.ts, the raise of staff-alerts.monitor.ts). Every    *)
(* check up to the channel lookup runs in one turn of the event loop; the    *)
(* lookup and the send then take any time, with other alerts between them.    *)
(***************************************************************************)
EXTENDS Integers, Sequences, FiniteSets

CONSTANTS GameServers,  \* servers with a worker
          AlertKeys,    \* alert keys
          RepeatFor,    \* repeatMs
          AlertHour,    \* HOUR_MS
          PerHour,      \* hourlyLimit of a category
          PingGap,      \* PING_INTERVAL_MS
          PostsMax,     \* POSTS_MAX
          MaxAlerts,    \* bound: alerts raised in a run
          LastAlertTime \* bound: time

ASSUME DeliveryAssumption ==
  {RepeatFor, AlertHour, PerHour, PingGap, PostsMax, MaxAlerts, LastAlertTime} \subseteq Nat /\ PingGap > 0

VARIABLES
  clock,     \* Date.now()
  raised,    \* [GameServers \X AlertKeys -> the time it was last raised, or Never]
  recentPosts, \* hourly: [GameServers -> the alerts allowed in the last hour, by their place in alerts]
  snoozedTo, \* snoozes: [GameServers -> until]
  lastPing,  \* lastPingAt
  alerts,    \* the records, oldest first: [server, key, at, auto, high, delivery, ping, previous]
  posting    \* [GameServers -> posts of the worker still running]

deliveryVars == <<clock, raised, recentPosts, snoozedTo, lastPing, alerts, posting>>

Never == -1

DeliveryInit ==
  /\ clock = 0 /\ raised = [x \in GameServers \X AlertKeys |-> Never]
  /\ recentPosts = [s \in GameServers |-> {}] /\ snoozedTo = [s \in GameServers |-> 0]
  /\ lastPing = Never /\ alerts = <<>> /\ posting = [s \in GameServers |-> 0]

Recent(s) == {i \in recentPosts[s] : clock - alerts[i].at < AlertHour}

\* Mutant: a key counts as raised only once its alert was posted.
RepeatsUnlessPosted(s, k) ==
  \E i \in 1 .. Len(alerts) : /\ alerts[i].server = s /\ alerts[i].key = k
                              /\ alerts[i].delivery = "posted" /\ clock - alerts[i].at < RepeatFor
Repeats(s, k) == raised[<<s, k>>] # Never /\ clock - raised[<<s, k>>] < RepeatFor

\* Mutant: the hour is full one post too late.
FullHourAndOne(s) == Cardinality(Recent(s)) > PerHour
FullHour(s) == Cardinality(Recent(s)) >= PerHour
\* raise: where the alert goes. Automation alerts cannot be snoozed.
Delivery(s, auto, backlog) ==
  IF backlog THEN "suppressed"
  ELSE IF ~auto /\ snoozedTo[s] > clock THEN "snoozed"
  ELSE IF FullHour(s) THEN "suppressed" ELSE "checking"

\* The worker's raise never waits for the post; automation (send) does, and has no backlog rule.
Raise(s, k) ==
  \E auto, high \in BOOLEAN :
    LET backlog == ~auto /\ posting[s] >= PostsMax
        delivery == Delivery(s, auto, backlog) IN
    /\ ~Repeats(s, k) /\ Len(alerts) < MaxAlerts /\ (auto => ~high)
    /\ raised' = [raised EXCEPT ![<<s, k>>] = clock]
    /\ alerts' = Append(alerts, [server |-> s, key |-> k, at |-> clock, auto |-> auto, high |-> high,
                                 delivery |-> delivery, ping |-> FALSE, previous |-> Never])
    /\ recentPosts' = IF backlog \/ delivery = "snoozed" THEN recentPosts
                      ELSE [recentPosts EXCEPT
                              ![s] = IF delivery = "checking" THEN Recent(s) \cup {Len(alerts) + 1} ELSE Recent(s)]
    /\ posting' = IF ~auto /\ delivery = "checking" THEN [posting EXCEPT ![s] = posting[s] + 1] ELSE posting
    /\ UNCHANGED <<clock, snoozedTo, lastPing>>

\* The post of alert i is over.
Ended(i, delivery) ==
  /\ alerts' = [alerts EXCEPT ![i].delivery = delivery, ![i].high = FALSE, ![i].previous = Never,
                              ![i].ping = alerts[i].ping /\ delivery = "posted"]
  /\ posting' = IF alerts[i].auto THEN posting ELSE [posting EXCEPT ![alerts[i].server] = posting[alerts[i].server] - 1]

\* post, to the send: the channel is checked, then the ping is reserved in the same turn.
PingDue(i) == alerts[i].high /\ (lastPing = Never \/ alerts[i].at - lastPing >= PingGap)
\* Mutant: the ping is counted when its message was sent.
ReservedLater(at) == lastPing
Reserved(at) == at
Checked(i) ==
  /\ alerts[i].delivery = "checking"
  /\ \E roleUsable \in BOOLEAN :
       LET ping == PingDue(i) /\ roleUsable IN
       /\ alerts' = [alerts EXCEPT ![i].delivery = "sending", ![i].ping = ping, ![i].previous = lastPing]
       /\ lastPing' = IF ping THEN Reserved(alerts[i].at) ELSE lastPing
  /\ UNCHANGED <<clock, raised, recentPosts, snoozedTo, posting>>

\* The channel is missing, public, a community channel or not writable: recorded as failed, never posted.
Refused(i) == /\ alerts[i].delivery = "checking" /\ Ended(i, "failed")
              /\ UNCHANGED <<clock, raised, recentPosts, snoozedTo, lastPing>>

SendSucceeds(i) == /\ alerts[i].delivery = "sending" /\ Ended(i, "posted")
                   /\ UNCHANGED <<clock, raised, recentPosts, snoozedTo, lastPing>>

\* A failed send gives its ping back, unless a later one was reserved since.
\* Mutant: it gives its ping back whatever happened since.
GivesBackAlways(i) == alerts[i].ping
GivesBack(i) == alerts[i].ping /\ lastPing = alerts[i].at
SendFails(i) ==
  /\ alerts[i].delivery = "sending" /\ Ended(i, "failed")
  /\ lastPing' = IF GivesBack(i) THEN alerts[i].previous ELSE lastPing
  /\ UNCHANGED <<clock, raised, recentPosts, snoozedTo>>

Snooze(s) == /\ \E until \in {0, clock + 1} : snoozedTo' = [snoozedTo EXCEPT ![s] = until]
             /\ UNCHANGED <<clock, raised, recentPosts, lastPing, alerts, posting>>

AlertTimePasses == /\ clock < LastAlertTime /\ clock' = clock + 1
                   /\ UNCHANGED <<raised, recentPosts, snoozedTo, lastPing, alerts, posting>>

DeliveryNext ==
  \/ \E s \in GameServers, k \in AlertKeys : Raise(s, k)
  \/ \E i \in 1 .. Len(alerts) : Checked(i) \/ Refused(i) \/ SendSucceeds(i) \/ SendFails(i)
  \/ \E s \in GameServers : Snooze(s)
  \/ AlertTimePasses
DeliverySpec == DeliveryInit /\ [][DeliveryNext]_deliveryVars

-----------------------------------------------------------------------------
(* Properties *)

DeliveryTypeOK ==
  /\ clock \in 0 .. LastAlertTime /\ Len(alerts) <= MaxAlerts
  /\ \A s \in GameServers : Cardinality(recentPosts[s]) <= PerHour
  /\ \A i \in 1 .. Len(alerts) : alerts[i].delivery
        \in {"snoozed", "suppressed", "failed", "checking", "sending", "posted"}

Tried(i) == alerts[i].delivery \notin {"snoozed", "suppressed"}
Running(i) == alerts[i].delivery \in {"checking", "sending"}
Apart(i, j, span) == alerts[j].at - alerts[i].at >= span

\* One key is never posted twice within its repeat window, even while the first post still waits on Discord.
NoRepeats ==
  \A i, j \in 1 .. Len(alerts) :
    (i < j /\ alerts[i].key = alerts[j].key /\ alerts[i].server = alerts[j].server) => Apart(i, j, RepeatFor)

\* Two messages that mention the role are the interval apart, whichever servers they are about and in
\* whatever order their sends end.
PingsSpaced ==
  \A i, j \in 1 .. Len(alerts) :
    (i < j /\ {alerts[i].delivery, alerts[j].delivery} = {"posted"} /\ alerts[i].ping /\ alerts[j].ping)
      => Apart(i, j, PingGap)

\* No server posts more than its limit in any hour, and its worker waits on a bounded number of posts.
FloodBounded ==
  \A s \in GameServers :
    /\ \A from \in 0 .. LastAlertTime :
         Cardinality({i \in 1 .. Len(alerts) : /\ alerts[i].server = s /\ Tried(i)
                                               /\ alerts[i].at \in from .. from + AlertHour - 1}) <= PerHour
    /\ Cardinality({i \in 1 .. Len(alerts) : alerts[i].server = s /\ ~alerts[i].auto /\ Running(i)}) <= PostsMax

\* Staff are not flooded: alerts repeat, ping and queue within their limits.
AlertsBounded == NoRepeats /\ PingsSpaced /\ FloodBounded
=============================================================================
