------------------------------ MODULE MCServer ------------------------------
(* What the bot hears of the server and says to staff, players and Discord members: the components
   are independent, and a behaviour explores one of them, named by part. *)
EXTENDS ServerHealth, AlertDelivery, CombatCounters, WatchList, Community, SeedingPing, WeeklyBoard, FeedDeliveries,
        CombatStats, TLC

CONSTANTS k1, q1, n1, n2, n3, j1, a1

\* n1, n2: servers, calls and addresses; n3: one more call.
Symmetric == Permutations({n1, n2})
Kill(k, v, c, t, d, s) == [killer |-> k, victim |-> v, cause |-> c, tags |-> t, cm |-> d, session |-> s]
KillShapes ==
  {Kill("p", "q", "Ak", {"headshot"}, 2, 1), Kill("p", "q", "ak ", {}, 5, 1), Kill("q", "p", "m4", {}, 3, 1),
   Kill("p", "p", "nade", {}, 0, 1), Kill("nobody", "p", "none", {"falling"}, 0, 1),
   Kill("q", "p", "Ak", {}, 4, 2), Kill("p", "q", "nade", {"vehicleExplosion"}, 3, 1)}
CauseKeys == ("Ak" :> "ak") @@ ("ak " :> "ak") @@ ("m4" :> "m4") @@ ("nade" :> "nade")
CauseLabels == ("ak" :> "rifle") @@ ("m4" :> "rifle") @@ ("nade" :> "Grenade")
EasternStandard == -5
EasternSummer == -4

VARIABLE part  \* the component this behaviour explores

Parts == {"health", "alerts", "counters", "watch list", "community", "seeding",
          "weekly board", "deliveries", "statistics"}

\* The others stay in one of their initial states.
Init ==
  /\ part \in Parts
  /\ HealthInit
  /\ DeliveryInit
  /\ CountersInit
  /\ WatchInit /\ (part # "watch list" => online = {} /\ loadedAt = NoTime)
  /\ CommunityInit
  /\ SeedingInit /\ (part # "seeding" => roleSafe /\ ~hasRole)
  /\ BoardInit /\ (part # "weekly board" => ~late /\ enabled)
  /\ DeliveriesInit /\ (part # "deliveries" => feedOn)
  /\ StatsInit

Next ==
  \/ /\ part = "health" /\ HealthNext
     /\ UNCHANGED <<part, deliveryVars, counterVars, watchVars, communityVars, seedingVars, boardVars, arrivalVars,
                    statsVars>>
  \/ /\ part = "alerts" /\ DeliveryNext
     /\ UNCHANGED <<part, healthVars, counterVars, watchVars, communityVars, seedingVars, boardVars, arrivalVars,
                    statsVars>>
  \/ /\ part = "counters" /\ CountersNext
     /\ UNCHANGED <<part, healthVars, deliveryVars, watchVars, communityVars, seedingVars, boardVars, arrivalVars,
                    statsVars>>
  \/ /\ part = "watch list" /\ WatchNext
     /\ UNCHANGED <<part, healthVars, deliveryVars, counterVars, communityVars, seedingVars, boardVars, arrivalVars,
                    statsVars>>
  \/ /\ part = "community" /\ CommunityNext
     /\ UNCHANGED <<part, healthVars, deliveryVars, counterVars, watchVars, seedingVars, boardVars, arrivalVars,
                    statsVars>>
  \/ /\ part = "seeding" /\ SeedingNext
     /\ UNCHANGED <<part, healthVars, deliveryVars, counterVars, watchVars, communityVars, boardVars, arrivalVars,
                    statsVars>>
  \/ /\ part = "weekly board" /\ BoardNext
     /\ UNCHANGED <<part, healthVars, deliveryVars, counterVars, watchVars, communityVars, seedingVars, arrivalVars,
                    statsVars>>
  \/ /\ part = "deliveries" /\ DeliveriesNext
     /\ UNCHANGED <<part, healthVars, deliveryVars, counterVars, watchVars, communityVars, seedingVars, boardVars,
                    statsVars>>
  \/ /\ part = "statistics" /\ StatsNext
     /\ UNCHANGED <<part, healthVars, deliveryVars, counterVars, watchVars, communityVars, seedingVars, boardVars,
                    arrivalVars>>
vars == <<part, healthVars, deliveryVars, counterVars, watchVars, communityVars, seedingVars, boardVars,
          arrivalVars, statsVars>>
Spec == Init /\ [][Next]_vars

\* Every component keeps its types: health, alerts, counters, joins, messages, calls, the weekly board, the feed.
TypeOK ==
  /\ part = "health" => HealthTypeOK
  /\ part = "alerts" => DeliveryTypeOK
  /\ part = "counters" => CountersTypeOK
  /\ part = "watch list" => WatchTypeOK
  /\ part = "community" => CommunityTypeOK
  /\ part = "seeding" => SeedingTypeOK
  /\ part = "weekly board" => BoardTypeOK
  /\ part = "deliveries" => DeliveriesTypeOK
  /\ part = "statistics" => StatsTypeOK

\* What staff are asked to look at was counted and seen, and they are asked once; what they are shown of the
\* feed's deliveries is what became of the game's own: see CombatCounters, WatchList, FeedDeliveries.
StaffAskedFairly ==
  /\ part = "counters" => ReviewsFair
  /\ part = "watch list" => WatchedOnce
  /\ part = "deliveries" => DeliveriesTold

\* Calls for players and weekly posts come once and at their time, and every component keeps its types.
PostsOnTime ==
  /\ TypeOK
  /\ part = "seeding" => CallsSpaced
  /\ part = "weekly board" => WeekPostedOnce

\* The figures of separate statements over the feed agree, and a week begins at its wall time: see CombatStats,
\* WeeklyBoard.
FiguresAgree ==
  /\ part = "statistics" => StatsAgree
  /\ part = "weekly board" => SlotsExact
======================================================================
