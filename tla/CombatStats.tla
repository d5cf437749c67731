------------------------------ MODULE CombatStats ------------------------------
(***************************************************************************)
(* The combat statistics computed from the stored kill events of one game   *)
(* server: the leaderboard, the public server stats and the extras of a     *)
(* leaderboard row (snapshot, serverStats and rowExtras of                  *)
(* telemetry.store.ts; publicServerStats and rowExtrasByPlayer of           *)
(* telemetry.service.ts). They are separate statements over one window of   *)
(* events, which grows with each batch and slides.                          *)
(***************************************************************************)
EXTENDS Integers, FiniteSets, FiniteSetsExt, Sequences

CONSTANTS Players,
          Shapes,       \* killed events: [killer, victim, cause, tags, cm, session]
          CauseKey,     \* the key a stored cause is grouped by: its text in lower case, trimmed
          LabelOf,      \* describeCause: the name of each key
          Firearms,     \* the keys that describeCause and longShot both take for a firearm
          LongShotMax,  \* LONG_SHOT_MAX_CENTIMETERS
          PublicMax,    \* PUBLIC_MAX_DISTANCE_CENTIMETERS
          ListLength,   \* length of the list of the longest kills
          MaxEvents,    \* bound: stored events
          Clocks        \* bound: values of the game's clock

Nobody == "nobody"  \* a player that no valid SteamID names
NoCause == "none"

ASSUME StatsAssumption ==
  /\ Nobody \notin Players /\ NoCause \notin DOMAIN CauseKey /\ Clocks \subseteq Nat
  /\ {LongShotMax, PublicMax, ListLength} \subseteq Nat /\ LongShotMax <= PublicMax /\ MaxEvents \in Nat \ {0}
  /\ \A e \in Shapes : e.killer \in Players \cup {Nobody} /\ e.cause \in DOMAIN CauseKey \cup {NoCause}
  /\ Firearms \subseteq DOMAIN LabelOf /\ \A c \in DOMAIN CauseKey : CauseKey[c] \in DOMAIN LabelOf

VARIABLES
  events,  \* combat_events, in the order stored: an event, its batch (receivedAt) and the game's clock
  batch,   \* the last batch
  since    \* the window: the first batch in it

statsVars == <<events, batch, since>>

StatsInit == events = <<>> /\ batch = 1 /\ since = 1

Suicide(e) == "suicide" \in e.tags \/ (e.killer # Nobody /\ e.killer = e.victim)

\* An event of the current batch, or of the next one.
Ingest ==
  /\ Len(events) < MaxEvents
  /\ \E e \in Shapes, t \in Clocks, next \in {0, 1} :
       /\ next = 1 => events # <<>>
       /\ batch' = batch + next
       /\ events' = Append(events, [event |-> e, at |-> batch + next, time |-> t, suicide |-> Suicide(e)])
  /\ UNCHANGED since
Slide == since < batch /\ since' = since + 1 /\ UNCHANGED <<events, batch>>
StatsNext == Ingest \/ Slide

-----------------------------------------------------------------------------
(* The window *)

Window == {i \in 1 .. Len(events) : events[i].at >= since}
Of(i) == events[i].event
Kills == {i \in Window : ~events[i].suicide /\ Of(i).killer # Nobody}
KillsOf(p) == {i \in Kills : Of(i).killer = p}
DeathsOf(p) == {i \in Window : Of(i).victim = p}
Headshots(set) == Cardinality({i \in set : "headshot" \in Of(i).tags})
LongestOf(set) == Max({0} \cup {Of(i).cm : i \in set})
Total(S, f(_)) == MapThenSumSet(f, S)

(* snapshot: the leaderboard and its totals, from the players seen as killer or as victim *)
SeenPlayers == {p \in Players : \E i \in Window : p \in {Of(i).killer, Of(i).victim}}
Row(p) == [kills |-> Cardinality(KillsOf(p)), deaths |-> Cardinality(DeathsOf(p)), headshots |-> Headshots(KillsOf(p))]
RankingTotals ==
  LET row == [p \in SeenPlayers |-> Row(p)] IN
  [events |-> Cardinality(Window), players |-> Cardinality(SeenPlayers),
   kills |-> Total(SeenPlayers, LAMBDA p : row[p].kills), deaths |-> Total(SeenPlayers, LAMBDA p : row[p].deaths),
   headshots |-> Total(SeenPlayers, LAMBDA p : row[p].headshots)]

(* serverStats S2: each event is read once as its killer and once as its victim, and grouped by player *)
Sides == {<<i, 1, Of(i).killer>> : i \in Window} \cup {<<i, 2, Of(i).victim>> : i \in Window}
SidesOf(id) == {s \in Sides : s[3] = id}
SideTotals ==
  [events |-> Total(Players \cup {Nobody}, LAMBDA id : Cardinality({s \in SidesOf(id) : s[2] = 1})),
   deaths |-> Total(Players, LAMBDA id : Cardinality({s \in SidesOf(id) : s[2] = 2})),
   players |-> Cardinality({id \in Players : SidesOf(id) # {}})]

(* serverStats S1: kills in total and by cause, with the longest kill and the longest possible shot *)
Plausible(i) ==
  /\ Of(i).cm > 0 /\ Of(i).cm <= LongShotMax
  /\ Of(i).tags \cap {"vehicleExplosion", "roadkill", "falling"} = {}
Key(i) == IF Of(i).cause = NoCause THEN NoCause ELSE CauseKey[Of(i).cause]
CauseRow(key) ==
  LET set == {i \in Kills : Key(i) = key} IN
  [kills |-> Cardinality(set), headshots |-> Headshots(set),
   longest |-> LongestOf({i \in set : Of(i).cm <= PublicMax}), shot |-> LongestOf({i \in set : Plausible(i)})]

\* publicServerStats: the rows of one name are merged; a firearm reaches as far as its longest possible shot.
Reach(key) == IF key \in Firearms THEN CauseRow(key).shot ELSE CauseRow(key).longest
KeysOf(label) == {key \in DOMAIN LabelOf : LabelOf[key] = label}
Weapon(label) ==
  [kills |-> Total(KeysOf(label), LAMBDA key : CauseRow(key).kills),
   headshots |-> Total(KeysOf(label), LAMBDA key : CauseRow(key).headshots),
   longest |-> Max({0} \cup {Reach(key) : key \in KeysOf(label)})]
Labels == {LabelOf[key] : key \in DOMAIN LabelOf}

(* serverStats S3: the players with the longest long shots, each by their own best *)
LongShots(p) == {i \in KillsOf(p) : Plausible(i) /\ Key(i) \in Firearms}
Best(p) == LongestOf(LongShots(p))
Shooters == {p \in Players : LongShots(p) # {}}
Beats(p, q) == Best(p) > Best(q)
Longest ==
  CHOOSE S \in SUBSET Shooters :
    /\ Cardinality(S) = IF Cardinality(Shooters) < ListLength THEN Cardinality(Shooters) ELSE ListLength
    /\ \A p \in S, q \in Shooters \ S : ~Beats(q, p)

(* rowExtras and rowExtrasByPlayer: the longest shot over a player's causes, and the best streak *)
LongestKill(p) ==
  Max({0} \cup {LongestOf({i \in KillsOf(p) : Key(i) = key /\ Plausible(i)}) : key \in Firearms})

\* The actions of a player in a session, by receipt, then the game's clock, a kill before a death.
Before(i, j) ==
  events[i].at < events[j].at \/ (events[i].at = events[j].at /\ events[i].time < events[j].time)
\* Mutant: deaths in any session end a streak, and a streak goes on in the next session.
AnySession(i, j) == TRUE
SameSession(i, j) == Of(i).session = Of(j).session
Life(p, i) == Cardinality({d \in DeathsOf(p) : SameSession(d, i) /\ Before(d, i)})
BestStreak(p) ==
  Max({0} \cup {Cardinality({j \in KillsOf(p) : SameSession(i, j) /\ Life(p, j) = Life(p, i)}) : i \in KillsOf(p)})

-----------------------------------------------------------------------------
(* Properties *)

StatsTypeOK ==
  /\ batch \in 1 .. MaxEvents /\ since \in 1 .. batch
  /\ \A i \in 1 .. Len(events) : events[i].event \in Shapes /\ events[i].at \in 1 .. batch

\* The totals of the server stats, read side by side and by cause, are those of the leaderboard; every kill
\* with a cause is in one weapon's row.
TotalsAgree ==
  /\ SideTotals.events = RankingTotals.events /\ SideTotals.deaths = RankingTotals.deaths
  /\ SideTotals.players = RankingTotals.players
  /\ Cardinality(Kills) = RankingTotals.kills /\ Headshots(Kills) = RankingTotals.headshots
  /\ Total(Labels, LAMBDA l : Weapon(l).kills) + CauseRow(NoCause).kills = Cardinality(Kills)

\* The longest shot beside a player's row is the one the server stats list, which no weapon's row and no
\* player left out of the list falls short of.
ShotsAgree ==
  /\ \A p \in Players : LongestKill(p) = Best(p)
  /\ \A p \in Longest, i \in Window :
       i \in LongShots(p) /\ Of(i).cm = Best(p) => Weapon(LabelOf[Key(i)]).longest >= Best(p)
  /\ \A p \in Shooters \ Longest, q \in Longest : Best(p) <= Best(q)

\* A streak is of one session, without a death of the player between its kills, and there is no longer one.
Streak(p, S) ==
  \A i, j \in S : Of(i).session = Of(j).session
    /\ \A d \in DeathsOf(p) : Of(d).session = Of(i).session => ~(Before(d, j) /\ ~Before(d, i))
StreaksTrue ==
  \A p \in Players : BestStreak(p) = Max({Cardinality(S) : S \in {T \in SUBSET KillsOf(p) : Streak(p, T)}})

\* What separate statements say of one window agrees, and a streak is one.
StatsAgree == TotalsAgree /\ ShotsAgree /\ StreaksTrue
=============================================================================
