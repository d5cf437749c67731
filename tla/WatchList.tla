------------------------------- MODULE WatchList -------------------------------
(***************************************************************************)
(* Staff alerts about players on the watch list or kicked often            *)
(* (watchJoins and checkWatchlist of staff-alerts.monitor.ts). Players come  *)
(* and go, reads fail, a map load shows an empty roster, a source fails, and *)
(* one alert a player is wanted for each time they join.                     *)
(***************************************************************************)
EXTENDS Integers, FiniteSets

CONSTANTS Watched,     \* SteamIDs on the list
          LeaveGrace,  \* LEAVE_GRACE_MS
          MapHold,     \* ROUND_HOLD_MS
          StaleAfter,  \* WATCH_STALE_MS
          AgainAfter,  \* cooldownMinutes
          ReadSteps,   \* bound: times between two reads
          LastWatch    \* bound: time

ASSUME WatchAssumption ==
  /\ {LeaveGrace, MapHold, StaleAfter, AgainAfter, LastWatch} \subseteq Nat /\ ReadSteps \subseteq Nat \ {0}
  /\ LeaveGrace <= MapHold /\ MapHold <= StaleAfter

VARIABLES
  watchAt,    \* the time of the last read
  online,     \* the game: players on the server
  loadedAt,   \* the game: when the map load began that still hides the roster, or NoTime
  watchSeen,  \* [Watched -> when a good read last listed the player, or NoTime]
  bootAt,     \* the first good read, or NoTime
  bootChecked,
  told,       \* raised: [Watched -> when a join was last posted, or NoTime]
  visit,      \* history: [Watched -> [from, posts, shown, listed, before]]: shown first and
              \* listed last by a good read of the player's present or last visit
  lookupFailed \* history: [Watched -> a source failed when the player was offered]

watchVars == <<watchAt, online, loadedAt, watchSeen, bootAt, bootChecked, told, visit, lookupFailed>>

NoTime == 0 - 9

WatchInit ==
  /\ watchAt = 0 /\ online \in SUBSET Watched /\ loadedAt \in {NoTime, 0}
  /\ watchSeen = [p \in Watched |-> NoTime] /\ bootAt = NoTime /\ bootChecked = FALSE
  /\ told = [p \in Watched |-> NoTime] /\ lookupFailed = [p \in Watched |-> FALSE]
  /\ visit = [p \in Watched |-> [from |-> 0 - 1, posts |-> 0, shown |-> NoTime, listed |-> NoTime, before |-> NoTime]]

-----------------------------------------------------------------------------
(* The game between two reads *)

\* History: a visit no read has listed yet.
NewVisit(v) ==
  [from |-> watchAt, posts |-> 0, shown |-> NoTime, listed |-> NoTime,
   before |-> IF v.listed = NoTime THEN v.before ELSE v.listed]

Arrive == \E p \in Watched \ online :
  /\ online' = online \cup {p} /\ loadedAt = NoTime
  /\ visit' = [visit EXCEPT ![p] = NewVisit(visit[p])]
  /\ lookupFailed' = [lookupFailed EXCEPT ![p] = FALSE]
  /\ UNCHANGED <<watchAt, loadedAt, watchSeen, bootAt, bootChecked, told>>
Depart == \E p \in online : /\ online' = online \ {p} /\ loadedAt = NoTime
                            /\ UNCHANGED <<watchAt, loadedAt, watchSeen, bootAt, bootChecked, told, visit, lookupFailed>>
\* A map load begins in front of a roster that was read.
MapLoads == /\ loadedAt = NoTime /\ loadedAt' = watchAt /\ \A p \in online : visit[p].listed = watchAt
            /\ UNCHANGED <<watchAt, online, watchSeen, bootAt, bootChecked, told, visit, lookupFailed>>
MapLoaded == /\ loadedAt # NoTime /\ loadedAt' = NoTime
             /\ UNCHANGED <<watchAt, online, watchSeen, bootAt, bootChecked, told, visit, lookupFailed>>

-----------------------------------------------------------------------------
(* The worker *)

\* Mutant: an empty roster ends a visit as fast as a populated one.
GraceShort(ids) == LeaveGrace
Grace(ids) == IF ids = {} THEN MapHold ELSE LeaveGrace

\* watchJoins: everyone listed now who was in no recent read.
Fresh(ids, now) == {p \in ids : watchSeen[p] = NoTime \/ now - watchSeen[p] > StaleAfter}
Seen(ids, now) ==
  [p \in Watched |-> IF p \in ids THEN now ELSE IF now - watchSeen[p] > Grace(ids) THEN NoTime ELSE watchSeen[p]]

\* Mutant: after an empty first read the start is over.
StartedClosed(now) == ~bootChecked /\ bootAt = NoTime
\* Players who may have been online when the process started: recorded only.
AtStart(now) == ~bootChecked /\ (bootAt = NoTime \/ now - bootAt < MapHold)

ReadFailed == \E step \in ReadSteps :
  /\ watchAt + step <= LastWatch /\ (loadedAt = NoTime \/ watchAt + step - loadedAt <= MapHold)
  /\ watchAt' = watchAt + step
  /\ UNCHANGED <<online, loadedAt, watchSeen, bootAt, bootChecked, told, visit, lookupFailed>>

\* checkWatchlist: a failed lookup is skipped; the next join asks again.
JoinsPosted(ids, found, now) ==
  {p \in Fresh(ids, now) : found /\ ~AtStart(now) /\ (told[p] = NoTime \/ now - told[p] >= AgainAfter)}

\* History: a good read lists a player; one no read listed for so long counts as gone in between.
Ongoing(v, now) == IF v.listed = NoTime \/ now - v.listed <= StaleAfter THEN v ELSE NewVisit(v)
ListedNow(v, now, posts) ==
  [v EXCEPT !.listed = now, !.shown = IF @ = NoTime THEN now ELSE @, !.posts = @ + posts]

\* observed, then checkWatchlist.
ReadRoster == \E step \in ReadSteps, found \in BOOLEAN :
  LET now == watchAt + step
      ids == IF loadedAt = NoTime THEN online ELSE {}
      posts == JoinsPosted(ids, found, now) IN
  /\ now <= LastWatch /\ (loadedAt = NoTime \/ now - loadedAt <= MapHold)
  /\ watchAt' = now /\ watchSeen' = Seen(ids, now)
  /\ bootAt' = IF bootAt = NoTime THEN now ELSE bootAt
  /\ bootChecked' = (bootChecked \/ ~AtStart(now) \/ (bootAt = NoTime /\ ids # {}))
  /\ told' = [p \in Watched |-> IF p \in posts THEN now ELSE told[p]]
  /\ lookupFailed' = [p \in Watched |-> IF p \in Fresh(ids, now) THEN ~found ELSE lookupFailed[p]]
  /\ visit' = [p \in Watched |->
                 IF p \notin ids THEN visit[p]
                 ELSE ListedNow(Ongoing(visit[p], now), now, IF p \in posts THEN 1 ELSE 0)]
  /\ UNCHANGED <<online, loadedAt>>

WatchNext == Arrive \/ Depart \/ MapLoads \/ MapLoaded \/ ReadFailed \/ ReadRoster
WatchSpec == WatchInit /\ [][WatchNext]_watchVars

-----------------------------------------------------------------------------
(* Properties *)

WatchTypeOK ==
  /\ watchAt \in 0 .. LastWatch /\ online \subseteq Watched /\ bootChecked \in BOOLEAN
  /\ \A p \in Watched : watchSeen[p] \in {NoTime} \cup 0 .. LastWatch /\ told[p] \in {NoTime} \cup 0 .. LastWatch

\* One visit is posted at most once, through failed reads and map loads, unless no read listed the player for
\* so long that they count as gone; one that began before the process did is never posted if a read showed the
\* player within a map load's time of the first.
OncePerVisit ==
  \A p \in Watched : /\ visit[p].posts <= 1
                      /\ (visit[p].from = 0 - 1 /\ visit[p].shown < bootAt + MapHold => visit[p].posts = 0)

\* A player who joined after the start, whom no read listed for longer than the grace before and whose lookup
\* worked, was posted for this visit or within the cooldown.
JoinsTold ==
  \A p \in online :
    (/\ visit[p].listed # NoTime /\ ~lookupFailed[p] /\ bootAt # NoTime
     /\ visit[p].from > bootAt + MapHold
     /\ visit[p].before = NoTime \/ visit[p].from - visit[p].before > StaleAfter)
      => told[p] # NoTime /\ (told[p] >= visit[p].shown \/ visit[p].shown - told[p] < AgainAfter)

\* Staff hear of each join of a watched player once.
WatchedOnce == OncePerVisit /\ JoinsTold
=============================================================================
