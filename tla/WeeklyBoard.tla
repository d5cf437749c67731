----------------------------- MODULE WeeklyBoard -----------------------------
(* The weekly leaderboard of one server: the schedule and an administrator both  *)
(* evaluate the last completed week, look for its marker in the channel, claim   *)
(* it in memory and send once. Claims are lost with the process; what is in the  *)
(* channel stays. The times of the slots are the second half of the module.      *)
EXTENDS Integers, FiniteSets

CONSTANTS LastWeek,    \* bound: weeks
          MaxStarts,   \* bound: processes
          Admins,      \* requests of administrators, one process each
          StandardTime, SummerTime, \* offsets of New York, in hours
          WeekHours    \* hours of a week

ASSUME BoardAssumption == {LastWeek, MaxStarts, WeekHours} \subseteq Nat \ {0}

VARIABLES
  week, late,  \* the last slot that passed, and whether the catch-up hours after it are over
  enabled, stopping, starts, \* the process: its setting, its shutdown, how many there were
  decided, refused, \* the claims and the refusals it remembers, by week
  checks,      \* [Callers -> [step, week, found]]
  inFlight,    \* weeks with a send nobody waits for any more, which Discord may still take
  channel,     \* [Weeks -> messages with the week's marker]
  remembered,  \* weeks whose nonce Discord still remembers
  doubted, tried, \* history of this process: weeks with an unknown send, weeks the schedule sent
  amiss        \* history: what must not happen

boardVars == <<week, late, enabled, stopping, starts, decided, refused, checks, inFlight, channel,
               remembered, doubted, tried, amiss>>

Callers == Admins \cup {"schedule"}
Weeks == 1 .. LastWeek
Resting == [step |-> "idle", week |-> 0, found |-> "no"]
SetCheck(c, value) == checks' = [checks EXCEPT ![c] = value]
CheckEnds(c) == SetCheck(c, Resting)

BoardInit ==
  /\ week = 1 /\ late \in BOOLEAN /\ enabled \in BOOLEAN /\ stopping = FALSE /\ starts = 1
  /\ decided = {} /\ refused = {} /\ checks = [c \in Callers |-> Resting] /\ inFlight = {}
  /\ channel = [w \in Weeks |-> 0] /\ remembered = {} /\ doubted = {} /\ tried = {} /\ amiss = {}

boardWorld == <<week, late, enabled, stopping, starts>>
boardMemory == <<decided, refused>>
boardDiscord == <<inFlight, channel, remembered>>
boardHistory == <<doubted, tried, amiss>>

-----------------------------------------------------------------------------
(* The week and the process *)

TimeGoesOn ==
  /\ IF late THEN week < LastWeek /\ week' = week + 1 /\ late' = FALSE
             ELSE late' = TRUE /\ UNCHANGED week
  /\ UNCHANGED <<enabled, stopping, starts, boardMemory, checks, boardDiscord, boardHistory>>

StopBoard ==
  /\ ~stopping /\ stopping' = TRUE
  /\ UNCHANGED <<week, late, enabled, starts, boardMemory, checks, boardDiscord, boardHistory>>

\* The next process knows nothing of the last one, whose requests may still arrive.
StartBoard ==
  /\ starts < MaxStarts /\ starts' = starts + 1 /\ stopping' = FALSE /\ enabled' \in BOOLEAN
  /\ inFlight' = inFlight \cup {checks[c].week : c \in {d \in Callers : checks[d].step = "sending"}}
  /\ decided' = {} /\ refused' = {} /\ checks' = [c \in Callers |-> Resting] /\ doubted' = {} /\ tried' = {}
  /\ UNCHANGED <<week, late, channel, remembered, amiss>>

-----------------------------------------------------------------------------
(* scheduled, post: the first checks, then the evaluation, which reads the storage *)

ScheduleChecks ==
  LET w == week
      handled == w \in decided \cup refused IN
  /\ checks["schedule"].step = "idle" /\ ~stopping /\ ~handled
  /\ IF ~enabled THEN decided' = decided \cup {w} /\ UNCHANGED checks
     ELSE ~late /\ SetCheck("schedule", [step |-> "evaluating", week |-> w, found |-> "no"]) /\ UNCHANGED decided
  /\ UNCHANGED <<boardWorld, refused, boardDiscord, boardHistory>>

AdminPosts(c) ==
  /\ checks[c].step = "idle" /\ enabled /\ week \notin decided
  /\ SetCheck(c, [step |-> "evaluating", week |-> week, found |-> "no"])
  /\ UNCHANGED <<boardWorld, boardMemory, boardDiscord, boardHistory>>

\* The week cannot be posted: the schedule settles it unless the storage failed.
Ineligible(c) ==
  /\ checks[c].step = "evaluating" /\ CheckEnds(c)
  /\ \E settled \in BOOLEAN :
       decided' = IF c = "schedule" /\ settled THEN decided \cup {checks[c].week} ELSE decided
  /\ UNCHANGED <<boardWorld, refused, boardDiscord, boardHistory>>

Eligible(c) ==
  /\ checks[c].step = "evaluating" /\ SetCheck(c, [checks[c] EXCEPT !.step = "looking"])
  /\ UNCHANGED <<boardWorld, boardMemory, boardDiscord, boardHistory>>

-----------------------------------------------------------------------------
(* deliver *)

\* The channel as Discord shows it at this moment.
LookForMarker(c) ==
  /\ checks[c].step = "looking"
  /\ SetCheck(c, [checks[c] EXCEPT !.step = "looked", !.found = IF channel[checks[c].week] > 0 THEN "yes" ELSE "no"])
  /\ UNCHANGED <<boardWorld, boardMemory, boardDiscord, boardHistory>>

\* Discord or the channel cannot be used, or a page is not read; too much history settles the week.
MarkerUnread(c) ==
  /\ checks[c].step = "looking" /\ CheckEnds(c)
  /\ \E settled \in BOOLEAN : decided' = IF settled THEN decided \cup {checks[c].week} ELSE decided
  /\ UNCHANGED <<boardWorld, refused, boardDiscord, boardHistory>>

MarkerFound(c) ==
  /\ checks[c].step = "looked" /\ checks[c].found = "yes"
  /\ decided' = decided \cup {checks[c].week} /\ CheckEnds(c)
  /\ UNCHANGED <<boardWorld, refused, boardDiscord, boardHistory>>

\* Mutant: the claims are not looked at again after the channel was read.
TakenBefore(c) == stopping
Taken(c) == \/ checks[c].week \in decided \/ stopping
            \/ c = "schedule" /\ checks[c].week \in refused

Overtaken(c) ==
  /\ checks[c].step = "looked" /\ checks[c].found = "no" /\ Taken(c) /\ CheckEnds(c)
  /\ UNCHANGED <<boardWorld, boardMemory, boardDiscord, boardHistory>>

\* Mutant: the claim is made when the send is over.
ClaimSent(w) == UNCHANGED decided
ClaimWeek(w) == decided' = decided \cup {w}
ClaimAndSend(c) ==
  LET w == checks[c].week IN
  /\ checks[c].step = "looked" /\ checks[c].found = "no" /\ ~Taken(c)
  /\ ClaimWeek(w) /\ refused' = refused \ {w}
  /\ SetCheck(c, [checks[c] EXCEPT !.step = "sending"])
  /\ amiss' = amiss \cup (IF w \in doubted THEN {"after doubt"} ELSE {})
                    \cup (IF c = "schedule" /\ w \in tried THEN {"tried again"} ELSE {})
  /\ tried' = IF c = "schedule" THEN tried \cup {w} ELSE tried
  /\ UNCHANGED <<boardWorld, boardDiscord, doubted>>

\* Discord: a message whose nonce it remembers is the one that is there.
Arrives(w) == /\ channel' = IF w \in remembered THEN channel ELSE [channel EXCEPT ![w] = @ + 1]
              /\ remembered' = remembered \cup {w}

SendPosted(c) ==
  /\ checks[c].step = "sending" /\ Arrives(checks[c].week) /\ CheckEnds(c)
  /\ decided' = decided \cup {checks[c].week}
  /\ UNCHANGED <<boardWorld, refused, inFlight, boardHistory>>

\* Mutant: every send that was not confirmed gives the week back.
ReleasesUnconfirmed(result) == TRUE
ReleasesWeek(result) == result = "failed"

SendNotPosted(c) ==
  LET w == checks[c].week IN
  /\ checks[c].step = "sending" /\ CheckEnds(c)
  /\ \E result \in {"failed", "unknown"} :
       /\ IF ReleasesWeek(result) THEN decided' = decided \ {w} /\ refused' = refused \cup {w}
                              ELSE decided' = decided \cup {w} /\ UNCHANGED refused
       /\ inFlight' = IF result = "unknown" THEN inFlight \cup {w} ELSE inFlight
       /\ doubted' = IF result = "unknown" THEN doubted \cup {w} ELSE doubted
  /\ UNCHANGED <<boardWorld, channel, remembered, tried, amiss>>

\* Discord: a send without an answer arrives or is lost; the nonce is kept longer than requests last.
LateSend(w) ==
  /\ w \in inFlight /\ inFlight' = inFlight \ {w}
  /\ Arrives(w) \/ UNCHANGED <<channel, remembered>>
  /\ UNCHANGED <<boardWorld, boardMemory, checks, boardHistory>>
NonceForgotten(w) ==
  /\ w \in remembered \ inFlight /\ \A c \in Callers : checks[c].week = w => checks[c].step \notin {"looked", "sending"}
  /\ remembered' = remembered \ {w}
  /\ UNCHANGED <<boardWorld, boardMemory, checks, inFlight, channel, boardHistory>>

BoardNext ==
  \/ TimeGoesOn \/ StopBoard \/ StartBoard \/ ScheduleChecks
  \/ \E w \in Weeks : LateSend(w) \/ NonceForgotten(w)
  \/ \E c \in Admins : AdminPosts(c)
  \/ \E c \in Callers : Ineligible(c) \/ Eligible(c) \/ LookForMarker(c) \/ MarkerUnread(c) \/ MarkerFound(c)
                        \/ Overtaken(c) \/ ClaimAndSend(c) \/ SendPosted(c) \/ SendNotPosted(c)
BoardSpec == BoardInit /\ [][BoardNext]_boardVars

-----------------------------------------------------------------------------
(* weekly-schedule.ts: hours since an instant; the clocks change at the hour given *)

Offset(t, change, before, after) == IF t < change THEN before ELSE after
WallTime(t, change, before, after) == t + Offset(t, change, before, after)
\* Mutant: the offset of the wall time read as if it were UTC.
OneOffset(wall, change, before, after) == wall - Offset(wall, change, before, after)
ToUtc(wall, change, before, after) ==
  wall - Offset(wall - Offset(wall, change, before, after), change, before, after)
\* The slot of the week's hour at or before now: back to the day, a week earlier if that is to come.
LatestSlot(now, at, change, before, after) ==
  LET wall == WallTime(now, change, before, after)
      days == ((wall \div 24) - (at \div 24)) % (WeekHours \div 24)
      day == wall \div 24 - days
      slot == ToUtc(24 * day + (at % 24), change, before, after)
      slotDay == WallTime(slot, change, before, after) \div 24 IN
  IF slot <= now THEN slot ELSE ToUtc(24 * slotDay - WeekHours + (at % 24), change, before, after)

-----------------------------------------------------------------------------
(* Properties *)

BoardTypeOK ==
  /\ week \in Weeks /\ starts \in 1 .. MaxStarts /\ decided \cup refused \cup inFlight \cup remembered \subseteq Weeks
  /\ \A c \in Callers : checks[c].step \in {"idle", "evaluating", "looking", "looked", "sending"}

\* A week is in the channel at most once, through the schedule and administrators at the same time,
\* refusals, unknown sends, restarts and sends of a process that is gone. A process sends nothing for
\* a week after an unknown send, and its schedule sends once (docs/guides/WEEKLY_LEADERBOARD.md).
WeekPostedOnce == (\A w \in Weeks : channel[w] <= 1) /\ amiss = {}

\* Around a change of the clocks the slot is still the last instant whose New York wall time is the
\* configured one, for every hour of the week but 01:00-02:59.
SlotsExact ==
  \A offsets \in {<<StandardTime, SummerTime>>, <<SummerTime, StandardTime>>},
     at \in {h \in 0 .. WeekHours - 1 : h % 24 \notin {1, 2}},
     now \in (2 * WeekHours - 30) .. (3 * WeekHours + 30) :
    LET change == 2 * WeekHours + 2 - offsets[1]  \* at two o'clock by the wall time that ends
        slot == LatestSlot(now, at, change, offsets[1], offsets[2])
        OnTime(t) == WallTime(t, change, offsets[1], offsets[2]) % WeekHours = at IN
    slot <= now /\ OnTime(slot) /\ \A t \in slot + 1 .. now : ~OnTime(t)
=============================================================================
