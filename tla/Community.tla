------------------------------- MODULE Community -------------------------------
(***************************************************************************)
(* The in-game messages of one server: welcomes for players a read shows as *)
(* new and a message when a round begins (community-state.ts, the worker of  *)
(* server-community.service.ts). Reads come at any distance and may fail; a   *)
(* map load shows nobody for a while; a send is saved, sent and confirmed     *)
(* while the process may stop.                                               *)
(***************************************************************************)
EXTENDS Integers, Sequences, FiniteSets

CONSTANTS Joiners,       \* SteamIDs
          LeaveGraceFor, \* LEAVE_GRACE_MS
          BaselineGap,   \* BASELINE_GAP_MS
          RoundHold,     \* ROUND_HOLD_MS
          WelcomeDelay, WelcomeSpacing, WelcomeLength, \* the configured welcome
          MessageTtl,    \* MESSAGE_TTL_MS
          MaxQueue,      \* MAX_QUEUE
          TickSteps,     \* bound: times between two reads
          LastTick       \* bound: time

ASSUME CommunityAssumption ==
  /\ {LeaveGraceFor, BaselineGap, RoundHold, WelcomeDelay, WelcomeSpacing, MessageTtl, LastTick} \subseteq Nat
  /\ BaselineGap < LeaveGraceFor /\ LeaveGraceFor <= RoundHold
  /\ WelcomeLength \in Nat \ {0} /\ MaxQueue \in Nat \ {0} /\ TickSteps \subseteq Nat \ {0}
  /\ IsFiniteSet(Joiners)

VARIABLES
  tickAt,    \* Date.now()
  state,     \* CommunityState: [lastAt, populated, present, roundAt, pendingRoundAt]
  queue,     \* [to, part, ready, expires]; part 0 is the round message
  listed,    \* players of this tick's read
  delivering, \* the message taken from the queue and how far its delivery is, or Nothing
  stopped,
  lastListed, \* history: [Joiners -> when a good read last listed the player]
  awaySince, \* history: [Joiners -> since the last welcome the player was gone for the leave grace,
             \*          or not in the first read of a baseline]
  sentParts, \* history: [Joiners -> [part, at] of the last message of the welcome]
  changes,   \* history: when reads since the baseline showed a changed round, and
  usedAt,    \* the change that the last round message was for
  faults     \* history: messages that should not have been sent

communityVars == <<tickAt, state, queue, listed, delivering, stopped, lastListed, awaySince,
                   sentParts, changes, usedAt, faults>>
history == <<lastListed, awaySince, changes, usedAt>>

NotEver == 0 - 9
Nothing == [step |-> "none"]
Done == [step |-> "done"] \* the message of this tick: MAX_SENDS_PER_TICK is 1
Initial == [lastAt |-> NotEver, populated |-> FALSE, present |-> [p \in Joiners |-> NotEver],
            roundAt |-> NotEver, pendingRoundAt |-> NotEver]

CommunityInit ==
  /\ tickAt = 0 /\ state = Initial /\ queue = <<>> /\ listed = {} /\ delivering = Nothing /\ stopped = FALSE
  /\ lastListed = [p \in Joiners |-> NotEver] /\ awaySince = [p \in Joiners |-> TRUE]
  /\ sentParts = [p \in Joiners |-> [part |-> 0, at |-> 0]] /\ changes = {} /\ usedAt = NotEver /\ faults = {}

Message(to, part, ready) == [to |-> to, part |-> part, ready |-> ready, expires |-> ready + MessageTtl]
If(condition, name) == IF condition THEN {name} ELSE {}

-----------------------------------------------------------------------------
(* observeCommunity *)

\* Mutant: only the first read is a baseline.
BaselineOnce(now) == state.lastAt = NotEver
Baseline(now) == state.lastAt = NotEver \/ now - state.lastAt > BaselineGap
InTransition(now) == state.roundAt # NotEver /\ now - state.roundAt <= RoundHold
Present(now) ==
  {p \in Joiners : state.present[p] # NotEver /\ (InTransition(now) \/ now - state.present[p] < LeaveGraceFor)}

\* A long map load is not a new set of joins.
Returning(now) == InTransition(now) /\ (state.pendingRoundAt # NotEver \/ ~state.populated)
Joined(ids, changed, now) == IF Returning(now) \/ changed THEN {} ELSE ids \ Present(now)

\* Mutant: every change of the round asks for its own message.
PendingAgain(changed, ids, now) == IF changed THEN now ELSE state.pendingRoundAt
\* A score reset followed by map travel is one transition.
Begins(changed, ids, now) ==
  /\ changed /\ (state.populated \/ Present(now) \cup ids # {})
  /\ state.roundAt = NotEver \/ now - state.roundAt >= LeaveGraceFor
Pending(changed, ids, now) ==
  IF Begins(changed, ids, now) THEN now
  ELSE IF state.pendingRoundAt # NotEver /\ now - state.pendingRoundAt > RoundHold THEN NotEver
  ELSE state.pendingRoundAt
Round(changed, ids, now) == Pending(changed, ids, now) # NotEver /\ ids # {}

Observed(ids, changed, now) ==
  [lastAt |-> now, populated |-> ids # {},
   present |-> [p \in Joiners |-> IF p \in ids THEN now
                                  ELSE IF ~Baseline(now) /\ p \in Present(now) THEN state.present[p] ELSE NotEver],
   roundAt |-> IF Baseline(now) THEN NotEver ELSE IF Begins(changed, ids, now) THEN now ELSE state.roundAt,
   pendingRoundAt |-> IF Baseline(now) \/ Round(changed, ids, now) THEN NotEver ELSE Pending(changed, ids, now)]

-----------------------------------------------------------------------------
(* The worker *)

Idle == delivering \in {Nothing, Done} /\ ~stopped

\* A failed read starts over: nothing queued survives what was not observed.
TickReadFails == \E step \in TickSteps :
  /\ Idle /\ tickAt + step <= LastTick /\ tickAt' = tickAt + step
  /\ state' = Initial /\ queue' = <<>> /\ listed' = {} /\ changes' = {} /\ usedAt' = NotEver
  /\ delivering' = Nothing /\ UNCHANGED <<stopped, lastListed, awaySince, sentParts, faults>>

\* The queue keeps what is neither expired nor for a player who is not listed, in its order.
InOrder(places) == CHOOSE s \in [1 .. Cardinality(places) -> places] : \A i, j \in DOMAIN s : i < j => s[i] < s[j]
Selected(places) == [n \in DOMAIN InOrder(places) |-> queue[InOrder(places)[n]]]
StillWanted(ids, now) ==
  IF Baseline(now) THEN <<>>
  ELSE Selected({i \in 1 .. Len(queue) : queue[i].expires > now /\ (queue[i].part = 0 \/ queue[i].to \in ids)})

\* enqueue: a full queue drops its end.
Bounded(messages) == SubSeq(messages, 1, IF Len(messages) > MaxQueue THEN MaxQueue ELSE Len(messages))
\* The round's message comes first; a welcome is asked for each player who joined, in the roster's order.
Rosters(ids) == {order \in [1 .. Cardinality(ids) -> ids] : \A i, j \in DOMAIN order : order[i] = order[j] => i = j}
Asks(old, round, order, now) ==
  Bounded((IF round THEN <<Message(CHOOSE p \in Joiners : TRUE, 0, now)>> ELSE <<>>)
          \o old \o [n \in DOMAIN order |-> Message(order[n], 1, now + WelcomeDelay)])

\* History: the changes of the round that were shown, and those that a message may still be for.
ShownChanges(changed, now) == IF Baseline(now) THEN {} ELSE changes \cup If(changed, now)
Unanswered(changed, now) ==
  {c \in ShownChanges(changed, now) : (usedAt = NotEver \/ c >= usedAt + LeaveGraceFor) /\ now - c <= RoundHold}
Used(fits, round, now) ==
  IF Baseline(now) THEN NotEver
  ELSE IF round /\ fits # {} THEN CHOOSE c \in fits : \A d \in fits : c <= d ELSE usedAt

ReadRosterNow == \E step \in TickSteps, ids \in SUBSET Joiners, changed \in BOOLEAN :
  LET now == tickAt + step
      round == ~Baseline(now) /\ Round(changed, ids, now)
      joined == IF Baseline(now) THEN {} ELSE Joined(ids, changed, now)
      fits == Unanswered(changed, now) IN
  /\ Idle /\ now <= LastTick /\ tickAt' = now
  /\ state' = Observed(ids, changed, now) /\ listed' = ids
  /\ \E order \in Rosters(joined) : queue' = Asks(StillWanted(ids, now), round, order, now)
  /\ awaySince' = [p \in Joiners |->
       \/ awaySince[p] \/ (Baseline(now) /\ p \notin ids)
       \/ lastListed[p] # NotEver /\ now - lastListed[p] >= LeaveGraceFor]
  /\ lastListed' = [p \in Joiners |-> IF p \in ids THEN now ELSE lastListed[p]]
  /\ changes' = ShownChanges(changed, now) /\ usedAt' = Used(fits, round, now)
  /\ faults' = faults \cup If(round /\ fits = {}, "round twice")
  /\ delivering' = Nothing /\ UNCHANGED <<stopped, sentParts>>

\* deliver: one ready message is taken and its receipt started.
Ready == {i \in 1 .. Len(queue) : queue[i].ready <= tickAt /\ queue[i].expires > tickAt}
Take ==
  /\ Idle /\ delivering = Nothing /\ Ready # {} /\ state.lastAt = tickAt
  /\ LET i == CHOOSE i \in Ready : \A j \in Ready : i <= j IN
     /\ queue' = SubSeq(queue, 1, i - 1) \o SubSeq(queue, i + 1, Len(queue))
     /\ delivering' = [step |-> "beginning", message |-> queue[i]]
  /\ UNCHANGED <<tickAt, state, listed, stopped, lastListed, awaySince, sentParts, changes, usedAt, faults>>

\* Mutant: a stop while the receipt is saved is not noticed.
StopUnnoticed == FALSE
StopNoticed == stopped
\* The receipt is saved: the message is sent, unless the process is stopping.
Begun ==
  /\ delivering.step = "beginning"
  /\ LET m == delivering.message
         last == sentParts[m.to] IN
     IF StopNoticed THEN delivering' = Done /\ UNCHANGED <<awaySince, sentParts, faults>>
     ELSE /\ delivering' = [delivering EXCEPT !.step = "sending"]
          /\ sentParts' = IF m.part = 0 THEN sentParts
                           ELSE [sentParts EXCEPT ![m.to] = [part |-> m.part, at |-> tickAt]]
          /\ awaySince' = IF m.part = 1 THEN [awaySince EXCEPT ![m.to] = FALSE] ELSE awaySince
          /\ faults' = faults \cup If(stopped, "after stop") \cup If(m.part = 1 /\ ~awaySince[m.to], "welcomed twice")
                        \cup If(m.part > 1 /\ (last.part # m.part - 1 \/ tickAt - last.at < WelcomeSpacing),
                                "out of order")
                        \cup If(m.part > 0 /\ m.to \notin listed, "gone")
  /\ UNCHANGED <<tickAt, state, queue, listed, stopped, lastListed, changes, usedAt>>

\* The receipt could not be saved, or a request with its ID exists: nothing is sent.
NotBegun == /\ delivering.step = "beginning" /\ delivering' = Done
            /\ UNCHANGED <<tickAt, state, queue, listed, stopped, history, sentParts, faults>>

\* Mutant: the rest of a welcome follows whatever became of the message before.
FollowsAlways(confirmed) == TRUE
Follows(confirmed) == confirmed
\* The game answers; only a confirmed message is followed by the next of its welcome. A send may take time.
SendAnswered == \E confirmed \in BOOLEAN, step \in {0} \cup TickSteps :
  /\ delivering.step = "sending" /\ tickAt + step <= LastTick
  /\ tickAt' = tickAt + step /\ delivering' = Done
  /\ LET m == delivering.message
         follows == Follows(confirmed) /\ ~stopped /\ m.part \in 1 .. WelcomeLength - 1 IN
     /\ queue' = IF follows THEN Bounded(Append(queue, Message(m.to, m.part + 1, tickAt + step + WelcomeSpacing)))
                 ELSE queue
     /\ sentParts' = IF confirmed \/ m.part = 0 THEN sentParts ELSE [sentParts EXCEPT ![m.to].part = WelcomeLength + 1]
  /\ UNCHANGED <<state, listed, stopped, history, faults>>

Stop == /\ ~stopped /\ stopped' = TRUE /\ queue' = <<>>
        /\ UNCHANGED <<tickAt, state, listed, delivering, history, sentParts, faults>>

CommunityNext == TickReadFails \/ ReadRosterNow \/ Take \/ Begun \/ NotBegun \/ SendAnswered \/ Stop
CommunitySpec == CommunityInit /\ [][CommunityNext]_communityVars

-----------------------------------------------------------------------------
(* Properties *)

CommunityTypeOK ==
  /\ tickAt \in 0 .. LastTick /\ Len(queue) <= MaxQueue /\ listed \subseteq Joiners /\ stopped \in BOOLEAN
  /\ \A i \in 1 .. Len(queue) : queue[i].to \in Joiners /\ queue[i].part \in 0 .. WelcomeLength

\* A player who stayed is welcomed once, through failed reads, restarts of the baseline and map loads: again
\* only after the leave grace, or when the first read of a baseline did not list the player. The parts of a
\* welcome come in order, spaced, each after the one before was confirmed and to a listed player; a transition
\* gets one round message; nothing is sent once the process stops.
MessagesFit == faults = {}
=============================================================================
