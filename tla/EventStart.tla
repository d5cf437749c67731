----------------------------- MODULE EventStart -----------------------------
(***************************************************************************)
(* How a 50v50 begins (server-events.service.ts start, startFromVote, voteEventReadiness;      *)
(* events-page.tsx), and whether the one who answers for it is still an administrator when the  *)
(* worker acts. An administrator fills in a draft, reviews it and sends it once; a ballot that  *)
(* 50v50 won starts it under the ballot's own ID, again after a crash, never two at a time      *)
(* (MapVotes, Sending). Everything a start reads may change before its row is inserted.         *)
(* What the event then does is ServerEvents. At most HistoryLimit events are ever kept here,    *)
(* as many as the cooldown looks through.                                                       *)
(***************************************************************************)
EXTENDS Integers, Sequences, FiniteSets, PageRead

CONSTANTS
  Dialogs,       \* drafts of administrators on the Events page
  Ballots,       \* automatic ballots, each of its own round
  Cooldown,      \* normal rounds before 50v50 is offered again
  AccessGrace,   \* how long a confirmed administrator may be taken for one while Discord is out
  HistoryLimit,  \* bound: events
  MaxRevision    \* bound: edits of the settings

ASSUME StartBounds ==
  /\ Cooldown \in Nat /\ AccessGrace \in Nat /\ HistoryLimit \in Nat /\ MaxRevision \in Nat \ {0}

\* A ballot's event has the ballot's ID, a dialog's the ID of its request.
ASSUME StartKinds == Dialogs \cap Ballots = {}

VARIABLES
  serverSettings,  \* the settings' revision and team lock
  events,          \* every event of the server, oldest first
  ballotsOpened,   \* the ballots opened, with or without 50v50
  begin,           \* each start: how far it is, and the settings and events it read
  told,            \* what each start was told
  settings,        \* each draft's read of the settings
  pinned,          \* the revision a draft was begun with; 0 before its first change
  review,          \* what was reviewed
  confirmed,       \* age of the worker's remembered confirmation; above AccessGrace there is none of use
  doubt            \* history: the last answer of Discord to the worker was a refusal; acted on one

startVars == <<serverSettings, events, ballotsOpened, begin, told, settings, pinned, review, confirmed, doubt>>

NoOne == "none"
EventStarts == Dialogs \cup Ballots
SettingsReads == [rev : 1..MaxRevision, lock : BOOLEAN]
Begins == [at : {"idle", "asked", "looked", "read", "ready", "done"}, rev : 0..MaxRevision, lock : BOOLEAN]
NotBegun == [at |-> "idle", rev |-> 0, lock |-> FALSE]
NoReview == [rev |-> 0, lock |-> FALSE]

Current == {i \in 1..Len(events) : events[i].state # "complete"}
Recorded(id) == {i \in 1..Len(events) : events[i].id = id}
VoteEvents == {i \in 1..Len(events) : events[i].id \in Ballots}

StartTypeOK ==
  /\ serverSettings \in SettingsReads
  /\ events \in Seq([id : EventStarts, lock : BOOLEAN, state : {"going", "review", "complete"}, mark : Nat])
  /\ ballotsOpened \in Seq([id : Ballots, offered : BOOLEAN])
  /\ begin \in [EventStarts -> Begins] /\ told \in [EventStarts -> {NoOne, "started", "refused"}]
  /\ settings \in [Dialogs -> PageReads(SettingsReads)]
  /\ pinned \in [Dialogs -> 0..MaxRevision] /\ review \in [Dialogs -> SettingsReads \cup {NoReview}]
  /\ confirmed \in 0..AccessGrace + 1
  /\ doubt \in [refused : BOOLEAN, acted : BOOLEAN]

StartInit ==
  /\ serverSettings = [rev |-> 1, lock |-> TRUE]
  /\ events = <<>> /\ ballotsOpened = <<>>
  /\ begin = [s \in EventStarts |-> NotBegun] /\ told = [s \in EventStarts |-> NoOne]
  /\ settings = [d \in Dialogs |-> FirstRead]
  /\ pinned = [d \in Dialogs |-> 0] /\ review = [d \in Dialogs |-> NoReview]
  /\ confirmed = AccessGrace + 1
  /\ doubt = [refused |-> FALSE, acted |-> FALSE]

----------------------------------------------------------------------------
\* The draft on the Events page.
\* It is offered while the list of events shows none unfinished; the list may be older than the events.
ReadSettings(d) ==
  /\ settings[d].asked
  /\ settings' = [settings EXCEPT ![d] = ShownNow(serverSettings)]
  /\ UNCHANGED <<serverSettings, events, ballotsOpened, begin, told, pinned, review, confirmed, doubt>>

\* Pages read again by themselves; the draft's button discards it and reads again.
RefreshPage(d) ==
  /\ begin[d].at = "idle" /\ ~settings[d].asked
  /\ settings' = [settings EXCEPT ![d] = AskedAgain(@)]
  /\ pinned' \in {pinned, [pinned EXCEPT ![d] = 0]}
  /\ UNCHANGED <<serverSettings, events, ballotsOpened, begin, told, review, confirmed, doubt>>

Drafting(d) == Shown(settings[d]) /\ review[d] = NoReview

Fill(d) ==
  /\ Drafting(d) /\ pinned[d] = 0
  /\ pinned' = [pinned EXCEPT ![d] = settings[d].data.rev]
  /\ UNCHANGED <<serverSettings, events, ballotsOpened, begin, told, settings, review, confirmed, doubt>>

\* "Review event" needs settings that have not changed since the draft was begun.
ReviewDraft(d) ==
  /\ Drafting(d) /\ Steady(settings[d]) /\ pinned[d] = settings[d].data.rev
  /\ review' = [review EXCEPT ![d] = settings[d].data]
  /\ UNCHANGED <<serverSettings, events, ballotsOpened, begin, told, settings, pinned, confirmed, doubt>>

\* "Arm event", once: it is never sent again, whatever the answer.
Arm(d) ==
  /\ review[d] # NoReview /\ begin[d].at = "idle"
  /\ begin' = [begin EXCEPT ![d] = [at |-> "asked", rev |-> review[d].rev, lock |-> FALSE]]
  /\ UNCHANGED <<serverSettings, events, ballotsOpened, told, settings, pinned, review, confirmed, doubt>>

----------------------------------------------------------------------------
\* Ballots: 50v50 is offered in one only after enough rounds without it.
Played ==
  LET last == CHOOSE i \in VoteEvents : \A j \in VoteEvents : j <= i
  IN  IF VoteEvents = {} THEN Cooldown ELSE Len(ballotsOpened) - events[last].mark

CooledDown == Played >= Cooldown
OfferAllowed == Current = {} /\ CooledDown

\* One ballot is unfinished at a time; one that 50v50 did not win, or was not in, ends without a start.
OpenBallot(v) ==
  /\ \A i \in 1..Len(ballotsOpened) : ballotsOpened[i].id # v /\ begin[ballotsOpened[i].id].at \in {"idle", "done"}
  /\ \E live \in BOOLEAN : ballotsOpened' = Append(ballotsOpened, [id |-> v, offered |-> live /\ OfferAllowed])
  /\ UNCHANGED <<serverSettings, events, begin, told, settings, pinned, review, confirmed, doubt>>

\* 50v50 won the ballot opened last; after a crash its recovery begins again.
VoteWon(v) ==
  /\ ballotsOpened # <<>> /\ ballotsOpened[Len(ballotsOpened)] = [id |-> v, offered |-> TRUE]
  /\ begin[v].at = "idle" /\ told[v] = NoOne
  /\ begin' = [begin EXCEPT ![v] = [at |-> "asked", rev |-> 0, lock |-> FALSE]]
  /\ UNCHANGED <<serverSettings, events, ballotsOpened, told, settings, pinned, review, confirmed, doubt>>

----------------------------------------------------------------------------
\* The start, on the server.
AnswerStart(s, what) ==
  /\ begin' = [begin EXCEPT ![s].at = "done"]
  /\ told' = [told EXCEPT ![s] = what]

\* An event under this ID was recorded by an earlier attempt: it is the answer.
Unaware(s) == FALSE
KnownEvent(s) == Recorded(s) # {}

FindEvent(s) ==
  /\ begin[s].at = "asked"
  /\ IF KnownEvent(s) THEN AnswerStart(s, "started")
     ELSE begin' = [begin EXCEPT ![s].at = "looked"] /\ UNCHANGED told
  /\ UNCHANGED <<serverSettings, events, ballotsOpened, settings, pinned, review, confirmed, doubt>>

\* A reviewed draft starts only on the settings it was reviewed with; a ballot reviewed none.
SettingsMatch(s) == s \in Ballots \/ begin[s].rev = serverSettings.rev

Configuration(s) ==
  /\ begin[s].at = "looked"
  /\ IF SettingsMatch(s) THEN /\ begin' = [begin EXCEPT
                                    ![s] = [at |-> "read", rev |-> serverSettings.rev, lock |-> serverSettings.lock]]
                            /\ UNCHANGED told
     ELSE AnswerStart(s, "refused")
  /\ UNCHANGED <<serverSettings, events, ballotsOpened, settings, pinned, review, confirmed, doubt>>

\* The round may not be live or its roster unsettled; a ballot also looks for an unfinished event.
Prepare(s) ==
  /\ begin[s].at = "read"
  /\ \/ /\ s \in Ballots => Current = {}
        /\ begin' = [begin EXCEPT ![s].at = "ready"] /\ UNCHANGED told
     \/ AnswerStart(s, "refused")
  /\ UNCHANGED <<serverSettings, events, ballotsOpened, settings, pinned, review, confirmed, doubt>>

\* What is recorded: the lock read with the settings, to be put back when the event ends.
NewEvent(s) == [id |-> s, lock |-> begin[s].lock, state |-> "going", mark |-> Len(ballotsOpened)]

\* The insert: one row per ID, and one unfinished event per server.
CreateEvent(s) ==
  /\ begin[s].at = "ready"
  /\ IF Current = {} /\ Recorded(s) = {}
       THEN /\ Len(events) < HistoryLimit
            /\ events' = Append(events, NewEvent(s))
            /\ AnswerStart(s, "started")
       ELSE AnswerStart(s, IF Recorded(s) # {} THEN "started" ELSE "refused") /\ UNCHANGED events
  /\ UNCHANGED <<serverSettings, ballotsOpened, settings, pinned, review, confirmed, doubt>>

\* The process dies before or after the insert and the answer is lost: a draft is not sent again, a
\* ballot is recovered.
CrashStart(s) ==
  /\ \/ begin[s].at \in {"asked", "looked", "read", "ready"}
     \/ s \in Ballots /\ told[s] = "started"
  /\ begin' = [begin EXCEPT ![s] = IF s \in Ballots THEN NotBegun ELSE [@ EXCEPT !.at = "done"]]
  /\ told' = [told EXCEPT ![s] = NoOne]
  /\ UNCHANGED <<serverSettings, events, ballotsOpened, settings, pinned, review, confirmed, doubt>>

----------------------------------------------------------------------------
\* The event and the game afterwards.
\* It needs a review, or it ends; either updates the row.
StateMoves == [going |-> {"review", "complete"}, review |-> {"complete"}]
EventMoves ==
  \E i \in Current : \E to \in StateMoves[events[i].state] :
    /\ events' = [events EXCEPT ![i].state = to, ![i].mark = Len(ballotsOpened)]
    /\ UNCHANGED <<serverSettings, ballotsOpened, begin, told, settings, pinned, review, confirmed, doubt>>

\* Settings saved by anyone.
GameChanges ==
  /\ serverSettings.rev < MaxRevision /\ serverSettings' = [rev |-> serverSettings.rev + 1, lock |-> ~serverSettings.lock]
  /\ UNCHANGED <<events, ballotsOpened, begin, told, settings, pinned, review, confirmed, doubt>>

\* Before anything is sent the worker asks Discord for the responsible administrator. A refusal forgets
\* the confirmation; with no answer a recent one is used.
Usable == confirmed <= AccessGrace
AccessForgotten == AccessGrace + 1

CheckAccess(answer) ==
  /\ \E i \in Current : events[i].state = "going"
  /\ confirmed' = CASE answer = "yes" -> 0 [] answer = "no" -> AccessForgotten [] OTHER -> confirmed
  /\ doubt' = [refused |-> answer = "no" \/ (answer = "outage" /\ doubt.refused),
               acted |-> doubt.acted \/ (answer = "outage" /\ Usable /\ doubt.refused)]
  /\ events' = IF answer # "no" THEN events
               ELSE [i \in DOMAIN events |-> IF i \in Current
                     THEN [events[i] EXCEPT !.state = "review", !.mark = Len(ballotsOpened)]
                     ELSE events[i]]
  /\ UNCHANGED <<serverSettings, ballotsOpened, begin, told, settings, pinned, review>>

AccessAges ==
  /\ Usable /\ confirmed' = confirmed + 1
  /\ UNCHANGED <<serverSettings, events, ballotsOpened, begin, told, settings, pinned, review, doubt>>

Drafts(d) == ReadSettings(d) \/ RefreshPage(d) \/ Fill(d) \/ ReviewDraft(d) \/ Arm(d)
Starting(s) == FindEvent(s) \/ Configuration(s) \/ Prepare(s) \/ CreateEvent(s) \/ CrashStart(s)

StartNext ==
  \/ \E d \in Dialogs : Drafts(d)
  \/ \E v \in Ballots : OpenBallot(v) \/ VoteWon(v)
  \/ \E s \in EventStarts : Starting(s)
  \/ EventMoves \/ GameChanges \/ AccessAges
  \/ \E answer \in {"yes", "no", "outage"} : CheckAccess(answer)
StartSpec == StartInit /\ [][StartNext]_startVars

----------------------------------------------------------------------------
\* A ballot is told its event started if it did and that it was refused if it never will, and each of the
\* ballot's attempts finds the same event.
VotesToldTrue ==
  \A v \in Ballots :
    /\ Cardinality(Recorded(v)) <= 1
    /\ told[v] = "started" => Recorded(v) # {}
    /\ told[v] = "refused" => Recorded(v) = {}

\* The team lock an event will put back is the one its administrator saw in the review.
LockReviewed == \A d \in Dialogs : \A i \in Recorded(d) : events[i].lock = review[d].lock

\* Between the end of a voted 50v50 and the ballot that starts the next, enough ballots had none.
Place(v) == CHOOSE i \in 1..Len(ballotsOpened) : ballotsOpened[i].id = v
EventCooldownKept ==
  \A i, j \in VoteEvents : i < j => Place(events[j].id) > events[i].mark + Cooldown

\* The worker never acts on a remembered confirmation that a later refusal took back.
ActsConfirmed == ~doubt.acted

\* Events begin as reviewed or voted, are reported as they are, and are run for an administrator.
EventsBegunTrue == VotesToldTrue /\ LockReviewed /\ EventCooldownKept /\ ActsConfirmed
=============================================================================
