-------------------------------- MODULE NextMap --------------------------------
(***************************************************************************)
(* What a server plays next: the saved rotation and the running row, the   *)
(* options an automatic ballot offers (map-votes/ballot-builder.ts), and   *)
(* the map-next of a ballot or of a person, planned from one reading and   *)
(* written under the document's revision (admin/server-configuration.ts).  *)
(* Rows count from 1. A selection is a map, its rules (experiences) and    *)
(* its look (lighting and layout).                                         *)
(***************************************************************************)
EXTENDS Integers, Sequences, FiniteSets, SequencesExt

CONSTANTS Rotations,  \* bound: the rotations staff save, sequences of selections
          Picks,      \* bound: the selections staff queue
          Policies,   \* bound: the voting controls, see BuildBallot
          MaxRounds,  \* bound: the number of rounds
          MaxEdits    \* bound: the number of saved changes

\* Rotations have rows, lists are sequences, and a ballot has at least two options.
ASSUME NextMapAssumption ==
  /\ MaxRounds \in Nat \ {0} /\ MaxEdits \in Nat
  /\ \A rows \in Rotations : rows # <<>> /\ rows \in Seq(Range(rows))
  /\ \A c \in Policies : c.pool \in Seq(Range(c.pool)) /\ c.count \in Nat /\ c.count >= 2

Nowhere == 0
NoPlan == [placement |-> "none"]
NoRequest == [stage |-> "none"]
NoPoll == [open |-> FALSE]

VARIABLES
  rotation,   \* the saved rows
  edits,      \* the revision of the document
  running,    \* the row that runs; Nowhere when the match was not started from the rotation
  playing,    \* the map that runs
  wraps,      \* after the last row, whether the game reports the first as next
  matches,    \* the number of the round
  gone,       \* maps the catalog no longer offers
  poll,       \* the open automatic ballot, or NoPoll
  past,       \* the running map of earlier ballots, newest first
  request,    \* the map-next being carried out, or NoRequest
  promised,   \* history: the choice that was written for the next round, if nothing changed since
  missed,     \* history: another row was played than the one promised
  shifted,    \* history: a map-next moved the row that ran when it was planned
  grown       \* history: a ballot lengthened the rotation it took its options from

gameSide == <<running, playing, wraps, matches>>
history == <<promised, missed, shifted, grown>>
nextVars == <<rotation, edits, gameSide, gone, poll, past, request, history>>

NextMapInit ==
  /\ rotation \in Rotations /\ running \in 1 .. Len(rotation) /\ playing = rotation[running].map
  /\ edits = 0 /\ wraps \in BOOLEAN /\ matches = 1 /\ gone = {} /\ poll = NoPoll /\ past = <<>>
  /\ request = NoRequest
  /\ promised = {} /\ missed = FALSE /\ shifted = FALSE /\ grown = FALSE

-----------------------------------------------------------------------------
(* planMapNext *)

\* Mutant: a wrap is assumed that the game has not reported.
WrapAssumed(rows, at, wrap) == IF at >= Len(rows) THEN 1 ELSE at + 1
\* The row played after the running one; past the end while no wrap is confirmed.
NextSlot(rows, at, wrap) ==
  IF at >= Len(rows) THEN IF wrap THEN 1 ELSE Len(rows) + 1 ELSE at + 1

Matching(rows, from, to, entry) == {i \in from .. to : rows[i] = entry}
First(S) == CHOOSE i \in S : \A j \in S : i <= j

\* Mutant: an earlier copy is moved like a later one.
AnyCopies(rows, at, entry) ==
  IF at < Len(rows) THEN Matching(rows, 1, Len(rows), entry) \ {at} ELSE {}
LaterCopies(rows, at, entry) == Matching(rows, at + 1, Len(rows), entry)

\* Places a choice without moving the running row.
PlanMapNext(rows, at, wrap, entry) ==
  LET slot == NextSlot(rows, at, wrap)
      later == LaterCopies(rows, at, entry)
      earlier == Matching(rows, 1, at - 1, entry)
      Plan(entries, where, placement) ==
        [entries |-> entries, slot |-> slot, where |-> where, placement |-> placement]
  IN IF slot <= Len(rows) /\ rows[slot] = entry THEN Plan(rows, slot, "already-next")
     ELSE IF later # {}
     THEN Plan(InsertAt(RemoveAt(rows, First(later)), at + 1, entry), at + 1, "move")
     ELSE IF earlier # {} /\ slot <= Len(rows)
     THEN Plan([rows EXCEPT ![First(earlier)] = rows[slot], ![slot] = entry], slot, "swap")
     ELSE Plan(InsertAt(rows, at + 1, entry), at + 1, IF at >= Len(rows) THEN "append" ELSE "insert")

-----------------------------------------------------------------------------
(* buildBallot. Controls are [maps, modes, notCurrent, pool (<<>>: the rotation), *)
(* recent, count, fifty].                                                      *)

\* What an option would be beside the running selection; "none" is never offered.
KindOf(c, current, entry) ==
  IF entry.map = current.map
  THEN IF entry.rules = current.rules \/ ~c.modes \/ (c.maps /\ c.notCurrent) THEN "none" ELSE "variant"
  ELSE IF c.maps /\ (c.modes \/ entry.rules = current.rules) THEN "map" ELSE "none"

\* The k-th smallest of some numbers, and the members of a list at some places, in their order.
Nth(S, k) == CHOOSE i \in S : Cardinality({j \in S : j < i}) = k - 1
Taken(list, S) == [k \in 1 .. Cardinality(S) |-> list[Nth(S, k)]]

\* The rows after the running one, round to it.
RotationOrder(rows, at) == [k \in 1 .. Len(rows) - 1 |-> rows[((at - 1 + k) % Len(rows)) + 1]]

\* The pool, the map played longest ago first and those never played before it.
PoolOrder(pool) ==
  LET played(e) == LET seen == {i \in DOMAIN past : past[i] = e.map}
                   IN IF seen = {} THEN Len(past) + 1 ELSE First(seen)
      Rank(i) == (Len(past) + 1 - played(pool[i])) * Len(pool) + i
      ranks == {Rank(i) : i \in DOMAIN pool}
  IN [k \in 1 .. Cardinality(ranks) |-> pool[CHOOSE i \in DOMAIN pool : Rank(i) = Nth(ranks, k)]]

SameOption(a, b) == a.map = b.map /\ a.rules = b.rules

\* Mutant: an option that the game may never reach is offered.
OfferableAnywhere(c, rows, at, e) == KindOf(c, rows[at], e) # "none"
\* Neither the running option nor one that would be appended after the last row.
Offerable(c, rows, at, e) ==
  /\ KindOf(c, rows[at], e) # "none"
  /\ PlanMapNext(rows, at, wraps, e).placement # "append"

\* The first of each map and rule set that the catalog has.
Candidates(c, rows, at) ==
  LET order == IF c.pool = <<>> THEN RotationOrder(rows, at) ELSE PoolOrder(c.pool)
      able == {i \in DOMAIN order : order[i].map \notin gone /\ Offerable(c, rows, at, order[i])}
  IN Taken(order, {i \in able : ~\E j \in able : j < i /\ SameOption(order[j], order[i])})

\* Without the maps of the latest ballots, where two options remain.
FreshOnes(c, options) ==
  LET recent == {past[i] : i \in 1 .. IF c.recent < Len(past) THEN c.recent ELSE Len(past)}
      fresh == {i \in DOMAIN options : options[i].map \notin recent}
  IN IF c.recent > 0 /\ Cardinality(fresh) >= 2 THEN Taken(options, fresh) ELSE options

\* The 50v50 option is last, and always beside a normal one.
BuildBallot(c, rows, at) ==
  LET slot == NextSlot(rows, at, wraps)
      fifty == c.fifty /\ slot <= Len(rows) /\ rows[slot].map \notin gone
      ordinary == FreshOnes(c, Candidates(c, rows, at))
      Cut(n) == SubSeq(ordinary, 1, IF n < Len(ordinary) THEN n ELSE Len(ordinary))
      Normal(e) == [entry |-> e, event |-> FALSE]
      normal(list) == [k \in DOMAIN list |-> Normal(list[k])]
  IN IF ~fifty THEN IF c.maps \/ c.modes THEN normal(Cut(c.count)) ELSE <<>>
     ELSE LET beside == IF c.maps \/ c.modes THEN Cut(c.count - 1) ELSE <<rows[slot]>>
          IN IF beside = <<>> THEN <<>>
             ELSE Append(normal(beside), [entry |-> rows[slot], event |-> TRUE])

-----------------------------------------------------------------------------
(* The game and the staff *)

\* The row the game plays next: the one after the running one, as it is saved then.
PlayedNext ==
  IF running = Nowhere \/ (running >= Len(rotation) /\ ~wraps) THEN 1 .. Len(rotation)
  ELSE {IF running >= Len(rotation) THEN 1 ELSE running + 1}

\* A round ends.
Advance ==
  /\ matches < MaxRounds /\ matches' = matches + 1
  /\ \E row \in PlayedNext :
       /\ running' = row /\ playing' = rotation[row].map
       /\ missed' = (missed \/ (promised # {} /\ rotation[row] \notin promised))
  /\ promised' = {}
  /\ UNCHANGED <<rotation, edits, wraps, gone, poll, past, request, shifted, grown>>

\* Staff change the map in the game: no row of the rotation runs.
ChangeMap ==
  /\ running # Nowhere /\ matches < MaxRounds /\ matches' = matches + 1
  /\ running' = Nowhere /\ playing' \in {e.map : e \in Picks} /\ promised' = {}
  /\ UNCHANGED <<rotation, edits, wraps, gone, poll, past, request, missed, shifted, grown>>

\* The game reports the first row as next after the last, or no longer does.
ReportWrap ==
  /\ wraps' = ~wraps /\ promised' = {}
  /\ UNCHANGED <<rotation, edits, running, playing, matches, gone, poll, past, request, missed, shifted, grown>>

\* The catalog loses a map.
LoseMap ==
  /\ gone = {} /\ \E e \in Picks : gone' = {e.map}
  /\ UNCHANGED <<rotation, edits, gameSide, poll, past, request, history>>

\* Staff save another rotation; the game keeps the position it has.
SaveRotation ==
  /\ edits < MaxEdits /\ edits' = edits + 1
  /\ \E rows \in Rotations \ {rotation} :
       /\ rotation' = rows /\ running <= Len(rows)
  /\ promised' = {}
  /\ UNCHANGED <<gameSide, gone, poll, past, request, missed, shifted, grown>>

-----------------------------------------------------------------------------
(* A ballot *)

\* rotationPosition: the running row, when the saved row is the map that runs.
Position == IF running # Nowhere /\ rotation[running].map = playing THEN running ELSE Nowhere

\* A ballot opens on the next row it can name, with at least two options.
OpenPoll ==
  /\ ~poll.open /\ Position # Nowhere /\ (Position = Len(rotation) => wraps)
  /\ \E c \in Policies :
       LET options == BuildBallot(c, rotation, Position) IN
       /\ Len(options) >= 2
       /\ poll' = [open |-> TRUE, options |-> options, seen |-> rotation, at |-> Position,
                   slot |-> NextSlot(rotation, Position, wraps), match |-> matches, controls |-> c]
  /\ past' = SubSeq(<<playing>> \o past, 1, IF past = <<>> THEN 1 ELSE 2)
  /\ UNCHANGED <<rotation, edits, gameSide, gone, request, history>>

PollStands == rotation = poll.seen /\ Position = poll.at /\ matches = poll.match

\* The rotation or the match changed: the ballot ends.
CancelPoll ==
  /\ poll.open /\ ~PollStands /\ poll' = NoPoll
  /\ UNCHANGED <<rotation, edits, gameSide, gone, past, request, history>>

\* Nobody wins, or the event wins: the rotation stays.
CloseUnchanged ==
  /\ poll.open /\ poll' = NoPoll
  /\ UNCHANGED <<rotation, edits, gameSide, gone, past, request, history>>

\* A winner is planned on a fresh reading, which must still name the next row of the ballot.
ClosePoll ==
  /\ poll.open /\ PollStands /\ request = NoRequest /\ poll' = NoPoll
  /\ \E k \in DOMAIN poll.options :
       LET entry == poll.options[k].entry
           plan == PlanMapNext(rotation, Position, wraps, entry) IN
       /\ ~poll.options[k].event /\ plan.placement # "append" /\ plan.slot = poll.slot
       /\ IF plan.placement = "already-next"
          THEN promised' = {entry} /\ UNCHANGED request
          ELSE /\ request' = [stage |-> "asked", entry |-> entry, revision |-> edits, at |-> Position,
                              map |-> playing, slot |-> plan.slot, match |-> matches, plan |-> NoPlan,
                              fromRotation |-> poll.controls.pool = <<>>]
               /\ UNCHANGED promised
  /\ UNCHANGED <<rotation, edits, gameSide, gone, past, missed, shifted, grown>>

-----------------------------------------------------------------------------
(* changeServerConfiguration, for a map-next *)

\* A person queues a map from the page they look at.
AskNext ==
  /\ request = NoRequest /\ Position # Nowhere
  /\ \E e \in Picks :
       request' = [stage |-> "asked", entry |-> e, revision |-> edits, at |-> Position, map |-> playing,
                   slot |-> Nowhere, match |-> matches, plan |-> NoPlan, fromRotation |-> FALSE]
  /\ UNCHANGED <<rotation, edits, gameSide, gone, poll, past, history>>

\* Mutant: the next row a ballot was planned for is not compared.
SlotIgnored(plan) == TRUE
SlotAgrees(plan) == request.slot \in {Nowhere, plan.slot}

NextPlan == PlanMapNext(rotation, Position, wraps, request.entry)
\* The document and the status are still those the choice was made on.
MayPlan ==
  /\ edits = request.revision /\ Position = request.at /\ Position # Nowhere /\ playing = request.map
  /\ SlotAgrees(NextPlan)

\* Nothing is sent for the entry that is next already.
PlanChange ==
  /\ request.stage = "asked" /\ MayPlan
  /\ IF NextPlan.placement = "already-next"
     THEN request' = NoRequest /\ promised' = {request.entry}
     ELSE /\ request.entry.map \notin gone
          /\ request' = [request EXCEPT !.stage = "planned", !.plan = NextPlan, !.match = matches]
          /\ UNCHANGED promised
  /\ UNCHANGED <<rotation, edits, gameSide, gone, poll, past, missed, shifted, grown>>

\* A check fails, or the choice is no longer in the catalog.
RefuseChange ==
  /\ \/ request.stage = "asked" /\ (~MayPlan \/ request.entry.map \in gone)
     \/ request.stage = "planned" /\ edits # request.revision
  /\ request' = NoRequest
  /\ UNCHANGED <<rotation, edits, gameSide, gone, poll, past, history>>

\* The write, under the revision that was read; the round may have changed since.
WriteChange ==
  /\ request.stage = "planned" /\ edits = request.revision /\ edits < MaxEdits
  /\ rotation' = request.plan.entries /\ edits' = edits + 1 /\ request' = NoRequest
  /\ LET known == matches = request.match
         wrap == NextSlot(rotation, running, wraps) = request.plan.slot IN
       /\ promised' = IF known /\ wrap THEN {request.entry} ELSE {}
       /\ shifted' = (shifted \/ (known /\ rotation'[running] # rotation[running]))
       /\ grown' = (grown \/ (request.fromRotation /\ Len(rotation') > Len(rotation)))
  /\ UNCHANGED <<gameSide, gone, poll, past, missed>>

NextMapNext ==
  Advance \/ ChangeMap \/ ReportWrap \/ LoseMap \/ SaveRotation \/ OpenPoll \/ CancelPoll
  \/ CloseUnchanged \/ ClosePoll \/ AskNext \/ PlanChange \/ RefuseChange \/ WriteChange
NextMapSpec == NextMapInit /\ [][NextMapNext]_nextVars

-----------------------------------------------------------------------------
(* Properties *)

NextMapTypeOK ==
  /\ Len(rotation) > 0 /\ edits \in 0 .. MaxEdits /\ matches \in 1 .. MaxRounds
  /\ running \in 0 .. Len(rotation) /\ wraps \in BOOLEAN
  /\ request.stage \in {"none", "asked", "planned"}

\* A choice that was written, or found to be next, is what the game plays in the next round, if
\* nobody saves another rotation and the game keeps its report: whichever copies of it the
\* rotation had, and also after the last row.
ChoicePlaysNext == ~missed

\* Writing a choice never puts another selection on the running row, which the game names by its
\* number, unless the round changes between the reading and the write.
RunningRowStays == ~shifted

\* An automatic ballot over the rotation never lengthens it, though the game may change what it
\* reports as next between the ballot's opening, its close and the write.
RotationNeverGrows == ~grown

\* The options of an open ballot differ in map or rules from each other and from the running
\* selection, 50v50 is last beside a normal one, and no option would be appended.
OptionsFit ==
  poll.open =>
    LET options == poll.options
        normal == {k \in DOMAIN options : ~options[k].event}
        current == poll.seen[poll.at] IN
    /\ Len(options) \in 2 .. poll.controls.count /\ normal # {}
    /\ \A k \in DOMAIN options : options[k].event => k = Len(options)
    /\ \A j, k \in normal : j # k => ~SameOption(options[j].entry, options[k].entry)
    /\ (poll.controls.maps \/ poll.controls.modes) =>
         \A k \in normal : ~SameOption(options[k].entry, current)
    /\ \A k \in normal :
         PlanMapNext(poll.seen, poll.at, poll.slot = 1, options[k].entry).placement # "append"

\* What a choice may do to the rotation, and which choices are offered.
RotationKept == RunningRowStays /\ RotationNeverGrows /\ OptionsFit

\* A chosen map is played next and the rotation is otherwise left as it was.
NextMapHolds == ChoicePlaysNext /\ RotationKept
=============================================================================
