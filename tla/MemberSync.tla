------------------------------ MODULE MemberSync ------------------------------
(***************************************************************************)
(* The Patreon import and the matching sweep after it, both single-flight    *)
(* and in memory (patreon-sync.service.ts, patreon.client.ts,                 *)
(* supporter-match.service.ts). A sync reads the member list, imports each    *)
(* member and waits for a sweep; a sweep asked for while one runs is run       *)
(* once more; a capped sweep continues after the last record it checked.       *)
(***************************************************************************)
EXTENDS Integers, FiniteSets

CONSTANTS MemberCount,  \* records in the order of their IDs: 1 .. MemberCount
          SweepLimit,   \* SUPPORTER_MATCH_SWEEP_LIMIT
          MaxSyncs      \* bound: syncs that read Patreon

Members == 1 .. MemberCount
NoCursor == 0

ASSUME MemberSyncAssumption == {MemberCount, SweepLimit} \subseteq Nat \ {0} /\ MaxSyncs \in Nat

VARIABLES
  imported,  \* Patreon records
  settled,   \* records matching has nothing more to do for
  sync,      \* what the running sync is at, and what it has still to import
  armed,     \* its timer is set
  blocked,   \* Patreon asked it to wait
  syncs,     \* bound: syncs so far
  sweep,     \* what the running sweep is at, and what it has still to check
  rerun,     \* a sweep was asked for meanwhile
  cursor,    \* the last record of a capped sweep
  ready,     \* older links are labelled
  halted,    \* the process is shutting down
  unswept,   \* history: members this sync imported that no sweep has checked since
  partly,    \* history: since this sync asked for its sweep, a pass failed or could not take all
  missed,    \* history: members a sync reported done without a sweep of them
  skipped    \* history: [Members -> passes that left it out since it was last checked]

matchVars == <<imported, settled, sync, armed, blocked, syncs, sweep, rerun, cursor, ready, halted,
               unswept, partly, missed, skipped>>
syncState == <<imported, sync, armed, blocked, syncs, unswept>>
sweepState == <<sweep, rerun, cursor, skipped>>

Idle == [at |-> "idle", left |-> {}]
At(step, members) == [at |-> step, left |-> members]

MatchInit ==
  /\ imported = {} /\ settled = {} /\ sync = Idle /\ armed = TRUE /\ blocked = FALSE /\ syncs = 0
  /\ sweep = Idle /\ rerun = FALSE /\ cursor = NoCursor /\ ready = FALSE /\ halted = FALSE
  /\ unswept = {} /\ partly = FALSE /\ missed = {} /\ skipped = [m \in Members |-> 0]

-----------------------------------------------------------------------------
(* The sync *)

\* Mutant: only a sync that succeeds sets the timer again.
RearmSuccess == ~halted /\ sync.at = "sweep"
\* schedule, when a sync has ended in whatever way.
Rearm == ~halted

EndSync ==
  /\ sync' = Idle /\ armed' = Rearm /\ unswept' = {}
  /\ UNCHANGED <<imported, syncs>>

\* The timer fires, or staff ask for one; a running sync is joined.
SyncStarts(byTimer) ==
  /\ byTimer => armed
  /\ IF sync.at # "idle" THEN armed' = (armed /\ ~byTimer) /\ UNCHANGED <<imported, sync, blocked, syncs, unswept>>
     ELSE IF halted \/ blocked
     THEN armed' = Rearm /\ UNCHANGED <<imported, sync, blocked, syncs, unswept>>
     ELSE /\ syncs < MaxSyncs /\ syncs' = syncs + 1
          /\ sync' = At("tiers", {}) /\ armed' = (armed /\ ~byTimer) /\ unswept' = {}
          /\ UNCHANGED <<imported, blocked>>
  /\ UNCHANGED <<settled, sweepState, ready, halted, partly, missed>>

\* members: the list is read with tiers, once more without them when those may be the trouble, and tier
\* prices are asked for last; only a rate limit on those lets the import go on and the next one wait.
ListRead ==
  /\ sync.at \in {"tiers", "plain"}
  /\ \/ /\ sync.at = "tiers" /\ sync' = At("plain", {})
        /\ UNCHANGED <<imported, armed, blocked, syncs, unswept>>
     \/ \E members \in SUBSET Members, wait \in BOOLEAN :
          /\ wait => sync.at = "tiers"
          /\ sync' = At("import", members) /\ blocked' = wait
          /\ UNCHANGED <<imported, armed, syncs, unswept>>
     \/ \E wait \in BOOLEAN : blocked' = wait /\ EndSync
  /\ UNCHANGED <<settled, sweepState, ready, halted, partly, missed>>

\* importApiMember, one member at a time; a shutdown ends the sync.
ImportOne ==
  /\ sync.at = "import" /\ sync.left # {}
  /\ IF halted THEN EndSync /\ UNCHANGED <<blocked, settled>>
     ELSE \/ \E m \in sync.left :
               /\ sync' = [sync EXCEPT !.left = @ \ {m}]
               /\ imported' = imported \cup {m} /\ unswept' = unswept \cup {m}
               /\ settled' \in {settled, settled \ {m}}
               /\ UNCHANGED <<armed, blocked, syncs>>
          \/ EndSync /\ UNCHANGED <<blocked, settled>>  \* the database failed
  /\ UNCHANGED <<sweepState, ready, halted, partly, missed>>

Lapses == /\ blocked /\ blocked' = FALSE
          /\ UNCHANGED <<imported, settled, sync, armed, syncs, sweepState, ready, halted, unswept, partly, missed>>

-----------------------------------------------------------------------------
(* The sweep *)

\* Mutant: a sweep that runs is joined, and not run again.
JoinOnly == FALSE
SyncAskedAgain == TRUE
\* sweep
Ask == IF sweep.at = "idle" THEN sweep' = At("wait", {}) /\ UNCHANGED rerun
       ELSE rerun' = SyncAskedAgain /\ UNCHANGED sweep

\* A sync that has imported every member waits for a sweep.
SyncSweeps ==
  /\ sync.at = "import" /\ sync.left = {}
  /\ IF halted THEN EndSync /\ UNCHANGED <<blocked, sweep, rerun, partly>>
     ELSE /\ sync' = At("sweep", {}) /\ partly' = FALSE
          /\ Ask /\ UNCHANGED <<imported, armed, blocked, syncs, unswept>>
  /\ UNCHANGED <<settled, cursor, skipped, ready, halted, missed>>

\* It ends when the sweep has.
SyncEnds ==
  /\ sync.at = "sweep" /\ sweep.at = "idle"
  /\ missed' = IF partly \/ halted THEN missed ELSE missed \cup (unswept \ settled)
  /\ EndSync
  /\ UNCHANGED <<blocked, settled, sweepState, ready, halted, partly>>

\* startup: labelling has finished or failed, and a sweep follows.
Labelled ==
  /\ ~ready /\ ready' = TRUE
  /\ Ask /\ UNCHANGED <<syncState, settled, cursor, skipped, halted, partly, missed>>

\* A pass is over: again if it was asked for meanwhile.
Following == IF rerun /\ ~halted THEN At("wait", {}) ELSE Idle
EndPass == sweep' = Following /\ rerun' = (rerun /\ Following = Idle)

\* candidates: the records after the cursor in their order, then from the first one.
Candidates == imported \ settled
Rank(m) == IF m > cursor THEN m - cursor ELSE m - cursor + MemberCount
Chosen == {m \in Candidates : Cardinality({n \in Candidates : Rank(n) < Rank(m)}) < SweepLimit}
Capped == Cardinality(Candidates) > SweepLimit
LastOf(ids) == CHOOSE m \in ids : \A n \in ids : Rank(n) <= Rank(m)
\* Mutant: a capped sweep does not remember where it stopped.
FromTheFirst(ids) == NoCursor
StopsAt(ids) == IF Capped THEN LastOf(ids) ELSE NoCursor
NextCursor(ids) == StopsAt(ids)

\* pass: waits for the labels, then takes its candidates.
PassStarts ==
  /\ sweep.at = "wait" /\ (ready \/ halted)
  /\ \/ /\ ~halted
        /\ sweep' = At("check", Chosen) /\ cursor' = NextCursor(Chosen)
        /\ partly' = (partly \/ Capped)
        /\ skipped' = [m \in Members |-> IF m \in Candidates \ Chosen THEN skipped[m] + 1 ELSE 0]
        /\ UNCHANGED rerun
     \/ EndPass /\ partly' = TRUE /\ UNCHANGED <<cursor, skipped>>  \* the read failed, or a shutdown
  /\ UNCHANGED <<syncState, settled, ready, halted, missed>>

\* member: autoMatch of one record; it may fail, change nothing, or settle it.
CheckOne ==
  /\ sweep.at = "check" /\ sweep.left # {} /\ ~halted
  /\ \E m \in sweep.left :
     /\ sweep' = [sweep EXCEPT !.left = @ \ {m}] /\ unswept' = unswept \ {m}
     /\ settled' \in {settled, settled \cup {m}}
  /\ UNCHANGED <<imported, sync, armed, blocked, syncs, rerun, cursor, skipped, ready, halted, partly, missed>>

PassEnds ==
  /\ sweep.at = "check" /\ (sweep.left = {} \/ halted)
  /\ EndPass /\ partly' = (partly \/ sweep.left # {})
  /\ UNCHANGED <<syncState, settled, cursor, skipped, ready, halted, missed>>

\* A webhook, an approval, a link or a patron's sign-in matches one record.
MatchOne ==
  /\ ready /\ ~halted
  /\ \E m \in imported \ settled : settled' = settled \cup {m}
  /\ UNCHANGED <<syncState, sweepState, ready, halted, partly, missed>>

Shutdown ==
  /\ ~halted /\ halted' = TRUE /\ armed' = FALSE
  /\ UNCHANGED <<imported, settled, sync, blocked, syncs, sweepState, ready, unswept, partly, missed>>

MatchNext ==
  \/ \E byTimer \in BOOLEAN : SyncStarts(byTimer)
  \/ ListRead \/ ImportOne \/ Lapses \/ SyncSweeps \/ SyncEnds
  \/ Labelled \/ PassStarts \/ CheckOne \/ PassEnds \/ MatchOne \/ Shutdown
MatchSpec == MatchInit /\ [][MatchNext]_matchVars

-----------------------------------------------------------------------------
(* Properties *)

MatchTypeOK ==
  /\ settled \subseteq imported /\ imported \subseteq Members /\ unswept \subseteq imported
  /\ sync.at \in {"idle", "tiers", "plain", "import", "sweep"} /\ sweep.at \in {"idle", "wait", "check"}
  /\ cursor \in 0 .. MemberCount

\* A sync that reports success has had each member it imported checked by a sweep after the import,
\* also when another sweep was running when it asked, unless a pass failed or was capped.
ImportsAreSwept == missed = {}

\* A candidate is passed over by no more sweeps than it takes to go round all of them, so a capped
\* sweep never starves a record.
NoneStarved == \A m \in Members : skipped[m] * SweepLimit < MemberCount

\* A sync is running or its timer is set, whatever failed, until the process shuts down.
SyncGoesOn == halted \/ armed \/ sync.at # "idle"

\* Every member is asked about in time: after a change of the roles, in a long list, after a failure.
EveryoneSwept == ImportsAreSwept /\ NoneStarved /\ SyncGoesOn
=============================================================================
