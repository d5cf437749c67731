------------------------------ MODULE PeopleProofs ------------------------------
(***************************************************************************)
(* Proofs about supporters and staff: the components of MCPeople. Each     *)
(* part states its inductive invariant, shows that every step keeps it,    *)
(* and ends with the theorems it is for: the Patreon sync and its sweep    *)
(* (MemberSync: MatchInv), the link of a supporter's Patreon account       *)
(* (LinkPatreon: LinkInv), what staff ask for (StaffActions: StaffInv, the *)
(* ledger of each action, the age of a shared page, the role a change was  *)
(* checked with), and supporter records and founders (Founders:            *)
(* FoundersInv, what the locks of open transactions keep apart). The last  *)
(* part composes them: PeopleInv holds in every state of MCPeople,         *)
(* whichever component a behaviour explores.                               *)
(***************************************************************************)
EXTENDS MCPeople, FiniteSetTheorems, SequenceTheorems, WellFoundedInduction, TLAPS

-----------------------------------------------------------------------------
(* The sync and its sweep *)

LEMMA LeastOf ==
  ASSUME NEW T, T \subseteq Nat, T # {}
  PROVE  \E n \in T : \A k \in T : n <= k
<1> DEFINE R == OpToRel(<, Nat)
<1>1. IsWellFoundedOn(R, Nat)
  BY NatLessThanWellFounded
<1>2. \E n \in T : \A k \in T : ~ (<<k, n>> \in R)
  <2> HIDE DEF R
  <2> QED BY <1>1, WFMin, Zenon
<1>3. \A k, n \in T : <<k, n>> \notin R => n <= k
  <2> SUFFICES ASSUME NEW k \in T, NEW n \in T, <<k, n>> \notin R PROVE n <= k
    OBVIOUS
  <2>1. k \in Nat /\ n \in Nat
    OBVIOUS
  <2>2. k < n => <<k, n>> \in R
    BY <2>1 DEF OpToRel
  <2> HIDE DEF R
  <2> QED BY <2>1, <2>2
<1> HIDE DEF R
<1> QED BY <1>2, <1>3

LEMMA GreatestOf ==
  ASSUME NEW T, NEW N \in Nat, T \subseteq 0 .. N, T # {}
  PROVE  \E n \in T : \A k \in T : k <= n
<1> DEFINE U == {N - n : n \in T}
<1>1. U \subseteq Nat /\ U # {}
  <2>1. \A n \in T : N - n \in Nat
    OBVIOUS
  <2> QED BY <2>1
<1>2. PICK u \in U : \A k \in U : u <= k
  BY <1>1, LeastOf
<1>3. PICK n \in T : u = N - n
  BY <1>2
<1>4. ASSUME NEW k \in T PROVE k <= n
  <2>1. N - n <= N - k
    BY <1>2, <1>3
  <2>2. k \in 0 .. N /\ n \in 0 .. N
    BY <1>3
  <2> HIDE DEF U
  <2> QED BY <2>1, <2>2
<1> QED BY <1>4

-----------------------------------------------------------------------------
(* The order a sweep goes round in *)

Below(m) == {n \in Candidates : Rank(n) < Rank(m)}

LEMMA Ranks ==
  ASSUME cursor \in 0 .. MemberCount
  PROVE  /\ \A m \in Members : Rank(m) \in 1 .. MemberCount
         /\ \A m, n \in Members : Rank(m) = Rank(n) => m = n
BY MemberSyncAssumption DEF Rank, Members

LEMMA LastIsLast ==
  ASSUME cursor \in 0 .. MemberCount, NEW ids \in SUBSET Members, ids # {}
  PROVE  LastOf(ids) \in ids /\ \A n \in ids : Rank(n) <= Rank(LastOf(ids))
<1> DEFINE T == {Rank(m) : m \in ids}
<1>1. MemberCount \in Nat /\ T \subseteq 0 .. MemberCount /\ T # {}
  BY Ranks, MemberSyncAssumption
<1>2. PICK t \in T : \A k \in T : k <= t
  BY <1>1, GreatestOf
<1>3. PICK m \in ids : t = Rank(m)
  BY <1>2
<1>4. \A n \in ids : Rank(n) <= Rank(m)
  BY <1>2, <1>3
<1> QED BY <1>4 DEF LastOf

LEMMA FirstOf ==
  ASSUME cursor \in 0 .. MemberCount, NEW ids \in SUBSET Members, ids # {}
  PROVE  \E m \in ids : \A n \in ids : Rank(m) <= Rank(n)
<1> DEFINE T == {Rank(m) : m \in ids}
<1>1. T \subseteq Nat /\ T # {}
  BY Ranks, MemberSyncAssumption
<1>2. PICK t \in T : \A k \in T : t <= k
  BY <1>1, LeastOf
<1>3. PICK m \in ids : t = Rank(m)
  BY <1>2
<1> QED BY <1>2, <1>3

LEMMA FiniteMembers ==
  ASSUME NEW ids \in SUBSET Members
  PROVE  IsFiniteSet(ids) /\ Cardinality(ids) \in Nat
<1>1. IsFiniteSet(Members)
  BY FS_Interval, MemberSyncAssumption DEF Members
<1> QED BY <1>1, FS_Subset, FS_CardinalityType

\* Members with ranks up to r are at most r.
LEMMA RankCounts ==
  ASSUME cursor \in 0 .. MemberCount, NEW ids \in SUBSET Members, NEW r \in 1 .. MemberCount,
         \A n \in ids : Rank(n) <= r
  PROVE  Cardinality(ids) <= r
<1> DEFINE f == [n \in ids |-> Rank(n)]
<1>1. \A n \in ids : Rank(n) \in 1 .. r
  BY Ranks, MemberSyncAssumption
<1>2. f \in Injection(ids, 1 .. r)
  BY <1>1, Ranks DEF Injection, IsInjective
<1>3. r \in Int /\ 1 \in Int /\ r >= 1
  BY MemberSyncAssumption
<1>4. IsFiniteSet(1 .. r) /\ Cardinality(1 .. r) = r
  BY <1>3, FS_Interval
<1> QED BY <1>2, <1>4, FS_Injection

-----------------------------------------------------------------------------
\* A pass that is not capped takes every candidate.
LEMMA AllChosen ==
  ASSUME imported \subseteq Members, cursor \in 0 .. MemberCount, ~Capped
  PROVE  Chosen = Candidates
<1>1. Candidates \in SUBSET Members
  BY DEF Candidates
<1>2. ASSUME NEW m \in Candidates PROVE m \in Chosen
  <2>1. Below(m) \in SUBSET Candidates /\ m \notin Below(m) /\ Below(m) \in SUBSET Members
    <3>1. Rank(m) \in 1 .. MemberCount
      BY <1>1, Ranks
    <3> QED BY <3>1, <1>1, MemberSyncAssumption DEF Below
  <2>2. /\ Cardinality(Below(m)) <= Cardinality(Candidates)
        /\ Cardinality(Below(m)) = Cardinality(Candidates) => Candidates = Below(m)
        /\ Cardinality(Below(m)) \in Nat /\ Cardinality(Candidates) \in Nat
    BY <1>1, <2>1, FiniteMembers, FS_Subset
  <2>3. Cardinality(Below(m)) < Cardinality(Candidates)
    BY <2>1, <2>2
  <2>4. Cardinality(Below(m)) < SweepLimit
    BY <2>2, <2>3, MemberSyncAssumption DEF Capped
  <2> QED BY <2>4 DEF Chosen, Below
<1> QED BY <1>2 DEF Chosen

\* A pass that leaves a candidate out is capped, and the last record it takes, which comes before the
\* one left out, is at least as many ranks on as a pass takes records.
LEMMA CappedReach ==
  ASSUME imported \subseteq Members, cursor \in 0 .. MemberCount, NEW m \in Candidates \ Chosen
  PROVE  /\ Capped /\ LastOf(Chosen) \in Chosen /\ Chosen \subseteq Members
         /\ SweepLimit <= Rank(LastOf(Chosen)) /\ Rank(LastOf(Chosen)) < Rank(m)
<1>1. /\ Candidates \in SUBSET Members /\ Chosen \in SUBSET Candidates /\ Chosen \in SUBSET Members
      /\ \A n : Below(n) \in SUBSET Members
  BY DEF Candidates, Chosen, Below
<1>2. \A n \in Members : Rank(n) \in 1 .. MemberCount
  BY Ranks
<1>3. \A n : Cardinality(Below(n)) \in Nat
  BY <1>1, FiniteMembers
<1>4. \A n \in Candidates : n \in Chosen <=> Cardinality(Below(n)) < SweepLimit
  BY DEF Chosen, Below
<1>5. \A n \in Candidates \ Chosen : SweepLimit <= Cardinality(Below(n))
  BY <1>3, <1>4, MemberSyncAssumption
<1>6. PICK first \in Candidates \ Chosen : \A n \in Candidates \ Chosen : Rank(first) <= Rank(n)
  <2>1. Candidates \ Chosen \in SUBSET Members /\ Candidates \ Chosen # {}
    BY <1>1
  <2> QED BY <2>1, FirstOf
<1>7. Below(first) \subseteq Chosen
  <2> SUFFICES ASSUME NEW n \in Below(first) PROVE n \in Chosen
    OBVIOUS
  <2>1. n \in Candidates /\ Rank(n) < Rank(first)
    BY DEF Below
  <2>2. Rank(n) \in Int /\ Rank(first) \in Int
    BY <2>1, <1>1, <1>2, <1>6
  <2> QED BY <2>1, <2>2, <1>6
<1>8. Chosen # {}
  <2>1. Below(first) # {}
    BY <1>5, <1>6, FS_EmptySet, MemberSyncAssumption
  <2> QED BY <2>1, <1>7
<1> DEFINE last == LastOf(Chosen)
           r == Rank(last)
<1>9. last \in Chosen /\ \A n \in Chosen : Rank(n) <= r
  BY <1>1, <1>8, LastIsLast
<1>10. r \in 1 .. MemberCount
  BY <1>1, <1>2, <1>9
<1>11. Cardinality(Below(first)) <= r
  <2>1. \A n \in Below(first) : Rank(n) <= r
    BY <1>7, <1>9
  <2> HIDE DEF r
  <2> QED BY <2>1, <1>1, <1>10, RankCounts
<1>12. SweepLimit <= r
  BY <1>3, <1>5, <1>6, <1>10, <1>11, MemberSyncAssumption
<1>13. r < Rank(m)
  <2> SUFFICES ASSUME ~(r < Rank(m)) PROVE FALSE
    OBVIOUS
  <2>1. Rank(m) <= r /\ m \in Members
    BY <1>1, <1>2, <1>10
  <2>2. \A n \in Members : Rank(n) < Rank(m) => Rank(n) < r
    BY <1>2, <1>10, <2>1
  <2>3. Below(m) \in SUBSET Below(last)
    BY <1>1, <2>2 DEF Below
  <2>4. IsFiniteSet(Below(last))
    BY <1>1, FiniteMembers
  <2>5. Cardinality(Below(m)) <= Cardinality(Below(last))
    BY <2>3, <2>4, FS_Subset
  <2>6. Cardinality(Below(last)) < SweepLimit
    BY <1>1, <1>4, <1>9
  <2> QED BY <1>3, <1>5, <2>5, <2>6, MemberSyncAssumption
<1>14. Capped
  <2>1. Below(m) \in SUBSET Candidates /\ m \notin Below(m)
    <3>1. Rank(m) \in Int
      BY <1>1, <1>2
    <3> QED BY <3>1 DEF Below
  <2>2. /\ Cardinality(Below(m)) <= Cardinality(Candidates)
        /\ Cardinality(Below(m)) = Cardinality(Candidates) => Candidates = Below(m)
        /\ Cardinality(Candidates) \in Nat
    BY <1>1, <2>1, FiniteMembers, FS_Subset
  <2> QED BY <2>1, <2>2, <1>3, <1>5, MemberSyncAssumption DEF Capped
<1> QED BY <1>1, <1>9, <1>12, <1>13, <1>14

\* Seen from the record a pass stopped at, another is as much nearer as the pass went on.
LEMMA Nearer ==
  ASSUME cursor \in 0 .. MemberCount, NEW last \in Members, NEW m \in Members,
         Rank(last) < Rank(m)
  PROVE  (IF m > last THEN m - last ELSE m - last + MemberCount) = Rank(m) - Rank(last)
BY MemberSyncAssumption DEF Rank, Members

-----------------------------------------------------------------------------
(* The inductive invariant *)

SyncShape ==
  /\ MatchTypeOK /\ sync.left \subseteq Members /\ sweep.left \subseteq imported
  /\ sync = At(sync.at, sync.left) /\ sweep = At(sweep.at, sweep.left)
  /\ skipped \in [Members -> Nat]

\* While a sync waits for its sweep and every pass since took all it could, what it imported and is
\* not yet checked is before the pass under way or one that will follow.
SweepAhead ==
  sync.at = "sweep" /\ ~partly /\ ~halted =>
    \/ sweep.at = "wait"
    \/ sweep.at = "check" /\ (rerun \/ unswept \ settled \subseteq sweep.left)
    \/ sweep.at = "idle" /\ unswept \subseteq settled

\* What a record has been left out for and what is still before it make up one round at most.
RoundAhead == \A m \in Members : skipped[m] * SweepLimit + Rank(m) <= MemberCount

MatchInv == SyncShape /\ SweepAhead /\ RoundAhead /\ ImportsAreSwept /\ SyncGoesOn

LEMMA MatchInitial == MatchInit => MatchInv
<1> SUFFICES ASSUME MatchInit PROVE MatchInv
  OBVIOUS
<1>1. MemberCount \in Nat /\ SweepLimit \in Nat
  BY MemberSyncAssumption
<1>2. cursor = 0 /\ skipped = [m \in Members |-> 0] /\ sync.at = "idle" /\ armed = TRUE /\ missed = {}
  BY DEF MatchInit, Idle, NoCursor
<1>3. SyncShape
  BY <1>1, <1>2 DEF MatchInit, SyncShape, MatchTypeOK, Idle, At
<1>4. RoundAhead
  <2>1. \A m \in Members : Rank(m) \in 1 .. MemberCount
    BY <1>1, <1>2, Ranks
  <2> QED BY <2>1, <1>1, <1>2 DEF RoundAhead
<1> QED BY <1>2, <1>3, <1>4 DEF MatchInv, SweepAhead, ImportsAreSwept, SyncGoesOn

\* A step that leaves the cursor and what was left out alone.
LEMMA RoundKept ==
  ASSUME RoundAhead, UNCHANGED <<cursor, skipped>>
  PROVE  RoundAhead'
BY DEF RoundAhead, Rank

\* The steps of a sync before it waits, and of its timer.
SyncStep == (\E byTimer \in BOOLEAN : SyncStarts(byTimer)) \/ ListRead \/ ImportOne \/ Lapses

LEMMA SyncStepOnly ==
  ASSUME SyncShape, SyncStep
  PROVE  /\ UNCHANGED <<sweep, rerun, cursor, skipped, ready, halted, partly, missed>>
         /\ sync'.at = "sweep" => sync' = sync /\ UNCHANGED <<imported, settled, unswept>>
BY DEF SyncStep, SyncStarts, ListRead, ImportOne, Lapses, EndSync, sweepState, Idle, At, SyncShape

LEMMA SyncStepShape ==
  ASSUME SyncShape, SyncStep
  PROVE  SyncShape'
<1>1. UNCHANGED <<sweep, cursor, skipped>>
  BY SyncStepOnly
<1>2. CASE \E byTimer \in BOOLEAN : SyncStarts(byTimer)
  BY <1>1, <1>2 DEF SyncStarts, SyncShape, MatchTypeOK, At
<1>3. CASE ListRead
  BY <1>1, <1>3 DEF ListRead, EndSync, SyncShape, MatchTypeOK, At, Idle
<1>4. CASE ImportOne
  BY <1>1, <1>4 DEF ImportOne, EndSync, SyncShape, MatchTypeOK, At, Idle
<1>5. CASE Lapses
  BY <1>1, <1>5 DEF Lapses, SyncShape, MatchTypeOK, At
<1> QED BY <1>2, <1>3, <1>4, <1>5 DEF SyncStep

\* However a sync ends, its timer is set again.
LEMMA EndRearms ==
  ASSUME EndSync \/ armed' = Rearm, halted' = halted
  PROVE  halted' \/ armed'
BY Zenon DEF EndSync, Rearm

LEMMA SyncStepGoesOn ==
  ASSUME SyncShape, SyncGoesOn, SyncStep
  PROVE  SyncGoesOn'
<1>1. halted' = halted
  BY SyncStepOnly
<1>2. CASE EndSync \/ armed' = Rearm
  BY <1>1, <1>2, EndRearms DEF SyncGoesOn
<1>3. CASE sync'.at # "idle"
  BY <1>3 DEF SyncGoesOn
<1>4. CASE sync' = sync /\ armed' = armed
  BY <1>1, <1>4, Zenon DEF SyncGoesOn
<1>5. \/ EndSync \/ armed' = Rearm
      \/ sync'.at # "idle"
      \/ sync' = sync /\ armed' = armed
  <2>1. CASE \E byTimer \in BOOLEAN : SyncStarts(byTimer)
    <3>1. PICK byTimer \in BOOLEAN : SyncStarts(byTimer)
      BY <2>1
    <3>2. CASE sync.at # "idle"
      BY <3>1, <3>2 DEF SyncStarts
    <3>3. CASE sync.at = "idle" /\ (halted \/ blocked)
      BY <3>1, <3>3, Zenon DEF SyncStarts
    <3>4. CASE sync.at = "idle" /\ ~(halted \/ blocked)
      BY <3>1, <3>4 DEF SyncStarts, At
    <3> QED BY <3>2, <3>3, <3>4
  <2>2. CASE ListRead
    BY <2>2 DEF ListRead, At
  <2>3. CASE ImportOne
    BY <2>3 DEF ImportOne, SyncShape, At
  <2>4. CASE Lapses
    BY <2>4 DEF Lapses
  <2> QED BY <2>1, <2>2, <2>3, <2>4 DEF SyncStep
<1> QED BY <1>2, <1>3, <1>4, <1>5

-----------------------------------------------------------------------------
(* The sweep *)

LEMMA SyncSweepsKeeps ==
  ASSUME MatchInv, SyncSweeps
  PROVE  MatchInv'
<1>1. SyncShape /\ RoundAhead /\ ImportsAreSwept /\ SyncGoesOn
  BY DEF MatchInv
<1>2. UNCHANGED <<settled, cursor, skipped, halted, missed>>
  BY DEF SyncSweeps
<1>3. RoundAhead' /\ ImportsAreSwept'
  BY <1>1, <1>2, RoundKept DEF ImportsAreSwept
<1>4. CASE halted
  <2>1. EndSync /\ UNCHANGED sweep
    BY <1>4 DEF SyncSweeps
  <2>2. SyncShape'
    BY <2>1, <1>1, <1>2 DEF EndSync, SyncShape, MatchTypeOK, Idle, At
  <2>3. SweepAhead' /\ SyncGoesOn'
    BY <1>2, <1>4 DEF SweepAhead, SyncGoesOn
  <2> QED BY <1>3, <2>2, <2>3 DEF MatchInv
<1>5. CASE ~halted
  <2>1. sync' = At("sweep", {}) /\ Ask /\ UNCHANGED <<imported, unswept>>
    BY <1>5 DEF SyncSweeps
  <2>2. \/ sweep.at = "idle" /\ sweep' = At("wait", {})
        \/ sweep.at # "idle" /\ sweep' = sweep /\ rerun' = TRUE
    BY <2>1 DEF Ask, SyncAskedAgain
  <2>3. SyncShape'
    BY <2>1, <2>2, <1>1, <1>2 DEF SyncShape, MatchTypeOK, At
  <2>4. SweepAhead'
    BY <2>2, <1>1 DEF SweepAhead, SyncShape, MatchTypeOK, At
  <2>5. SyncGoesOn'
    BY <2>1 DEF SyncGoesOn, At
  <2> QED BY <1>3, <2>3, <2>4, <2>5 DEF MatchInv
<1> QED BY <1>4, <1>5

\* The sync reports done: the sweep it waited for has left nothing it imported unchecked.
LEMMA SyncEndsKeeps ==
  ASSUME MatchInv, SyncEnds
  PROVE  MatchInv'
<1>1. SyncShape /\ SweepAhead /\ RoundAhead /\ ImportsAreSwept
  BY DEF MatchInv
<1>2. EndSync /\ UNCHANGED <<settled, sweep, rerun, cursor, skipped, halted, partly>>
      /\ sync.at = "sweep" /\ sweep.at = "idle"
  BY DEF SyncEnds, sweepState
<1>3. SyncShape'
  BY <1>1, <1>2 DEF EndSync, SyncShape, MatchTypeOK, Idle, At
<1>4. SweepAhead'
  BY <1>2 DEF SweepAhead, EndSync, Idle
<1>5. RoundAhead'
  BY <1>1, <1>2, RoundKept
<1>6. missed' = {}
  BY <1>1, <1>2 DEF SyncEnds, SweepAhead, ImportsAreSwept
<1>7. SyncGoesOn'
  BY <1>2, EndRearms DEF SyncGoesOn
<1> QED BY <1>3, <1>4, <1>5, <1>6, <1>7 DEF MatchInv, ImportsAreSwept

LEMMA LabelledKeeps ==
  ASSUME MatchInv, Labelled
  PROVE  MatchInv'
<1>1. SyncShape /\ SweepAhead /\ RoundAhead /\ ImportsAreSwept /\ SyncGoesOn
  BY DEF MatchInv
<1>2. Ask /\ UNCHANGED <<imported, sync, armed, unswept, settled, cursor, skipped, halted, partly, missed>>
  BY DEF Labelled, syncState
<1>3. \/ sweep.at = "idle" /\ sweep' = At("wait", {})
      \/ sweep.at # "idle" /\ sweep' = sweep /\ rerun' = TRUE
  BY <1>2 DEF Ask, SyncAskedAgain
<1>4. SyncShape'
  BY <1>1, <1>2, <1>3 DEF SyncShape, MatchTypeOK, At
<1>5. SweepAhead'
  BY <1>1, <1>2, <1>3 DEF SweepAhead, SyncShape, MatchTypeOK, At
<1>6. RoundAhead' /\ ImportsAreSwept' /\ SyncGoesOn'
  <2>1. RoundAhead' /\ ImportsAreSwept'
    BY <1>1, <1>2, RoundKept DEF ImportsAreSwept
  <2>2. SyncGoesOn'
    BY <1>1, <1>2, Zenon DEF SyncGoesOn
  <2> QED BY <2>1, <2>2
<1> QED BY <1>4, <1>5, <1>6 DEF MatchInv

\* A pass is over: what follows waits, or the sweep ends.
LEMMA PassOver ==
  ASSUME EndPass, NEW where, NEW left, sweep = At(where, left)
  PROVE  /\ sweep' = At(sweep'.at, sweep'.left) /\ sweep'.left = {}
         /\ sweep'.at \in {"idle", "wait"}
         /\ rerun /\ ~halted => sweep'.at = "wait"
BY DEF EndPass, Following, At, Idle

\* A capped pass leaves out records one more time, and is that much nearer to them.
LEMMA PassRound ==
  ASSUME SyncShape, RoundAhead, cursor' = NextCursor(Chosen),
         skipped' = [m \in Members |-> IF m \in Candidates \ Chosen THEN skipped[m] + 1 ELSE 0]
  PROVE  RoundAhead' /\ cursor' \in 0 .. MemberCount /\ skipped' \in [Members -> Nat]
<1>1. /\ imported \subseteq Members /\ cursor \in 0 .. MemberCount /\ skipped \in [Members -> Nat]
      /\ MemberCount \in Nat /\ SweepLimit \in Nat
  BY MemberSyncAssumption DEF SyncShape, MatchTypeOK
<1>2. Candidates \subseteq Members /\ Chosen \subseteq Candidates
  BY <1>1 DEF Candidates, Chosen
<1>3. cursor' \in 0 .. MemberCount
  <2>1. CASE Capped
    <3>1. Chosen # {}
      <4>1. Chosen # Candidates \/ Chosen = Candidates
        OBVIOUS
      <4>2. CASE Chosen # Candidates
        <5>1. PICK m \in Candidates \ Chosen : TRUE
          BY <1>2, <4>2
        <5>2. LastOf(Chosen) \in Chosen
          BY <1>1, <5>1, CappedReach
        <5> QED BY <5>2
      <4>3. CASE Chosen = Candidates
        <5>1. Cardinality(Candidates) # 0
          BY <2>1, <1>1, <1>2, FiniteMembers DEF Capped
        <5>2. Candidates # {}
          BY <5>1, FS_EmptySet
        <5> QED BY <4>3, <5>2
      <4> QED BY <4>2, <4>3
    <3>2. LastOf(Chosen) \in Chosen
      BY <1>1, <1>2, <3>1, LastIsLast
    <3> DEFINE last == LastOf(Chosen)
    <3>3. last \in 0 .. MemberCount
      <4>1. last \in 1 .. MemberCount
        BY <1>2, <3>2 DEF Members
      <4> HIDE DEF last
      <4> QED BY <4>1, <1>1
    <3> QED BY <2>1, <3>3 DEF NextCursor, StopsAt
  <2>2. CASE ~Capped
    BY <2>2, <1>1 DEF NextCursor, StopsAt, NoCursor
  <2> QED BY <2>1, <2>2
<1>4. skipped' \in [Members -> Nat]
  BY <1>1
<1>5. \A m \in Members : Rank(m) \in 1 .. MemberCount /\ Rank(m)' \in 1 .. MemberCount
  <2>1. \A m \in Members : Rank(m) \in 1 .. MemberCount
    BY <1>1, Ranks
  <2>2. \A m \in Members : Rank(m)' \in 1 .. MemberCount
    BY <1>1, <1>3 DEF Rank, Members
  <2> QED BY <2>1, <2>2
<1>6. ASSUME NEW m \in Members
      PROVE  skipped'[m] * SweepLimit + Rank(m)' <= MemberCount
  <2>1. CASE m \in Candidates \ Chosen
    <3> DEFINE last == LastOf(Chosen)
    <3>1. Capped /\ last \in Members /\ SweepLimit <= Rank(last) /\ Rank(last) < Rank(m)
      BY <1>1, <2>1, CappedReach
    <3>2. cursor' = last
      BY <3>1 DEF NextCursor, StopsAt
    <3>3. Rank(m)' = Rank(m) - Rank(last)
      <4>1. Rank(m)' = IF m > last THEN m - last ELSE m - last + MemberCount
        BY <3>2 DEF Rank
      <4> QED BY <1>1, <3>1, <4>1, Nearer
    <3>4. skipped'[m] = skipped[m] + 1 /\ skipped[m] \in Nat
      BY <1>1, <2>1
    <3>5. (skipped[m] + 1) * SweepLimit = skipped[m] * SweepLimit + SweepLimit
          /\ skipped[m] * SweepLimit \in Nat
      BY <3>4, <1>1
    <3>6. skipped[m] * SweepLimit + Rank(m) <= MemberCount
      BY DEF RoundAhead
    <3>7. Rank(m) \in Int /\ Rank(last) \in Int
      BY <1>5, <3>1
    <3> DEFINE before == skipped[m] * SweepLimit
               rm == Rank(m)
               rl == Rank(last)
    <3>8. before + SweepLimit + (rm - rl) <= MemberCount
      <4>1. before \in Int /\ rm \in Int /\ rl \in Int /\ SweepLimit <= rl /\ before + rm <= MemberCount
        BY <3>1, <3>5, <3>6, <3>7
      <4> HIDE DEF before, rm, rl
      <4> QED BY <4>1, <1>1
    <3> QED BY <3>3, <3>4, <3>5, <3>8
  <2>2. CASE m \notin Candidates \ Chosen
    <3>1. skipped'[m] = 0
      BY <2>2
    <3>2. 0 * SweepLimit = 0
      BY <1>1
    <3> QED BY <3>1, <3>2, <1>1, <1>5
  <2> QED BY <2>1, <2>2
<1>7. RoundAhead'
  BY <1>6 DEF RoundAhead
<1> QED BY <1>3, <1>4, <1>7

LEMMA PassStartsKeeps ==
  ASSUME MatchInv, PassStarts
  PROVE  MatchInv'
<1>1. SyncShape /\ SweepAhead /\ RoundAhead /\ ImportsAreSwept /\ SyncGoesOn
  BY DEF MatchInv
<1>2. UNCHANGED <<imported, sync, armed, unswept, settled, halted, missed>> /\ sweep.at = "wait"
  BY DEF PassStarts, syncState
<1>3. ImportsAreSwept' /\ SyncGoesOn'
  <2>1. ImportsAreSwept'
    BY <1>1, <1>2 DEF ImportsAreSwept
  <2>2. SyncGoesOn'
    BY <1>1, <1>2, Zenon DEF SyncGoesOn
  <2> QED BY <2>1, <2>2
<1>4. CASE EndPass /\ partly' = TRUE /\ UNCHANGED <<cursor, skipped>>
  <2>1. SyncShape'
    BY <1>1, <1>2, <1>4, PassOver DEF SyncShape, MatchTypeOK
  <2>2. SweepAhead' /\ RoundAhead'
    BY <1>1, <1>4, RoundKept DEF SweepAhead
  <2> QED BY <1>3, <2>1, <2>2 DEF MatchInv
<1>5. ASSUME ~halted, sweep' = At("check", Chosen), cursor' = NextCursor(Chosen),
             partly' = (partly \/ Capped),
             skipped' = [m \in Members |-> IF m \in Candidates \ Chosen THEN skipped[m] + 1 ELSE 0],
             UNCHANGED rerun
      PROVE  MatchInv'
  <2>1. RoundAhead' /\ cursor' \in 0 .. MemberCount /\ skipped' \in [Members -> Nat]
    BY <1>1, <1>5, PassRound
  <2>2. Chosen \subseteq imported /\ imported \subseteq Members /\ unswept \subseteq imported
        /\ cursor \in 0 .. MemberCount
    BY <1>1 DEF SyncShape, MatchTypeOK, Chosen, Candidates
  <2>3. SyncShape'
    BY <1>1, <1>2, <1>5, <2>1, <2>2 DEF SyncShape, MatchTypeOK, At
  <2>4. SweepAhead'
    <3> SUFFICES ASSUME ~partly' PROVE unswept' \ settled' \subseteq sweep'.left /\ sweep'.at = "check"
      BY DEF SweepAhead
    <3>1. ~Capped
      BY <1>5, Zenon
    <3>2. Chosen = Candidates
      BY <2>2, <3>1, AllChosen
    <3> QED BY <1>2, <1>5, <2>2, <3>2 DEF Candidates, At
  <2> QED BY <1>3, <2>1, <2>3, <2>4 DEF MatchInv
<1> QED BY <1>4, <1>5 DEF PassStarts

LEMMA CheckOneKeeps ==
  ASSUME MatchInv, CheckOne
  PROVE  MatchInv'
<1>1. SyncShape /\ SweepAhead /\ RoundAhead /\ ImportsAreSwept /\ SyncGoesOn
  BY DEF MatchInv
<1>2. PICK m \in sweep.left :
        /\ sweep' = [sweep EXCEPT !.left = @ \ {m}] /\ unswept' = unswept \ {m}
        /\ settled' \in {settled, settled \cup {m}}
  BY DEF CheckOne
<1>3. UNCHANGED <<imported, sync, armed, rerun, cursor, skipped, halted, partly, missed>>
      /\ sweep.at = "check"
  BY DEF CheckOne
<1>4. sweep' = At("check", sweep.left \ {m})
  BY <1>1, <1>2, <1>3 DEF SyncShape, At
<1>5. SyncShape'
  BY <1>1, <1>2, <1>3, <1>4 DEF SyncShape, MatchTypeOK, At
<1>6. SweepAhead'
  BY <1>1, <1>2, <1>3, <1>4 DEF SweepAhead, At
<1>7. RoundAhead' /\ ImportsAreSwept'
  BY <1>1, <1>3, RoundKept DEF ImportsAreSwept
<1>8. SyncGoesOn'
  BY <1>1, <1>3, Zenon DEF SyncGoesOn
<1> QED BY <1>5, <1>6, <1>7, <1>8 DEF MatchInv

LEMMA PassEndsKeeps ==
  ASSUME MatchInv, PassEnds
  PROVE  MatchInv'
<1>1. SyncShape /\ SweepAhead /\ RoundAhead /\ ImportsAreSwept /\ SyncGoesOn
  BY DEF MatchInv
<1>2. UNCHANGED <<imported, sync, armed, unswept, settled, cursor, skipped, halted, missed>>
      /\ sweep.at = "check" /\ (sweep.left = {} \/ halted) /\ EndPass
  BY DEF PassEnds, syncState
<1>3. SyncShape'
  BY <1>1, <1>2, PassOver DEF SyncShape, MatchTypeOK
<1>4. SweepAhead'
  <2>1. /\ sweep'.at \in {"idle", "wait"}
        /\ rerun /\ ~halted => sweep'.at = "wait"
    BY <1>1, <1>2, PassOver DEF SyncShape
  <2>2. ~partly' => ~partly /\ sweep.left = {}
    BY Zenon DEF PassEnds
  <2> SUFFICES ASSUME sync'.at = "sweep", ~partly', ~halted', sweep'.at = "idle"
               PROVE  unswept' \subseteq settled'
    BY <2>1 DEF SweepAhead
  <2>3. ~rerun
    BY <2>1, <1>2
  <2> QED BY <1>1, <1>2, <2>2, <2>3 DEF SweepAhead
<1>5. RoundAhead' /\ ImportsAreSwept'
  BY <1>1, <1>2, RoundKept DEF ImportsAreSwept
<1>6. SyncGoesOn'
  BY <1>1, <1>2, Zenon DEF SyncGoesOn
<1> QED BY <1>3, <1>4, <1>5, <1>6 DEF MatchInv

LEMMA MatchOneKeeps ==
  ASSUME MatchInv, MatchOne
  PROVE  MatchInv'
<1>1. SyncShape /\ SweepAhead /\ RoundAhead /\ ImportsAreSwept /\ SyncGoesOn
  BY DEF MatchInv
<1>2. PICK m \in imported \ settled : settled' = settled \cup {m}
  BY DEF MatchOne
<1>3. UNCHANGED <<imported, sync, armed, unswept, sweep, rerun, cursor, skipped, halted, partly, missed>>
  BY DEF MatchOne, syncState, sweepState
<1>4. SyncShape' /\ SweepAhead'
  BY <1>1, <1>2, <1>3 DEF SyncShape, MatchTypeOK, SweepAhead, At
<1>5. RoundAhead' /\ ImportsAreSwept'
  BY <1>1, <1>3, RoundKept DEF ImportsAreSwept
<1>6. SyncGoesOn'
  BY <1>1, <1>3, Zenon DEF SyncGoesOn
<1> QED BY <1>4, <1>5, <1>6 DEF MatchInv

LEMMA ShutdownKeeps ==
  ASSUME MatchInv, Shutdown
  PROVE  MatchInv'
<1>1. SyncShape /\ RoundAhead /\ ImportsAreSwept
  BY DEF MatchInv
<1>2. UNCHANGED <<imported, settled, sync, sweep, cursor, skipped, unswept, missed>> /\ halted' = TRUE
  BY DEF Shutdown, sweepState
<1>3. SyncShape' /\ SweepAhead' /\ SyncGoesOn'
  BY <1>1, <1>2 DEF SyncShape, MatchTypeOK, SweepAhead, SyncGoesOn, At
<1>4. RoundAhead' /\ ImportsAreSwept'
  BY <1>1, <1>2, RoundKept DEF ImportsAreSwept
<1> QED BY <1>3, <1>4 DEF MatchInv

LEMMA SyncStepKeeps ==
  ASSUME MatchInv, SyncStep
  PROVE  MatchInv'
<1>1. SyncShape /\ SweepAhead /\ RoundAhead /\ ImportsAreSwept /\ SyncGoesOn
  BY DEF MatchInv
<1>2. SyncShape' /\ SyncGoesOn'
  BY <1>1, SyncStepShape, SyncStepGoesOn
<1>3. SweepAhead'
  <2>1. UNCHANGED <<sweep, rerun, halted, partly>>
        /\ (sync'.at = "sweep" => sync' = sync /\ UNCHANGED <<settled, unswept>>)
    BY <1>1, SyncStepOnly
  <2> QED BY <2>1, <1>1 DEF SweepAhead
<1>4. RoundAhead' /\ ImportsAreSwept'
  BY <1>1, SyncStepOnly, RoundKept DEF ImportsAreSwept
<1> QED BY <1>2, <1>3, <1>4 DEF MatchInv

\* Every step of a sync or a sweep keeps the promise to those who wait and to those left out.
LEMMA MatchInductive == MatchInv /\ [MatchNext]_matchVars => MatchInv'
<1> SUFFICES ASSUME MatchInv, [MatchNext]_matchVars PROVE MatchInv'
  OBVIOUS
<1>1. ASSUME UNCHANGED matchVars PROVE MatchInv'
  <2>1. UNCHANGED <<imported, settled, sync, armed, sweep, rerun, cursor, skipped, halted, unswept,
                    partly, missed>>
    BY <1>1 DEF matchVars
  <2>2. SyncShape' /\ SweepAhead' /\ ImportsAreSwept'
    BY <2>1 DEF MatchInv, SyncShape, MatchTypeOK, SweepAhead, ImportsAreSwept, At
  <2>3. RoundAhead'
    BY <2>1, RoundKept DEF MatchInv
  <2>4. SyncGoesOn'
    BY <2>1, Zenon DEF MatchInv, SyncGoesOn
  <2> QED BY <2>2, <2>3, <2>4 DEF MatchInv
<1>2. ASSUME SyncStep PROVE MatchInv'
  BY <1>2, SyncStepKeeps
<1>3. ASSUME SyncSweeps \/ SyncEnds \/ Labelled PROVE MatchInv'
  BY <1>3, SyncSweepsKeeps, SyncEndsKeeps, LabelledKeeps
<1>4. ASSUME PassStarts \/ CheckOne \/ PassEnds PROVE MatchInv'
  BY <1>4, PassStartsKeeps, CheckOneKeeps, PassEndsKeeps
<1>5. ASSUME MatchOne \/ Shutdown PROVE MatchInv'
  BY <1>5, MatchOneKeeps, ShutdownKeeps
<1> QED BY <1>1, <1>2, <1>3, <1>4, <1>5 DEF MatchNext, SyncStep

-----------------------------------------------------------------------------
\* However syncs, sweeps and shutdowns interleave: a sync that reports success has had what it
\* imported checked, no record is passed over for longer than a round, and a timer or a sync is
\* always there to go on (patreon-sync.service.ts, supporter-match.service.ts).
THEOREM EveryoneIsSwept == MatchSpec => []EveryoneSwept
<1>1. MatchInv => EveryoneSwept
  <2> SUFFICES ASSUME MatchInv PROVE NoneStarved
    BY DEF MatchInv, EveryoneSwept
  <2> SUFFICES ASSUME NEW m \in Members PROVE skipped[m] * SweepLimit < MemberCount
    BY DEF NoneStarved
  <2>1. skipped[m] \in Nat /\ SweepLimit \in Nat /\ MemberCount \in Nat
    BY MemberSyncAssumption DEF MatchInv, SyncShape
  <2>2. skipped[m] * SweepLimit \in Nat
    BY <2>1
  <2>3. Rank(m) \in 1 .. MemberCount /\ skipped[m] * SweepLimit + Rank(m) <= MemberCount
    BY Ranks DEF MatchInv, SyncShape, MatchTypeOK, RoundAhead
  <2> DEFINE before == skipped[m] * SweepLimit
             rm == Rank(m)
  <2>4. before \in Nat /\ rm \in 1 .. MemberCount /\ before + rm <= MemberCount
    BY <2>2, <2>3
  <2> HIDE DEF before, rm
  <2>5. before < MemberCount
    BY <2>1, <2>4
  <2> USE DEF before
  <2> QED BY <2>5
<1> QED BY <1>1, MatchInitial, MatchInductive, PTL DEF MatchSpec

-----------------------------------------------------------------------------
(* The Patreon link *)

Entry == [code : Codes, until : Nat]
Held(rows) == {rows[i] : i \in 1 .. Len(rows)}

SignIns ==
  {NoFlow} \cup [stage : {"discord", "patreon"}, account : Visitors, prompt : BOOLEAN,
                 stageEnd : Nat, flowEnd : Nat]

LinkShape ==
  /\ moment \in Nat /\ fullUntil \in Nat /\ refused \in Seq(Entry)
  /\ born \in [Codes -> Int] /\ \A c \in Codes : born[c] <= moment
  /\ strayed \subseteq Codes /\ \A c \in strayed : born[c] # Unborn
  /\ used \in [Codes -> SUBSET Flows] /\ verified \subseteq Flows
  /\ flow \in [Flows -> SignIns]

\* Until a code that strayed has expired it is on the list, or was dropped and no code is used.
StrayedKnown ==
  \A c \in strayed :
    born[c] >= 0 =>
      \/ moment >= born[c] + CodeLife
      \/ fullUntil >= born[c] + CodeLife
      \/ \E r \in Held(refused) : r.code = c /\ r.until >= born[c] + CodeLife

\* Who is at Patreon has signed in to Discord, and who has exchanged a code is at an end.
FlowsInOrder ==
  \A f \in Flows :
    /\ flow[f].stage = "patreon" => f \in verified
    /\ \A c \in Codes : f \in used[c] => flow[f].stage = "none" /\ f \in verified
    /\ \A c, d \in Codes : f \in used[c] /\ f \in used[d] => c = d

LinkInv == LinkShape /\ StrayedKnown /\ FlowsInOrder

-----------------------------------------------------------------------------
(* The list of refused codes *)

LEMMA EntryTypes ==
  ASSUME NEW rows \in Seq(Entry)
  PROVE  Len(rows) \in Nat /\ \A i \in 1 .. Len(rows) : rows[i] \in Entry /\ rows[i].until \in Nat
<1>1. \A i \in 1 .. Len(rows) : rows[i] \in Entry
  OBVIOUS
<1>2. \A r \in Entry : r.until \in Nat
  BY DEF Entry
<1> QED BY <1>1, <1>2

LEMMA ForgottenIs ==
  ASSUME LinkShape
  PROVE  /\ Forgotten \in 0 .. Len(refused)
         /\ \A i \in 1 .. Forgotten : refused[i].until <= moment
<1> DEFINE Past(n) == /\ \A i \in 1 .. n : refused[i].until <= moment
                      /\ n < Len(refused) => moment < refused[n + 1].until
           Left == {i \in 1 .. Len(refused) : moment < refused[i].until}
<1>1. Len(refused) \in Nat /\ moment \in Nat /\ \A i \in 1 .. Len(refused) : refused[i].until \in Nat
  BY EntryTypes DEF LinkShape
<1>2. \E n \in 0 .. Len(refused) : Past(n)
  <2>1. CASE Left = {}
    <3>1. \A i \in 1 .. Len(refused) : refused[i].until <= moment
      BY <2>1, <1>1 DEF LinkShape
    <3>2. Len(refused) \in 0 .. Len(refused) /\ ~(Len(refused) < Len(refused))
      BY <1>1
    <3> QED BY <3>1, <3>2
  <2>2. CASE Left # {}
    <3>1. Left \subseteq Nat
      BY <1>1
    <3>2. PICK n \in Left : \A k \in Left : n <= k
      BY <2>2, <3>1, LeastOf
    <3>3. n \in 1 .. Len(refused) /\ moment < refused[n].until
      BY <3>2
    <3>4. ASSUME NEW i \in 1 .. n - 1 PROVE refused[i].until <= moment
      <4>1. i \in 1 .. Len(refused) /\ ~(n <= i)
        BY <3>3, <1>1
      <4>2. ~(moment < refused[i].until)
        BY <3>2, <4>1
      <4> QED BY <4>1, <4>2, <1>1
    <3>5. n - 1 \in 0 .. Len(refused) /\ (n - 1) + 1 = n
      BY <3>3, <1>1
    <3>6. Past(n - 1)
      BY <3>3, <3>4, <3>5
    <3> QED BY <3>5, <3>6
  <2> QED BY <2>1, <2>2
<1> QED BY <1>2 DEF Forgotten

\* What has time left is remembered.
LEMMA RememberedKeeps ==
  ASSUME LinkShape
  PROVE  /\ Remembered \in Seq(Entry)
         /\ \A r \in Held(refused) : moment < r.until => r \in Held(Remembered)
<1>1. /\ Forgotten \in 0 .. Len(refused) /\ Len(refused) \in Nat
      /\ \A i \in 1 .. Forgotten : refused[i].until <= moment
      /\ \A i \in 1 .. Len(refused) : refused[i].until \in Nat
  BY ForgottenIs, EntryTypes DEF LinkShape
<1> DEFINE n == Forgotten
<1> HIDE DEF n
<1>2. n \in 0 .. Len(refused) /\ Remembered = SubSeq(refused, n + 1, Len(refused))
  BY <1>1 DEF n, Remembered
<1>3. /\ Remembered \in Seq(Entry) /\ Len(Remembered) = Len(refused) - n
      /\ \A i \in 1 .. Len(Remembered) : Remembered[i] = refused[n + i]
  BY <1>1, <1>2 DEF LinkShape
<1>4. ASSUME NEW i \in 1 .. Len(refused), moment < refused[i].until
      PROVE  refused[i] \in Held(Remembered)
  <2>1. ~(i \in 1 .. n)
    BY <1>1, <1>4 DEF n, LinkShape
  <2>2. i - n \in 1 .. Len(Remembered) /\ refused[i] = Remembered[i - n]
    BY <2>1, <1>1, <1>2, <1>3
  <2> QED BY <2>2 DEF Held
<1> QED BY <1>3, <1>4 DEF Held

LEMMA Joined ==
  ASSUME NEW S, NEW a \in Seq(S), NEW b \in Seq(S), NEW c, c = a \o b
  PROVE  /\ c \in Seq(S) /\ Len(c) = Len(a) + Len(b)
         /\ \A i \in 1 .. Len(a) : c[i] = a[i]
         /\ \A i \in 1 .. Len(b) : c[Len(a) + i] = b[i]
OBVIOUS

LEMMA WithoutKeeps ==
  ASSUME NEW rows \in Seq(Entry), NEW place \in 1 .. Len(rows)
  PROVE  /\ WithoutAt(rows, place) \in Seq(Entry) /\ Len(WithoutAt(rows, place)) = Len(rows) - 1
         /\ \A i \in 1 .. Len(rows) : i # place => rows[i] \in Held(WithoutAt(rows, place))
<1> DEFINE front == SubSeq(rows, 1, place - 1)
           back == SubSeq(rows, place + 1, Len(rows))
<1>1. /\ front \in Seq(Entry) /\ Len(front) = place - 1
      /\ \A i \in 1 .. place - 1 : front[i] = rows[i]
  OBVIOUS
<1>2. /\ back \in Seq(Entry) /\ Len(back) = Len(rows) - place
      /\ \A i \in 1 .. Len(rows) - place : back[i] = rows[place + i]
  OBVIOUS
<1> HIDE DEF front, back
<1> DEFINE both == front \o back
<1>3. /\ both \in Seq(Entry) /\ Len(both) = Len(rows) - 1
      /\ \A i \in 1 .. place - 1 : both[i] = front[i]
      /\ \A i \in 1 .. Len(rows) - place : both[place - 1 + i] = back[i]
  <2>1. front \in Seq(Entry) /\ back \in Seq(Entry) /\ both = front \o back
    BY <1>1, <1>2
  <2> HIDE DEF both
  <2>2. both \in Seq(Entry) /\ Len(both) = Len(front) + Len(back)
    BY <2>1, Joined
  <2>3. \A i \in 1 .. Len(front) : both[i] = front[i]
    BY <2>1, Joined
  <2>4. \A i \in 1 .. Len(back) : both[Len(front) + i] = back[i]
    BY <2>1, Joined
  <2> QED BY <1>1, <1>2, <2>2, <2>3, <2>4
<1> HIDE DEF both
<1>4. ASSUME NEW i \in 1 .. Len(rows), i # place
      PROVE  rows[i] \in Held(both)
  <2>1. CASE i < place
    <3>1. i \in 1 .. Len(both) /\ both[i] = rows[i]
      BY <2>1, <1>1, <1>3
    <3> QED BY <3>1 DEF Held
  <2>2. CASE i > place
    <3>1. i - place \in 1 .. Len(rows) - place
      BY <2>2
    <3>2. i - 1 \in 1 .. Len(both) /\ both[i - 1] = rows[i]
      <4>1. place - 1 + (i - place) = i - 1 /\ place + (i - place) = i /\ i - 1 \in 1 .. Len(rows) - 1
        BY <2>2
      <4> QED BY <3>1, <4>1, <1>2, <1>3
    <3> QED BY <3>2 DEF Held
  <2> QED BY <2>1, <2>2, <1>4
<1>5. both = WithoutAt(rows, place)
  BY DEF both, front, back, WithoutAt
<1> QED BY <1>3, <1>4, <1>5

\* A code is moved away from the list, and no other.
LEMMA OthersKeep ==
  ASSUME LinkShape, NEW c
  PROVE  /\ Others(c) \in Seq(Entry)
         /\ \A r \in Held(Remembered) : r.code # c => r \in Held(Others(c))
<1>1. Remembered \in Seq(Entry)
  BY RememberedKeeps
<1>2. CASE Listed(c) = {}
  BY <1>1, <1>2 DEF Others
<1>3. CASE Listed(c) # {}
  <2> DEFINE place == CHOOSE i \in Listed(c) : TRUE
  <2>1. place \in Listed(c)
    BY <1>3
  <2> HIDE DEF place
  <2>2. place \in 1 .. Len(Remembered) /\ Remembered[place].code = c
    BY <2>1 DEF Listed
  <2>3. Others(c) = WithoutAt(Remembered, place)
    BY <1>3 DEF Others, place
  <2>4. /\ Others(c) \in Seq(Entry)
        /\ \A i \in 1 .. Len(Remembered) : i # place => Remembered[i] \in Held(Others(c))
    BY <1>1, <2>2, <2>3, WithoutKeeps
  <2> QED BY <2>2, <2>4 DEF Held
<1> QED BY <1>2, <1>3

\* A code refused now is on the list; who is dropped for it closes the door for as long.
LEMMA RefusedKeeps ==
  ASSUME LinkShape, NEW c \in Codes
  PROVE  /\ KeepsRefused(c) \in Seq(Entry) /\ DropCloses(c) \in Nat /\ DropCloses(c) >= fullUntil
         /\ [code |-> c, until |-> moment + RefusedFor] \in Held(KeepsRefused(c))
         /\ \A r \in Held(refused) :
              r.code # c /\ moment < r.until => r \in Held(KeepsRefused(c)) \/ DropCloses(c) >= r.until
<1> DEFINE rows == Others(c)
           now == [code |-> c, until |-> moment + RefusedFor]
<1>1. /\ rows \in Seq(Entry)
      /\ \A r \in Held(refused) : r.code # c /\ moment < r.until => r \in Held(rows)
  BY OthersKeep, RememberedKeeps
<1>2. now \in Entry /\ moment \in Nat /\ fullUntil \in Nat /\ MaxRefused \in Nat \ {0}
  BY LinkPatreonAssumption DEF LinkShape, Entry
<1>3. /\ Full(c) <=> Len(rows) >= MaxRefused
      /\ DropCloses(c) = IF Full(c) /\ rows[1].until > fullUntil THEN rows[1].until ELSE fullUntil
      /\ KeepsRefused(c) = Append(IF Full(c) THEN Tail(rows) ELSE rows, now)
  BY DEF Full, DropCloses, Keeps, KeepsRefused
<1> HIDE DEF rows, now
<1>4. ASSUME NEW kept \in Seq(Entry)
      PROVE  /\ Append(kept, now) \in Seq(Entry) /\ now \in Held(Append(kept, now))
             /\ \A r \in Held(kept) : r \in Held(Append(kept, now))
  <2>1. /\ Append(kept, now) \in Seq(Entry) /\ Len(Append(kept, now)) = Len(kept) + 1
        /\ \A i \in 1 .. Len(kept) : Append(kept, now)[i] = kept[i]
        /\ Append(kept, now)[Len(kept) + 1] = now /\ Len(kept) \in Nat
    BY <1>2
  <2>2. 1 .. Len(kept) \subseteq 1 .. Len(kept) + 1 /\ Len(kept) + 1 \in 1 .. Len(kept) + 1
    BY <2>1
  <2> HIDE DEF now
  <2> QED BY <2>1, <2>2 DEF Held
<1>5. CASE ~Full(c)
  BY <1>1, <1>2, <1>3, <1>4, <1>5 DEF now
<1>6. CASE Full(c)
  <2>1. rows # <<>> /\ Len(rows) \in Nat /\ 1 \in 1 .. Len(rows)
    BY <1>1, <1>2, <1>3, <1>6
  <2>2. rows[1] \in Entry
    BY <2>1, <1>1
  <2>3. rows[1].until \in Nat
    BY <2>2 DEF Entry
  <2>4. /\ Tail(rows) \in Seq(Entry) /\ Len(Tail(rows)) = Len(rows) - 1
        /\ \A i \in 1 .. Len(rows) - 1 : Tail(rows)[i] = rows[i + 1]
    BY <2>1, <1>1
  <2>5. \A r \in Held(rows) : r = rows[1] \/ r \in Held(Tail(rows))
    <3> SUFFICES ASSUME NEW i \in 1 .. Len(rows), i # 1
                 PROVE  rows[i] \in Held(Tail(rows))
      BY DEF Held
    <3>1. i - 1 \in 1 .. Len(rows) - 1 /\ rows[i] = Tail(rows)[i - 1]
      BY <2>1, <2>4
    <3> QED BY <3>1, <2>4 DEF Held
  <2>6. DropCloses(c) \in Nat /\ DropCloses(c) >= fullUntil /\ DropCloses(c) >= rows[1].until
    BY <1>2, <1>3, <1>6, <2>3
  <2>7. KeepsRefused(c) = Append(Tail(rows), now)
    BY <1>3, <1>6
  <2> QED BY <1>1, <1>4, <2>4, <2>5, <2>6, <2>7 DEF now
<1> QED BY <1>5, <1>6

-----------------------------------------------------------------------------
(* The sign-ins *)

FlowStep ==
  \/ \E a \in Visitors : Request(a)
  \/ \E f \in Flows, a \in Visitors : Start(f, a)
  \/ \E f \in Flows : DiscordReturn(f) \/ DiscordAnswer(f) \/ PatreonDeclined(f)

\* What becomes of a sign-in: it ends, goes on at its leg, begins, or comes to Patreon signed in to Discord.
Proceeds(f) ==
  \/ flow'[f] = flow[f]
  \/ flow'[f].stage = "none"
  \/ flow'[f].stage = "discord" /\ (flow[f].stage = "discord" \/ Unstarted(f))
  \/ flow'[f].stage = "patreon" /\ flow[f].stage # "none" /\ f \in verified'

LEMMA FlowsKept ==
  ASSUME FlowsInOrder, used' = used, verified \subseteq verified', \A f \in Flows : Proceeds(f)
  PROVE  FlowsInOrder'
<1> SUFFICES ASSUME NEW f \in Flows
             PROVE  /\ flow'[f].stage = "patreon" => f \in verified'
                    /\ \A c \in Codes : f \in used'[c] => flow'[f].stage = "none" /\ f \in verified'
                    /\ \A c, d \in Codes : f \in used'[c] /\ f \in used'[d] => c = d
  BY DEF FlowsInOrder
<1>1. /\ flow[f].stage = "patreon" => f \in verified
      /\ \A c \in Codes : f \in used[c] => flow[f].stage = "none" /\ f \in verified
      /\ \A c, d \in Codes : f \in used[c] /\ f \in used[d] => c = d
  BY DEF FlowsInOrder
<1>2. Proceeds(f)
  OBVIOUS
<1> QED BY <1>1, <1>2 DEF Proceeds, Unstarted

LEMMA Written ==
  ASSUME LinkShape, NEW f \in Flows, NEW signIn \in SignIns, NEW base \in [Flows -> SignIns]
  PROVE  /\ [base EXCEPT ![f] = signIn] \in [Flows -> SignIns]
         /\ [base EXCEPT ![f] = signIn][f] = signIn
         /\ \A g \in Flows \ {f} : [base EXCEPT ![f] = signIn][g] = base[g]
OBVIOUS

LEMMA WithoutIs ==
  ASSUME LinkShape, NEW f \in Flows
  PROVE  /\ Without(f) \in [Flows -> SignIns] /\ Without(f)[f] = NoFlow /\ NoFlow.stage = "none"
         /\ \A g \in Flows \ {f} : Without(f)[g] = flow[g]
<1>1. NoFlow \in SignIns /\ NoFlow.stage = "none" /\ flow \in [Flows -> SignIns]
  BY DEF SignIns, NoFlow, LinkShape
<1> QED BY <1>1, Written DEF Without

LEMMA PrunedIs ==
  ASSUME LinkShape
  PROVE  /\ Pruned \in [Flows -> SignIns]
         /\ \A g \in Flows : Pruned[g] = flow[g] \/ Pruned[g].stage = "none"
<1>1. NoFlow \in SignIns /\ NoFlow.stage = "none" /\ flow \in [Flows -> SignIns]
  BY DEF SignIns, NoFlow, LinkShape
<1>2. \A g \in Flows : Pruned[g] = NoFlow \/ Pruned[g] = flow[g]
  BY DEF Pruned
<1>3. Pruned = [g \in Flows |-> Pruned[g]]
  BY DEF Pruned
<1> QED BY <1>1, <1>2, <1>3

LEMMA InStage ==
  ASSUME LinkShape, NEW f \in Flows, flow[f].stage # "none"
  PROVE  flow[f] \in [stage : {"discord", "patreon"}, account : Visitors, prompt : BOOLEAN,
                      stageEnd : Nat, flowEnd : Nat]
BY DEF LinkShape, SignIns, NoFlow

LEMMA FlowStepOnly ==
  ASSUME LinkShape, FlowStep
  PROVE  UNCHANGED <<moment, refused, fullUntil, born, strayed, used>>
BY Zenon DEF FlowStep, Request, Start, DiscordReturn, DiscordAnswer, PatreonDeclined

LEMMA FlowStepFlows ==
  ASSUME LinkShape, FlowStep
  PROVE  /\ flow' \in [Flows -> SignIns] /\ verified \subseteq verified' /\ verified' \subseteq Flows
         /\ \A f \in Flows : Proceeds(f)
<1>0. flow \in [Flows -> SignIns] /\ verified \subseteq Flows /\ moment \in Nat
  BY DEF LinkShape
<1>1. ASSUME NEW a \in Visitors, Request(a)
      PROVE  /\ flow' \in [Flows -> SignIns] /\ verified' = verified
             /\ \A f \in Flows : Proceeds(f)
  <2>1. flow' = Pruned /\ verified' = verified
    BY <1>1 DEF Request
  <2> QED BY <2>1, PrunedIs DEF Proceeds
<1>2. ASSUME NEW f \in Flows, NEW a \in Visitors, Start(f, a)
      PROVE  /\ flow' \in [Flows -> SignIns] /\ verified' = verified
             /\ \A g \in Flows : Proceeds(g)
  <2> DEFINE new == [stage |-> "discord", account |-> a, prompt |-> TRUE,
                     stageEnd |-> moment + StageLength, flowEnd |-> moment + FlowLength]
  <2>1. Unstarted(f) /\ verified' = verified
        /\ (flow' = flow \/ flow' = Pruned \/ flow' = [Pruned EXCEPT ![f] = new])
    BY <1>2 DEF Start
  <2>2. new \in SignIns /\ new.stage = "discord"
    BY <1>0, LinkPatreonAssumption DEF SignIns
  <2>3. CASE flow' = flow \/ flow' = Pruned
    BY <1>0, <2>1, <2>3, PrunedIs DEF Proceeds
  <2>4. CASE flow' = [Pruned EXCEPT ![f] = new]
    <3> HIDE DEF new
    <3>1. flow' \in [Flows -> SignIns] /\ flow'[f] = new
          /\ \A g \in Flows \ {f} : flow'[g] = Pruned[g]
      BY <2>2, <2>4, PrunedIs, Written
    <3> QED BY <2>1, <2>2, <3>1, PrunedIs DEF Proceeds
  <2> QED BY <2>1, <2>3, <2>4
<1>3. ASSUME NEW f \in Flows, DiscordReturn(f)
      PROVE  /\ flow' \in [Flows -> SignIns] /\ verified' = verified
             /\ \A g \in Flows : Proceeds(g)
  <2>1. flow[f].stage # "none" /\ verified' = verified
    BY <1>3 DEF DiscordReturn
  <2>2. \/ flow' = flow \/ flow' = Without(f)
        \/ flow[f].stage = "discord" /\ flow' = [flow EXCEPT ![f] = [flow[f] EXCEPT !.prompt = FALSE]]
    BY <1>3 DEF DiscordReturn, Holds
  <2>3. CASE flow' = flow \/ flow' = Without(f)
    BY <1>0, <2>1, <2>3, WithoutIs DEF Proceeds
  <2>4. CASE flow[f].stage = "discord" /\ flow' = [flow EXCEPT ![f] = [flow[f] EXCEPT !.prompt = FALSE]]
    <3> DEFINE new == [flow[f] EXCEPT !.prompt = FALSE]
    <3>1. new \in SignIns /\ new.stage = "discord"
      BY <2>1, <2>4, InStage DEF SignIns
    <3> HIDE DEF new
    <3>2. flow' = [flow EXCEPT ![f] = new]
      BY <2>4 DEF new
    <3>3. flow' \in [Flows -> SignIns] /\ flow'[f] = new
          /\ \A g \in Flows \ {f} : flow'[g] = flow[g]
      BY <1>0, <3>1, <3>2, Written
    <3> QED BY <2>1, <2>4, <3>1, <3>3 DEF Proceeds
  <2> QED BY <2>2, <2>3, <2>4
<1>4. ASSUME NEW f \in Flows, DiscordAnswer(f)
      PROVE  /\ flow' \in [Flows -> SignIns] /\ verified \subseteq verified' /\ verified' \subseteq Flows
             /\ \A g \in Flows : Proceeds(g)
  <2> DEFINE new == [flow[f] EXCEPT !.stage = "patreon",
                                    !.stageEnd = Earlier(moment + StageLength, flow[f].flowEnd)]
  <2>1. verified' \in {verified, verified \cup {f}}
    BY <1>4 DEF DiscordAnswer
  <2>2. \/ flow' = flow \/ flow' = Without(f)
        \/ /\ flow[f].stage # "none" /\ verified' = verified \cup {f}
           /\ flow' = [flow EXCEPT ![f].stage = "patreon",
                                   ![f].stageEnd = Earlier(moment + StageLength, flow[f].flowEnd)]
    BY <1>4 DEF DiscordAnswer
  <2>3. CASE flow' = flow \/ flow' = Without(f)
    BY <1>0, <2>1, <2>3, WithoutIs DEF Proceeds
  <2>4. CASE /\ flow[f].stage # "none" /\ verified' = verified \cup {f}
             /\ flow' = [flow EXCEPT ![f].stage = "patreon",
                                     ![f].stageEnd = Earlier(moment + StageLength, flow[f].flowEnd)]
    <3>1. flow[f] \in [stage : {"discord", "patreon"}, account : Visitors, prompt : BOOLEAN,
                       stageEnd : Nat, flowEnd : Nat]
      BY <2>4, InStage
    <3>2. Earlier(moment + StageLength, flow[f].flowEnd) \in Nat
      BY <1>0, <3>1, LinkPatreonAssumption DEF Earlier
    <3>3. new \in SignIns /\ new.stage = "patreon"
      BY <3>1, <3>2 DEF SignIns
    <3>4. flow' = [flow EXCEPT ![f] = new]
      BY <1>0, <2>4
    <3> HIDE DEF new
    <3>5. flow' \in [Flows -> SignIns] /\ flow'[f] = new
          /\ \A g \in Flows \ {f} : flow'[g] = flow[g]
      BY <1>0, <3>3, <3>4, Written
    <3> QED BY <1>0, <2>4, <3>3, <3>5 DEF Proceeds
  <2> QED BY <2>2, <2>3, <2>4
<1>5. ASSUME NEW f \in Flows, PatreonDeclined(f)
      PROVE  /\ flow' \in [Flows -> SignIns] /\ verified' = verified
             /\ \A g \in Flows : Proceeds(g)
  BY <1>5, WithoutIs DEF PatreonDeclined, Proceeds
<1> QED BY <1>0, <1>1, <1>2, <1>3, <1>4, <1>5 DEF FlowStep

LEMMA FlowStepKeeps ==
  ASSUME LinkInv, FlowStep
  PROVE  LinkInv'
<1>1. LinkShape /\ StrayedKnown /\ FlowsInOrder
  BY DEF LinkInv
<1>2. UNCHANGED <<moment, refused, fullUntil, born, strayed, used>>
  BY <1>1, FlowStepOnly
<1>3. LinkShape'
  BY <1>1, <1>2, FlowStepFlows DEF LinkShape
<1>4. StrayedKnown'
  BY <1>1, <1>2 DEF StrayedKnown, Held
<1>5. FlowsInOrder'
  BY <1>1, <1>2, FlowStepFlows, FlowsKept
<1> QED BY <1>3, <1>4, <1>5 DEF LinkInv

-----------------------------------------------------------------------------
(* The codes *)

\* Nothing becomes of a code that strayed but that it is spent or expires.
LEMMA StrayKnown ==
  ASSUME LinkShape, StrayedKnown, NEW f \in Flows, NEW c \in Codes, Stray(f, c)
  PROVE  StrayedKnown'
<1>1. /\ born[c] # Unborn /\ refused' = KeepsRefused(c) /\ fullUntil' = DropCloses(c)
      /\ strayed' = strayed \cup {c} /\ moment' = moment
      /\ (born' = born \/ born' = [born EXCEPT ![c] = Spent])
  BY DEF Stray
<1>2. /\ fullUntil' \in Nat /\ fullUntil' >= fullUntil
      /\ [code |-> c, until |-> moment + RefusedFor] \in Held(KeepsRefused(c))
      /\ \A r \in Held(refused) :
           r.code # c /\ moment < r.until => r \in Held(KeepsRefused(c)) \/ fullUntil' >= r.until
  BY <1>1, RefusedKeeps
<1>3. /\ moment \in Nat /\ fullUntil \in Nat /\ CodeLife \in Nat /\ RefusedFor \in Nat
      /\ CodeLife <= RefusedFor /\ born \in [Codes -> Int] /\ born[c] <= moment
      /\ strayed \subseteq Codes
  BY LinkPatreonAssumption DEF LinkShape
<1>4. Held(refused)' = Held(KeepsRefused(c))
  BY <1>1 DEF Held
<1> SUFFICES ASSUME NEW d \in strayed', born'[d] >= 0
             PROVE  \/ moment' >= born'[d] + CodeLife
                    \/ fullUntil' >= born'[d] + CodeLife
                    \/ \E r \in Held(refused)' : r.code = d /\ r.until >= born'[d] + CodeLife
  BY DEF StrayedKnown
<1>5. d \in Codes /\ born'[d] = born[d]
  <2>1. d \in Codes
    BY <1>1, <1>3
  <2>2. CASE born' = [born EXCEPT ![c] = Spent] /\ d = c
    BY <2>1, <2>2, <1>3 DEF Spent
  <2> QED BY <1>1, <1>3, <2>1, <2>2
<1>6. CASE d = c
  <2> DEFINE now == [code |-> c, until |-> moment + RefusedFor]
  <2>1. now.code = d /\ now.until >= born'[d] + CodeLife
    BY <1>3, <1>5, <1>6
  <2> HIDE DEF now
  <2>2. now \in Held(refused)'
    BY <1>2, <1>4 DEF now
  <2> QED BY <2>1, <2>2
<1>7. CASE d # c
  <2>1. d \in strayed /\ born[d] >= 0 /\ born[d] \in Int
    BY <1>1, <1>3, <1>5, <1>7
  <2>2. \/ moment >= born[d] + CodeLife
        \/ fullUntil >= born[d] + CodeLife
        \/ \E r \in Held(refused) : r.code = d /\ r.until >= born[d] + CodeLife
    BY <2>1 DEF StrayedKnown
  <2>3. CASE moment >= born[d] + CodeLife
    BY <1>1, <1>5, <2>3
  <2>4. CASE fullUntil >= born[d] + CodeLife
    BY <1>2, <1>3, <1>5, <2>1, <2>4
  <2>5. CASE \E r \in Held(refused) : r.code = d /\ r.until >= born[d] + CodeLife
    <3>1. PICK r \in Held(refused) : r.code = d /\ r.until >= born[d] + CodeLife
      BY <2>5
    <3>2. r.until \in Nat
      BY EntryTypes DEF Held, LinkShape
    <3>3. CASE moment < r.until
      <4>1. r \in Held(KeepsRefused(c)) \/ fullUntil' >= r.until
        BY <1>2, <1>7, <3>1, <3>3
      <4> QED BY <1>2, <1>3, <1>4, <1>5, <2>1, <3>1, <3>2, <4>1
    <3>4. CASE ~(moment < r.until)
      BY <1>1, <1>3, <1>5, <2>1, <3>1, <3>2, <3>4
    <3> QED BY <3>3, <3>4
  <2> QED BY <2>2, <2>3, <2>4, <2>5
<1> QED BY <1>6, <1>7

LEMMA StrayKeeps ==
  ASSUME LinkInv, NEW f \in Flows, NEW c \in Codes, Stray(f, c)
  PROVE  LinkInv'
<1>1. LinkShape /\ StrayedKnown /\ FlowsInOrder
  BY DEF LinkInv
<1>2. /\ born[c] # Unborn /\ refused' = KeepsRefused(c) /\ fullUntil' = DropCloses(c)
      /\ strayed' = strayed \cup {c} /\ UNCHANGED <<moment, used, verified>>
      /\ (flow' = flow \/ flow' = Without(f))
      /\ (born' = born \/ born' = [born EXCEPT ![c] = Spent])
  BY DEF Stray
<1>3. flow' \in [Flows -> SignIns] /\ \A g \in Flows : Proceeds(g)
  BY <1>1, <1>2, WithoutIs DEF Proceeds, LinkShape
<1>4. /\ born' \in [Codes -> Int] /\ \A d \in Codes : born'[d] <= moment
      /\ \A d \in strayed' : born'[d] # Unborn
  BY <1>1, <1>2, SMTT(40) DEF LinkShape, Spent, Unborn
<1>5. refused' \in Seq(Entry) /\ fullUntil' \in Nat
  BY <1>1, <1>2, RefusedKeeps
<1>6. LinkShape'
  BY <1>1, <1>2, <1>3, <1>4, <1>5 DEF LinkShape
<1>7. FlowsInOrder'
  BY <1>1, <1>2, <1>3, FlowsKept
<1> QED BY <1>1, <1>6, <1>7, StrayKnown DEF LinkInv

\* A code that strayed is not exchanged while Patreon takes it.
LEMMA StrayedRefused ==
  ASSUME LinkShape, StrayedKnown, NEW c \in strayed
  PROVE  ~(MayExchange(c) /\ Alive(c))
<1> SUFFICES ASSUME MayExchange(c), Alive(c) PROVE FALSE
  OBVIOUS
<1>1. born[c] >= 0 /\ moment < born[c] + CodeLife
  BY DEF Alive
<1>2. /\ moment \in Nat /\ fullUntil \in Nat /\ born[c] \in Int /\ CodeLife \in Nat
  BY LinkPatreonAssumption DEF LinkShape
<1>3. moment >= fullUntil /\ Listed(c) = {}
  BY DEF MayExchange
<1>4. PICK r \in Held(refused) : r.code = c /\ r.until >= born[c] + CodeLife
  BY <1>1, <1>2, <1>3 DEF StrayedKnown
<1>5. r.until \in Nat
  BY EntryTypes DEF Held, LinkShape
<1>6. r \in Held(Remembered)
  BY <1>1, <1>2, <1>4, <1>5, RememberedKeeps
<1> QED BY <1>3, <1>4, <1>6 DEF Held, Listed

LEMMA ReturnUses ==
  ASSUME LinkShape, NEW f \in Flows, PatreonReturn(f)
  PROVE  \E c \in Codes :
           used' = IF MayExchange(c) /\ Alive(c) THEN [used EXCEPT ![c] = @ \cup {f}] ELSE used
BY DEF PatreonReturn

LEMMA ReturnKeeps ==
  ASSUME LinkInv, NEW f \in Flows, PatreonReturn(f)
  PROVE  LinkInv'
<1>1. LinkShape /\ StrayedKnown /\ FlowsInOrder
  BY DEF LinkInv
<1>2. /\ UNCHANGED <<moment, fullUntil, born, strayed, verified>> /\ refused' = Remembered
      /\ flow' = Without(f) /\ flow[f].stage = "patreon"
  BY DEF PatreonReturn, Ends, Holds
<1>3. PICK c \in Codes :
        used' = IF MayExchange(c) /\ Alive(c) THEN [used EXCEPT ![c] = @ \cup {f}] ELSE used
  BY <1>1, ReturnUses
<1>4. /\ flow' \in [Flows -> SignIns] /\ flow'[f].stage = "none"
      /\ \A g \in Flows \ {f} : flow'[g] = flow[g]
  BY <1>1, <1>2, WithoutIs
<1>5. used' \in [Codes -> SUBSET Flows]
  BY <1>1, <1>3 DEF LinkShape
<1>6. LinkShape'
  BY <1>1, <1>2, <1>4, <1>5, RememberedKeeps DEF LinkShape
<1>7. StrayedKnown'
  <2> SUFFICES ASSUME NEW d \in strayed, born[d] >= 0
               PROVE  \/ moment >= born[d] + CodeLife
                      \/ fullUntil >= born[d] + CodeLife
                      \/ \E r \in Held(refused)' : r.code = d /\ r.until >= born[d] + CodeLife
    BY <1>2 DEF StrayedKnown
  <2>1. Held(refused)' = Held(Remembered)
    BY <1>2 DEF Held
  <2>2. CASE \E r \in Held(refused) : r.code = d /\ r.until >= born[d] + CodeLife
    <3>1. PICK r \in Held(refused) : r.code = d /\ r.until >= born[d] + CodeLife
      BY <2>2
    <3>2. r.until \in Nat /\ moment \in Nat /\ born[d] \in Int /\ CodeLife \in Nat
      <4>1. r.until \in Nat
        BY <1>1, EntryTypes DEF Held, LinkShape
      <4> QED BY <1>1, <4>1, LinkPatreonAssumption DEF LinkShape
    <3>3. moment < r.until => r \in Held(Remembered)
      BY <1>1, RememberedKeeps
    <3> QED BY <2>1, <3>1, <3>2, <3>3
  <2> QED BY <1>1, <2>2 DEF StrayedKnown
<1>8. FlowsInOrder'
  <2>1. /\ f \in verified /\ \A d \in Codes : f \notin used[d]
    BY <1>1, <1>2 DEF FlowsInOrder
  <2>2. /\ \A g \in Flows \ {f}, d \in Codes : g \in used'[d] => g \in used[d]
        /\ \A d \in Codes : f \in used'[d] => d = c
    BY <1>1, <1>3, <2>1 DEF LinkShape
  <2> QED BY <1>1, <1>2, <1>4, <2>1, <2>2 DEF FlowsInOrder
<1> QED BY <1>6, <1>7, <1>8 DEF LinkInv

\* A new code, time and a restart: what is known of the codes that strayed stays, or is not asked for.
LEMMA OtherKeeps ==
  ASSUME LinkInv, Passes \/ Restarts \/ (\E c \in Codes : Issue(c)) \/ UNCHANGED linkVars
  PROVE  LinkInv'
<1>1. LinkShape /\ StrayedKnown /\ FlowsInOrder
  BY DEF LinkInv
<1>2. CASE Passes
  <2>1. moment' = moment + 1 /\ UNCHANGED <<flow, refused, fullUntil, born, strayed, used, verified>>
    BY <1>2 DEF Passes
  <2>2. LinkShape'
    BY <1>1, <2>1 DEF LinkShape
  <2>3. StrayedKnown'
    <3>1. \A c \in strayed : moment \in Nat /\ born[c] \in Int /\ CodeLife \in Nat
      BY <1>1, LinkPatreonAssumption DEF LinkShape
    <3> QED BY <1>1, <2>1, <3>1 DEF StrayedKnown, Held
  <2>4. FlowsInOrder'
    BY <1>1, <2>1 DEF FlowsInOrder
  <2> QED BY <2>2, <2>3, <2>4 DEF LinkInv
<1>3. CASE Restarts
  <2>1. /\ flow' = [f \in Flows |-> NoFlow] /\ refused' = <<>> /\ fullUntil' = 0 /\ strayed' = {}
        /\ UNCHANGED <<moment, born, used, verified>>
    BY <1>3 DEF Restarts
  <2>2. NoFlow \in SignIns /\ NoFlow.stage = "none"
    BY DEF SignIns, NoFlow
  <2>3. LinkShape'
    BY <1>1, <2>1, <2>2 DEF LinkShape
  <2>4. StrayedKnown'
    BY <2>1 DEF StrayedKnown
  <2>5. FlowsInOrder'
    BY <1>1, <2>1, <2>2 DEF FlowsInOrder
  <2> QED BY <2>3, <2>4, <2>5 DEF LinkInv
<1>4. ASSUME NEW c \in Codes, Issue(c) PROVE LinkInv'
  <2>1. /\ born[c] = Unborn /\ born' = [born EXCEPT ![c] = moment]
        /\ UNCHANGED <<moment, flow, refused, fullUntil, strayed, used, verified>>
    BY <1>4 DEF Issue
  <2>2. LinkShape'
    BY <1>1, <2>1 DEF LinkShape, Unborn
  <2>3. \A d \in strayed : born'[d] = born[d]
    BY <1>1, <2>1 DEF LinkShape
  <2>4. StrayedKnown' /\ FlowsInOrder'
    BY <1>1, <2>1, <2>3 DEF StrayedKnown, FlowsInOrder, Held
  <2> QED BY <2>2, <2>4 DEF LinkInv
<1>5. CASE UNCHANGED linkVars
  <2>1. UNCHANGED <<moment, flow, refused, fullUntil, born, strayed, used, verified>>
    BY <1>5 DEF linkVars
  <2> QED BY <1>1, <2>1 DEF LinkInv, LinkShape, StrayedKnown, FlowsInOrder, Held
<1> QED BY <1>2, <1>3, <1>4, <1>5

LEMMA LinkInitial == LinkInit => LinkInv
<1> SUFFICES ASSUME LinkInit PROVE LinkInv
  OBVIOUS
<1>1. /\ moment = 0 /\ flow = [f \in Flows |-> NoFlow] /\ refused = <<>> /\ fullUntil = 0
      /\ born = [c \in Codes |-> Unborn] /\ strayed = {} /\ used = [c \in Codes |-> {}] /\ verified = {}
  BY DEF LinkInit
<1>2. NoFlow \in SignIns /\ NoFlow.stage = "none" /\ Unborn \in Int /\ Unborn <= 0
  BY DEF SignIns, NoFlow, Unborn
<1> QED BY <1>1, <1>2 DEF LinkInv, LinkShape, StrayedKnown, FlowsInOrder

LEMMA LinkInductive == LinkInv /\ [LinkNext]_linkVars => LinkInv'
<1> SUFFICES ASSUME LinkInv, [LinkNext]_linkVars PROVE LinkInv'
  OBVIOUS
<1>1. ASSUME Passes \/ Restarts \/ (\E c \in Codes : Issue(c)) \/ UNCHANGED linkVars PROVE LinkInv'
  BY <1>1, OtherKeeps
<1>2. ASSUME FlowStep PROVE LinkInv'
  BY <1>2, FlowStepKeeps
<1>3. ASSUME NEW f \in Flows, PatreonReturn(f) PROVE LinkInv'
  BY <1>3, ReturnKeeps
<1>4. ASSUME NEW f \in Flows, NEW c \in Codes, Stray(f, c) PROVE LinkInv'
  BY <1>4, StrayKeeps
<1> QED BY <1>1, <1>2, <1>3, <1>4 DEF LinkNext, FlowStep

\* No step exchanges a code that strayed.
LEMMA StrayedUnused ==
  ASSUME LinkInv, [LinkNext]_linkVars
  PROVE  [\A c \in strayed : used'[c] = used[c]]_linkVars
<1>1. LinkShape /\ StrayedKnown
  BY DEF LinkInv
<1>2. CASE used' = used
  BY <1>2
<1>3. ASSUME NEW f \in Flows, PatreonReturn(f)
      PROVE  \A c \in strayed : used'[c] = used[c]
  <2>1. PICK c \in Codes :
          used' = IF MayExchange(c) /\ Alive(c) THEN [used EXCEPT ![c] = @ \cup {f}] ELSE used
    BY <1>1, <1>3, ReturnUses
  <2>2. c \in strayed => used' = used
    BY <1>1, <2>1, StrayedRefused
  <2> QED BY <1>1, <2>1, <2>2 DEF LinkShape
<1>4. ASSUME FlowStep PROVE used' = used
  BY <1>1, <1>4, FlowStepOnly
<1>5. ASSUME NEW f \in Flows, NEW c \in Codes, Stray(f, c) PROVE used' = used
  BY <1>5 DEF Stray
<1>6. ASSUME Passes \/ Restarts \/ (\E c \in Codes : Issue(c)) \/ UNCHANGED linkVars PROVE used' = used
  BY <1>6 DEF Passes, Restarts, Issue, linkVars
<1> QED BY <1>2, <1>3, <1>4, <1>5, <1>6 DEF LinkNext, FlowStep

-----------------------------------------------------------------------------
\* However redirects are replayed, stolen or late, and through restarts: a Patreon code that once came
\* without its sign-in is not used by this process while Patreon takes it, though the list of such
\* codes is bounded; and a sign-in exchanges one code at most, after its account signed in to Discord
\* (patron-link.state.ts, patron-link.service.ts).
THEOREM LinkedByItsSignIn == LinkSpec => LinkedOnce
<1>1. LinkInv => FlowLinksOnce
  BY DEF LinkInv, FlowsInOrder, FlowLinksOnce
<1>2. LinkInv /\ [LinkNext]_linkVars => [\A c \in strayed : used'[c] = used[c]]_linkVars
  BY StrayedUnused
<1> QED BY <1>1, <1>2, LinkInitial, LinkInductive, PTL DEF LinkSpec, LinkedOnce, RefusedNeverUsed

-----------------------------------------------------------------------------
(* The bounds of the sign-ins: the list of refused codes, and Discord exchanges under way *)

LinkBounds ==
  /\ moment \in 0 .. LastMoment /\ Len(refused) <= MaxRefused /\ calls \in [Flows -> 0 .. MaxCalls]

\* Forgetting and moving a code never make the list longer.
LEMMA OthersLength ==
  ASSUME LinkShape, NEW c
  PROVE  /\ Remembered \in Seq(Entry) /\ Len(Remembered) <= Len(refused)
         /\ Others(c) \in Seq(Entry) /\ Len(Others(c)) <= Len(Remembered)
<1>1. Forgotten \in 0 .. Len(refused) /\ refused \in Seq(Entry) BY ForgottenIs DEF LinkShape
<1>2. Remembered \in Seq(Entry) /\ Len(Remembered) <= Len(refused) BY <1>1 DEF Remembered
<1>3. Others(c) \in Seq(Entry) /\ Len(Others(c)) <= Len(Remembered)
  <2>1. CASE Listed(c) = {} BY <2>1, <1>2 DEF Others
  <2>2. CASE Listed(c) # {}
    <3> PICK place : place = (CHOOSE i \in Listed(c) : TRUE) OBVIOUS
    <3> PICK rows : rows = Remembered OBVIOUS
    <3>1. place \in 1 .. Len(rows) /\ rows \in Seq(Entry) BY <2>2, <1>2 DEF Listed
    <3>2. Others(c) = WithoutAt(rows, place) BY <2>2 DEF Others
    <3>6. Others(c) \in Seq(Entry) /\ Len(Others(c)) = Len(rows) - 1 BY <3>1, <3>2, WithoutKeeps
    <3>7. Len(rows) \in Nat BY <3>1
    <3> QED BY <3>6, <3>7
  <2> QED BY <2>1, <2>2
<1> QED BY <1>2, <1>3

LEMMA RefusedLength ==
  ASSUME LinkShape, Len(refused) <= MaxRefused, NEW c \in Codes
  PROVE  Len(KeepsRefused(c)) <= MaxRefused
<1> PICK rows : rows = Others(c) OBVIOUS
<1> PICK now : now = [code |-> c, until |-> moment + RefusedFor] OBVIOUS
<1> PICK kept : kept = Keeps(c) OBVIOUS
<1>1. MaxRefused \in Nat \ {0} /\ Len(refused) \in Nat BY LinkPatreonAssumption DEF LinkShape
<1>2. rows \in Seq(Entry) /\ Len(rows) \in Nat /\ Len(rows) <= MaxRefused
  <2>1. Len(Remembered) \in Nat /\ Len(Others(c)) \in Nat BY OthersLength
  <2> QED BY <2>1, <1>1, OthersLength
<1>3. kept \in Seq(Entry) /\ Len(kept) < MaxRefused
  <2>1. CASE Full(c)
    <3>1. Len(rows) = MaxRefused /\ rows # <<>> BY <2>1, <1>1, <1>2 DEF Full
    <3>2. kept = Tail(rows) BY <2>1 DEF Keeps
    <3> QED BY <3>1, <3>2, <1>1, <1>2
  <2>2. CASE ~Full(c)
    <3>1. kept = rows BY <2>2 DEF Keeps
    <3>2. Len(rows) < MaxRefused BY <2>2, <1>1, <1>2 DEF Full
    <3> QED BY <3>1, <3>2, <1>2
  <2> QED BY <2>1, <2>2
<1>4. KeepsRefused(c) = Append(kept, now) BY DEF KeepsRefused
<1>5. Len(Append(kept, now)) = Len(kept) + 1 /\ Len(kept) \in Nat BY <1>3
<1> QED BY <1>1, <1>3, <1>4, <1>5

LEMMA LinkStartsBounded == LinkInit => LinkBounds
<1> SUFFICES ASSUME LinkInit PROVE LinkBounds OBVIOUS
<1>1. MaxRefused \in Nat /\ MaxCalls \in Nat /\ LastMoment \in Nat BY LinkPatreonAssumption
<1>2. Len(refused) = 0 BY DEF LinkInit
<1> QED BY <1>1, <1>2 DEF LinkInit, LinkBounds

LEMMA LinkStaysBounded == LinkInv /\ LinkBounds /\ [LinkNext]_linkVars => LinkBounds'
<1> SUFFICES ASSUME LinkInv, LinkBounds, [LinkNext]_linkVars PROVE LinkBounds' OBVIOUS
<1>1. MaxRefused \in Nat /\ MaxCalls \in Nat /\ LastMoment \in Nat BY LinkPatreonAssumption
<1>2. LinkShape BY DEF LinkInv
<1>3. moment \in 0 .. LastMoment /\ Len(refused) <= MaxRefused /\ calls \in [Flows -> 0 .. MaxCalls] BY DEF LinkBounds
<1>4. CASE Passes BY <1>1, <1>3, <1>4 DEF Passes, LinkBounds
<1>5. CASE Restarts
  <2>1. Len(refused') = 0 BY <1>5 DEF Restarts
  <2> QED BY <2>1, <1>1, <1>3, <1>5 DEF Restarts, LinkBounds
<1>6. ASSUME NEW a \in Visitors, Request(a) PROVE LinkBounds' BY <1>3, <1>6 DEF Request, LinkBounds
<1>7. ASSUME NEW f \in Flows, NEW a \in Visitors, Start(f, a) PROVE LinkBounds' BY <1>3, <1>7 DEF Start, LinkBounds
<1>8. ASSUME NEW f \in Flows, DiscordReturn(f) PROVE LinkBounds'
  <2>1. calls' = calls \/ (calls[f] < MaxCalls /\ calls' = [calls EXCEPT ![f] = @ + 1]) BY <1>8 DEF DiscordReturn
  <2>2. calls[f] \in 0 .. MaxCalls BY <1>3
  <2>3. calls[f] < MaxCalls => calls[f] + 1 \in 0 .. MaxCalls BY <1>1, <2>2
  <2>4. calls' \in [Flows -> 0 .. MaxCalls] BY <1>3, <2>1, <2>3
  <2> QED BY <2>4, <1>3, <1>8 DEF DiscordReturn, LinkBounds
<1>9. ASSUME NEW f \in Flows, DiscordAnswer(f) PROVE LinkBounds'
  <2>1. calls[f] > 0 /\ calls' = [calls EXCEPT ![f] = @ - 1] BY <1>9 DEF DiscordAnswer
  <2>2. calls[f] - 1 \in 0 .. MaxCalls
    <3>1. calls[f] \in 0 .. MaxCalls BY <1>3
    <3> QED BY <1>1, <2>1, <3>1
  <2>3. calls' \in [Flows -> 0 .. MaxCalls] BY <1>3, <2>1, <2>2
  <2> QED BY <2>3, <1>3, <1>9 DEF DiscordAnswer, LinkBounds
<1>10. ASSUME NEW f \in Flows, PatreonReturn(f) PROVE LinkBounds'
  <2>1. refused' = Remembered /\ moment' = moment /\ calls' = calls BY <1>10 DEF PatreonReturn
  <2>2. Remembered \in Seq(Entry) /\ Len(Remembered) <= Len(refused) BY <1>2, OthersLength
  <2>3. Len(Remembered) \in Nat /\ Len(refused) \in Nat BY <1>2, <2>2 DEF LinkShape
  <2>4. Len(refused') <= MaxRefused BY <1>1, <1>3, <2>1, <2>2, <2>3
  <2> QED BY <2>1, <2>4, <1>3 DEF LinkBounds
<1>11. ASSUME NEW f \in Flows, PatreonDeclined(f) PROVE LinkBounds' BY <1>3, <1>11 DEF PatreonDeclined, LinkBounds
<1>12. ASSUME NEW c \in Codes, Issue(c) PROVE LinkBounds' BY <1>3, <1>12 DEF Issue, LinkBounds
<1>13. ASSUME NEW f \in Flows, NEW c \in Codes, Stray(f, c) PROVE LinkBounds'
  <2>1. refused' = KeepsRefused(c) /\ moment' = moment /\ calls' = calls BY <1>13 DEF Stray
  <2>2. Len(refused') <= MaxRefused BY <2>1, <1>2, <1>3, RefusedLength
  <2> QED BY <2>1, <2>2, <1>3 DEF LinkBounds
<1>14. CASE UNCHANGED linkVars BY <1>3, <1>14 DEF linkVars, LinkBounds
<1> QED BY <1>4, <1>5, <1>6, <1>7, <1>8, <1>9, <1>10, <1>11, <1>12, <1>13, <1>14 DEF LinkNext

LEMMA LinkTyped == LinkInv /\ LinkBounds => LinkTypeOK
<1> SUFFICES ASSUME LinkInv, LinkBounds PROVE LinkTypeOK OBVIOUS
<1>1. flow \in [Flows -> SignIns] /\ strayed \subseteq Codes /\ verified \subseteq Flows BY DEF LinkInv, LinkShape
<1>2. \A s \in SignIns : s.stage \in {"none", "discord", "patreon"} BY DEF SignIns, NoFlow
<1>3. \A f \in Flows : flow[f].stage \in {"none", "discord", "patreon"} BY <1>1, <1>2
<1> QED BY <1>1, <1>3 DEF LinkBounds, LinkTypeOK

-----------------------------------------------------------------------------
(* What staff ask for *)


\* A change and a page read go through steps of their own.
Paths ==
  /\ \A q \in Changes : stepOf[q] \notin {"page", "reading", "joined"}
  /\ \A q \in PageReads : stepOf[q] \notin {"record", "send", "sent", "finish"}

\* The one request that created a receipt may send its action, and nobody after it.
Active(q) == stepOf[q] \in {"send", "sent", "finish"}
SentOnce ==
  /\ \A i \in ActionIds : sent[i] <= 1 /\ (receipts[i] = "none" => sent[i] = 0 /\ i \notin applied)
  /\ \A q \in Changes : Active(q) => receipts[ActionOf[q]] = "started"
  /\ \A q \in Changes : stepOf[q] = "send" => sent[ActionOf[q]] = 0 /\ ActionOf[q] \notin applied
  /\ \A q, r \in Changes : Active(q) /\ Active(r) /\ ActionOf[q] = ActionOf[r] => q = r

\* What a receipt or an answer says of the game is so, and can no longer change.
TrueAnswers ==
  /\ \A i \in ActionIds : /\ receipts[i] = "applied" => i \in applied
                          /\ receipts[i] = "failed" => i \notin applied
  /\ \A q \in Changes :
       /\ stepOf[q] \in {"sent", "finish"} =>
            outcome[q] \in {"applied", "failed", "unknown"} /\ gameSeen[q] \in Nat /\ gameSeen[q] <= game
       /\ stepOf[q] \in {"new", "role", "answered", "record", "send"} => outcome[q] = "none"
       /\ outcome[q] = "applied" => ActionOf[q] \in applied
       /\ outcome[q] = "failed" => /\ ActionOf[q] \notin applied
                                   /\ Active(q) \/ receipts[ActionOf[q]] = "failed"

\* A shared reading is at least as new as every change that was answered, or is about to be.
Ahead(value) ==
  value >= known /\ \A q \in Changes : stepOf[q] = "finish" /\ outcome[q] = "applied" => value >= gameSeen[q]
FreshPages ==
  /\ \A q \in PageReads : stepOf[q] # "done" => gameSeen[q] = Unread
  /\ \A q \in StaffRequests : needs[q] <= known
  /\ page # NoPage /\ gameSeen[page] # Unread => Ahead(gameSeen[page])
  /\ PagesFollowActions

\* Whoever has the right while its request is judged, and whoever was given it, is entitled.
Rechecked ==
  \A q \in Changes :
    /\ UnderWay(q) /\ CanAct(roleNow) => q \in entitled
    /\ stepOf[q] = "answered" /\ CanAct(roleGot[q]) => q \in entitled
    /\ stepOf[q] \in {"record", "send", "sent", "finish"} => q \in entitled

StaffInv == StaffTypeOK /\ Paths /\ SentOnce /\ TrueAnswers /\ FreshPages /\ Rechecked

-------------------------------------------------------------------------------
\* Every action is taken under the assumption on the constants.
LEMMA ActionType ==
  ASSUME NEW q \in Changes
  PROVE  ActionOf[q] \in ActionIds /\ q \in StaffRequests /\ q \notin PageReads
BY StaffActionsAssumption DEF StaffRequests

LEMMA StaffInitially == StaffInit => StaffInv
<1> SUFFICES ASSUME StaffInit PROVE StaffInv OBVIOUS
<1> USE StaffActionsAssumption DEF StaffInit, StaffRequests
<1>1. StaffTypeOK BY DEF StaffTypeOK, RequestSteps, ReceiptStates, Outcomes, Unread
<1>2. Paths BY DEF Paths
<1>3. SentOnce BY ActionType DEF SentOnce, Active
<1>4. TrueAnswers BY DEF TrueAnswers, Active
<1>5. FreshPages BY DEF FreshPages, PagesFollowActions, Unread
<1>6. Rechecked BY DEF Rechecked, UnderWay
<1> QED BY <1>1, <1>2, <1>3, <1>4, <1>5, <1>6 DEF StaffInv

-------------------------------------------------------------------------------
(* One lemma per part of the invariant, action by action.                   *)

LEMMA TypesKept == StaffInv /\ [StaffNext]_staffVars => StaffTypeOK'
<1> SUFFICES ASSUME StaffInv, [StaffNext]_staffVars PROVE StaffTypeOK' OBVIOUS
<1> USE ActionType DEF StaffInv, StaffTypeOK, accountVars, requestVars, gameVars, Moves, Closes
<1>1. ASSUME RoleChanges \/ SignsIn \/ Logout \/ SecondPasses \/ CacheLapses \/ PageLapses PROVE StaffTypeOK'
  <2>1. CASE RoleChanges BY <2>1 DEF RoleChanges
  <2>2. CASE SignsIn BY <2>2 DEF SignsIn
  <2>3. CASE Logout \/ SecondPasses \/ CacheLapses \/ PageLapses
    BY <2>3 DEF Logout, SecondPasses, CacheLapses, PageLapses
  <2> QED BY <1>1, <2>1, <2>2, <2>3
<1>2. CASE StaffRestart
  BY <1>2 DEF StaffRestart, RequestSteps, Outcomes
<1>3. ASSUME NEW q \in StaffRequests, RequestArrives(q) PROVE StaffTypeOK'
  BY <1>3 DEF RequestArrives, RequestSteps
<1>4. ASSUME NEW q \in StaffRequests, DiscordReads(q) PROVE StaffTypeOK'
  BY <1>4 DEF DiscordReads, RequestSteps, Outcomes
<1>5. ASSUME NEW q \in StaffRequests, HasRole(q) PROVE StaffTypeOK'
  BY <1>5 DEF HasRole, RequestSteps, Outcomes
<1>6. ASSUME NEW q \in Changes, RecordReceipt(q) PROVE StaffTypeOK'
  BY <1>6 DEF RecordReceipt, RequestSteps, Outcomes, ReceiptStates, Creates
<1>7. ASSUME NEW q \in Changes, Sends(q) PROVE StaffTypeOK'
  BY <1>7 DEF Sends, RequestSteps, Outcomes
<1>8. ASSUME NEW q \in Changes, Answered(q) PROVE StaffTypeOK'
  BY <1>8 DEF Answered, ClearPages, RequestSteps
<1>9. ASSUME NEW q \in Changes, Finishes(q) PROVE StaffTypeOK'
  BY <1>9 DEF Finishes, TrueAnswers, RequestSteps, ReceiptStates, Outcomes
<1>10. ASSUME NEW q \in PageReads, ReadPage(q) PROVE StaffTypeOK'
  BY <1>10 DEF ReadPage, RequestSteps, StaffRequests
<1>11. ASSUME NEW q \in PageReads, PageRead(q) PROVE StaffTypeOK'
  BY <1>11 DEF PageRead, RequestSteps, Outcomes
<1>12. CASE UNCHANGED staffVars BY <1>12 DEF staffVars
<1> QED BY <1>1, <1>2, <1>3, <1>4, <1>5, <1>6, <1>7, <1>8, <1>9, <1>10, <1>11, <1>12 DEF StaffNext

\* A change never waits for a page, nor a page read for a receipt.
LEMMA PathsKept == StaffInv /\ [StaffNext]_staffVars => Paths'
<1> SUFFICES ASSUME StaffInv, [StaffNext]_staffVars PROVE Paths' OBVIOUS
<1> USE ActionType DEF StaffInv, StaffTypeOK, Paths, accountVars, requestVars, gameVars, Moves, Closes, StaffRequests
<1>1. ASSUME RoleChanges \/ SignsIn \/ Logout \/ SecondPasses \/ CacheLapses \/ PageLapses PROVE Paths'
  BY <1>1 DEF RoleChanges, SignsIn, Logout, SecondPasses, CacheLapses, PageLapses
<1>2. CASE StaffRestart BY <1>2 DEF StaffRestart
<1>3. ASSUME NEW q \in StaffRequests, RequestArrives(q) \/ DiscordReads(q) PROVE Paths'
  BY <1>3 DEF RequestArrives, DiscordReads
<1>4. ASSUME NEW q \in StaffRequests, HasRole(q) PROVE Paths' BY <1>4 DEF HasRole
<1>5. ASSUME NEW q \in Changes, RecordReceipt(q) \/ Sends(q) \/ Answered(q) \/ Finishes(q) PROVE Paths'
  BY <1>5 DEF RecordReceipt, Sends, Answered, Finishes
<1>6. ASSUME NEW q \in PageReads, ReadPage(q) PROVE Paths' BY <1>6 DEF ReadPage
<1>7. ASSUME NEW q \in PageReads, PageRead(q) PROVE Paths' BY <1>7 DEF PageRead
<1>8. CASE UNCHANGED staffVars BY <1>8 DEF staffVars
<1> QED BY <1>1, <1>2, <1>3, <1>4, <1>5, <1>6, <1>7, <1>8 DEF StaffNext

\* Only the request that created the receipt of an action goes on to send it, once.
LEMMA SentOnceKept == StaffInv /\ [StaffNext]_staffVars => SentOnce'
<1> SUFFICES ASSUME StaffInv, [StaffNext]_staffVars PROVE SentOnce' OBVIOUS
<1> USE ActionType DEF StaffInv, StaffTypeOK, SentOnce, Active, accountVars, requestVars, gameVars, Moves, Closes,
           StaffRequests
<1>1. ASSUME RoleChanges \/ SignsIn \/ Logout \/ SecondPasses \/ CacheLapses \/ PageLapses PROVE SentOnce'
  BY <1>1 DEF RoleChanges, SignsIn, Logout, SecondPasses, CacheLapses, PageLapses
<1>2. CASE StaffRestart BY <1>2 DEF StaffRestart
<1>3. ASSUME NEW q \in StaffRequests, RequestArrives(q) \/ DiscordReads(q) PROVE SentOnce'
  BY <1>3 DEF RequestArrives, DiscordReads
<1>4. ASSUME NEW q \in StaffRequests, HasRole(q) PROVE SentOnce' BY <1>4 DEF HasRole
<1>5. ASSUME NEW q \in Changes, RecordReceipt(q) PROVE SentOnce'
  BY <1>5 DEF RecordReceipt, Creates
<1>6. ASSUME NEW q \in Changes, Sends(q) PROVE SentOnce' BY <1>6 DEF Sends
<1>7. ASSUME NEW q \in Changes, Answered(q) PROVE SentOnce' BY <1>7 DEF Answered
<1>8. ASSUME NEW q \in Changes, Finishes(q) PROVE SentOnce' BY <1>8 DEF Finishes, TrueAnswers
<1>9. ASSUME NEW q \in PageReads, ReadPage(q) PROVE SentOnce' BY <1>9 DEF ReadPage
<1>10. ASSUME NEW q \in PageReads, PageRead(q) PROVE SentOnce' BY <1>10 DEF PageRead
<1>11. CASE UNCHANGED staffVars BY <1>11 DEF staffVars
<1> QED BY <1>1, <1>2, <1>3, <1>4, <1>5, <1>6, <1>7, <1>8, <1>9, <1>10, <1>11 DEF StaffNext

\* What a request is answered is true then and later: nobody sends its action after it failed.
LEMMA TrueAnswersKept == StaffInv /\ [StaffNext]_staffVars => TrueAnswers'
<1> SUFFICES ASSUME StaffInv, [StaffNext]_staffVars PROVE TrueAnswers' OBVIOUS
<1> USE ActionType DEF StaffInv, StaffTypeOK, TrueAnswers, Active, accountVars, requestVars, gameVars, Moves, Closes,
           StaffRequests
<1>1. ASSUME RoleChanges \/ SignsIn \/ Logout \/ SecondPasses \/ CacheLapses \/ PageLapses PROVE TrueAnswers'
  BY <1>1 DEF RoleChanges, SignsIn, Logout, SecondPasses, CacheLapses, PageLapses
<1>2. CASE StaffRestart BY <1>2 DEF StaffRestart, UnderWay
<1>3. ASSUME NEW q \in StaffRequests, RequestArrives(q) \/ DiscordReads(q) PROVE TrueAnswers'
  BY <1>3 DEF RequestArrives, DiscordReads
<1>4. ASSUME NEW q \in StaffRequests, HasRole(q) PROVE TrueAnswers' BY <1>4 DEF HasRole
<1>5. ASSUME NEW q \in Changes, RecordReceipt(q) PROVE TrueAnswers'
  BY <1>5 DEF RecordReceipt, Creates, ReceiptStates
<1>6. ASSUME NEW q \in Changes, Sends(q) PROVE TrueAnswers' BY <1>6 DEF Sends, SentOnce
<1>7. ASSUME NEW q \in Changes, Answered(q) PROVE TrueAnswers' BY <1>7 DEF Answered
<1>8. ASSUME NEW q \in Changes, Finishes(q) PROVE TrueAnswers' BY <1>8 DEF Finishes, SentOnce
<1>9. ASSUME NEW q \in PageReads, ReadPage(q) PROVE TrueAnswers' BY <1>9 DEF ReadPage
<1>10. ASSUME NEW q \in PageReads, PageRead(q) PROVE TrueAnswers' BY <1>10 DEF PageRead, Waiting
<1>11. CASE UNCHANGED staffVars BY <1>11 DEF staffVars
<1> QED BY <1>1, <1>2, <1>3, <1>4, <1>5, <1>6, <1>7, <1>8, <1>9, <1>10, <1>11 DEF StaffNext

\* A page that is shared was read after every change that anybody was told of.
LEMMA FreshPagesKept == StaffInv /\ [StaffNext]_staffVars => FreshPages'
<1> SUFFICES ASSUME StaffInv, [StaffNext]_staffVars PROVE FreshPages' OBVIOUS
<1> USE ActionType DEF StaffInv, StaffTypeOK, FreshPages, PagesFollowActions, Ahead, Unread, accountVars, requestVars,
    gameVars, Moves, Closes, StaffRequests
<1>1. ASSUME RoleChanges \/ SignsIn \/ Logout \/ SecondPasses \/ CacheLapses \/ PageLapses PROVE FreshPages'
  BY <1>1 DEF RoleChanges, SignsIn, Logout, SecondPasses, CacheLapses, PageLapses
<1>2. CASE StaffRestart BY <1>2 DEF StaffRestart, UnderWay
<1>3. ASSUME NEW q \in StaffRequests, RequestArrives(q) PROVE FreshPages' BY <1>3 DEF RequestArrives
<1>4. ASSUME NEW q \in StaffRequests, DiscordReads(q) PROVE FreshPages' BY <1>4 DEF DiscordReads
<1>5. ASSUME NEW q \in StaffRequests, HasRole(q) PROVE FreshPages' BY <1>5 DEF HasRole
<1>6. ASSUME NEW q \in Changes, RecordReceipt(q) PROVE FreshPages' BY <1>6 DEF RecordReceipt
<1>7. ASSUME NEW q \in Changes, Sends(q) PROVE FreshPages' BY <1>7 DEF Sends
<1>8. ASSUME NEW q \in Changes, Answered(q) PROVE FreshPages' BY <1>8 DEF Answered, ClearPages
<1>9. ASSUME NEW q \in Changes, Finishes(q) PROVE FreshPages' BY <1>9 DEF Finishes, TrueAnswers
<1>10. ASSUME NEW q \in PageReads, ReadPage(q) PROVE FreshPages' BY <1>10 DEF ReadPage
<1>11. ASSUME NEW q \in PageReads, PageRead(q) PROVE FreshPages' BY <1>11 DEF PageRead, TrueAnswers
<1>12. CASE UNCHANGED staffVars BY <1>12 DEF staffVars
<1> QED BY <1>1, <1>2, <1>3, <1>4, <1>5, <1>6, <1>7, <1>8, <1>9, <1>10, <1>11, <1>12 DEF StaffNext

\* A change goes on with a role that Discord gave for it, since the request arrived.
LEMMA RecheckedKept == StaffInv /\ [StaffNext]_staffVars => Rechecked'
<1> SUFFICES ASSUME StaffInv, [StaffNext]_staffVars PROVE Rechecked' OBVIOUS
<1> USE ActionType DEF StaffInv, StaffTypeOK, Rechecked, UnderWay, CanAct, accountVars, requestVars, gameVars, Moves, Closes,
    StaffRequests
<1>1. CASE RoleChanges BY <1>1 DEF RoleChanges
<1>2. ASSUME SignsIn \/ Logout \/ SecondPasses \/ CacheLapses \/ PageLapses PROVE Rechecked'
  BY <1>2 DEF SignsIn, Logout, SecondPasses, CacheLapses, PageLapses
<1>3. CASE StaffRestart BY <1>3 DEF StaffRestart
<1>4. ASSUME NEW q \in StaffRequests, RequestArrives(q) PROVE Rechecked' BY <1>4 DEF RequestArrives, UsesCache
<1>5. ASSUME NEW q \in StaffRequests, DiscordReads(q) PROVE Rechecked' BY <1>5 DEF DiscordReads
<1>6. ASSUME NEW q \in StaffRequests, HasRole(q) PROVE Rechecked' BY <1>6 DEF HasRole, TurnedDown
<1>7. ASSUME NEW q \in Changes, RecordReceipt(q) \/ Sends(q) \/ Answered(q) \/ Finishes(q) PROVE Rechecked'
  BY <1>7 DEF RecordReceipt, Sends, Answered, Finishes
<1>8. ASSUME NEW q \in PageReads, ReadPage(q) PROVE Rechecked' BY <1>8 DEF ReadPage
<1>9. ASSUME NEW q \in PageReads, PageRead(q) PROVE Rechecked' BY <1>9 DEF PageRead
<1>10. CASE UNCHANGED staffVars BY <1>10 DEF staffVars
<1> QED BY <1>1, <1>2, <1>3, <1>4, <1>5, <1>6, <1>7, <1>8, <1>9, <1>10 DEF StaffNext

-------------------------------------------------------------------------------
(* The theorems.                                                            *)

LEMMA StaffInductive == StaffInv /\ [StaffNext]_staffVars => StaffInv'
BY TypesKept, PathsKept, SentOnceKept, TrueAnswersKept, FreshPagesKept, RecheckedKept DEF StaffInv

LEMMA StaffInvariant == StaffSpec => []StaffInv
BY StaffInitially, StaffInductive, PTL DEF StaffSpec

\* Sessions, receipts, requests and pages keep their types (admin.service.ts, admin.store.ts, admin.auth.ts).
THEOREM StaffTypeCorrect == StaffSpec => []StaffTypeOK
BY StaffInvariant, PTL DEF StaffInv

\* However many requests staff send, and whatever is lost or restarted: an action reaches the game at most
\* once, answers are true, no page is older than what its reader was told, and no change rests on the role
\* cached for page reads (execute in admin.service.ts, begin in admin.store.ts, role in admin.auth.ts).
THEOREM StaffRequestsTrue == StaffSpec => []RequestsTrue
<1>1. StaffInv => RequestsTrue
  BY DEF StaffInv, SentOnce, TrueAnswers, FreshPages, Rechecked, RequestsTrue, SentOnceAndTold, NeverStale,
     RecheckedForChange
<1> QED BY StaffInvariant, <1>1, PTL


-----------------------------------------------------------------------------
(* Supporter records and founders *)

FounderOps == {"link", "award", "paypal", "import", "signin", "auto"}
Identities == [discord : Accounts \cup Nothing, steam : Steams \cup Nothing]
Additions ==
  Identities \cup [discord : Accounts \cup Nothing, steam : Steams \cup Nothing, restated : BOOLEAN]
LockKeys == {"steam", "discord", "founder-steam"} \X (Accounts \cup Steams)
Jobs ==
  [op : FounderOps, record : Records, other : Records \cup Nothing, added : Additions,
   steams : SUBSET (Steams \cup Nothing), award : BOOLEAN, fill : BOOLEAN, keys : SUBSET LockKeys,
   step : {"steam", "other", "founder", "commit", "report"}]

\* Row locks and advisory locks exclude.
RowsApart == \A t, v \in Transactions : t # v => RowsOf(t) \cap RowsOf(v) = {}
KeysApart == \A t, v \in Transactions : t # v => KeysOf(t) \cap KeysOf(v) = {}

\* What a transaction was begun with still fits its record: the row is locked.
JobKnown(j) ==
  LET own == link[j.record] IN
  /\ j.op = "import" => ~j.award /\ j.step # "founder"
  /\ j.op # "import" => j.step \in {"steam", "founder", "commit"} /\ j.other = None
  /\ j.other # None => /\ j.other \in Patrons /\ j.other # j.record /\ j.other \notin founders
                       /\ link[j.other].from = "patreon"
  /\ j.award => j.record \notin founders
  /\ j.op # "import" /\ j.added.steam \notin {None, own.steam} => j.added.steam \in j.steams
  /\ j.op \notin {"import", "auto"} /\ own.copied =>
       \/ j.added.discord \in {None, own.discord} \/ j.added.steam \notin {None, own.steam}
       \/ j.op = "link" /\ j.added.restated
  /\ j.op = "auto" =>
       /\ j.added.discord = None /\ j.steams \subseteq Steams
       /\ j.added.steam # None => own.steam = None /\ <<own.discord, j.added.steam>> \in Approved
       /\ j.award => SteamsOf(own.discord, Applied) \ {own.steam} \subseteq j.steams
  /\ j.step # "steam" => SteamLocks(j.op, j.steams) \subseteq j.keys

\* Under the locks of a match nobody else holds its SteamIDs; under those of an identity no other founder has it.
HolderFree(t) == tx[t].op = "auto" /\ tx[t].step # "steam" => ~OtherHolder(tx[t].record, tx[t].steams)
NoOther(r, id) == \A f \in (founders \ filled) \ {r} : ~Shares(link[f], id)
IdentityFree(t) ==
  tx[t].op # "import" /\ tx[t].step = "commit" =>
    FounderKeys(Checked(t)) \subseteq tx[t].keys /\ NoOther(tx[t].record, Checked(t))

JobsKnown == \A t \in Transactions : Open(t) => JobKnown(tx[t])
JobsFree == \A t \in Transactions : Open(t) => HolderFree(t) /\ IdentityFree(t)
FoundersInv ==
  /\ FoundersTypeOK /\ tx \in [Transactions -> {NoTx} \cup Jobs] /\ RowsApart /\ KeysApart
  /\ JobsKnown /\ JobsFree /\ OnePromiseEach /\ LinksAreOwn


LEMMA FoundersStart == FoundersInit => FoundersInv
<1> SUFFICES ASSUME FoundersInit PROVE FoundersInv OBVIOUS
<1>1. PICK o \in Openings : link = o.link /\ founders = o.founders BY DEF FoundersInit
<1>2. /\ link \in [Records -> LinkRows] /\ founders \subseteq Records
      /\ \A r \in Records : /\ link[r].discord = None => link[r].from = None
                            /\ link[r].copied => <<link[r].discord, link[r].steam>> \in Approved
      /\ \A f, g \in founders : f # g => ~Shares(link[f], link[g])
  BY <1>1, FoundersAssumption
<1>3. filled = {} /\ broken = {} /\ starts = 0 /\ tx = [t \in Transactions |-> NoTx] BY DEF FoundersInit
<1>4. \A t \in Transactions : ~Open(t) BY <1>3 DEF Open, NoTx
<1>5. FoundersTypeOK
  <2>1. MaxStarts \in Nat BY FoundersAssumption
  <2>2. starts \in 0 .. MaxStarts BY <2>1, <1>3
  <2> QED BY <2>2, <1>2, <1>3 DEF FoundersTypeOK
<1>6. RowsApart /\ KeysApart BY <1>4 DEF RowsApart, KeysApart, RowsOf, KeysOf
<1>7. JobsKnown /\ JobsFree BY <1>4 DEF JobsKnown, JobsFree
<1>8. OnePromiseEach BY <1>2, <1>3 DEF OnePromiseEach
<1>9. LinksAreOwn BY <1>2, <1>3 DEF LinksAreOwn, MatchedAlone, ImportTakesOnlyItsOwn, CopiedSteamFits
<1> QED BY <1>3, <1>5, <1>6, <1>7, <1>8, <1>9 DEF FoundersInv

\* The rows a transaction holds.
RowsIn(j) == {j.record} \cup (IF j.other = None THEN {} ELSE {j.other})

\* A step that changes one transaction only.
LEMMA OneMoves ==
  ASSUME FoundersInv, NEW t \in Transactions, NEW j \in {NoTx} \cup Jobs, tx' = [tx EXCEPT ![t] = j],
         UNCHANGED <<link, founders, released, filled, broken>>, starts' \in 0 .. MaxStarts,
         j \in Jobs =>
           /\ JobKnown(j)
           /\ \A v \in Transactions \ {t} : RowsOf(v) \cap RowsIn(j) = {} /\ KeysOf(v) \cap j.keys = {}
           /\ HolderFree(t)' /\ IdentityFree(t)'
  PROVE  FoundersInv'
<1>1. tx \in [Transactions -> {NoTx} \cup Jobs] BY DEF FoundersInv
<1>2. tx' \in [Transactions -> {NoTx} \cup Jobs] BY <1>1
<1>3. tx'[t] = j /\ \A v \in Transactions \ {t} : tx'[v] = tx[v] BY <1>1
<1>4. Open(t)' => j \in Jobs BY <1>3 DEF Open, NoTx
<1>5. \A v \in Transactions \ {t} :
        (Open(v)' <=> Open(v)) /\ RowsOf(v)' = RowsOf(v) /\ KeysOf(v)' = KeysOf(v)
  BY <1>3 DEF Open, RowsOf, KeysOf
<1>6. RowsOf(t)' \subseteq (IF Open(t)' THEN RowsIn(j) ELSE {}) /\ KeysOf(t)' \subseteq (IF Open(t)' THEN j.keys ELSE {})
  BY <1>3 DEF RowsOf, KeysOf, RowsIn, Open
<1>7. FoundersTypeOK' BY DEF FoundersInv, FoundersTypeOK
<1>8. RowsApart'
  <2> SUFFICES ASSUME NEW v \in Transactions, NEW z \in Transactions, v # z PROVE RowsOf(v)' \cap RowsOf(z)' = {}
    BY DEF RowsApart
  <2>1. CASE v # t /\ z # t BY <2>1, <1>5 DEF FoundersInv, RowsApart
  <2>2. CASE v = t BY <2>2, <1>4, <1>5, <1>6
  <2>3. CASE z = t BY <2>3, <1>4, <1>5, <1>6
  <2> QED BY <2>1, <2>2, <2>3
<1>9. KeysApart'
  <2> SUFFICES ASSUME NEW v \in Transactions, NEW z \in Transactions, v # z PROVE KeysOf(v)' \cap KeysOf(z)' = {}
    BY DEF KeysApart
  <2>1. CASE v # t /\ z # t BY <2>1, <1>5 DEF FoundersInv, KeysApart
  <2>2. CASE v = t BY <2>2, <1>4, <1>5, <1>6
  <2>3. CASE z = t BY <2>3, <1>4, <1>5, <1>6
  <2> QED BY <2>1, <2>2, <2>3
<1>11. JobsKnown'
  <2> SUFFICES ASSUME NEW v \in Transactions, Open(v)' PROVE JobKnown(tx[v])' BY DEF JobsKnown
  <2>1. CASE v = t
    <3>1. JobKnown(j) BY <2>1, <1>4
    <3> QED BY <3>1, <2>1, <1>3 DEF JobKnown
  <2>2. CASE v # t
    <3>1. tx'[v] = tx[v] /\ JobKnown(tx[v]) BY <2>2, <1>3, <1>5 DEF FoundersInv, JobsKnown
    <3> QED BY <3>1 DEF JobKnown
  <2> QED BY <2>1, <2>2
<1>12. JobsFree'
  <2> SUFFICES ASSUME NEW v \in Transactions, Open(v)' PROVE HolderFree(v)' /\ IdentityFree(v)' BY DEF JobsFree
  <2>1. CASE v = t BY <2>1, <1>4
  <2>2. CASE v # t
    <3>1. tx'[v] = tx[v] /\ HolderFree(v) /\ IdentityFree(v) BY <2>2, <1>3, <1>5 DEF FoundersInv, JobsFree
    <3>2. HolderFree(v)' BY <3>1 DEF HolderFree, OtherHolder
    <3>3. Checked(v)' = Checked(v) BY <3>1 DEF Checked, After
    <3>4. IdentityFree(v)' BY <3>1, <3>3 DEF IdentityFree, NoOther
    <3> QED BY <3>2, <3>4
  <2> QED BY <2>1, <2>2
<1>13. OnePromiseEach' /\ LinksAreOwn'
  BY DEF FoundersInv, OnePromiseEach, LinksAreOwn, MatchedAlone, ImportTakesOnlyItsOwn, CopiedSteamFits
<1> QED BY <1>2, <1>7, <1>8, <1>9, <1>11, <1>12, <1>13 DEF FoundersInv

LEMMA RollBackKeeps == ASSUME FoundersInv, NEW t \in Transactions, RollBack(t) PROVE FoundersInv'
<1>1. NoTx \notin Jobs BY DEF NoTx, Jobs, FounderOps
<1>2. starts' \in 0 .. MaxStarts BY DEF FoundersInv, FoundersTypeOK, RollBack, Unchanged
<1> QED BY <1>1, <1>2, OneMoves DEF RollBack, SetTx, Unchanged

\* A transaction begins with its row locked.
LEMMA BeginKeeps ==
  ASSUME FoundersInv, NEW t \in Transactions, NEW op \in FounderOps, NEW r \in Records, NEW added \in Additions,
         NEW asked \in SUBSET (Steams \cup Nothing), NEW award \in BOOLEAN, NEW fill \in BOOLEAN,
         Begin(t, op, r, added, asked, award, fill),
         JobKnown([op |-> op, record |-> r, other |-> None, added |-> added, steams |-> asked, award |-> award,
                   fill |-> fill, keys |-> {}, step |-> "steam"])
  PROVE  FoundersInv'
<1> DEFINE job == [op |-> op, record |-> r, other |-> None, added |-> added, steams |-> asked, award |-> award,
                   fill |-> fill, keys |-> {}, step |-> "steam"]
<1>1. job \in Jobs BY DEF Jobs, Nothing
<1>2. job.record = r /\ job.other = None /\ job.keys = {} /\ job.step = "steam" OBVIOUS
<1>3. tx' = [tx EXCEPT ![t] = job] BY DEF Begin
<1>4. JobKnown(job) OBVIOUS
<1> HIDE DEF job
<1>5. tx'[t] = job BY <1>3 DEF FoundersInv
<1>6. \A v \in Transactions \ {t} : RowsOf(v) \cap RowsIn(job) = {} /\ KeysOf(v) \cap job.keys = {}
  BY <1>2 DEF Begin, RowFreeFor, RowsIn
<1>7. HolderFree(t)' /\ IdentityFree(t)' BY <1>2, <1>5 DEF HolderFree, IdentityFree
<1>8. starts' \in 0 .. MaxStarts BY FoundersAssumption DEF Begin, FoundersInv, FoundersTypeOK
<1> QED BY <1>1, <1>3, <1>4, <1>6, <1>7, <1>8, OneMoves DEF Begin


\* The records as they are linked.
LEMMA OwnLink ==
  ASSUME FoundersInv, NEW r \in Records
  PROVE  /\ link[r] \in LinkRows /\ link[r].copied \in BOOLEAN
         /\ link[r].discord \in Accounts \cup Nothing /\ link[r].steam \in Steams \cup Nothing
         /\ link[r].discord = None => link[r].from = None
         /\ link[r].copied => <<link[r].discord, link[r].steam>> \in Approved
         /\ link[r].copied => link[r].discord # None /\ link[r].steam # None
         /\ None \notin Accounts /\ None \notin Steams /\ None \notin Records
<1>1. link \in [Records -> LinkRows] /\ (link[r].discord = None => link[r].from = None)
  BY DEF FoundersInv, FoundersTypeOK
<1>2. link[r].copied => <<link[r].discord, link[r].steam>> \in Approved
  BY DEF FoundersInv, LinksAreOwn, CopiedSteamFits
<1>3. Approved \subseteq Accounts \X Steams /\ None \notin Accounts /\ None \notin Steams /\ None \notin Records
  BY FoundersAssumption DEF Applied
<1>4. link[r] \in LinkRows BY <1>1
<1>5. /\ link[r].copied \in BOOLEAN /\ link[r].discord \in Accounts \cup Nothing /\ link[r].steam \in Steams \cup Nothing
  BY <1>4 DEF LinkRows
<1>6. link[r].copied => link[r].discord # None /\ link[r].steam # None BY <1>2, <1>3
<1> QED BY <1>1, <1>2, <1>3, <1>4, <1>5, <1>6

LEMMA StaffLinkKeeps == ASSUME FoundersInv, NEW t \in Transactions, StaffLink(t) PROVE FoundersInv'
<1>1. PICK r \in Records, discord \in Accounts \cup Nothing, steam \in Steams \cup Nothing, confirmed \in BOOLEAN :
        LET moved == discord \notin {None, link[r].discord}
            changed == steam \notin {None, link[r].steam} IN
        /\ (moved /\ link[r].copied /\ ~changed) => confirmed
        /\ Begin(t, "link", r, [discord |-> discord, steam |-> steam, restated |-> confirmed /\ ~changed],
                 IF changed THEN {steam} ELSE {}, FALSE, FALSE)
  BY ZenonT(60) DEF StaffLink
<1> PICK changed : changed = (steam \notin {None, link[r].steam}) OBVIOUS
<1> PICK added : added = [discord |-> discord, steam |-> steam, restated |-> confirmed /\ ~changed] OBVIOUS
<1> PICK asked : asked = IF changed THEN {steam} ELSE {} OBVIOUS
<1>2. added \in Additions /\ asked \in SUBSET (Steams \cup Nothing) /\ "link" \in FounderOps
  BY DEF Additions, FounderOps
<1>3. Begin(t, "link", r, added, asked, FALSE, FALSE) BY <1>1
<1>4. JobKnown([op |-> "link", record |-> r, other |-> None, added |-> added, steams |-> asked, award |-> FALSE,
                fill |-> FALSE, keys |-> {}, step |-> "steam"])
  BY <1>1 DEF JobKnown
<1> QED BY <1>2, <1>3, <1>4, BeginKeeps

LEMMA StaffAwardKeeps == ASSUME FoundersInv, NEW t \in Transactions, StaffAward(t) PROVE FoundersInv'
<1>1. PICK r \in Records \ founders : Begin(t, "award", r, Adds(None, None), {}, TRUE, FALSE) BY DEF StaffAward
<1>2. Adds(None, None) \in Additions /\ {} \in SUBSET (Steams \cup Nothing) /\ "award" \in FounderOps
  BY DEF Additions, Identities, FounderOps, Adds, Nothing
<1>3. JobKnown([op |-> "award", record |-> r, other |-> None, added |-> Adds(None, None), steams |-> {}, award |-> TRUE,
                fill |-> FALSE, keys |-> {}, step |-> "steam"])
  BY DEF JobKnown, Adds
<1> QED BY <1>1, <1>2, <1>3, BeginKeeps

LEMMA PaypalKeeps == ASSUME FoundersInv, NEW t \in Transactions, PaypalPayment(t) PROVE FoundersInv'
<1>1. PICK r \in Donors, discord \in Accounts \cup Nothing, steam \in Steams \cup Nothing, award \in BOOLEAN :
        /\ link[r].discord # None => discord \in {None, link[r].discord}
        /\ link[r].steam # None => steam \in {None, link[r].steam}
        /\ award => r \notin founders
        /\ Begin(t, "paypal", r, Adds(discord, steam), IF link[r].steam = None THEN {steam} ELSE {}, award, FALSE)
  BY DEF PaypalPayment
<1>2. r \in Records BY DEF Records
<1> PICK asked : asked = IF link[r].steam = None THEN {steam} ELSE {} OBVIOUS
<1>3. Adds(discord, steam) \in Additions /\ asked \in SUBSET (Steams \cup Nothing) /\ "paypal" \in FounderOps
  BY DEF Additions, Identities, FounderOps, Adds
<1>4. link[r].copied => link[r].discord # None BY <1>2, OwnLink
<1>5. JobKnown([op |-> "paypal", record |-> r, other |-> None, added |-> Adds(discord, steam), steams |-> asked,
                award |-> award, fill |-> FALSE, keys |-> {}, step |-> "steam"])
  BY <1>1, <1>4 DEF JobKnown, Adds
<1> QED BY <1>1, <1>2, <1>3, <1>5, BeginKeeps

LEMMA ImportBegins == ASSUME FoundersInv, NEW t \in Transactions, Import(t) PROVE FoundersInv'
<1>1. PICK r \in Patrons, reported \in Accounts \cup Nothing : Begin(t, "import", r, Adds(reported, None), {}, FALSE, FALSE)
  BY DEF Import
<1>2. r \in Records BY DEF Records
<1>3. Adds(reported, None) \in Additions /\ {} \in SUBSET (Steams \cup Nothing) /\ "import" \in FounderOps
  BY DEF Additions, Identities, FounderOps, Adds, Nothing
<1>4. JobKnown([op |-> "import", record |-> r, other |-> None, added |-> Adds(reported, None), steams |-> {},
                award |-> FALSE, fill |-> FALSE, keys |-> {}, step |-> "steam"])
  BY DEF JobKnown, Adds
<1> QED BY <1>1, <1>2, <1>3, <1>4, BeginKeeps

LEMMA SignInKeeps == ASSUME FoundersInv, NEW t \in Transactions, SignIn(t) PROVE FoundersInv'
<1>1. PICK r \in Patrons, discord \in Accounts :
        link[r].discord = None /\ Begin(t, "signin", r, Adds(discord, None), {}, FALSE, FALSE)
  BY DEF SignIn
<1>2. r \in Records BY DEF Records
<1>3. Adds(discord, None) \in Additions /\ {} \in SUBSET (Steams \cup Nothing) /\ "signin" \in FounderOps
  BY DEF Additions, Identities, FounderOps, Adds, Nothing
<1>4. ~link[r].copied BY <1>1, <1>2, OwnLink
<1>5. JobKnown([op |-> "signin", record |-> r, other |-> None, added |-> Adds(discord, None), steams |-> {},
                award |-> FALSE, fill |-> FALSE, keys |-> {}, step |-> "steam"])
  BY <1>4 DEF JobKnown, Adds
<1> QED BY <1>1, <1>2, <1>3, <1>5, BeginKeeps

LEMMA AutoMatchKeeps == ASSUME FoundersInv, NEW t \in Transactions, AutoMatch(t) PROVE FoundersInv'
<1>1. PICK r \in Patrons, promise \in BOOLEAN :
        LET account == link[r].discord
            match == IF link[r].steam = None THEN SteamMatch(r) ELSE {}
            award == promise /\ r \notin founders /\ AutomaticAllowed(r) IN
        Begin(t, "auto", r, Adds(None, IF match = {} THEN None ELSE CHOOSE s \in match : TRUE),
              match \cup (IF award THEN SteamsOf(account, Applied) \ {link[r].steam} ELSE {}),
              award, match # {})
  BY DEF AutoMatch
<1>2. r \in Records BY DEF Records
<1> PICK account : account = link[r].discord OBVIOUS
<1> PICK match : match = IF link[r].steam = None THEN SteamMatch(r) ELSE {} OBVIOUS
<1> PICK award : award = (promise /\ r \notin founders /\ AutomaticAllowed(r)) OBVIOUS
<1> PICK steam : steam = IF match = {} THEN None ELSE CHOOSE s \in match : TRUE OBVIOUS
<1> PICK asked : asked = match \cup (IF award THEN SteamsOf(account, Applied) \ {link[r].steam} ELSE {}) OBVIOUS
<1>3. Begin(t, "auto", r, Adds(None, steam), asked, award, match # {}) BY <1>1
<1>4. match \subseteq SteamsOf(account, Approved) /\ (match # {} => link[r].steam = None) BY DEF SteamMatch
<1>5. asked \subseteq Steams /\ (steam # None => steam \in match) /\ (match # {}) \in BOOLEAN /\ award \in BOOLEAN
  BY <1>4 DEF SteamsOf
<1>6. Adds(None, steam) \in Additions /\ asked \in SUBSET (Steams \cup Nothing) /\ "auto" \in FounderOps
  BY <1>4, <1>5 DEF Additions, Identities, FounderOps, Adds, SteamsOf, Nothing
<1>7. steam # None => link[r].steam = None /\ <<link[r].discord, steam>> \in Approved /\ steam \in asked
  BY <1>4, <1>5 DEF SteamsOf
<1>8. award => SteamsOf(link[r].discord, Applied) \ {link[r].steam} \subseteq asked /\ r \notin founders OBVIOUS
<1>9. JobKnown([op |-> "auto", record |-> r, other |-> None, added |-> Adds(None, steam), steams |-> asked,
                award |-> award, fill |-> match # {}, keys |-> {}, step |-> "steam"])
  BY <1>5, <1>7, <1>8 DEF JobKnown, Adds
<1> QED BY <1>2, <1>3, <1>5, <1>6, <1>9, BeginKeeps


\* An open transaction is one, and its rows and keys are its own.
LEMMA OpenIs ==
  ASSUME FoundersInv, NEW t \in Transactions, Open(t)
  PROVE  /\ tx[t] \in Jobs /\ JobKnown(tx[t]) /\ HolderFree(t) /\ IdentityFree(t)
         /\ RowsOf(t) = RowsIn(tx[t]) /\ KeysOf(t) = tx[t].keys
         /\ \A v \in Transactions \ {t} : RowsOf(v) \cap RowsIn(tx[t]) = {} /\ KeysOf(v) \cap tx[t].keys = {}
<1>1. tx[t] \in Jobs BY DEF FoundersInv, Open, NoTx
<1>2. RowsOf(t) = RowsIn(tx[t]) /\ KeysOf(t) = tx[t].keys BY DEF RowsOf, RowsIn, KeysOf
<1>3. \A v \in Transactions \ {t} : RowsOf(v) \cap RowsOf(t) = {} /\ KeysOf(v) \cap KeysOf(t) = {}
  BY DEF FoundersInv, RowsApart, KeysApart
<1> QED BY <1>1, <1>2, <1>3 DEF FoundersInv, JobsKnown, JobsFree

LEMMA StartsKept == ASSUME FoundersInv, Unchanged PROVE starts' \in 0 .. MaxStarts
BY DEF FoundersInv, FoundersTypeOK, Unchanged

LEMMA LockSteamKeeps == ASSUME FoundersInv, NEW t \in Transactions, LockSteam(t) PROVE FoundersInv'
<1> PICK job : job = tx[t] OBVIOUS
<1> PICK keys : keys = SteamLocks(job.op, job.steams) OBVIOUS
<1> PICK held : held = (job.op = "auto" /\ OtherHolder(job.record, job.steams)) OBVIOUS
<1>1. /\ Open(t) /\ job.step = "steam" /\ KeysFree(t, keys) /\ Unchanged
      /\ IF held THEN SetTx(t, NoTx)
         ELSE SetTx(t, [job EXCEPT !.step = IF job.op = "import" THEN "other" ELSE "founder", !.keys = keys])
  BY DEF LockSteam
<1>2. /\ job \in Jobs /\ JobKnown(job)
      /\ \A v \in Transactions \ {t} : RowsOf(v) \cap RowsIn(job) = {}
  BY <1>1, OpenIs
<1>3. NoTx \notin Jobs BY DEF NoTx, Jobs, FounderOps
<1>4. CASE held BY <1>1, <1>3, <1>4, StartsKept, OneMoves DEF SetTx, Unchanged
<1>5. CASE ~held
  <2> PICK step : step = IF job.op = "import" THEN "other" ELSE "founder" OBVIOUS
  <2> PICK j : j = [job EXCEPT !.step = step, !.keys = keys] OBVIOUS
  <2>1. keys \subseteq LockKeys BY <1>2 DEF Jobs, SteamLocks, LockKeys, Nothing
  <2>2. j \in Jobs BY <1>2, <2>1 DEF Jobs
  <2>3. /\ j.op = job.op /\ j.record = job.record /\ j.other = job.other /\ j.added = job.added
        /\ j.steams = job.steams /\ j.award = job.award /\ j.keys = keys /\ j.step = step
    BY <1>2 DEF Jobs
  <2>4. JobKnown(j) BY <1>2, <2>3 DEF JobKnown
  <2>5. tx' = [tx EXCEPT ![t] = j] BY <1>1, <1>5 DEF SetTx
  <2>6. tx'[t] = j BY <2>5 DEF FoundersInv
  <2>7. \A v \in Transactions \ {t} : RowsOf(v) \cap RowsIn(j) = {} /\ KeysOf(v) \cap j.keys = {}
    BY <1>1, <1>2, <2>3 DEF KeysFree, RowsIn
  <2>8. HolderFree(t)' BY <1>1, <1>5, <2>3, <2>6 DEF HolderFree, OtherHolder, Unchanged
  <2>9. IdentityFree(t)' BY <2>3, <2>6 DEF IdentityFree
  <2> QED BY <1>1, <2>2, <2>4, <2>5, <2>7, <2>8, <2>9, StartsKept, OneMoves DEF Unchanged
<1> QED BY <1>4, <1>5

\* A step of an import that looked for the other record.
LEMMA ImportMoves ==
  ASSUME FoundersInv, NEW t \in Transactions, Open(t), tx[t].step = "other", Unchanged,
         NEW q \in Patrons \cup Nothing, NEW step \in {"commit", "report"},
         SetTx(t, [tx[t] EXCEPT !.step = step, !.other = q]),
         q # None => /\ q # tx[t].record /\ q \notin founders /\ link[q].from = "patreon" /\ OtherRow(t, q)
  PROVE  FoundersInv'
<1> PICK job : job = tx[t] OBVIOUS
<1> PICK j : j = [job EXCEPT !.step = step, !.other = q] OBVIOUS
<1>1. /\ job \in Jobs /\ JobKnown(job) /\ job.step = "other"
      /\ \A v \in Transactions \ {t} : RowsOf(v) \cap RowsIn(job) = {} /\ KeysOf(v) \cap job.keys = {}
  BY OpenIs
<1>2. job.op = "import" BY <1>1 DEF JobKnown
<1>3. q \in Records \cup Nothing /\ None \notin Patrons BY FoundersAssumption DEF Records
<1>4. j \in Jobs BY <1>1, <1>3 DEF Jobs
<1>5. /\ j.op = job.op /\ j.record = job.record /\ j.other = q /\ j.added = job.added
      /\ j.steams = job.steams /\ j.award = job.award /\ j.keys = job.keys /\ j.step = step
  BY <1>1 DEF Jobs
<1>6. JobKnown(j) BY <1>1, <1>2, <1>3, <1>5 DEF JobKnown, Nothing
<1>7. tx' = [tx EXCEPT ![t] = j] BY DEF SetTx
<1>8. tx'[t] = j BY <1>7 DEF FoundersInv
<1>9. \A v \in Transactions \ {t} : RowsOf(v) \cap RowsIn(j) = {} /\ KeysOf(v) \cap j.keys = {}
  BY <1>1, <1>5 DEF RowsIn, OtherRow, RowFreeFor
<1>10. HolderFree(t)' /\ IdentityFree(t)' BY <1>2, <1>5, <1>8 DEF HolderFree, IdentityFree
<1> QED BY <1>4, <1>6, <1>7, <1>9, <1>10, StartsKept, OneMoves DEF Unchanged

LEMMA FindOtherKeeps == ASSUME FoundersInv, NEW t \in Transactions, FindOther(t) PROVE FoundersInv'
<1> PICK job : job = tx[t] OBVIOUS
<1>1. Open(t) /\ job.step = "other" /\ Unchanged BY DEF FindOther
<1>2. job \in Jobs /\ JobKnown(job) BY <1>1, OpenIs
<1> PICK present : present = job.other OBVIOUS
<1>3. present \in Patrons \cup Nothing /\ [job EXCEPT !.other = present] = job
  BY <1>2, FoundersAssumption DEF JobKnown, Jobs, Nothing
<1>4. present # None => /\ present # job.record /\ present \notin founders /\ link[present].from = "patreon"
                        /\ OtherRow(t, present)
  <2>1. \A v \in Transactions \ {t} : RowsOf(v) \cap RowsIn(job) = {} BY <1>1, OpenIs
  <2> QED BY <2>1, <1>2 DEF JobKnown, OtherRow, RowFreeFor, RowsIn
<1>5. ASSUME NEW step \in {"commit", "report"}, SetTx(t, [job EXCEPT !.step = step]) PROVE FoundersInv'
  <2>1. [job EXCEPT !.step = step, !.other = present] = [job EXCEPT !.step = step] BY <1>2 DEF Jobs
  <2>2. SetTx(t, [tx[t] EXCEPT !.step = step, !.other = present]) BY <1>5, <2>1 DEF SetTx
  <2> QED BY <1>1, <1>3, <1>4, <2>2, ImportMoves
<1>6. ASSUME NEW q \in HolderOf(job.record, job.added.discord), OtherRow(t, q), link[q].from = "patreon", q \notin founders,
             SetTx(t, [job EXCEPT !.step = "commit", !.other = q])
      PROVE  FoundersInv'
  <2>1. q \in Patrons /\ q # job.record BY DEF HolderOf
  <2> QED BY <1>1, <1>6, <2>1, ImportMoves
<1>7. \/ SetTx(t, [job EXCEPT !.step = "commit"])
      \/ SetTx(t, [job EXCEPT !.step = "report"])
      \/ \E q \in HolderOf(job.record, job.added.discord) :
           /\ OtherRow(t, q) /\ link[q].from = "patreon" /\ q \notin founders
           /\ SetTx(t, [job EXCEPT !.step = "commit", !.other = q])
  BY DEF FindOther
<1> QED BY <1>5, <1>6, <1>7

\* What a founder's new identity is checked for.
LEMMA CheckedIs ==
  ASSUME FoundersInv, NEW t \in Transactions, Open(t)
  PROVE  Checked(t) \in Identities /\ After(t) \in Identities /\ FounderKeys(Checked(t)) \subseteq LockKeys
<1>1. tx[t] \in Jobs BY OpenIs
<1>2. tx[t].added \in Additions /\ tx[t].record \in Records BY <1>1 DEF Jobs
<1>3. tx[t].added.discord \in Accounts \cup Nothing /\ tx[t].added.steam \in Steams \cup Nothing
  BY <1>2 DEF Additions, Identities
<1>4. link[tx[t].record].discord \in Accounts \cup Nothing /\ link[tx[t].record].steam \in Steams \cup Nothing
  BY <1>2, OwnLink
<1>5. After(t) \in Identities BY <1>3, <1>4 DEF After, Identities
<1>6. Checked(t) \in Identities
  <2>1. Adds(None, None) \in Identities BY DEF Adds, Identities, Nothing
  <2>2. None \in Accounts \cup Nothing /\ None \in Steams \cup Nothing BY DEF Nothing
  <2> QED BY <1>5, <2>1, <2>2 DEF Checked, Identities
<1>7. \A id \in Identities : FounderKeys(id) \subseteq LockKeys BY DEF FounderKeys, LockKeys, Identities, Nothing
<1> QED BY <1>5, <1>6, <1>7

LEMMA LockFounderKeeps == ASSUME FoundersInv, NEW t \in Transactions, LockFounder(t) PROVE FoundersInv'
<1> PICK job : job = tx[t] OBVIOUS
<1> PICK id : id = Checked(t) OBVIOUS
<1> PICK keys : keys = FounderLocks(id) OBVIOUS
<1> PICK tie : tie = (id # Adds(None, None) /\ OtherFounder(job.record, id)) OBVIOUS
<1>1. /\ Open(t) /\ job.step = "founder" /\ KeysFree(t, keys) /\ Unchanged
      /\ SetTx(t, IF tie /\ ~(job.op = "auto" /\ job.award /\ job.fill) THEN NoTx
                  ELSE [job EXCEPT !.step = "commit", !.keys = job.keys \cup keys, !.award = job.award /\ ~tie])
  BY DEF LockFounder
<1>2. /\ job \in Jobs /\ JobKnown(job) /\ HolderFree(t)
      /\ \A v \in Transactions \ {t} : RowsOf(v) \cap RowsIn(job) = {} /\ KeysOf(v) \cap job.keys = {}
  BY <1>1, OpenIs
<1>3. NoTx \notin Jobs BY DEF NoTx, Jobs, FounderOps
<1>4. CASE tie /\ ~(job.op = "auto" /\ job.award /\ job.fill)
  <2>1. tx' = [tx EXCEPT ![t] = NoTx] BY <1>1, <1>4 DEF SetTx
  <2> QED BY <1>1, <1>3, <2>1, StartsKept, OneMoves DEF Unchanged
<1>5. CASE ~tie \/ (job.op = "auto" /\ job.award /\ job.fill)
  <2> PICK award : award = (job.award /\ ~tie) OBVIOUS
  <2> PICK j : j = [job EXCEPT !.step = "commit", !.keys = job.keys \cup keys, !.award = award] OBVIOUS
  <2>1. keys \subseteq LockKeys /\ id \in Identities BY <1>1, CheckedIs DEF FounderLocks
  <2>2. award \in BOOLEAN /\ j \in Jobs BY <1>2, <2>1 DEF Jobs
  <2>3. /\ j.op = job.op /\ j.record = job.record /\ j.other = job.other /\ j.added = job.added
        /\ j.steams = job.steams /\ j.award = award /\ j.keys = job.keys \cup keys /\ j.step = "commit"
    BY <1>2 DEF Jobs
  <2>4. job.op # "import" BY <1>1, <1>2 DEF JobKnown
  <2>5. JobKnown(j) BY <1>1, <1>2, <2>3, <2>4 DEF JobKnown
  <2>6. tx' = [tx EXCEPT ![t] = j] BY <1>1, <1>5 DEF SetTx
  <2>7. tx'[t] = j BY <2>6 DEF FoundersInv
  <2>8. \A v \in Transactions \ {t} : RowsOf(v) \cap RowsIn(j) = {} /\ KeysOf(v) \cap j.keys = {}
    BY <1>1, <1>2, <2>3 DEF KeysFree, RowsIn
  <2>9. HolderFree(t)' BY <1>1, <1>2, <2>3, <2>7 DEF HolderFree, OtherHolder, Unchanged
  <2>10. link' = link /\ founders' = founders /\ filled' = filled BY <1>1 DEF Unchanged
  <2>11. CASE ~tie
    <3>1. Checked(t)' = id
      <4>1. award = job.award BY <2>11, <1>2 DEF Jobs
      <4>2. After(t)' = After(t) BY <2>3, <2>7, <2>10 DEF After
      <4>3. /\ tx'[t].award = tx[t].award /\ tx'[t].op = tx[t].op /\ tx'[t].record = tx[t].record
        BY <4>1, <2>3, <2>7
      <4> QED BY <4>2, <4>3, <2>10 DEF Checked
    <3>2. NoOther(job.record, id)
      <4>1. CASE id = Adds(None, None)
        <5>1. id.discord = None /\ id.steam = None BY <4>1 DEF Adds
        <5> QED BY <5>1 DEF NoOther, Shares, Same
      <4>2. CASE id # Adds(None, None)
        <5>1. ~OtherFounder(job.record, id) BY <4>2, <2>11
        <5> QED BY <5>1 DEF NoOther, OtherFounder
      <4> QED BY <4>1, <4>2
    <3>3. IdentityFree(t)' BY <2>3, <2>7, <2>10, <3>1, <3>2 DEF IdentityFree, NoOther, FounderLocks
    <3> QED BY <1>1, <2>2, <2>5, <2>6, <2>8, <2>9, <3>3, StartsKept, OneMoves DEF Unchanged
  <2>12. CASE tie
    <3>1. job.record \notin founders /\ award = FALSE BY <1>2, <1>5, <2>12 DEF JobKnown
    <3>2. Checked(t)' = Adds(None, None) BY <2>3, <2>7, <2>10, <3>1 DEF Checked
    <3>3. FounderKeys(Adds(None, None)) = {} BY DEF FounderKeys, Adds
    <3>4. \A l : ~Shares(l, Adds(None, None)) BY DEF Shares, Same, Adds
    <3>5. IdentityFree(t)' BY <3>2, <3>3, <3>4 DEF IdentityFree, NoOther
    <3> QED BY <1>1, <2>2, <2>5, <2>6, <2>8, <2>9, <3>5, StartsKept, OneMoves DEF Unchanged
  <2> QED BY <2>11, <2>12
<1> QED BY <1>4, <1>5


\* What a commit gives a founder is under the locks of its transaction, and no other founder had it.
Gained(t) ==
  \A f \in founders' \ filled' :
    LET own == link'[f]
        old == f \in founders \ filled
        New == (founders \ filled) \ {f} IN
    /\ \/ own.discord = None \/ (old /\ own.discord = link[f].discord)
       \/ f = tx[t].record /\ <<"discord", own.discord>> \in tx[t].keys /\ \A g \in New : link[g].discord # own.discord
    /\ \/ own.steam = None \/ (old /\ own.steam = link[f].steam)
       \/ f = tx[t].record /\ <<"founder-steam", own.steam>> \in tx[t].keys /\ \A g \in New : link[g].steam # own.steam

\* A commit that changes its own rows only, under its locks.
LEMMA CommitKeeps ==
  ASSUME FoundersInv, NEW t \in Transactions, Open(t), tx' = [tx EXCEPT ![t] = NoTx], starts' = starts,
         link' \in [Records -> LinkRows], \A r \in Records : link'[r].discord = None => link'[r].from = None,
         founders' \subseteq Records, filled' \subseteq founders',
         \A q \in Records \ RowsIn(tx[t]) : link'[q] = link[q] /\ (q \in founders' <=> q \in founders),
         \A q \in Records : link'[q].steam \notin {None, link[q].steam} => <<"steam", link'[q].steam>> \in tx[t].keys,
         Gained(t), LinksAreOwn'
  PROVE  FoundersInv'
<1>1. tx \in [Transactions -> {NoTx} \cup Jobs] BY DEF FoundersInv
<1>2. tx' \in [Transactions -> {NoTx} \cup Jobs] BY <1>1
<1>3. tx'[t] = NoTx /\ \A v \in Transactions \ {t} : tx'[v] = tx[v] BY <1>1
<1>4. ~Open(t)' BY <1>3 DEF Open, NoTx
<1>5. \A v \in Transactions \ {t} :
        (Open(v)' <=> Open(v)) /\ RowsOf(v)' = RowsOf(v) /\ KeysOf(v)' = KeysOf(v)
  BY <1>3 DEF Open, RowsOf, KeysOf
<1>6. RowsOf(t)' = {} /\ KeysOf(t)' = {} BY <1>4 DEF RowsOf, KeysOf
<1>7. FoundersTypeOK' BY DEF FoundersInv, FoundersTypeOK
<1>8. RowsApart'
  <2> SUFFICES ASSUME NEW v \in Transactions, NEW z \in Transactions, v # z PROVE RowsOf(v)' \cap RowsOf(z)' = {}
    BY DEF RowsApart
  <2>1. CASE v # t /\ z # t BY <2>1, <1>5 DEF FoundersInv, RowsApart
  <2>2. CASE v = t \/ z = t BY <2>2, <1>6
  <2> QED BY <2>1, <2>2
<1>9. KeysApart'
  <2> SUFFICES ASSUME NEW v \in Transactions, NEW z \in Transactions, v # z PROVE KeysOf(v)' \cap KeysOf(z)' = {}
    BY DEF KeysApart
  <2>1. CASE v # t /\ z # t BY <2>1, <1>5 DEF FoundersInv, KeysApart
  <2>2. CASE v = t \/ z = t BY <2>2, <1>6
  <2> QED BY <2>1, <2>2
<1>10. ASSUME NEW v \in Transactions, Open(v)'
       PROVE  /\ v # t /\ Open(v) /\ tx'[v] = tx[v] /\ tx[v] \in Jobs /\ JobKnown(tx[v]) /\ HolderFree(v) /\ IdentityFree(v)
              /\ RowsIn(tx[v]) \cap RowsIn(tx[t]) = {} /\ tx[v].keys \cap tx[t].keys = {}
  <2>1. v # t BY <1>10, <1>4
  <2>2. Open(v) /\ tx'[v] = tx[v] BY <2>1, <1>3, <1>5, <1>10
  <2>3. RowsOf(v) = RowsIn(tx[v]) /\ KeysOf(v) = tx[v].keys BY <2>2, OpenIs
  <2> QED BY <2>1, <2>2, <2>3, OpenIs
<1>11. JobsKnown'
  <2> SUFFICES ASSUME NEW v \in Transactions, Open(v)' PROVE JobKnown(tx[v])' BY DEF JobsKnown
  <2> PICK j : j = tx[v] OBVIOUS
  <2>1. tx'[v] = j /\ j \in Jobs /\ JobKnown(j) /\ RowsIn(j) \cap RowsIn(tx[t]) = {} BY <1>10
  <2>2. j.record \in Records /\ j.other \in Records \cup Nothing BY <2>1 DEF Jobs
  <2>3. link'[j.record] = link[j.record] /\ (j.record \in founders' <=> j.record \in founders)
    BY <2>1, <2>2 DEF RowsIn
  <2>4. j.other # None => link'[j.other] = link[j.other] /\ (j.other \in founders' <=> j.other \in founders)
    BY <2>1, <2>2 DEF RowsIn, Nothing
  <2> QED BY <2>1, <2>3, <2>4 DEF JobKnown
<1>12. ASSUME NEW v \in Transactions, Open(v)' PROVE HolderFree(v)'
  <2> PICK j : j = tx[v] OBVIOUS
  <2>1. /\ tx'[v] = j /\ j \in Jobs /\ JobKnown(j) /\ HolderFree(v) /\ j.keys \cap tx[t].keys = {}
    BY <1>10, <1>12
  <2>2. SUFFICES ASSUME j.op = "auto", j.step # "steam", NEW q \in Records \ {j.record}, link'[q].steam \in j.steams
                 PROVE  FALSE
    BY <2>1 DEF HolderFree, OtherHolder
  <2>3. j.steams \subseteq Steams /\ SteamLocks(j.op, j.steams) \subseteq j.keys BY <2>1, <2>2 DEF JobKnown
  <2>4. link[q].steam \notin j.steams BY <2>1, <2>2 DEF HolderFree, OtherHolder
  <2>5. link'[q].steam # None BY <2>2, <2>3, FoundersAssumption
  <2>6. <<"steam", link'[q].steam>> \in tx[t].keys BY <2>2, <2>4, <2>5
  <2>7. <<"steam", link'[q].steam>> \in j.keys BY <2>2, <2>3, <2>5 DEF SteamLocks, Nothing
  <2> QED BY <2>1, <2>6, <2>7
<1>13. ASSUME NEW v \in Transactions, Open(v)' PROVE IdentityFree(v)'
  <2> PICK j : j = tx[v] OBVIOUS
  <2> PICK id : id = Checked(v) OBVIOUS
  <2>1. /\ tx'[v] = j /\ j \in Jobs /\ RowsIn(j) \cap RowsIn(tx[t]) = {} /\ IdentityFree(v) /\ j.keys \cap tx[t].keys = {}
        /\ Open(v)
    BY <1>10, <1>13
  <2>2. link'[j.record] = link[j.record] /\ (j.record \in founders' <=> j.record \in founders)
    BY <2>1 DEF RowsIn, Jobs
  <2>3. After(v)' = After(v) BY <2>1, <2>2 DEF After
  <2>4. Checked(v)' = id BY <2>1, <2>2, <2>3 DEF Checked
  <2>5. SUFFICES ASSUME j.op # "import", j.step = "commit"
                 PROVE  FounderKeys(id) \subseteq j.keys /\ NoOther(j.record, id)'
    BY <2>1, <2>4 DEF IdentityFree, NoOther
  <2>6. FounderKeys(id) \subseteq j.keys /\ NoOther(j.record, id) BY <2>1, <2>5 DEF IdentityFree
  <2>7. ASSUME NEW f \in (founders' \ filled') \ {j.record} PROVE ~Shares(link'[f], id)
    <3>1. ASSUME Same(link'[f].discord, id.discord) PROVE FALSE
      <4>1. id.discord # None /\ link'[f].discord = id.discord BY <3>1 DEF Same
      <4>2. <<"discord", id.discord>> \in j.keys BY <4>1, <2>6 DEF FounderKeys
      <4>3. f \in founders \ filled /\ link'[f].discord = link[f].discord BY <2>1, <4>1, <4>2 DEF Gained
      <4> QED BY <4>1, <4>3, <2>6, <2>7 DEF NoOther, Shares, Same
    <3>2. ASSUME Same(link'[f].steam, id.steam) PROVE FALSE
      <4>1. id.steam # None /\ link'[f].steam = id.steam BY <3>2 DEF Same
      <4>2. <<"founder-steam", id.steam>> \in j.keys BY <4>1, <2>6 DEF FounderKeys
      <4>3. f \in founders \ filled /\ link'[f].steam = link[f].steam BY <2>1, <4>1, <4>2 DEF Gained
      <4> QED BY <4>1, <4>3, <2>6, <2>7 DEF NoOther, Shares, Same
    <3> QED BY <3>1, <3>2 DEF Shares
  <2> QED BY <2>6, <2>7 DEF NoOther
<1>14. OnePromiseEach'
  <2> SUFFICES ASSUME NEW f \in founders' \ filled', NEW g \in founders' \ filled', f # g, g # tx[t].record
               PROVE  ~Shares(link'[f], link'[g]) /\ ~Shares(link'[g], link'[f])
    BY DEF OnePromiseEach
  <2>1. /\ link'[g].discord = None \/ (g \in founders \ filled /\ link'[g].discord = link[g].discord)
        /\ link'[g].steam = None \/ (g \in founders \ filled /\ link'[g].steam = link[g].steam)
    BY DEF Gained
  <2>2. ASSUME link'[f].discord = link'[g].discord, link'[f].discord # None PROVE FALSE
    <3>1. g \in founders \ filled /\ link'[f].discord = link[g].discord BY <2>1, <2>2
    <3>2. f \in founders \ filled /\ link[f].discord = link[g].discord BY <2>2, <3>1 DEF Gained
    <3> QED BY <2>2, <3>1, <3>2 DEF FoundersInv, OnePromiseEach, Shares, Same
  <2>3. ASSUME link'[f].steam = link'[g].steam, link'[f].steam # None PROVE FALSE
    <3>1. g \in founders \ filled /\ link'[f].steam = link[g].steam BY <2>1, <2>3
    <3>2. f \in founders \ filled /\ link[f].steam = link[g].steam BY <2>3, <3>1 DEF Gained
    <3> QED BY <2>3, <3>1, <3>2 DEF FoundersInv, OnePromiseEach, Shares, Same
  <2> QED BY <2>2, <2>3 DEF Shares, Same
<1>15. JobsFree' BY <1>12, <1>13 DEF JobsFree
<1> QED BY <1>2, <1>7, <1>8, <1>9, <1>11, <1>14, <1>15 DEF FoundersInv


LEMMA CommitLinkKeeps == ASSUME FoundersInv, NEW t \in Transactions, CommitLink(t) PROVE FoundersInv'
<1> PICK job : job = tx[t] OBVIOUS
<1> PICK r : r = job.record OBVIOUS
<1> PICK own : own = link[r] OBVIOUS
<1> PICK new : new = After(t) OBVIOUS
<1> PICK moved : moved = (new.discord # own.discord) OBVIOUS
<1> PICK changed : changed = (new.steam # own.steam) OBVIOUS
<1> PICK from : from = IF ~moved THEN own.from ELSE IF job.op = "signin" THEN "patron_signin" ELSE "staff" OBVIOUS
<1> PICK copied : copied = IF changed THEN job.op = "auto"
                           ELSE own.copied /\ ~(job.op = "link" /\ job.added.restated) OBVIOUS
<1> PICK row : row = [own EXCEPT !.discord = new.discord, !.steam = new.steam, !.from = from, !.copied = copied] OBVIOUS
<1>1. Open(t) /\ job.op # "import" /\ job.step = "commit" BY DEF CommitLink
<1>2. /\ job \in Jobs /\ JobKnown(job) /\ HolderFree(t) /\ IdentityFree(t) /\ new \in Identities
  BY <1>1, OpenIs, CheckedIs
<1>3. r \in Records /\ own \in LinkRows /\ own.copied \in BOOLEAN /\ None \notin Steams /\ None \notin Accounts
  <2>1. r \in Records BY <1>2 DEF Jobs
  <2> QED BY <2>1, OwnLink
<1>4. link' = [link EXCEPT ![r] = row] BY DEF CommitLink
<1>5. founders' = IF job.award THEN founders \cup {r} ELSE founders BY DEF CommitLink
<1>6. filled' = IF job.op = "paypal" /\ ~job.award /\ r \in founders /\ (moved \/ changed) THEN filled \cup {r} ELSE filled
  BY DEF CommitLink
<1>7. broken' = broken
         \cup (IF ~(job.op = "auto" /\ changed /\ OtherHolder(r, {new.steam})) THEN {} ELSE {"copied"})
         \cup (IF ~(job.op = "auto" /\ job.award /\ OtherHolder(r, SteamsOf(own.discord, Applied) \ {new.steam}))
               THEN {} ELSE {"promised"})
  BY DEF CommitLink
<1>8. tx' = [tx EXCEPT ![t] = NoTx] /\ starts' = starts BY DEF CommitLink, SetTx
<1>9. /\ row \in LinkRows /\ row.discord = new.discord /\ row.steam = new.steam /\ row.from = from /\ row.copied = copied
  <2>1. copied \in BOOLEAN BY <1>3
  <2>2. from \in {None, "staff", "patreon", "patron_signin"} BY <1>3 DEF LinkRows
  <2>3. new.discord \in Accounts \cup Nothing /\ new.steam \in Steams \cup Nothing BY <1>2 DEF Identities
  <2>4. own \in LinkRows BY <1>3
  <2>5. own.reported \in Accounts \cup Nothing BY <2>4 DEF LinkRows
  <2>6. row = [discord |-> new.discord, from |-> from, steam |-> new.steam, copied |-> copied, reported |-> own.reported]
    BY <2>4 DEF LinkRows
  <2>7. row \in LinkRows BY <2>1, <2>2, <2>3, <2>5, <2>6 DEF LinkRows
  <2>8. row.discord = new.discord /\ row.steam = new.steam /\ row.from = from /\ row.copied = copied BY <2>6
  <2> QED BY <2>7, <2>8
<1>10. link \in [Records -> LinkRows] /\ founders \subseteq Records /\ filled \subseteq founders
  BY DEF FoundersInv, FoundersTypeOK
<1>11. link' \in [Records -> LinkRows] /\ link'[r] = row /\ \A q \in Records \ {r} : link'[q] = link[q]
  BY <1>3, <1>4, <1>9, <1>10
<1>12. /\ moved => new.discord = job.added.discord /\ new.discord # None
       /\ changed => new.steam = job.added.steam /\ new.steam # None
       /\ job.added.discord \notin {None, own.discord} <=> moved
       /\ job.added.steam \notin {None, own.steam} <=> changed
  BY DEF After
<1>13. \A q \in Records : link'[q].discord = None => link'[q].from = None
  <2>1. own.discord = None => own.from = None BY <1>3, OwnLink
  <2>2. row.discord = None => row.from = None BY <1>9, <1>12, <2>1
  <2>3. \A q \in Records : link[q].discord = None => link[q].from = None BY DEF FoundersInv, FoundersTypeOK
  <2> SUFFICES ASSUME NEW q \in Records PROVE link'[q].discord = None => link'[q].from = None OBVIOUS
  <2>4. CASE q = r BY <2>2, <2>4, <1>11
  <2>5. CASE q # r
    <3>1. link'[q] = link[q] BY <2>5, <1>11
    <3> QED BY <2>3, <3>1
  <2> QED BY <2>4, <2>5
<1>14. founders' \subseteq Records /\ filled' \subseteq founders' BY <1>3, <1>5, <1>6, <1>10
<1>15. \A q \in Records \ RowsIn(tx[t]) : link'[q] = link[q] /\ (q \in founders' <=> q \in founders)
  BY <1>5, <1>11 DEF RowsIn
<1>16. \A q \in Records : link'[q].steam \notin {None, link[q].steam} => <<"steam", link'[q].steam>> \in tx[t].keys
  <2>1. ASSUME changed PROVE <<"steam", new.steam>> \in job.keys
    <3>1. new.steam \in job.steams /\ new.steam # None BY <1>1, <1>2, <1>12, <2>1 DEF JobKnown
    <3>2. SteamLocks(job.op, job.steams) \subseteq job.keys BY <1>1, <1>2 DEF JobKnown
    <3> QED BY <3>1, <3>2 DEF SteamLocks, Nothing
  <2> SUFFICES ASSUME NEW q \in Records, link'[q].steam \notin {None, link[q].steam}
               PROVE  <<"steam", link'[q].steam>> \in job.keys
    OBVIOUS
  <2>2. q = r BY <1>11
  <2>3. link'[q].steam = new.steam BY <2>2, <1>9, <1>11
  <2> QED BY <2>1, <2>2, <2>3
<1>17. Gained(t)
  <2> SUFFICES ASSUME NEW f \in founders' \ filled'
               PROVE  LET own1 == link'[f]
                          old == f \in founders \ filled
                          New == (founders \ filled) \ {f} IN
                      /\ \/ own1.discord = None \/ (old /\ own1.discord = link[f].discord)
                         \/ /\ f = tx[t].record /\ <<"discord", own1.discord>> \in tx[t].keys
                            /\ \A g \in New : link[g].discord # own1.discord
                      /\ \/ own1.steam = None \/ (old /\ own1.steam = link[f].steam)
                         \/ /\ f = tx[t].record /\ <<"founder-steam", own1.steam>> \in tx[t].keys
                            /\ \A g \in New : link[g].steam # own1.steam
    BY DEF Gained
  <2>1. CASE f # r
    <3>1. f \in founders \ filled /\ link'[f] = link[f] BY <2>1, <1>5, <1>6, <1>10, <1>11
    <3> QED BY <3>1
  <2>2. CASE f = r
    <3> PICK id : id = Checked(t) OBVIOUS
    <3>1. FounderKeys(id) \subseteq job.keys /\ NoOther(r, id) BY <1>1, <1>2 DEF IdentityFree
    <3>2. /\ id.discord # None => <<"discord", id.discord>> \in job.keys /\
                                  \A g \in (founders \ filled) \ {r} : link[g].discord # id.discord
          /\ id.steam # None => <<"founder-steam", id.steam>> \in job.keys /\
                                \A g \in (founders \ filled) \ {r} : link[g].steam # id.steam
      BY <3>1 DEF FounderKeys, NoOther, Shares, Same
    <3>3. \/ new.discord = None \/ id.discord = new.discord \/ (r \in founders \ filled /\ new.discord = own.discord)
      <4>1. CASE job.award BY <4>1 DEF Checked
      <4>2. CASE ~job.award
        <5>1. r \in founders \ filled BY <4>2, <2>2, <1>5, <1>6
        <5>2. job.op = "paypal" => ~moved BY <4>2, <5>1, <2>2, <1>6
        <5>3. job.op # "paypal" =>
                id.discord = (IF new.discord = own.discord THEN None ELSE new.discord)
          BY <4>2, <5>1 DEF Checked
        <5> QED BY <5>1, <5>2, <5>3
      <4> QED BY <4>1, <4>2
    <3>4. \/ new.steam = None \/ id.steam = new.steam \/ (r \in founders \ filled /\ new.steam = own.steam)
      <4>1. CASE job.award BY <4>1 DEF Checked
      <4>2. CASE ~job.award
        <5>1. r \in founders \ filled BY <4>2, <2>2, <1>5, <1>6
        <5>2. job.op = "paypal" => ~changed BY <4>2, <5>1, <2>2, <1>6
        <5>3. job.op # "paypal" =>
                id.steam = (IF new.steam = own.steam THEN None ELSE new.steam)
          BY <4>2, <5>1 DEF Checked
        <5> QED BY <5>1, <5>2, <5>3
      <4> QED BY <4>1, <4>2
    <3> QED BY <2>2, <3>2, <3>3, <3>4, <1>9, <1>11
  <2> QED BY <2>1, <2>2
<1>18. LinksAreOwn'
  <2>1. ASSUME job.op = "auto" PROVE ~OtherHolder(r, job.steams) BY <1>1, <1>2, <2>1 DEF HolderFree
  <2>2. ~(job.op = "auto" /\ changed /\ OtherHolder(r, {new.steam}))
    <3>1. job.op = "auto" /\ changed => new.steam \in job.steams BY <1>1, <1>2, <1>12 DEF JobKnown
    <3> QED BY <3>1, <2>1 DEF OtherHolder
  <2>3. ~(job.op = "auto" /\ job.award /\ OtherHolder(r, SteamsOf(own.discord, Applied) \ {new.steam}))
    <3>1. ASSUME job.op = "auto", job.award PROVE SteamsOf(own.discord, Applied) \ {new.steam} \subseteq job.steams
      <4>1. SteamsOf(own.discord, Applied) \ {own.steam} \subseteq job.steams /\ (changed => own.steam = None)
        BY <1>2, <1>12, <3>1 DEF JobKnown
      <4>2. None \notin SteamsOf(own.discord, Applied) BY <1>3 DEF SteamsOf
      <4> QED BY <4>1, <4>2
    <3> QED BY <3>1, <2>1 DEF OtherHolder
  <2>4. broken' = broken BY <1>7, <2>2, <2>3
  <2>5. CopiedSteamFits'
    <3>1. ASSUME copied PROVE <<new.discord, new.steam>> \in Approved
      <4>1. CASE changed
        <5>1. job.op = "auto" BY <4>1, <3>1
        <5>2. job.added.discord = None /\ <<own.discord, job.added.steam>> \in Approved
          BY <5>1, <1>2, <1>12, <4>1 DEF JobKnown
        <5>3. ~moved BY <5>2, <1>12
        <5> QED BY <4>1, <5>2, <5>3, <1>12
      <4>2. CASE ~changed
        <5>1. own.copied /\ ~(job.op = "link" /\ job.added.restated) BY <4>2, <3>1
        <5>2. <<own.discord, own.steam>> \in Approved BY <5>1, <1>3, OwnLink
        <5>3. ~moved
          <6>1. CASE job.op = "auto"
            <7>1. job.added.discord = None BY <6>1, <1>2 DEF JobKnown
            <7> QED BY <7>1, <1>12
          <6>2. CASE job.op # "auto"
            <7>1. job.added.discord \in {None, own.discord} BY <6>2, <5>1, <1>1, <1>2, <1>12, <4>2 DEF JobKnown
            <7> QED BY <7>1, <1>12
          <6> QED BY <6>1, <6>2
        <5> QED BY <4>2, <5>2, <5>3
      <4> QED BY <4>1, <4>2
    <3>2. \A q \in Records : link[q].copied => <<link[q].discord, link[q].steam>> \in Approved
      BY DEF FoundersInv, LinksAreOwn, CopiedSteamFits
    <3> SUFFICES ASSUME NEW q \in Records, link'[q].copied
                 PROVE  <<link'[q].discord, link'[q].steam>> \in Approved
      BY DEF CopiedSteamFits
    <3>3. CASE q = r BY <3>1, <3>3, <1>9, <1>11
    <3>4. CASE q # r
      <4>1. link'[q] = link[q] BY <3>4, <1>11
      <4> QED BY <3>2, <4>1
    <3> QED BY <3>3, <3>4
  <2> QED BY <2>4, <2>5 DEF FoundersInv, LinksAreOwn, MatchedAlone, ImportTakesOnlyItsOwn
<1> QED BY <1>1, <1>8, <1>11, <1>13, <1>14, <1>15, <1>16, <1>17, <1>18, CommitKeeps


\* A row after SteamCleared.
LEMMA ClearedRow ==
  ASSUME NEW l \in LinkRows, NEW account, NEW clear, clear = SteamCleared(l, account)
  PROVE  /\ clear \in LinkRows /\ clear.discord = l.discord /\ clear.from = l.from /\ clear.reported = l.reported
         /\ clear.steam = (IF l.copied /\ l.discord # account THEN None ELSE l.steam)
         /\ clear.copied = (IF l.copied /\ l.discord # account THEN FALSE ELSE l.copied)
<1>1. CASE l.copied /\ l.discord # account
  <2>1. clear = [l EXCEPT !.steam = None, !.copied = FALSE] BY <1>1 DEF SteamCleared
  <2>2. clear = [discord |-> l.discord, from |-> l.from, steam |-> None, copied |-> FALSE, reported |-> l.reported]
    BY <2>1 DEF LinkRows
  <2>3. l.discord \in Accounts \cup Nothing /\ l.from \in {None, "staff", "patreon", "patron_signin"}
        /\ l.reported \in Accounts \cup Nothing
    BY DEF LinkRows
  <2>4. clear \in LinkRows BY <2>2, <2>3 DEF LinkRows, Nothing
  <2> QED BY <1>1, <2>2, <2>4
<1>2. CASE ~(l.copied /\ l.discord # account)
  <2>1. clear = l BY <1>2 DEF SteamCleared
  <2> QED BY <1>2, <2>1
<1> QED BY <1>1, <1>2


LEMMA CommitImportKeeps == ASSUME FoundersInv, NEW t \in Transactions, CommitImport(t) PROVE FoundersInv'
<1> PICK job : job = tx[t] OBVIOUS
<1> PICK r : r = job.record OBVIOUS
<1> PICK own : own = link[r] OBVIOUS
<1> PICK given : given = job.other OBVIOUS
<1> PICK account : account = job.added.discord OBVIOUS
<1> PICK moves : moves = (job.step = "commit" /\ account # None /\ account # own.discord /\ Follows(r)) OBVIOUS
<1> PICK confirms : confirms = (account # None /\ account = own.discord /\ own.from = "staff") OBVIOUS
<1> PICK copied : copied = (own.copied /\ own.discord = account) OBVIOUS
<1> PICK steam : steam = IF own.copied /\ own.discord # account THEN None ELSE own.steam OBVIOUS
<1> PICK from : from = IF confirms THEN "patreon" ELSE own.from OBVIOUS
<1> PICK moved : moved = [discord |-> account, from |-> "patreon", steam |-> steam, copied |-> copied, reported |-> account] OBVIOUS
<1> PICK kept : kept = [discord |-> own.discord, from |-> from, steam |-> own.steam, copied |-> own.copied, reported |-> account] OBVIOUS
<1> PICK free : free = IF given = None THEN link
                       ELSE [link EXCEPT ![given] = [SteamCleared(@, None) EXCEPT !.discord = None, !.from = None]] OBVIOUS
<1>1. Open(t) /\ job.op = "import" /\ job.step \in {"commit", "report"} BY DEF CommitImport
<1>2. job \in Jobs /\ JobKnown(job) BY <1>1, OpenIs
<1>3. /\ r \in Records /\ own \in LinkRows /\ own.copied \in BOOLEAN /\ None \notin Steams /\ None \notin Accounts
      /\ None \notin Records /\ (own.discord = None => own.from = None)
      /\ own.copied => <<own.discord, own.steam>> \in Approved
  <2>1. r \in Records BY <1>2 DEF Jobs
  <2> QED BY <2>1, OwnLink
<1>4. account \in Accounts \cup Nothing /\ given \in Records \cup Nothing BY <1>2 DEF Jobs, Additions, Identities
<1>5. /\ link' = [free EXCEPT ![r] = IF moves THEN [SteamCleared(own, account) EXCEPT !.discord = account, !.from = "patreon", !.reported = account]
                                     ELSE [own EXCEPT !.reported = account, !.from = from]]
      /\ filled' = (IF moves /\ r \in founders THEN filled \cup {r} ELSE filled)
      /\ broken' = (IF \E q \in Records : /\ link[q].discord \notin {None, link'[q].discord}
                                          /\ q \in founders \/ link[q].from # "patreon"
                    THEN broken \cup {"taken"} ELSE broken)
      /\ tx' = [tx EXCEPT ![t] = NoTx] /\ founders' = founders /\ starts' = starts
  BY DEF CommitImport, SetTx
<1>6. [SteamCleared(own, account) EXCEPT !.discord = account, !.from = "patreon", !.reported = account] = moved
  <2> PICK clear : clear = SteamCleared(own, account) OBVIOUS
  <2>1. /\ clear \in LinkRows
        /\ clear.steam = (IF own.copied /\ own.discord # account THEN None ELSE own.steam)
        /\ clear.copied = (IF own.copied /\ own.discord # account THEN FALSE ELSE own.copied)
    <3>1. own \in LinkRows /\ clear = SteamCleared(own, account) BY <1>3
    <3> QED BY ONLY <3>1, ClearedRow, ZenonT(30)
  <2>2. clear.steam = steam BY <2>1
  <2>3. clear.copied \in BOOLEAN BY <2>1 DEF LinkRows
  <2>4. clear.copied = copied
    <3>1. CASE own.copied /\ own.discord # account BY <3>1, <2>1
    <3>2. CASE ~(own.copied /\ own.discord # account) BY <3>2, <2>1, <1>3
    <3> QED BY <3>1, <3>2
  <2> PICK set : set = [clear EXCEPT !.discord = account, !.from = "patreon", !.reported = account] OBVIOUS
  <2>5. set = [discord |-> account, from |-> "patreon", steam |-> clear.steam, copied |-> clear.copied,
               reported |-> account]
    BY <2>1 DEF LinkRows
  <2>6. set = moved BY <2>2, <2>4, <2>5
  <2> QED BY <2>6
<1>7. [own EXCEPT !.reported = account, !.from = from] = kept
  <2> PICK set : set = [own EXCEPT !.reported = account, !.from = from] OBVIOUS
  <2>1. set = [discord |-> own.discord, from |-> from, steam |-> own.steam, copied |-> own.copied, reported |-> account]
    BY <1>3 DEF LinkRows
  <2>2. set = kept BY <2>1
  <2> QED BY <2>2
<1>8. link \in [Records -> LinkRows] /\ founders \subseteq Records /\ filled \subseteq founders
      /\ \A q \in Records : link[q].discord = None => link[q].from = None
  BY DEF FoundersInv, FoundersTypeOK
<1>9. \A q \in Records : link[q].copied => <<link[q].discord, link[q].steam>> \in Approved
  BY DEF FoundersInv, LinksAreOwn, CopiedSteamFits
<1>10. given # None => given \in Records /\ given # r /\ given \notin founders /\ link[given].from = "patreon"
  BY <1>2, <1>4 DEF JobKnown, Nothing
\* The record that gives its account up.
<1>11. ASSUME given # None
       PROVE  /\ free[given] \in LinkRows /\ free[given].discord = None /\ free[given].from = None
              /\ ~free[given].copied /\ free[given].steam \in {None, link[given].steam}
              /\ \A q \in Records \ {given} : free[q] = link[q]
              /\ free \in [Records -> LinkRows]
  <2> PICK l : l = link[given] OBVIOUS
  <2>1. given \in Records /\ l \in LinkRows /\ l.copied \in BOOLEAN /\ (l.copied => l.discord # None)
    BY <1>10, <1>11, OwnLink
  <2> PICK left : left = [discord |-> None, from |-> None, steam |-> IF l.copied THEN None ELSE l.steam,
                          copied |-> FALSE, reported |-> l.reported] OBVIOUS
  <2>2. [SteamCleared(l, None) EXCEPT !.discord = None, !.from = None] = left
    <3> PICK clear : clear = SteamCleared(l, None) OBVIOUS
    <3>1. /\ clear \in LinkRows /\ clear.reported = l.reported
          /\ clear.steam = (IF l.copied /\ l.discord # None THEN None ELSE l.steam)
          /\ clear.copied = (IF l.copied /\ l.discord # None THEN FALSE ELSE l.copied)
      <4>1. l \in LinkRows /\ clear = SteamCleared(l, None) BY <2>1
      <4> QED BY ONLY <4>1, ClearedRow, ZenonT(30)
    <3>2. clear.steam = (IF l.copied THEN None ELSE l.steam) /\ clear.copied = FALSE
      <4>1. CASE l.copied BY <4>1, <3>1, <2>1
      <4>2. CASE ~l.copied BY <4>2, <3>1, <2>1
      <4> QED BY <4>1, <4>2
    <3> PICK set : set = [clear EXCEPT !.discord = None, !.from = None] OBVIOUS
    <3>3. set = [discord |-> None, from |-> None, steam |-> clear.steam, copied |-> clear.copied,
                 reported |-> clear.reported]
      BY <3>1 DEF LinkRows
    <3>4. set = left BY <3>1, <3>2, <3>3
    <3> QED BY <3>4
  <2>3. left \in LinkRows BY <2>1 DEF LinkRows, Nothing
  <2>4. free = [link EXCEPT ![given] = left]
    <3>1. free = [link EXCEPT ![given] = [SteamCleared(@, None) EXCEPT !.discord = None, !.from = None]] BY <1>11
    <3> QED BY <3>1, <2>2
  <2>b. link \in [Records -> LinkRows] BY <1>8
  <2>5. free[given] = left BY <2>b, <2>1, <2>4
  <2>6. free \in [Records -> LinkRows] BY <2>b, <2>1, <2>3, <2>4
  <2>7. \A q \in Records \ {given} : free[q] = link[q] BY <2>b, <2>4
  <2>8. left.discord = None /\ left.from = None /\ left.copied = FALSE /\ left.steam \in {None, link[given].steam} OBVIOUS
  <2> QED BY <2>3, <2>5, <2>6, <2>7, <2>8
<1>12. free \in [Records -> LinkRows] /\ \A q \in Records \ {given} : free[q] = link[q] BY <1>8, <1>11
<1> PICK row : row = IF moves THEN moved ELSE kept OBVIOUS
<1>13. row \in LinkRows
  <2>1. own.from \in {None, "staff", "patreon", "patron_signin"} /\ own.steam \in Steams \cup Nothing
        /\ own.discord \in Accounts \cup Nothing
    BY <1>3 DEF LinkRows
  <2>2. moved \in LinkRows BY <1>3, <1>4, <2>1 DEF LinkRows, Nothing
  <2>3. kept \in LinkRows BY <1>3, <1>4, <2>1 DEF LinkRows
  <2> QED BY <2>2, <2>3
<1>14. link' = [free EXCEPT ![r] = row] BY <1>5, <1>6, <1>7
<1>15. link' \in [Records -> LinkRows] /\ link'[r] = row /\ \A q \in Records \ {r} : link'[q] = free[q]
  BY <1>3, <1>12, <1>13, <1>14
<1>16. \A q \in Records \ {r, given} : link'[q] = link[q] BY <1>12, <1>15
<1>17. given # None => link'[given] = free[given] BY <1>10, <1>15
<1>18. /\ row.discord = (IF moves THEN account ELSE own.discord)
       /\ row.steam \in {None, own.steam}
       /\ row.discord = None => row.from = None
       /\ row.copied => own.copied /\ row.steam = own.steam /\ row.discord = own.discord
  <2>1. CASE moves BY <2>1
  <2>2. CASE ~moves BY <2>2, <1>3
  <2> QED BY <2>1, <2>2
<1>19. \A q \in Records : link'[q].discord = None => link'[q].from = None
  <2> SUFFICES ASSUME NEW q \in Records PROVE link'[q].discord = None => link'[q].from = None OBVIOUS
  <2>1. CASE q = r BY <2>1, <1>15, <1>18
  <2>2. CASE q = given /\ q # r
    <3>1. given # None BY <2>2, <1>3
    <3> QED BY <3>1, <2>2, <1>11, <1>17
  <2>3. CASE q \notin {r, given} BY <2>3, <1>8, <1>16
  <2> QED BY <2>1, <2>2, <2>3
<1>20. founders' \subseteq Records /\ filled' \subseteq founders' BY <1>5, <1>8
<1>21. \A q \in Records \ RowsIn(tx[t]) : link'[q] = link[q] /\ (q \in founders' <=> q \in founders)
  BY <1>5, <1>16, <1>3 DEF RowsIn
<1>22. \A q \in Records : link'[q].steam \in {None, link[q].steam}
  <2> SUFFICES ASSUME NEW q \in Records PROVE link'[q].steam \in {None, link[q].steam} OBVIOUS
  <2>1. CASE q = r BY <2>1, <1>15, <1>18
  <2>2. CASE q = given /\ q # r
    <3>1. given # None BY <2>2, <1>3
    <3> QED BY <3>1, <2>2, <1>11, <1>17
  <2>3. CASE q \notin {r, given} BY <2>3, <1>16
  <2> QED BY <2>1, <2>2, <2>3
<1>23. Gained(t)
  <2>1. ASSUME NEW f \in founders' \ filled' PROVE f \in founders \ filled /\ link'[f].discord = link[f].discord
    <3>a. filled \subseteq filled' BY <1>5
    <3>b. f \in founders \ filled BY <2>1, <3>a, <1>5
    <3>c. f \in Records BY <3>b, <1>8
    <3>d. f # given
      <4>1. CASE given = None BY <4>1, <3>c, <1>3
      <4>2. CASE given # None BY <4>2, <3>b, <1>10
      <4> QED BY <4>1, <4>2
    <3>1. f \in founders \ filled /\ f \in Records /\ f # given BY <3>b, <3>c, <3>d
    <3>2. CASE f = r
      <4>1. ~moves BY <2>1, <3>1, <3>2, <1>5
      <4> QED BY <3>1, <3>2, <4>1, <1>15, <1>18
    <3>3. CASE f # r
      <4>1. link'[f] = link[f] BY <3>1, <3>3, <1>16
      <4> QED BY <3>1, <4>1
    <3> QED BY <3>2, <3>3
  <2>2. \A f \in founders' \ filled' : link'[f].steam \in {None, link[f].steam} BY <1>20, <1>22
  <2> QED BY <2>1, <2>2 DEF Gained
<1>24. LinksAreOwn'
  <2>1. ASSUME NEW q \in Records, link[q].discord \notin {None, link'[q].discord}
        PROVE  q \notin founders /\ link[q].from = "patreon"
    <3>1. CASE q = r
      <4>1. moves /\ own.discord # None BY <2>1, <3>1, <1>15, <1>18
      <4> QED BY <3>1, <4>1 DEF Follows
    <3>2. CASE q # r
      <4>1. q = given /\ given # None
        <5>1. q \in {r, given} BY <2>1, <1>16
        <5> QED BY <5>1, <3>2, <1>3
      <4> QED BY <4>1, <1>10
    <3> QED BY <3>1, <3>2
  <2>2. broken' = broken BY <1>5, <2>1
  <2>3. CopiedSteamFits'
    <3> SUFFICES ASSUME NEW q \in Records, link'[q].copied PROVE <<link'[q].discord, link'[q].steam>> \in Approved
      BY DEF CopiedSteamFits
    <3>1. CASE q = r BY <3>1, <1>3, <1>15, <1>18
    <3>2. CASE q = given /\ q # r
      <4>1. given # None BY <3>2, <1>3
      <4> QED BY <4>1, <3>2, <1>11, <1>17
    <3>3. CASE q \notin {r, given}
      <4>1. link'[q] = link[q] BY <3>3, <1>16
      <4> QED BY <4>1, <1>9
    <3> QED BY <3>1, <3>2, <3>3
  <2> QED BY <2>2, <2>3 DEF FoundersInv, LinksAreOwn, MatchedAlone, ImportTakesOnlyItsOwn
<1> QED BY <1>1, <1>5, <1>15, <1>19, <1>20, <1>21, <1>22, <1>23, <1>24, CommitKeeps

LEMMA FoundersKeep == FoundersInv /\ [FoundersNext]_foundersVars => FoundersInv'
<1> SUFFICES ASSUME FoundersInv, [FoundersNext]_foundersVars PROVE FoundersInv' OBVIOUS
<1>1. CASE UNCHANGED foundersVars
  <2>1. /\ link' = link /\ founders' = founders /\ released' = released /\ tx' = tx /\ starts' = starts
        /\ filled' = filled /\ broken' = broken
    BY <1>1 DEF foundersVars
  <2>2. \A t \in Transactions : /\ Open(t)' <=> Open(t)
                                /\ RowsOf(t)' = RowsOf(t) /\ KeysOf(t)' = KeysOf(t)
    BY <2>1 DEF Open, RowsOf, KeysOf
  <2>3. RowsApart' /\ KeysApart' BY <2>2 DEF FoundersInv, RowsApart, KeysApart
  <2>4. FoundersTypeOK' BY <2>1 DEF FoundersInv, FoundersTypeOK
  <2>5. JobsKnown'
    <3> SUFFICES ASSUME NEW t \in Transactions, Open(t) PROVE JobKnown(tx[t])' BY <2>2 DEF JobsKnown
    <3>1. JobKnown(tx[t]) BY DEF FoundersInv, JobsKnown
    <3> QED BY <2>1, <3>1 DEF JobKnown
  <2>6. JobsFree'
    <3> SUFFICES ASSUME NEW t \in Transactions, Open(t) PROVE HolderFree(t)' /\ IdentityFree(t)' BY <2>2 DEF JobsFree
    <3>1. HolderFree(t) /\ IdentityFree(t) BY DEF FoundersInv, JobsFree
    <3>2. HolderFree(t)' BY <2>1, <3>1 DEF HolderFree, OtherHolder
    <3>3. Checked(t)' = Checked(t) BY <2>1 DEF Checked, After
    <3>4. IdentityFree(t)' BY <2>1, <3>1, <3>3 DEF IdentityFree, NoOther
    <3> QED BY <3>2, <3>4
  <2>7. OnePromiseEach' /\ LinksAreOwn'
    BY <2>1 DEF FoundersInv, OnePromiseEach, LinksAreOwn, MatchedAlone, ImportTakesOnlyItsOwn, CopiedSteamFits
  <2> QED BY <2>1, <2>3, <2>4, <2>5, <2>6, <2>7 DEF FoundersInv
<1>2. CASE FoundersNext
  BY <1>2, StaffLinkKeeps, StaffAwardKeeps, PaypalKeeps, ImportBegins, SignInKeeps, AutoMatchKeeps, LockSteamKeeps,
     FindOtherKeeps, LockFounderKeeps, CommitImportKeeps, CommitLinkKeeps, RollBackKeeps
  DEF FoundersNext
<1> QED BY <1>1, <1>2

-----------------------------------------------------------------------------
(* All components *)

PeopleInv == FoundersInv /\ LinkInv /\ LinkBounds /\ MatchInv /\ StaffInv

LEMMA PeopleStart == Init => PeopleInv
<1> SUFFICES ASSUME Init PROVE PeopleInv OBVIOUS
<1>1. FoundersInv BY FoundersStart DEF Init
<1>2. LinkInv /\ LinkBounds BY LinkInitial, LinkStartsBounded DEF Init
<1>3. MatchInv BY MatchInitial DEF Init
<1>4. StaffInv BY StaffInitially DEF Init
<1> QED BY <1>1, <1>2, <1>3, <1>4 DEF PeopleInv

\* A step of the whole is a step or a stutter of every component.
LEMMA EachSteps ==
  [Next]_vars =>
    [FoundersNext]_foundersVars /\ [LinkNext]_linkVars /\ [MatchNext]_matchVars /\ [StaffNext]_staffVars
<1>1. [Next]_vars => [FoundersNext]_foundersVars BY DEF Next, vars
<1>2. [Next]_vars => [LinkNext]_linkVars BY DEF Next, vars
<1>3. [Next]_vars => [MatchNext]_matchVars BY DEF Next, vars
<1>4. [Next]_vars => [StaffNext]_staffVars BY DEF Next, vars
<1> QED BY <1>1, <1>2, <1>3, <1>4

LEMMA PeopleKeep == PeopleInv /\ [Next]_vars => PeopleInv'
<1> SUFFICES ASSUME PeopleInv, [Next]_vars PROVE PeopleInv' OBVIOUS
<1>1. FoundersInv' BY EachSteps, FoundersKeep DEF PeopleInv
<1>2. LinkInv' BY EachSteps, LinkInductive DEF PeopleInv
<1>3. LinkBounds' BY EachSteps, LinkStaysBounded DEF PeopleInv
<1>4. MatchInv' BY EachSteps, MatchInductive DEF PeopleInv
<1>5. StaffInv' BY EachSteps, StaffInductive DEF PeopleInv
<1> QED BY <1>1, <1>2, <1>3, <1>4, <1>5 DEF PeopleInv

\* Every component keeps its types. In whatever order staff, payments, imports, sign-ins and matching link and award
\* at the same time, two founders never hold the same Discord account or SteamID, except one whose empty identity an
\* import or a payment filled; matching copies a SteamID, or records a promise, only where no other record has the
\* SteamIDs; a copied SteamID is one the linked account was approved with; and the import takes an account only from
\* a record that Patreon gave it to (supporters.store.ts, supporter-match.store.ts, patron-link.store.ts).
THEOREM SupportersAreHeld == Spec => []SupportersHold
<1>1. PeopleInv => TypeOK
  <2> SUFFICES ASSUME PeopleInv PROVE TypeOK OBVIOUS
  <2>1. FoundersTypeOK BY DEF PeopleInv, FoundersInv
  <2>2. LinkTypeOK BY LinkTyped DEF PeopleInv
  <2>3. MatchTypeOK BY DEF PeopleInv, MatchInv, SyncShape
  <2>4. StaffTypeOK BY DEF PeopleInv, StaffInv
  <2> QED BY <2>1, <2>2, <2>3, <2>4 DEF TypeOK
<1>2. PeopleInv => FoundersHold BY DEF PeopleInv, FoundersInv, FoundersHold
<1>3. PeopleInv => SupportersHold BY <1>1, <1>2 DEF SupportersHold
<1> QED BY <1>3, PeopleStart, PeopleKeep, PTL DEF Spec

=============================================================================
