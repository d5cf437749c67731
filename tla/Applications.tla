----------------------------- MODULE Applications -----------------------------
(***************************************************************************)
(* A whitelist application for one SteamID (src/applications): its row and  *)
(* review receipts, the staff requests that approve, decline, recheck and   *)
(* revoke it, removals on the Whitelist page, and the game's whitelist.     *)
(*                                                                         *)
(* A request is a sequence of steps with one database transaction or one   *)
(* game request each. Other requests run in between, any of them may stop   *)
(* between two of its steps, and the game may carry out a change whose      *)
(* answer was lost at any later time.                                       *)
(***************************************************************************)
EXTENDS Naturals, FiniteSets

CONSTANTS
  Requests,      \* staff requests, each handled once
  Ids,           \* review IDs; a browser may send one again
  NoId,
  ConfirmationRequired  \* WHITELIST_APPLICATION_EXISTING_CONFIRMATION_REQUIRED

ASSUME RequestsAssumption == NoId \notin Ids \cup Requests /\ Ids \cap Requests = {}
ASSUME ConfirmationAssumption == ConfirmationRequired \in BOOLEAN

VARIABLES
  status, intent, grant, reviewId,  \* the whitelist_applications row
  reviews,      \* whitelist_application_reviews: state by review ID
  saved, live,  \* the SteamID in the saved configuration, in the running game
  late,         \* changes sent whose answer was lost and that may still happen
  step, kind, id,   \* a request's step, what it asks for, its review ID
  inspected,    \* the row a recheck read
  entry,        \* the whitelist entry an approval read before its claim
  outcome,      \* a request's conclusion
  sent,         \* history: <<review ID, change>> sent to the game
  during,       \* history: what the whitelist showed while a request ran
  warrant       \* history: `during` of the request that decided the status

rowVars == <<status, intent, grant, reviewId, reviews>>
gameVars == <<saved, live, late, sent>>
requestVars == <<step, kind, id, inspected, entry, outcome>>
appsVars == <<rowVars, gameVars, requestVars, during, warrant>>

Kinds == {"approve", "decline", "recheck", "revoke", "page-add", "page-remove"}
Row(s, i, r) == [status |-> s, intent |-> i, reviewId |-> r]
NoRow == Row("pending", "grant", NoId)
Running(h) == step[h] \notin {"new", "done"}

\* What a request could have seen of the entry.
View(s, l) == (IF l THEN {"live"} ELSE {}) \cup (IF s /\ l THEN {} ELSE {"gone"})
Show(s, l) ==
  /\ saved' = s /\ live' = l
  /\ during' = [h \in Requests |-> IF Running(h) THEN during[h] \cup View(s, l)
                                               ELSE during[h]]
GameSame == UNCHANGED <<gameVars, during>>

To(h, s) == step' = [step EXCEPT ![h] = s]
Say(h, s, result) == To(h, s) /\ outcome' = [outcome EXCEPT ![h] = result]
Quiet == UNCHANGED <<kind, id, inspected, entry>>

AppsInit ==
  /\ status = "pending" /\ intent = "grant" /\ grant = "none" /\ reviewId = NoId
  /\ reviews = [i \in Ids \cup Requests |-> "none"]
  /\ \E s \in BOOLEAN : saved = s /\ live = s
  /\ late = {} /\ sent = {}
  /\ step = [h \in Requests |-> "new"]
  /\ kind = [h \in Requests |-> "none"] /\ id = [h \in Requests |-> NoId]
  /\ inspected = [h \in Requests |-> NoRow]
  /\ entry = [h \in Requests |-> "none"]
  /\ outcome = [h \in Requests |-> "none"]
  /\ during = [h \in Requests |-> {}] /\ warrant = {}

-------------------------------------------------------------------------------
(* A request arrives.                                                        *)

Begin(h, k, i, first) ==
  /\ step[h] = "new"
  /\ To(h, first)
  /\ kind' = [kind EXCEPT ![h] = k] /\ id' = [id EXCEPT ![h] = i]
  /\ during' = [during EXCEPT ![h] = View(saved, live)]
  /\ UNCHANGED <<rowVars, gameVars, entry, outcome, warrant>>

\* review: an approval of a pending application reads the whitelist first.
BeginApprove(h, i) ==
  /\ Begin(h, "approve", i, IF status = "pending" THEN "look" ELSE "claim")
  /\ UNCHANGED inspected
BeginClaim(h, k, i) ==
  /\ k \in {"decline", "revoke"}
  /\ Begin(h, k, i, "claim")
  /\ UNCHANGED inspected

\* Mutated form of Recheckable: an interrupted revocation cannot be rechecked.
NotRevoking(s, i) == s \in {"processing", "needs_review"}
Recheckable(s, i) == \/ s \in {"processing", "needs_review"}
                     \/ s = "revoking" /\ i = "revoke"
\* recheck: the row is read, then the game, then the row is compared and written.
BeginRecheck(h, i) ==
  /\ Begin(h, "recheck", i,
           IF reviewId # i /\ Recheckable(status, intent) THEN "check" ELSE "done")
  /\ inspected' = [inspected EXCEPT ![h] = Row(status, intent, reviewId)]

\* A change on the Whitelist page goes straight to the game.
BeginPage(h, k) ==
  /\ k \in {"page-add", "page-remove"}
  /\ Begin(h, k, h, "send")
  /\ UNCHANGED inspected

-------------------------------------------------------------------------------
(* The claim, before the game is contacted.                                  *)

\* The configuration may be unreadable, or the whole whitelist.
Readings == IF live THEN {"live", "unknown"}
            ELSE IF saved THEN {"saved", "absent", "unknown"}
            ELSE {"absent", "unknown"}
\* `confirmed` is the staff member's statement that the applicant owns the entry.
Look(h, confirmed) ==
  /\ step[h] = "look"
  /\ \E e \in Readings :
       /\ entry' = [entry EXCEPT ![h] = IF e = "live" /\ confirmed THEN "owned" ELSE e]
       /\ To(h, IF e = "live" /\ ~confirmed /\ ConfirmationRequired
                  THEN "done" ELSE "claim")
  /\ GameSame /\ UNCHANGED <<rowVars, kind, id, inspected, outcome, warrant>>

\* Mutated form of MayReview: a doubtful application can be decided again.
Undecided == status \in {"pending", "needs_review"}
MayReview == status = "pending"
MayRevoke == status = "approved" \/ (status = "needs_review" /\ intent = "revoke")
\* Every review has a row of its own: an ID already used rolls the claim back.
Claimable(h) ==
  /\ reviews[id[h]] = "none"
  /\ IF kind[h] = "revoke" THEN MayRevoke ELSE MayReview

Claim(h, state, wish, receipt) ==
  /\ step[h] = "claim" /\ Claimable(h)
  /\ status' = state /\ intent' = wish /\ reviewId' = id[h]
  /\ reviews' = [reviews EXCEPT ![id[h]] = receipt]
  /\ GameSame /\ Quiet /\ UNCHANGED <<grant, warrant>>
ClaimDecline(h) ==
  /\ kind[h] = "decline"
  /\ Claim(h, "declined", intent, "applied")
  /\ To(h, "done") /\ UNCHANGED outcome
\* A confirmed entry that is already live is registered without a game action.
ClaimApprove(h) ==
  /\ kind[h] = "approve"
  /\ Claim(h, "processing", intent, "started")
  /\ IF entry[h] = "owned" THEN Say(h, "finish", "applied")
                           ELSE To(h, "send") /\ UNCHANGED outcome
ClaimRevoke(h) ==
  /\ kind[h] = "revoke"
  /\ Claim(h, "revoking", "revoke", "started")
  /\ To(h, "send") /\ UNCHANGED outcome
\* recordedReview answers a repeated ID, and refuses any other request.
NotClaimed(h) ==
  /\ step[h] = "claim" /\ ~Claimable(h)
  /\ To(h, "done")
  /\ GameSame /\ Quiet /\ UNCHANGED <<rowVars, outcome, warrant>>

-------------------------------------------------------------------------------
(* admin.act: whitelist-add or whitelist-remove.                             *)

Adds(h) == kind[h] \in {"approve", "page-add"}
Sent(h) == sent' = sent \cup {<<id[h], IF Adds(h) THEN "add" ELSE "remove">>}
GameStep(h) == step[h] = "send" /\ Quiet /\ UNCHANGED <<rowVars, warrant>>

\* A game refusal of a revocation is checked against the running whitelist.
Concluded(h) == IF kind[h] \in {"approve", "revoke"} THEN "finish" ELSE "done"
AfterFailure(h) == IF kind[h] = "revoke" THEN "reread" ELSE Concluded(h)

\* Throttled, no receipt, no capability or an answer that refuses the change.
Refused(h) ==
  /\ GameStep(h)
  /\ \/ Say(h, Concluded(h), "unknown")
     \/ Say(h, AfterFailure(h), "failed")
  /\ GameSame
\* The change is made; the running list may follow at once or at a restart. A list
\* already as asked refuses it (already_reserved, reserved_not_found).
Change(h) ==
  /\ GameStep(h) /\ ~(saved = Adds(h) /\ live = Adds(h))
  /\ \E l \in {live, Adds(h)} : Show(Adds(h), l)
  /\ Sent(h)
  /\ To(h, "confirm") /\ UNCHANGED <<late, outcome>>
\* A build that edits the configuration sends nothing when the list is as asked.
AsAsked(h) ==
  /\ GameStep(h) /\ saved = Adds(h)
  /\ To(h, "confirm")
  /\ GameSame /\ UNCHANGED outcome
AnswerLost(h) ==
  /\ GameStep(h)
  /\ Sent(h)
  /\ late' = late \cup {Adds(h)}
  /\ Say(h, Concluded(h), "unknown")
  /\ UNCHANGED <<saved, live, during>>

Confirmed(add) == IF live = add THEN "applied" ELSE "pending"
Confirm(h) ==
  LET result == Confirmed(Adds(h)) IN
  /\ step[h] = "confirm"
  /\ \/ Say(h, IF kind[h] = "page-remove" THEN "record" ELSE Concluded(h), result)
     \/ Say(h, Concluded(h), "unknown")
  /\ GameSame /\ Quiet /\ UNCHANGED <<rowVars, warrant>>

\* Mutated form of RefusalStands: a refusal always leaves the access in place.
AlwaysStands == TRUE
RefusalStands == live
\* refusedRevoke.
Reread(h) ==
  /\ step[h] = "reread"
  /\ \/ Say(h, "finish", IF RefusalStands THEN "failed" ELSE "applied")
     \/ Say(h, "finish", "unknown")
  /\ GameSame /\ Quiet /\ UNCHANGED <<rowVars, warrant>>

-------------------------------------------------------------------------------
(* The result: the row only if it is still this review's, the receipt always. *)

Owns(h, s) == status = s /\ reviewId = id[h]
Finish(h) ==
  /\ step[h] = "finish"
  /\ reviews' = [reviews EXCEPT ![id[h]] = outcome[h]]
  /\ To(h, "done")
  /\ GameSame /\ Quiet /\ UNCHANGED <<reviewId, outcome>>

\* finishApproval.
FinishApprove(h) ==
  /\ kind[h] = "approve" /\ Finish(h)
  /\ IF Owns(h, "processing")
       THEN /\ status' = IF outcome[h] = "applied" THEN "approved" ELSE "needs_review"
            /\ grant' = IF outcome[h] # "applied" THEN grant
                        ELSE IF entry[h] = "owned" THEN "existing"
                        ELSE IF entry[h] = "absent" THEN "granted" ELSE grant
            /\ warrant' = during[h]
       ELSE UNCHANGED <<status, grant, warrant>>
  /\ UNCHANGED intent

\* Mutated form of Removal: the reported result is stored as the status.
AsReported(result) == result
Removal(result) == IF result \in {"applied", "pending"} THEN "revoked"
                   ELSE IF result = "failed" THEN "approved" ELSE "needs_review"
\* finishRevoke.
FinishRevoke(h) ==
  /\ kind[h] = "revoke" /\ Finish(h)
  /\ IF Owns(h, "revoking")
       THEN /\ status' = Removal(outcome[h])
            /\ intent' = IF outcome[h] = "failed" THEN "grant" ELSE intent
            /\ warrant' = during[h]
       ELSE UNCHANGED <<status, intent, warrant>>
  /\ UNCHANGED grant

-------------------------------------------------------------------------------
(* recheck: a read of the running whitelist, saved if the row is as inspected. *)

Check(h) ==
  /\ step[h] = "check"
  /\ \/ Say(h, "save", IF live <=> inspected[h].intent = "grant"
                         THEN "applied" ELSE "pending")
     \/ Say(h, "save", "unknown")
  /\ GameSame /\ Quiet /\ UNCHANGED <<rowVars, warrant>>

\* Mutated form of Unchanged: the row is not compared with what was inspected.
StillUncertain(h) == TRUE
Unchanged(h) == inspected[h] = Row(status, intent, reviewId)
SaveRecheck(h) ==
  /\ step[h] = "save"
  /\ To(h, "done")
  /\ IF Unchanged(h) /\ reviews[id[h]] = "none"
       THEN /\ status' = IF outcome[h] # "applied" THEN "needs_review"
                         ELSE IF inspected[h].intent = "revoke" THEN "revoked"
                         ELSE "approved"
            /\ reviewId' = id[h]
            /\ reviews' = [reviews EXCEPT ![id[h]] = outcome[h]]
            /\ warrant' = during[h]
       ELSE UNCHANGED <<status, reviewId, reviews, warrant>>
  /\ GameSame /\ Quiet /\ UNCHANGED <<intent, grant, outcome>>

-------------------------------------------------------------------------------
(* A removal on the Whitelist page, heard after its result is recorded.      *)

\* recordExternalRevoke: only an approved application is revoked.
RecordExternal(h) ==
  /\ step[h] = "record"
  /\ To(h, "done")
  /\ IF status = "approved"
       THEN /\ status' = "revoked" /\ intent' = "revoke" /\ reviewId' = h
            /\ reviews' = [reviews EXCEPT ![h] = outcome[h]]
            /\ warrant' = during[h]
       ELSE UNCHANGED <<status, intent, reviewId, reviews, warrant>>
  /\ GameSame /\ Quiet /\ UNCHANGED <<grant, outcome>>

-------------------------------------------------------------------------------
\* A process stop, or a database error that leaves the row as it was.
Stop(h) ==
  /\ Running(h)
  /\ To(h, "done")
  /\ GameSame /\ Quiet /\ UNCHANGED <<rowVars, outcome, warrant>>

\* The game carries out a change whose answer was lost, or restarts.
LateChange(add) ==
  /\ add \in late /\ late' = late \ {add}
  /\ \E l \in {live, add} : Show(add, l)
  /\ UNCHANGED <<rowVars, requestVars, sent, warrant>>
GameRestart ==
  /\ live # saved
  /\ Show(saved, saved)
  /\ UNCHANGED <<rowVars, requestVars, late, sent, warrant>>

AppsNext ==
  \/ \E h \in Requests :
       \/ \E i \in Ids : BeginApprove(h, i) \/ BeginRecheck(h, i)
                         \/ \E k \in Kinds : BeginClaim(h, k, i)
       \/ \E k \in Kinds : BeginPage(h, k)
       \/ \E confirmed \in BOOLEAN : Look(h, confirmed)
       \/ ClaimDecline(h) \/ ClaimApprove(h) \/ ClaimRevoke(h) \/ NotClaimed(h)
       \/ Refused(h) \/ Change(h) \/ AsAsked(h) \/ AnswerLost(h) \/ Confirm(h)
       \/ Reread(h) \/ FinishApprove(h) \/ FinishRevoke(h)
       \/ Check(h) \/ SaveRecheck(h) \/ RecordExternal(h) \/ Stop(h)
  \/ \E add \in BOOLEAN : LateChange(add)
  \/ GameRestart

AppsSpec == AppsInit /\ [][AppsNext]_appsVars

-------------------------------------------------------------------------------
ReceiptStates == {"none", "started", "applied", "pending", "failed", "unknown"}
\* The row, the receipts and the requests keep the values of their columns and steps.
AppsTypeOK ==
  /\ status \in {"pending", "processing", "approved", "declined", "needs_review",
                 "revoking", "revoked"}
  /\ intent \in {"grant", "revoke"} /\ grant \in {"none", "granted", "existing"}
  /\ reviewId \in Ids \cup Requests \cup {NoId}
  /\ reviews \in [Ids \cup Requests -> ReceiptStates]
  /\ saved \in BOOLEAN /\ live \in BOOLEAN /\ late \subseteq BOOLEAN
  /\ step \in [Requests -> {"new", "look", "claim", "send", "confirm", "reread",
                            "finish", "check", "save", "record", "done"}]
  /\ kind \in [Requests -> Kinds \cup {"none"}]
  /\ id \in [Requests -> Ids \cup Requests \cup {NoId}]
  /\ entry \in [Requests -> {"none", "live", "owned", "saved", "absent", "unknown"}]
  /\ outcome \in [Requests -> ReceiptStates \ {"started"}]

\* An approval rests on the entry having been live, and a revocation on its having
\* been absent or unsaved, while the request that decided it ran; a saved but inactive
\* grant, a refused removal of a lost entry or an old reading is never enough.
DecidedFromView == /\ status = "approved" => "live" \in warrant
                   /\ status = "revoked" => "gone" \in warrant
\* Declined and revoked are final: no late result, recheck or removal by another
\* request brings an application back.
Final == status \in {"declined", "revoked"}
FinalStays == [][Final => UNCHANGED status]_appsVars
\* One whitelist grant at most is ever sent for an application, none while it is
\* pending or declined, and every change sent for it has a review on record.
OneGrant ==
  LET own == {s \in sent : s[1] \in Ids} IN
  /\ Cardinality({s \in own : s[2] = "add"}) <= 1
  /\ status \in {"pending", "declined"} => own = {}
  /\ \A s \in own : reviews[s[1]] # "none"
\* Whatever stopped halfway, an undecided application can be rechecked: no status is
\* left that only a database edit could resolve.
Recoverable == status \notin {"pending", "approved", "declined", "revoked"} =>
                 Recheckable(status, intent)
===============================================================================
