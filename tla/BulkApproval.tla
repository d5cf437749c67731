----------------------------- MODULE BulkApproval -----------------------------
(***************************************************************************)
(* The Applications page of one administrator: reviews of single requests   *)
(* and batches that approve the ticked ones one after another, each through *)
(* the single approval (applications/index.tsx, bulk-approve.tsx), while    *)
(* other administrators review the same requests. The server's part is      *)
(* reduced to its steps: read, claimed, sent to the game and recorded;      *)
(* module Applications has them in full.                                    *)
(***************************************************************************)
EXTENDS Integers, FiniteSets, SequencesExt, PageRead

CONSTANTS AppCount,     \* requests, oldest first
          BusyRetries,  \* BUSY_RETRIES
          FirstGap,     \* FIRST_APPROVAL_GAP_MS, in whole cooldowns of the server
          Spacing,      \* the shortest pause between two approvals, likewise
          MaxRequests   \* bound: reviews that the page sends

ASSUME BulkAssumption ==
  {AppCount, BusyRetries, MaxRequests} \subseteq Nat /\ {FirstGap, Spacing} \subseteq Nat \ {0}

Apps == 1 .. AppCount
OtherStaff == 0 - 1  \* the review of another administrator
ReviewCooldown == 1

VARIABLES
  app,          \* whitelist_applications: [Apps -> status, and the review that claimed it last]
  listPage,     \* the read of the list
  ticked,       \* the selection
  single,       \* the review dialog: [record, at, id, result], or NoDialog
  batch,        \* the batch dialog: [phase, items, state, ids, next, wait, tries, stopping], or NoBatch
  reviewCalls,  \* reviews at the server: [app, id, decision, at, said]
  awaited,      \* the review whose answer the page waits for, or 0
  requests,     \* bound: reviews sent so far
  rest,         \* time since this administrator's last game action, up to Cooldown
  lost,         \* history: an answer was lost or came after the page had given up
  tooSoon       \* history: the server's cooldown refused an action of a batch

bulkVars == <<app, listPage, ticked, single, batch, reviewCalls, awaited, requests, rest, lost, tooSoon>>

NoDialog == [at |-> "none"]
NoBatch == [phase |-> "none"]
AppStatuses == {"pending", "processing", "approved", "declined", "needs_review"}

BulkInit ==
  /\ app = [a \in Apps |-> [status |-> "pending", by |-> 0]]
  /\ listPage = FirstRead /\ ticked = {} /\ single = NoDialog /\ batch = NoBatch
  /\ reviewCalls = {} /\ awaited = 0 /\ requests = 0 /\ rest = ReviewCooldown /\ lost = FALSE /\ tooSoon = FALSE

-----------------------------------------------------------------------------
(* The list *)

Dialog == single # NoDialog \/ batch # NoBatch
busy == awaited # 0 \/ batch.phase = "running"
ListedApps == listPage.data.list
PendingApps == {a \in Apps : Shown(listPage) /\ ListedApps[a] = "pending"}
Selection == ticked \cap PendingApps

\* A read that is under way, or the dashboard's own refresh, which waits for an open dialog.
ReadList ==
  /\ listPage.asked \/ ~Dialog
  /\ listPage' = ShownNow([version |-> 0, list |-> [a \in Apps |-> app[a].status]])
  /\ UNCHANGED <<app, ticked, single, batch, reviewCalls, awaited, requests, rest, lost, tooSoon>>
\* tick: what is no longer waiting leaves the selection.
Tick(a) ==
  /\ ~busy /\ ~Dialog /\ a \in PendingApps
  /\ ticked' = SymDiff(Selection, {a})
  /\ UNCHANGED <<app, listPage, single, batch, reviewCalls, awaited, requests, rest, lost, tooSoon>>

-----------------------------------------------------------------------------
(* A single review *)

canReview(status, decision) ==
  IF decision = "recheck" THEN status \in {"processing", "needs_review"} ELSE status = "pending"

OpenReview(a) ==
  /\ Steady(listPage) /\ ~busy /\ ~Dialog
  /\ single' = [at |-> "open", app |-> a, status |-> ListedApps[a], id |-> 0]
  /\ UNCHANGED <<app, listPage, ticked, batch, reviewCalls, awaited, requests, rest, lost, tooSoon>>

Send(a, id, decision) ==
  /\ reviewCalls' = reviewCalls \cup {[app |-> a, id |-> id, decision |-> decision, at |-> "sent", said |-> "nothing"]}
  /\ awaited' = id
NewRequest(a, decision) ==
  /\ requests < MaxRequests /\ requests' = requests + 1 /\ Send(a, requests + 1, decision)

\* choose and submit: once per dialog.
SubmitReview(decision) ==
  /\ single.at = "open" /\ ~busy /\ Steady(listPage) /\ canReview(single.status, decision)
  /\ NewRequest(single.app, decision)
  /\ single' = [single EXCEPT !.at = "sending", !.id = requests + 1]
  /\ UNCHANGED <<app, listPage, ticked, batch, rest, lost, tooSoon>>
\* The answer, or that there was none: the list is read again.
ReviewAnswered(said) ==
  /\ single' = [single EXCEPT !.at = said] /\ listPage' = AskedAgain(listPage) /\ UNCHANGED <<ticked, batch>>

-----------------------------------------------------------------------------
(* A batch *)

OldestFirst(S) == {s \in SetToSeqs(S) : \A i, j \in DOMAIN s : i < j => s[i] < s[j]}
OpenBatch ==
  /\ Steady(listPage) /\ ~busy /\ ~Dialog /\ Selection # {}
  /\ \E items \in OldestFirst(Selection) :
       batch' = [phase |-> "review", items |-> items, state |-> [a \in Selection |-> "queued"],
                 ids |-> [a \in Selection |-> 0], next |-> 1, wait |-> FirstGap, tries |-> 0, stopping |-> FALSE]
  /\ UNCHANGED <<app, listPage, ticked, single, reviewCalls, awaited, requests, rest, lost, tooSoon>>
SubmitBatch ==
  /\ batch.phase = "review" /\ ~busy /\ Steady(listPage)
  /\ batch' = [batch EXCEPT !.phase = "running"]
  /\ UNCHANGED <<app, listPage, ticked, single, reviewCalls, awaited, requests, rest, lost, tooSoon>>
StopBatch ==
  /\ batch.phase = "running" /\ ~batch.stopping
  /\ batch' = [batch EXCEPT !.stopping = TRUE]
  /\ UNCHANGED <<app, listPage, ticked, single, reviewCalls, awaited, requests, rest, lost, tooSoon>>

Item == batch.items[batch.next]
\* completed: what was sent leaves the selection, and the list is read again.
BatchDone(state) ==
  /\ batch' = [batch EXCEPT !.phase = "done", !.state = state]
  /\ ticked' = {a \in ticked : a \notin DOMAIN state \/ state[a] = "queued"}
  /\ listPage' = AskedAgain(listPage)

\* send, once the pause is over; again under the same id after the server was busy.
SendNext ==
  /\ batch.phase = "running" /\ awaited = 0 /\ batch.wait = 0 /\ ~batch.stopping
  /\ IF batch.tries = 0 THEN NewRequest(Item, "approve")
     ELSE Send(Item, batch.ids[Item], "approve") /\ UNCHANGED requests
  /\ batch' = [batch EXCEPT !.state[Item] = "sending", !.ids[Item] = IF batch.tries = 0 THEN requests + 1 ELSE @]
  /\ UNCHANGED <<app, listPage, ticked, single, rest, lost, tooSoon>>
Halt ==
  /\ batch.phase = "running" /\ awaited = 0 /\ batch.stopping
  /\ BatchDone([batch.state EXCEPT ![Item] = "queued"])
  /\ UNCHANGED <<app, single, reviewCalls, awaited, requests, rest, lost, tooSoon>>

\* Mutant: an answer that is not a confirmed approval does not end the batch.
NeverStops(said) == batch.next < Len(batch.items)
GoesOn(said) == said = "approved" /\ batch.next < Len(batch.items)
ItemAnswered(said) ==
  LET state == [batch.state EXCEPT ![Item] = IF said = "approved" THEN "approved" ELSE "attention"] IN
  /\ IF GoesOn(said)
     THEN /\ batch' = [batch EXCEPT !.state = state, !.next = @ + 1, !.wait = Spacing, !.tries = 0]
          /\ UNCHANGED <<ticked, listPage>>
     ELSE BatchDone(state)
  /\ UNCHANGED single

\* 429, which the server answers before it reads the request.
Busy(call) ==
  /\ call.at = "sent" /\ call.id = awaited /\ reviewCalls' = reviewCalls \ {call} /\ awaited' = 0
  /\ IF single.at = "sending" THEN ReviewAnswered("unconfirmed")
     ELSE /\ UNCHANGED single
          /\ \/ BatchDone([batch.state EXCEPT ![Item] = "queued"])  \* too long a wait, or too often
             \/ /\ batch.tries < BusyRetries
                /\ batch' = [batch EXCEPT !.state[Item] = "paused", !.tries = @ + 1, !.wait = 1]
                /\ UNCHANGED <<ticked, listPage>>
  /\ UNCHANGED <<app, requests, rest, lost, tooSoon>>

Closable == single.at \in {"open", "approved", "declined", "unconfirmed"} \/ batch.phase \in {"review", "done"}
Close ==
  /\ Closable /\ single' = NoDialog /\ batch' = NoBatch
  /\ UNCHANGED <<app, listPage, ticked, reviewCalls, awaited, requests, rest, lost, tooSoon>>
\* The page is left; its request goes on at the server, and the batch sends no other.
Leave ==
  /\ batch.phase = "running" \/ single.at = "sending"
  /\ single' = NoDialog /\ batch' = NoBatch /\ ticked' = {} /\ listPage' = FirstRead
  /\ lost' = (lost \/ awaited # 0) /\ awaited' = 0
  /\ UNCHANGED <<app, reviewCalls, requests, rest, tooSoon>>

-----------------------------------------------------------------------------
(* The server *)

Now(call, at, said) == reviewCalls' = (reviewCalls \ {call}) \cup {[call EXCEPT !.at = at, !.said = said]}
ServerOnly == UNCHANGED <<listPage, ticked, single, batch, awaited, requests, lost>>
OwnsReview(call) == app[call.app] = [status |-> "processing", by |-> call.id]

\* review: the claim of a waiting request, or a decision is already on record.
ClaimReview(call) ==
  LET status == app[call.app].status
      next == CASE call.decision = "approve" -> {"processing"} [] call.decision = "decline" -> {"declined"}
                [] call.decision = "recheck" -> {"approved", "needs_review"} IN
  /\ call.at = "sent"
  /\ IF ~canReview(status, call.decision) THEN Now(call, "answered", "conflict") /\ UNCHANGED app
     ELSE \E s \in next :
            /\ app' = [app EXCEPT ![call.app] = [status |-> s, by |-> call.id]]
            /\ Now(call, IF s = "processing" THEN "claimed" ELSE "answered", s)
  /\ ServerOnly /\ UNCHANGED <<rest, tooSoon>>

\* admin.act: a second action within the cooldown is refused, after the claim.
Act(call) ==
  /\ call.at = "claimed" /\ rest' = 0
  /\ \E s \in (IF rest < ReviewCooldown THEN {"needs_review"} ELSE {"approved", "needs_review"}) :
       /\ app' = (IF OwnsReview(call) THEN [app EXCEPT ![call.app].status = s] ELSE app)
       /\ Now(call, "answered", IF OwnsReview(call) THEN s ELSE "needs_review")
  /\ tooSoon' = (tooSoon \/ (rest < ReviewCooldown /\ batch # NoBatch /\ call.id = awaited))
  /\ ServerOnly

\* The answer reaches the page that waits for it.
Answer(call) ==
  /\ call.at = "answered" /\ reviewCalls' = reviewCalls \ {call}
  /\ IF call.id # awaited THEN UNCHANGED <<listPage, ticked, single, batch, awaited>>
     ELSE /\ awaited' = 0
          /\ IF single.at = "sending"
             THEN ReviewAnswered(IF call.said \in {"approved", "declined"} THEN call.said ELSE "unconfirmed")
             ELSE ItemAnswered(call.said)
  /\ UNCHANGED <<app, requests, rest, lost, tooSoon>>
\* No answer, or one that cannot be read; the request may still be carried out.
GiveUp ==
  /\ awaited # 0 /\ awaited' = 0 /\ lost' = TRUE
  /\ IF single.at = "sending" THEN ReviewAnswered("unconfirmed") ELSE ItemAnswered("unconfirmed")
  /\ UNCHANGED <<app, reviewCalls, requests, rest, tooSoon>>

OthersDecide(a) ==
  /\ app[a].status \in {"pending", "processing", "needs_review"}
  /\ \E s \in (IF app[a].status = "pending" THEN {"approved", "declined"} ELSE {"approved"}) :
       app' = [app EXCEPT ![a] = [status |-> s, by |-> OtherStaff]]
  /\ UNCHANGED <<listPage, ticked, single, batch, reviewCalls, awaited, requests, rest, lost, tooSoon>>

TimePasses ==
  /\ rest < ReviewCooldown \/ (batch # NoBatch /\ batch.wait > 0)
  /\ rest' = IF rest < ReviewCooldown THEN rest + 1 ELSE rest
  /\ batch' = IF batch # NoBatch /\ batch.wait > 0 THEN [batch EXCEPT !.wait = @ - 1] ELSE batch
  /\ UNCHANGED <<app, listPage, ticked, single, reviewCalls, awaited, requests, lost, tooSoon>>

BulkNext ==
  \/ ReadList \/ OpenBatch \/ SubmitBatch \/ StopBatch \/ SendNext \/ Halt \/ Close \/ Leave \/ GiveUp \/ TimePasses
  \/ \E a \in Apps : Tick(a) \/ OpenReview(a) \/ OthersDecide(a)
  \/ \E decision \in {"approve", "decline", "recheck"} : SubmitReview(decision)
  \/ \E call \in reviewCalls : Busy(call) \/ ClaimReview(call) \/ Act(call) \/ Answer(call)

-----------------------------------------------------------------------------
(* Properties *)

BulkTypeOK ==
  /\ app \in [Apps -> [status : AppStatuses, by : OtherStaff .. MaxRequests]] /\ ticked \subseteq Apps
  /\ awaited \in 0 .. MaxRequests /\ rest \in 0 .. ReviewCooldown
  /\ batch.phase \in {"none", "review", "running", "done"}
  /\ single.at \in {"none", "open", "sending", "approved", "declined", "unconfirmed"}

\* What the page says of an approval is so: approved is approved, and a request it calls not sent was never
\* claimed by this batch and will not be; it alone is still ticked.
ApprovalsTold ==
  /\ batch.phase \in {"running", "done"} => \A a \in DOMAIN batch.state :
       /\ batch.state[a] = "approved" => app[a].status = "approved"
       /\ batch.state[a] = "queued" /\ batch.ids[a] # 0 =>
            app[a].by # batch.ids[a] /\ \A call \in reviewCalls : call.id # batch.ids[a]
  /\ batch.phase = "done" => \A a \in DOMAIN batch.state : a \in ticked <=> batch.state[a] = "queued"
  /\ single.at \in {"approved", "declined"} => app[single.app].status = single.at

\* The batch approves in the listed order and stops at the first that is not confirmed: nothing after it is sent.
StopsAtDoubt ==
  batch.phase \in {"running", "done"} => \A i, j \in 1 .. Len(batch.items) :
    i < j /\ batch.ids[batch.items[j]] # 0 => batch.state[batch.items[i]] = "approved"

\* The spacing keeps a batch clear of the server's cooldown, unless an answer was lost and its request is late.
CooldownKept == ~lost => ~tooSoon

ApprovalsInOrder == ApprovalsTold /\ StopsAtDoubt /\ CooldownKept
=============================================================================
