---------------------------- MODULE SupporterRecord ----------------------------
(***************************************************************************)
(* One Patreon supporter as the bot knows it: signed webhooks and imports   *)
(* that bring what Patreon reports, in any order and repeatedly, the        *)
(* payments made of it, and staff who review the record in the dialog of    *)
(* the Supporters page (supporters.store.ts, supporters/index.tsx).         *)
(* Linking and founders are the business of module Founders.                *)
(***************************************************************************)
EXTENDS Integers, FiniteSets, FiniteSetsExt

CONSTANTS ChargeCount,    \* bound: charges of the patron, by date
          Readers,        \* the import and a patron's sign-in, which read Patreon on their own
          RecordDialogs,  \* dialogs that staff open; each sends once
          MaxChanges      \* bound: changes at Patreon

ASSUME SupporterRecordAssumption == ChargeCount \in Nat \ {0} /\ MaxChanges \in Nat

Charges == 1 .. ChargeCount
ChargePaid(status) == status = "Paid"
ChargeTaken(status) == status \in {"Paid", "Refunded"}

Happened(events) == {c \in Charges : events[c] # "none"}
LastCharge(events) ==
  LET dates == Happened(events) IN
  IF dates = {} THEN [at |-> 0, status |-> "none"] ELSE [at |-> Max(dates), status |-> events[Max(dates)]]

VARIABLES
  truth,     \* Patreon: [Charges -> status]
  changes,   \* bound: changes so far
  webhooks,  \* webhooks that Patreon has sent: [at, status] of the last charge
  reading,   \* [Readers -> the snapshot it has read and not yet imported, or NoSnapshot]
  record,    \* supporter_members and its payments, observations and receipts
  dialog,    \* [Dialogs -> where it is, and whether its record is still the stored version]
  agreed,    \* history: a complete import of what Patreon reports was the last thing to come in
  informed   \* history: the dialogs whose page showed every observation made so far

recordVars == <<truth, changes, webhooks, reading, record, dialog, agreed, informed>>

NoSnapshot == [read |-> FALSE]
NoRecord == [known |-> FALSE, at |-> 0, status |-> "none", review |-> "none", blind |-> FALSE,
             seen |-> {}, pay |-> [c \in Charges |-> "none"], first |-> {}]
Closed == [at |-> "closed", current |-> FALSE]

\* It begins with a patron who has not paid, or has paid once.
RecordInit ==
  /\ truth \in {[c \in Charges |-> "none"], [c \in Charges |-> IF c = 1 THEN "Paid" ELSE "none"]}
  /\ changes = 0 /\ webhooks = {LastCharge(truth)} /\ reading = [r \in Readers |-> NoSnapshot] /\ record = NoRecord
  /\ dialog = [d \in RecordDialogs |-> Closed] /\ agreed = FALSE /\ informed = {}

-----------------------------------------------------------------------------
(* Patreon *)

ChargeMoves(status) ==
  CASE status = "none" -> {"Pending", "Paid"}
    [] status = "Pending" -> {"Paid", "Declined"}
    [] status = "Declined" -> {"Paid"}
    [] status = "Paid" -> {"Refunded"}
    [] status = "Refunded" -> {"Paid"}  \* a refund that Patreon declined

\* A charge is made or changes, and a webhook tells of the last charge.
PatreonChanges ==
  \E c \in Charges : \E status \in ChargeMoves(truth[c]) :
    /\ changes < MaxChanges /\ changes' = changes + 1
    /\ truth[c] = "none" => \A b \in 1 .. c - 1 : truth[b] # "none"
    /\ truth' = [truth EXCEPT ![c] = status]
    /\ webhooks' = webhooks \cup {LastCharge(truth')} /\ agreed' = FALSE
    /\ UNCHANGED <<reading, record, dialog, informed>>

\* parse: a history that was cut, or misses an event, is not complete.
ReadMember(r) ==
  /\ ~reading[r].read
  /\ \E lost \in {{}} \cup {{c} : c \in Happened(truth)} :
       reading' = [reading EXCEPT ![r] =
         [read |-> TRUE, last |-> LastCharge(truth), complete |-> lost = {},
          events |-> [c \in Charges |-> IF c \in lost THEN "none" ELSE truth[c]]]]
  /\ UNCHANGED <<truth, changes, webhooks, record, dialog, agreed, informed>>

-----------------------------------------------------------------------------
(* What comes in *)

OlderCharge(at) == record.at # 0 /\ at # 0 /\ at < record.at

\* observedPatch: an older charge changes nothing, an undated one keeps the last charge.
Observed(last) ==
  IF OlderCharge(last.at) \/ (last.at = 0 /\ record.at # 0) THEN [at |-> record.at, status |-> record.status] ELSE last

\* The version of the record is a new one, so no page has it.
Outdates == [d \in RecordDialogs |-> [dialog[d] EXCEPT !.current = FALSE]]

\* ingest: each signed body counts once, and its member needs review; its signed_status payment, which
\* is never verified, is the observation itself.
Ingest(last) ==
  /\ last \in webhooks /\ <<"webhook", last>> \notin record.seen
  /\ record' = [record EXCEPT !.known = TRUE, !.at = Observed(last).at, !.status = Observed(last).status,
                  !.review = "pending", !.seen = @ \cup {<<"webhook", last>>}]
  /\ dialog' = Outdates /\ informed' = {} /\ agreed' = FALSE
  /\ UNCHANGED <<truth, changes, webhooks, reading>>

\* firstPaidEventId: the first charge that was taken, if it stands and none before it is pending.
FirstPaid(snapshot) ==
  LET taken == {c \in Charges : ChargeTaken(snapshot.events[c])}
      first == Min(taken) IN
  IF ~snapshot.complete \/ taken = {} THEN {}
  ELSE IF (\E c \in 1 .. first : snapshot.events[c] = "Pending") \/ ~ChargePaid(snapshot.events[first]) THEN {}
  ELSE {first}

\* A payment is made of a charge that was taken, and stays unverified once that was reversed.
RecordPayments(snapshot) ==
  [c \in Charges |->
     LET status == snapshot.events[c] IN
     IF status = "none" \/ (record.pay[c] = "none" /\ ~ChargeTaken(status)) THEN record.pay[c]
     ELSE IF ChargePaid(status) THEN "verified" ELSE "unverified"]

\* A complete history decides which payment was the first; another keeps the answer for a charge that stands.
MarksKept(snapshot) ==
  {c \in record.first : snapshot.events[c] = "none" \/ (ChargePaid(snapshot.events[c]) /\ ~snapshot.complete)}
Marks(snapshot) == MarksKept(snapshot) \cup FirstPaid(snapshot)

\* Mutant: a snapshot that was seen before corrects nothing.
NoCorrection(last) == FALSE
Corrects(last) == Observed(last) # [at |-> record.at, status |-> record.status]
Stale(last) == Corrects(last)

\* importApiMember
ImportMember(r) ==
  LET snapshot == reading[r]
      hash == <<"api", snapshot.last, snapshot.events, snapshot.complete>>
      pending == hash \notin record.seen \/ Stale(snapshot.last)
      pays == RecordPayments(snapshot)
      marks == Marks(snapshot)
      same == ~pending /\ pays = record.pay /\ marks = record.first IN
  /\ snapshot.read
  /\ record' = [record EXCEPT !.known = TRUE, !.pay = pays, !.first = marks, !.seen = @ \cup {hash},
                  !.at = IF pending THEN Observed(snapshot.last).at ELSE @,
                  !.status = IF pending THEN Observed(snapshot.last).status ELSE @,
                  !.review = IF pending THEN "pending" ELSE @]
  /\ dialog' = (IF same THEN dialog ELSE Outdates)
  /\ informed' = (IF pending THEN {} ELSE informed)
  /\ agreed' = (snapshot.complete /\ snapshot.events = truth)
  /\ reading' = [reading EXCEPT ![r] = NoSnapshot]
  /\ UNCHANGED <<truth, changes, webhooks>>

-----------------------------------------------------------------------------
(* Staff *)

StaffOnly == UNCHANGED <<truth, changes, webhooks, reading, agreed>>

\* The dialog keeps the record of the page as it was when it opened. It has a sign-in that Gramps
\* refused, so Keep accounts is offered.
OpenDialog(d) ==
  /\ record.known /\ dialog[d].at = "closed"
  /\ dialog' = [dialog EXCEPT ![d] = [at |-> "open", current |-> TRUE]]
  /\ informed' = informed \cup {d}
  /\ StaffOnly /\ UNCHANGED record

SameRecord(d) == dialog[d].current

\* choose, submit and mutate: the review and its receipt, or nothing; saved, or not sure it saved, it is
\* not sent again.
Review(d) ==
  /\ dialog[d].at = "open"
  /\ IF SameRecord(d)
     THEN /\ record' = [record EXCEPT !.review = "verified", !.blind = d \notin informed]
          /\ dialog' = [Outdates EXCEPT ![d].at = "sent"]
     ELSE dialog' = [dialog EXCEPT ![d].at = "sent"] /\ UNCHANGED record
  /\ StaffOnly /\ UNCHANGED informed

\* register: only a membership that is not recorded.
Register ==
  /\ ~record.known /\ record' = [record EXCEPT !.known = TRUE, !.review = "unverified"]
  /\ StaffOnly /\ UNCHANGED <<dialog, informed>>

\* mutate of another administrator, who links accounts, records a receipt or makes a founder.
StaffChange == record.known /\ dialog' = Outdates /\ StaffOnly /\ UNCHANGED <<record, informed>>

RecordNext ==
  \/ PatreonChanges \/ Register \/ StaffChange \/ \E last \in webhooks : Ingest(last)
  \/ \E r \in Readers : ReadMember(r) \/ ImportMember(r)
  \/ \E d \in RecordDialogs : OpenDialog(d) \/ Review(d)

-----------------------------------------------------------------------------
(* Properties *)

RecordTypeOK ==
  /\ truth \in [Charges -> {"none", "Pending", "Declined", "Paid", "Refunded"}]
  /\ record.pay \in [Charges -> {"none", "verified", "unverified"}]
  /\ record.review \in {"none", "unverified", "pending", "verified"} /\ record.at \in {0} \cup Charges
  /\ \A d \in RecordDialogs : dialog[d].at \in {"closed", "open", "sent"}

Verified == {c \in Charges : record.pay[c] = "verified"}

\* Whatever came in late or twice, the record has the newest charge it was told of, and at most one
\* payment, one that stands, is marked as the patron's first.
NewestCharge ==
  /\ record.at = Max({0} \cup {seen[2].at : seen \in record.seen})
  /\ Cardinality(record.first) <= 1 /\ record.first \subseteq Verified

\* Once an import has brought the whole of what Patreon reports, the record says the same: the last
\* charge, the payments that stand, and which was the first.
SyncCorrects ==
  agreed => /\ [at |-> record.at, status |-> record.status] = LastCharge(truth)
            /\ Verified = {c \in Charges : ChargePaid(truth[c])}
            /\ record.first = FirstPaid([events |-> truth, complete |-> TRUE])

\* A record stays reviewed only while the review was of a page that showed everything observed.
ReviewsInformed == record.review = "verified" => ~record.blind

RecordTrue == NewestCharge /\ SyncCorrects /\ ReviewsInformed
=============================================================================
