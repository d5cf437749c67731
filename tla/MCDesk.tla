------------------------------ MODULE MCDesk ------------------------------
(* The pages of staff and of applicants: the components are independent, and a behaviour explores one
   of them, named by part. *)
EXTENDS VotingControls, ServerDrafts, EventStart, SupporterRecord, PaypalEntry, NextSteps, Applying, BulkApproval,
        TLC

CONSTANTS n1, n2, m1, m2, k1, k2, tx1, tx2, donor1, donor2, steam1, steam2

\* n1, n2: panels, editors, ballots, desks and browsers; k1, k2: applicants and saves; k1: a dialog, a reader.
StoredDocs == {[Defaults EXCEPT !.on = TRUE, !.ceiling = 0], [Defaults EXCEPT !.close = 1, !.offered = TRUE]}
Typed(tx, donor, day, first) == [tx |-> tx, donor |-> donor, day |-> day, first |-> first]
FirstEntry == Typed(tx1, donor1, 2, TRUE)
TypedEntries == {FirstEntry, Typed(tx1, donor1, 2, FALSE), Typed(tx1, donor2, 2, TRUE), Typed(tx2, donor1, 1, TRUE)}
Record(by, of, from, reports, steam, copied, founder, refusal) ==
  [provider |-> by, discord |-> of, from |-> from, reported |-> reports, steam |-> steam, copied |-> copied,
   founder |-> founder, refused |-> refusal]
SomeRecords ==
  {Record("patreon", Unknown, Unknown, "x", Unknown, FALSE, FALSE, TRUE),
   Record("patreon", "x", "patreon", "x", Unknown, FALSE, FALSE, FALSE),
   Record("patreon", "x", "patron_signin", "y", steam1, FALSE, FALSE, FALSE),
   Record("patreon", "x", "patreon", "x", steam1, TRUE, TRUE, FALSE),
   Record("paypal", Unknown, Unknown, Unknown, Unknown, FALSE, FALSE, FALSE),
   Record("paypal", "x", "staff", Unknown, steam2, FALSE, FALSE, FALSE)}
Applied(steam, status, granted) == [steam |-> steam, status |-> status, granted |-> granted]
SomeApplications ==
  {{}, {Applied(steam1, "approved", FALSE)}, {Applied(steam1, "processing", TRUE)}, {Applied(steam2, "approved", TRUE)},
   {Applied(steam1, "approved", TRUE), Applied(steam2, "pending", FALSE)}, {Applied(steam1, "revoked", FALSE)}}
Beside(by, of, reports, steam, founder, earlier, applied) ==
  [provider |-> by, discord |-> of, reports |-> reports, steam |-> steam, founder |-> founder, earlier |-> earlier,
   applied |-> applied]
OtherRecords ==
  {Beside("patreon", Unknown, Unknown, Unknown, FALSE, FALSE, {}),
   Beside("patreon", "y", "x", Unknown, TRUE, FALSE, {steam1}),
   Beside("paypal", "x", Unknown, steam1, FALSE, TRUE, {}), Beside("paypal", Unknown, Unknown, steam2, TRUE, TRUE, {}),
   Beside("patreon", "x", Unknown, Unknown, FALSE, FALSE, {steam2})}
Paid(source, verified, first, inWindow, worth, recent, reversed) ==
  [source |-> source, verified |-> verified, first |-> first, inWindow |-> inWindow, worth |-> worth, recent |-> recent,
   reversed |-> reversed]
Payments ==
  {Paid(Unknown, FALSE, FALSE, FALSE, "under", FALSE, FALSE),
   Paid("signed_status", TRUE, TRUE, TRUE, "under", FALSE, FALSE),
   Paid("patreon_api", TRUE, TRUE, TRUE, "enough", TRUE, FALSE),
   Paid("patreon_api", TRUE, TRUE, TRUE, "foreign", FALSE, FALSE),
   Paid("patreon_api", TRUE, TRUE, TRUE, "enough", FALSE, TRUE),
   Paid("manual_receipt", TRUE, TRUE, TRUE, "enough", FALSE, FALSE)}
Settings ==
  {[import |-> on, fill |-> on, auto |-> on, window |-> TRUE] : on \in BOOLEAN}
Facts == [me : SomeRecords, apps : SomeApplications, other : OtherRecords, pay : Payments, set : Settings]
FirstFacts ==
  [me |-> Record("paypal", Unknown, Unknown, Unknown, Unknown, FALSE, FALSE, FALSE), apps |-> {},
   other |-> Beside("patreon", Unknown, Unknown, Unknown, FALSE, FALSE, {}),
   pay |-> Paid(Unknown, FALSE, FALSE, FALSE, "under", FALSE, FALSE),
   set |-> [import |-> TRUE, fill |-> TRUE, auto |-> TRUE, window |-> TRUE]]

VARIABLE part  \* the component this behaviour explores

Parts == {"voting form", "drafts", "event start", "record", "entry", "next steps", "applying", "approvals"}

\* The others stay in one of their initial states.
Init ==
  /\ part \in Parts
  /\ ControlsInit /\ (part # "voting form" => saved.version = 0)
  /\ DraftsInit /\ (part # "drafts" => document.rotation = <<m1, m2>> /\ editorKind = [e \in Editors |-> "settings"])
  /\ StartInit
  /\ RecordInit /\ (part # "record" => truth[1] = "none")
  /\ EntryInit /\ (part # "entry" => entryForm = [d \in Desks |-> Blank(FirstEntry)])
  /\ StepsInit
  /\ (part # "next steps" => [me |-> me, apps |-> apps, other |-> other, pay |-> pay, set |-> set] = FirstFacts)
  /\ ApplyingInit /\ (part # "applying" => member = [c \in Applicants |-> "in"])
  /\ BulkInit

Next ==
  \/ /\ part = "voting form" /\ ControlsNext
     /\ UNCHANGED <<part, draftVars, startVars, recordVars, entryVars, stepVars, applyingVars, bulkVars>>
  \/ /\ part = "drafts" /\ DraftsNext
     /\ UNCHANGED <<part, controlVars, startVars, recordVars, entryVars, stepVars, applyingVars, bulkVars>>
  \/ /\ part = "event start" /\ StartNext
     /\ UNCHANGED <<part, controlVars, draftVars, recordVars, entryVars, stepVars, applyingVars, bulkVars>>
  \/ /\ part = "record" /\ RecordNext
     /\ UNCHANGED <<part, controlVars, draftVars, startVars, entryVars, stepVars, applyingVars, bulkVars>>
  \/ /\ part = "entry" /\ EntryNext
     /\ UNCHANGED <<part, controlVars, draftVars, startVars, recordVars, stepVars, applyingVars, bulkVars>>
  \/ /\ part = "next steps" /\ StepsNext
     /\ UNCHANGED <<part, controlVars, draftVars, startVars, recordVars, entryVars, applyingVars, bulkVars>>
  \/ /\ part = "applying" /\ ApplyingNext
     /\ UNCHANGED <<part, controlVars, draftVars, startVars, recordVars, entryVars, stepVars, bulkVars>>
  \/ /\ part = "approvals" /\ BulkNext
     /\ UNCHANGED <<part, controlVars, draftVars, startVars, recordVars, entryVars, stepVars, applyingVars>>
vars == <<part, controlVars, draftVars, startVars, recordVars, entryVars, stepVars, applyingVars, bulkVars>>
Spec == Init /\ [][Next]_vars

\* Every component keeps its types: forms, drafts, events, records, entries, next steps, applicants, approvals.
TypeOK ==
  /\ part = "voting form" => ControlsTypeOK
  /\ part = "drafts" => DraftsTypeOK
  /\ part = "event start" => StartTypeOK
  /\ part = "record" => RecordTypeOK
  /\ part = "entry" => EntryTypeOK
  /\ part = "next steps" => StepsTypeOK
  /\ part = "applying" => ApplyingTypeOK
  /\ part = "approvals" => BulkTypeOK

\* What staff save from a form or a draft is what they saw, and a save changes nothing else: see VotingControls
\* and ServerDrafts.
FormsAndDraftsTrue == TypeOK /\ (part = "voting form" => FormsFresh) /\ (part = "drafts" => DraftsHold)
SavesReviewed == []FormsAndDraftsTrue /\ ControlsKept

\* What staff and patrons are told of a record rests on what it holds: see SupporterRecord, PaypalEntry
\* and NextSteps.
SupportersTrue ==
  /\ part = "record" => RecordTrue
  /\ part = "entry" => EntriesTrue
  /\ part = "next steps" => StepsTrue

\* An applicant's requests are its own, and staff hear what became of each: see Applying and BulkApproval.
ApplicationsServed == (part = "applying" => ApplicantsTrue) /\ (part = "approvals" => ApprovalsInOrder)
====================================================================
