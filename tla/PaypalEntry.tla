------------------------------ MODULE PaypalEntry ------------------------------
(***************************************************************************)
(* Recording PayPal payments: the form that staff fill, whose answers may   *)
(* be lost or late and whose entries are edited and sent again, and the     *)
(* transaction that records a payment, its donor and a founder promise      *)
(* together or not at all (paypal-form.tsx, supporters.store.ts).           *)
(***************************************************************************)
EXTENDS Integers, FiniteSets

CONSTANTS Desks,         \* administrators with the form open
          Entries,       \* what they may type: [tx, donor, day, first]
          FounderDays,   \* the days of the founder window
          MaxEntrySends  \* bound: requests of one administrator

ASSUME PaypalEntryAssumption ==
  /\ MaxEntrySends \in Nat /\ FounderDays \subseteq Nat
  /\ \A e \in Entries : e.day \in Nat /\ e.first \in BOOLEAN /\ "none" \notin {e.tx, e.donor}

EntryIds == {e.tx : e \in Entries}
Payers == {e.donor : e \in Entries}
NoDonor == "none"

VARIABLES
  entryForm,    \* [Desks -> what is typed, the request in flight, and what the form says]
  running,      \* requests that the server has not answered: [desk, body, send]
  entrySends,   \* bound: [Desks -> requests so far]
  payments,     \* supporter_payments from PayPal: [EntryIds -> donor, day and first, or Unpaid]
  promised,     \* supporter_founders: [Payers -> the transaction it rests on, or NoDonor]
  receipts      \* supporter_actions: request ids, with the transaction

entryVars == <<entryForm, running, entrySends, payments, promised, receipts>>

Unpaid == [donor |-> NoDonor, day |-> 0, first |-> FALSE]
Blank(entry) == [entry |-> entry, sending |-> FALSE, ask |-> FALSE, alone |-> FALSE,
                 says |-> "nothing", awarded |-> FALSE]

EntryInit ==
  /\ entryForm \in [Desks -> {Blank(e) : e \in Entries}] /\ running = {} /\ entrySends = [d \in Desks |-> 0]
  /\ payments = [t \in EntryIds |-> Unpaid] /\ promised = [d \in Payers |-> NoDonor] /\ receipts = {}

-----------------------------------------------------------------------------
(* The form *)

\* A founder is asked for when staff say it is the first payment, unless they save the payment alone.
Body(entry, askFounder) == [entry |-> entry, award |-> askFounder /\ entry.first]

\* Typing takes back a refusal, which was for the entry as sent; Add another starts with a new entry.
Edit(d) ==
  /\ ~entryForm[d].sending
  /\ \E e \in Entries \ {entryForm[d].entry} : entryForm' = [entryForm EXCEPT ![d] = Blank(e)]
  /\ UNCHANGED <<running, entrySends, payments, promised, receipts>>

\* save: Save supporter, or Save without founder once the server has refused one. The id of the request
\* is the id of its content.
SavePayment(d, askFounder) ==
  /\ ~entryForm[d].sending /\ entryForm[d].says # "saved" /\ entrySends[d] < MaxEntrySends
  /\ askFounder \/ entryForm[d].alone
  /\ entrySends' = [entrySends EXCEPT ![d] = @ + 1]
  /\ running' = running \cup {[desk |-> d, body |-> Body(entryForm[d].entry, askFounder), send |-> entrySends[d] + 1]}
  /\ entryForm' = [entryForm EXCEPT ![d].sending = TRUE, ![d].ask = askFounder, ![d].says = "nothing"]
  /\ UNCHANGED <<payments, promised, receipts>>

\* The answer is for the form while it waits for this request.
Awaits(call) == entryForm[call.desk].sending /\ call.send = entrySends[call.desk]

Says(call, says, alone, awarded) ==
  IF ~Awaits(call) THEN UNCHANGED entryForm
  ELSE \/ entryForm' = [entryForm EXCEPT ![call.desk].sending = FALSE, ![call.desk].says = says,
                     ![call.desk].alone = alone, ![call.desk].awarded = awarded]
       \/ UNCHANGED entryForm  \* the answer is lost, and the wait ends in EntryUnconfirmed

\* No answer, or one that cannot be read: saving again repeats the request under the same id.
EntryUnconfirmed(d) ==
  /\ entryForm[d].sending
  /\ entryForm' = [entryForm EXCEPT ![d].sending = FALSE, ![d].says = "unconfirmed"]
  /\ UNCHANGED <<running, entrySends, payments, promised, receipts>>

-----------------------------------------------------------------------------
(* recordPaypal: one request of a transaction at a time *)

Ended(call) == running' = running \ {call} /\ UNCHANGED entrySends
Id(call) == <<call.desk, call.body>>
Awarded(entry) == promised[entry.donor] = entry.tx
OnRecord(entry) == payments[entry.tx] # Unpaid

\* Mutant: a transaction that is recorded answers every entry of it.
SameTransaction(entry) == TRUE
SameDetails(entry) == payments[entry.tx].donor = entry.donor /\ payments[entry.tx].day = entry.day
Matches(entry) == SameDetails(entry)

\* founderCheck, for a payment that is recorded with it.
EarlierPayment(entry) ==
  \E t \in EntryIds \ {entry.tx} : payments[t].donor = entry.donor /\ payments[t].day < entry.day
FounderBlocked(entry) ==
  \/ ~entry.first \/ EarlierPayment(entry) \/ entry.day \notin FounderDays
  \/ promised[entry.donor] # NoDonor

\* A repeat of a request, or of a payment with the same details, is answered with what was saved.
Replay(call) ==
  LET entry == call.body.entry IN
  /\ call \in running
  /\ \/ Id(call) \in receipts
     \/ OnRecord(entry) /\ Matches(entry) /\ (call.body.award => promised[entry.donor] # NoDonor)
  /\ Ended(call) /\ Says(call, "saved", FALSE, Awarded(entry))
  /\ UNCHANGED <<payments, promised, receipts>>

\* Nothing is recorded; a refused founder may be saved without.
RefuseEntry(call) ==
  LET entry == call.body.entry
      conflict == OnRecord(entry) /\ (~Matches(entry) \/ (call.body.award /\ promised[entry.donor] = NoDonor))
      blocked == ~OnRecord(entry) /\ call.body.award /\ FounderBlocked(entry) IN
  /\ call \in running /\ Id(call) \notin receipts /\ (conflict \/ blocked)
  /\ Ended(call) /\ Says(call, "refused", blocked \/ entryForm[call.desk].alone, FALSE)
  /\ UNCHANGED <<payments, promised, receipts>>

\* The payment, its donor, the promise and the receipt are committed together.
RecordEntry(call) ==
  LET entry == call.body.entry IN
  /\ call \in running /\ Id(call) \notin receipts /\ ~OnRecord(entry)
  /\ call.body.award => ~FounderBlocked(entry)
  /\ payments' = [payments EXCEPT ![entry.tx] = [donor |-> entry.donor, day |-> entry.day, first |-> entry.first]]
  /\ promised' = IF call.body.award THEN [promised EXCEPT ![entry.donor] = entry.tx] ELSE promised
  /\ receipts' = receipts \cup {Id(call)}
  /\ Ended(call) /\ Says(call, "saved", FALSE, call.body.award)

\* The connection ends before the request reaches the database.
Lost(call) == call \in running /\ Ended(call) /\ UNCHANGED <<entryForm, payments, promised, receipts>>

EntryNext ==
  \/ \E d \in Desks : Edit(d) \/ EntryUnconfirmed(d) \/ \E askFounder \in BOOLEAN : SavePayment(d, askFounder)
  \/ \E call \in running : Replay(call) \/ RefuseEntry(call) \/ RecordEntry(call) \/ Lost(call)

-----------------------------------------------------------------------------
(* Properties *)

EntryTypeOK ==
  /\ \A d \in Desks : /\ entryForm[d].entry \in Entries
                      /\ entryForm[d].says \in {"nothing", "saved", "refused", "unconfirmed"}
  /\ \A t \in EntryIds : payments[t].donor \in Payers \cup {NoDonor}
  /\ promised \in [Payers -> EntryIds \cup {NoDonor}]

\* Saved is said only of a payment that is recorded as it was typed, and of a founder only who has the
\* promise for it; refused only of a request that recorded nothing.
EntriesTold ==
  \A d \in Desks :
    LET entry == entryForm[d].entry IN
    /\ entryForm[d].says = "saved" =>
         payments[entry.tx].donor = entry.donor /\ payments[entry.tx].day = entry.day
    /\ entryForm[d].says = "saved" /\ entryForm[d].awarded => promised[entry.donor] = entry.tx
    /\ entryForm[d].says = "refused" => <<d, Body(entry, entryForm[d].ask)>> \notin receipts

\* A promise rests on a payment of the donor in the founder window that staff called the first, however
\* often the entry was edited and sent.
PromisesRest ==
  \A donor \in Payers : promised[donor] # NoDonor =>
    LET paid == payments[promised[donor]] IN paid.donor = donor /\ paid.first /\ paid.day \in FounderDays

EntriesTrue == EntriesTold /\ PromisesRest
=============================================================================
