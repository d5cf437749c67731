---------------------------- MODULE ServerDrafts ----------------------------
(***************************************************************************)
(* Editing the game server's configuration document from the dashboard:    *)
(* staff draft settings (settings-page.tsx) or the map rotation            *)
(* (rotation-editor.tsx, rotation-queue.tsx) from what their page last     *)
(* read, review the draft and send it; the service compares the document's *)
(* revision, checks the whole change and writes it conditionally           *)
(* (changeServerConfiguration), and reads it back. Other staff and the     *)
(* host write the same document in between, and a write whose answer is    *)
(* lost may still arrive. The document holds a joining minimum and its     *)
(* maximum, standing for the settings, and the rotation.                   *)
(***************************************************************************)
EXTENDS Integers, Sequences, FiniteSets, SequencesExt

CONSTANTS
  Editors,        \* browser pages of staff
  Maps,           \* rotation entries
  Cleared,        \* the host edits that happen, of "other" (another setting) and "rotation"
  MaxEntries,     \* entries a rotation may have
  MaxWrites,      \* bound: writes of the document
  MaxDraftEdits,  \* bound: edits a page makes
  MaxSends        \* bound: reviewed changes a page sends

ASSUME DraftsAssumption ==
  MaxEntries \in Nat \ {0} /\ MaxWrites \in Nat \ {0} /\ MaxSends \in Nat \ {0}
  /\ MaxDraftEdits \in Nat /\ Cleared \subseteq {"other", "rotation"}

VARIABLES
  document,    \* the saved document: minimum, maximum, rotation, revision
  editorKind,  \* which page each editor has open
  shown,       \* what the page last read
  draft,       \* its unsaved edits and the document they started from
  editing,     \* the rotation entry open in its editor, and the rotation it was opened on
  drag,        \* the rows when a row was picked up
  sending,     \* its reviewed change: not there, under review, sent, or written and to be read back
  answer,      \* what the last one's receipt says
  sends,       \* how many it sent
  draftEdits,  \* how many edits it made
  landed,      \* the changes that reached the document, and whether each wrote exactly what its reviewer saw
  adrift       \* writes whose answer was lost and which may still arrive

draftVars == <<document, editorKind, shown, draft, editing, drag, sending, answer, sends, draftEdits, landed, adrift>>

Nothing == [none |-> TRUE]
Fields == {"minimum", "maximum"}
DraftRotations == BoundedSeq(Maps, MaxEntries)
Contents == [minimum : {1, 2}, maximum : {1, 2}, rotation : DraftRotations]
Documents == [minimum : {1, 2}, maximum : {1, 2}, rotation : DraftRotations, revision : 0..MaxWrites]
Content(d) == [minimum |-> d.minimum, maximum |-> d.maximum, rotation |-> d.rotation]

\* A reviewed change: its sender and number, the revision it is based on, what the reviewer saw, and the new content.
ChangeRequests ==
  [by : Editors, number : 1..MaxSends, revision : 0..MaxWrites, saw : Contents,
   changes : SUBSET (Fields \cup {"rotation"}),
   new : Contents]

DraftsTypeOK ==
  /\ document \in Documents
  /\ editorKind \in [Editors -> {"settings", "rotation"}]
  /\ shown \in [Editors -> Documents]
  /\ \A e \in Editors :
       /\ draft[e] = Nothing \/ (draft[e].base \in Documents /\ draft[e].changes \subseteq Fields
                                  /\ draft[e].rows \in DraftRotations)
       /\ editing[e] = Nothing \/ (editing[e].at \in 1..MaxEntries /\ editing[e].base \in DraftRotations)
       /\ drag[e] = Nothing \/ drag[e].rows \in DraftRotations
       /\ sending[e] = Nothing \/ (sending[e].step \in {"review", "checked", "written"}
                                    /\ sending[e].change \in ChangeRequests)
  /\ answer \in [Editors -> {"none", "failed", "unknown", "pending"}]
  /\ sends \in [Editors -> 0..MaxSends] /\ draftEdits \in [Editors -> 0..MaxDraftEdits]
  /\ adrift \subseteq ChangeRequests
  /\ landed \subseteq [by : Editors, number : 1..MaxSends, exact : BOOLEAN]

DraftsInit ==
  /\ document \in {[minimum |-> 1, maximum |-> 2, rotation |-> r, revision |-> 0] :
                    r \in {s \in DraftRotations : Len(s) = 2 /\ s[1] # s[2]}}
  /\ editorKind \in [Editors -> {"settings", "rotation"}]
  /\ shown = [e \in Editors |-> document]
  /\ draft = [e \in Editors |-> Nothing] /\ editing = draft /\ drag = draft /\ sending = draft
  /\ answer = [e \in Editors |-> "none"] /\ sends = [e \in Editors |-> 0] /\ draftEdits = sends
  /\ landed = {} /\ adrift = {}

----------------------------------------------------------------------------
\* The page reads the document again; drafts stay.
RefreshDocument(e) ==
  /\ shown[e] # document /\ shown' = [shown EXCEPT ![e] = document]
  /\ UNCHANGED <<document, editorKind, draft, editing, drag, sending, answer, sends, draftEdits, landed, adrift>>

\* A settings draft keeps the document it started from; a field set back to its value leaves the draft.
EditSetting(e) ==
  /\ editorKind[e] = "settings" /\ sending[e] = Nothing /\ draftEdits[e] < MaxDraftEdits
  /\ \E f \in Fields :
       LET old == IF draft[e] = Nothing THEN [base |-> shown[e], changes |-> {}, rows |-> <<>>] ELSE draft[e]
           changes == IF f \in old.changes THEN old.changes \ {f} ELSE old.changes \cup {f}
       IN  draft' = [draft EXCEPT ![e] = IF changes = {} THEN Nothing ELSE [old EXCEPT !.changes = changes]]
  /\ draftEdits' = [draftEdits EXCEPT ![e] = @ + 1]
  /\ UNCHANGED <<document, editorKind, shown, editing, drag, sending, answer, sends, landed, adrift>>

Outdated(e) == draft[e] # Nothing /\ draft[e].base.revision # shown[e].revision

\* Every changed field of the drafts here takes its other value.
Edited(d, changes) ==
  [minimum |-> IF "minimum" \in changes THEN 3 - d.minimum ELSE d.minimum,
   maximum |-> IF "maximum" \in changes THEN 3 - d.maximum ELSE d.maximum,
   rotation |-> d.rotation]

Reviewed(e, revision, saw, changes, new) ==
  sending' = [sending EXCEPT ![e] = [step |-> "review",
    change |-> [by |-> e, number |-> sends[e] + 1, revision |-> revision, saw |-> saw, changes |-> changes, new |-> new]]]

ReviewSettings(e) ==
  /\ editorKind[e] = "settings" /\ draft[e] # Nothing /\ ~Outdated(e) /\ sending[e] = Nothing /\ sends[e] < MaxSends
  /\ Reviewed(e, draft[e].base.revision, Content(draft[e].base), draft[e].changes,
              Edited(draft[e].base, draft[e].changes))
  /\ UNCHANGED <<document, editorKind, shown, draft, editing, drag, answer, sends, draftEdits, landed, adrift>>

----------------------------------------------------------------------------
\* The rotation: a draft keeps the rotation it started from, and follows the document while that has not changed.
Rows(e) == IF draft[e] = Nothing THEN shown[e].rotation ELSE draft[e].rows
BaseRotation(e) ==
  IF draft[e] # Nothing THEN draft[e].base.rotation
  ELSE IF editing[e] # Nothing THEN editing[e].base ELSE shown[e].rotation
NeverElsewhere(e) == FALSE
ChangedElsewhere(e) == BaseRotation(e) # shown[e].rotation
LockedEditor(e) == ChangedElsewhere(e) \/ sending[e] # Nothing

Updated(e, rows) ==
  draft' = [draft EXCEPT ![e] =
    IF rows = shown[e].rotation THEN Nothing
    ELSE [base |-> IF draft[e] = Nothing THEN shown[e] ELSE draft[e].base, changes |-> {}, rows |-> rows]]

\* The arrows, removing a row and adding one, while no row's editor is open.
ChangeRows(e) ==
  /\ editorKind[e] = "rotation" /\ ~LockedEditor(e) /\ editing[e] = Nothing /\ draftEdits[e] < MaxDraftEdits
  /\ LET rows == Rows(e) IN
       \/ \E i \in 1..(Len(rows) - 1) :
            Updated(e, [j \in DOMAIN rows |-> IF j = i THEN rows[i + 1] ELSE IF j = i + 1 THEN rows[i] ELSE rows[j]])
       \/ \E i \in DOMAIN rows : Updated(e, RemoveAt(rows, i))
       \/ Len(rows) < MaxEntries /\ \E m \in Maps : Updated(e, Append(rows, m))
  /\ draftEdits' = [draftEdits EXCEPT ![e] = @ + 1]
  /\ UNCHANGED <<document, editorKind, shown, editing, drag, sending, answer, sends, landed, adrift>>

OpenEntry(e) ==
  /\ editorKind[e] = "rotation" /\ ~LockedEditor(e) /\ editing[e] = Nothing /\ draftEdits[e] < MaxDraftEdits
  /\ \E i \in DOMAIN Rows(e) : editing' = [editing EXCEPT ![e] = [at |-> i, base |-> BaseRotation(e)]]
  /\ draftEdits' = [draftEdits EXCEPT ![e] = @ + 1]
  /\ UNCHANGED <<document, editorKind, shown, draft, drag, sending, answer, sends, landed, adrift>>

SaveEntry(e) ==
  /\ editing[e] # Nothing /\ editing' = [editing EXCEPT ![e] = Nothing]
  /\ \/ /\ ~LockedEditor(e)
        /\ \E m \in Maps : Updated(e, [j \in DOMAIN Rows(e) |-> IF j = editing[e].at THEN m ELSE Rows(e)[j]])
     \/ UNCHANGED draft
  /\ UNCHANGED <<document, editorKind, shown, drag, sending, answer, sends, draftEdits, landed, adrift>>

\* Picking a row up and dropping it: nothing moves when the rows changed in between.
PickUp(e) ==
  /\ editorKind[e] = "rotation" /\ ~LockedEditor(e) /\ editing[e] = Nothing /\ drag[e] = Nothing
  /\ draftEdits[e] < MaxDraftEdits
  /\ Len(Rows(e)) > 1
  /\ drag' = [drag EXCEPT ![e] = [rows |-> Rows(e), fresh |-> shown[e].revision]]
  /\ draftEdits' = [draftEdits EXCEPT ![e] = @ + 1]
  /\ UNCHANGED <<document, editorKind, shown, draft, editing, sending, answer, sends, landed, adrift>>

Undisturbed(e) ==
  drag[e].rows = Rows(e) /\ (draft[e] = Nothing => drag[e].fresh = shown[e].revision)

DropRow(e) ==
  /\ drag[e] # Nothing /\ drag' = [drag EXCEPT ![e] = Nothing]
  /\ \/ ~LockedEditor(e) /\ editing[e] = Nothing /\ Undisturbed(e) /\ Updated(e, Reverse(Rows(e)))
     \/ UNCHANGED draft
  /\ UNCHANGED <<document, editorKind, shown, editing, sending, answer, sends, draftEdits, landed, adrift>>

ReviewRotation(e) ==
  /\ editorKind[e] = "rotation" /\ draft[e] # Nothing /\ ~LockedEditor(e) /\ editing[e] = Nothing
  /\ Rows(e) # <<>> /\ sends[e] < MaxSends
  /\ Reviewed(e, shown[e].revision, [Content(shown[e]) EXCEPT !.rotation = BaseRotation(e)], {"rotation"},
              [Content(shown[e]) EXCEPT !.rotation = Rows(e)])
  /\ UNCHANGED <<document, editorKind, shown, draft, editing, drag, answer, sends, draftEdits, landed, adrift>>

\* Discarding drops the draft and reads again.
Discard(e) ==
  /\ draft[e] # Nothing /\ sending[e] = Nothing
  /\ draft' = [draft EXCEPT ![e] = Nothing] /\ editing' = [editing EXCEPT ![e] = Nothing]
  /\ UNCHANGED <<document, editorKind, shown, drag, sending, answer, sends, draftEdits, landed, adrift>>

CancelReview(e) ==
  /\ sending[e] # Nothing /\ sending[e].step = "review"
  /\ sending' = [sending EXCEPT ![e] = Nothing]
  /\ UNCHANGED <<document, editorKind, shown, draft, editing, drag, answer, sends, draftEdits, landed, adrift>>

----------------------------------------------------------------------------
\* The receipt: only a failed change leaves the draft to go back to.
Receipt(e, state) ==
  /\ answer' = [answer EXCEPT ![e] = state] /\ sending' = [sending EXCEPT ![e] = Nothing]
  /\ draft' = IF state = "failed" THEN draft ELSE [draft EXCEPT ![e] = Nothing]

RangeFits(c) == c.minimum <= c.maximum

\* The service reads the document: a changed revision or an unfit range is refused before anything is written.
Preview(e) ==
  LET c == sending[e].change
      fits == c.revision = document.revision /\ (c.changes \cap Fields # {} => RangeFits(c.new))
  IN  /\ sending[e] # Nothing /\ sending[e].step = "review" /\ c.number > sends[e]
      /\ sends' = [sends EXCEPT ![e] = c.number]
      /\ IF fits THEN sending' = [sending EXCEPT ![e].step = "checked"] /\ UNCHANGED <<draft, answer>>
                 ELSE Receipt(e, "failed")
      /\ UNCHANGED <<document, editorKind, shown, editing, drag, draftEdits, landed, adrift>>

\* If-Match: the game takes the write only on the revision it was made from.
Accepts(c) == c.revision = document.revision /\ document.revision < MaxWrites

\* Whether what is written replaces exactly what the reviewer saw, and touches nothing else.
Exact(c) ==
  \A f \in Fields \cup {"rotation"} :
    IF f \in c.changes THEN Content(document)[f] = c.saw[f] ELSE Content(document)[f] = c.new[f]

Arrives(c) ==
  /\ document' = [minimum |-> c.new.minimum, maximum |-> c.new.maximum, rotation |-> c.new.rotation,
                  revision |-> document.revision + 1]
  /\ landed' = landed \cup {[by |-> c.by, number |-> c.number, exact |-> Exact(c)]}

Put(e) ==
  /\ sending[e] # Nothing /\ sending[e].step = "checked"
  /\ LET c == sending[e].change IN
       \/ Accepts(c) /\ Arrives(c) /\ sending' = [sending EXCEPT ![e].step = "written"]
          /\ UNCHANGED <<draft, answer, adrift>>
       \/ ~Accepts(c) /\ Receipt(e, "failed") /\ UNCHANGED <<document, landed, adrift>>
       \/ Receipt(e, "unknown") /\ adrift' = adrift \cup {c} /\ UNCHANGED <<document, landed>>
  /\ UNCHANGED <<editorKind, shown, editing, drag, sends, draftEdits>>

\* The values are read back, unless that read fails.
ReadBack(e) ==
  /\ sending[e] # Nothing /\ sending[e].step = "written"
  /\ LET c == sending[e].change IN
       \/ (\A f \in c.changes : Content(document)[f] = c.new[f]) /\ Receipt(e, "pending")
       \/ Receipt(e, "unknown")
  /\ UNCHANGED <<document, editorKind, shown, editing, drag, sends, draftEdits, landed, adrift>>

\* A write whose answer was lost arrives late, or never.
LateArrival ==
  /\ \E c \in adrift : adrift' = adrift \ {c} /\ Accepts(c) /\ Arrives(c)
  /\ UNCHANGED <<editorKind, shown, draft, editing, drag, sending, answer, sends, draftEdits>>

\* The host panel writes the document.
HostEdit ==
  /\ document.revision < MaxWrites
  /\ \/ "other" \in Cleared /\ document' = [document EXCEPT !.revision = @ + 1]
     \/ "rotation" \in Cleared /\ Len(document.rotation) > 1
        /\ document' = [document EXCEPT !.revision = @ + 1, !.rotation = Tail(@)]
  /\ UNCHANGED <<editorKind, shown, draft, editing, drag, sending, answer, sends, draftEdits, landed, adrift>>

DraftsNext ==
  \/ \E e \in Editors :
       \/ RefreshDocument(e) \/ EditSetting(e) \/ ReviewSettings(e) \/ ChangeRows(e) \/ OpenEntry(e) \/ SaveEntry(e)
       \/ PickUp(e) \/ DropRow(e) \/ ReviewRotation(e) \/ Discard(e) \/ CancelReview(e)
       \/ Preview(e) \/ Put(e) \/ ReadBack(e)
  \/ LateArrival \/ HostEdit

----------------------------------------------------------------------------
\* A change that reaches the document replaces exactly what its reviewer saw, and touches nothing else.
WrittenAsReviewed == \A l \in landed : l.exact

\* A receipt says failed only of a change that neither reached the document nor ever will, and saved
\* only of one that did.
ReceiptsTrue ==
  \A e \in Editors :
    LET mine(c) == c.by = e /\ c.number = sends[e]
    IN  /\ answer[e] = "failed" /\ sending[e] = Nothing =>
             ~(\E l \in landed : mine(l)) /\ ~(\E c \in adrift : mine(c))
        /\ answer[e] = "pending" /\ sending[e] = Nothing => \E l \in landed : mine(l)

\* Drafts of two staff never put a joining minimum above its maximum, though each changes one of them.
RangeKept == RangeFits(document)

\* What staff reviewed is what was saved, and what they were told.
DraftsHold == WrittenAsReviewed /\ ReceiptsTrue /\ RangeKept
=============================================================================
