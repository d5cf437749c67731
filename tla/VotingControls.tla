--------------------------- MODULE VotingControls ---------------------------
(***************************************************************************)
(* The saved controls of automatic voting and the dashboards that change     *)
(* them (voting-controls.tsx, map-votes.service.ts saveControls,             *)
(* map-votes.store.ts savePolicy). A save carries the version its form began *)
(* with, the switches, and only the settings the form changed; the server    *)
(* merges them into the stored document. An older dashboard is one that       *)
(* changes switches only. A request may be given up by its page and still be carried out.     *)
(***************************************************************************)
EXTENDS Integers, FiniteSets, PageRead

CONSTANTS Panels,        \* open dashboards
          Posts,         \* bound: saves
          FirstDocs,     \* documents an earlier build may have stored
          Held,          \* voted 50v50 is held: MAP_VOTES_FIFTY_ENABLED is off
          MaxFormEdits,  \* bound: fields a form changes
          MaxSaves       \* bound: versions

\* One of the switches, and two of the numbers with a rule between them: the opening limit stays below the close.
Docs == [on : BOOLEAN, close : 1 .. 2, ceiling : 0 .. 1, offered : BOOLEAN]
Defaults == [on |-> FALSE, close |-> 2, ceiling |-> 1, offered |-> FALSE]
Switches == {"on"}
Numbers == {"close", "ceiling"}
Nobody == "nobody"

ASSUME ControlsAssumption ==
  Held \in BOOLEAN /\ MaxFormEdits \in Nat /\ MaxSaves \in Nat \ {0} /\ FirstDocs \subseteq Docs /\ Nobody \notin Panels

VARIABLES
  saved,  \* [doc, version, here]: the policy row, here if it was saved for this game connection; version 0 for none
  page,   \* [Panels -> the read of map-votes/controls]
  form,   \* [Panels -> [version, doc, base], or NoForm]; base is what the page showed
  panel,  \* [Panels -> [unsure: uncertain, replacing: reloadingFrom, waiting: busy]]
  post,   \* [Posts -> a save under way, or NoPost]
  own     \* [Panels -> the version of its last confirmed save]

controlVars == <<saved, page, form, panel, post, own>>

NoForm == [version |-> 0 - 1]
NoPost == [step |-> "none"]
Done == [step |-> "done"]
Quiet == [unsure |-> FALSE, replacing |-> FALSE, waiting |-> FALSE]

\* votingIssues, and the shape of the document; rules.fiftyHeld is not set when a stored row is read.
SettingsFit(doc) == doc.ceiling < doc.close
Valid(doc, held) == SettingsFit(doc) /\ ~(held /\ doc.offered)

ControlsInit ==
  /\ saved \in {[doc |-> Defaults, version |-> 0, here |-> TRUE]}
              \cup {[doc |-> d, version |-> 1, here |-> h] : d \in FirstDocs, h \in BOOLEAN}
  /\ page = [d \in Panels |-> FirstRead] /\ form = [d \in Panels |-> NoForm]
  /\ panel = [d \in Panels |-> Quiet] /\ post = [r \in Posts |-> NoPost]
  /\ own = [d \in Panels |-> 0]

-----------------------------------------------------------------------------
(* Reading *)

\* readStoredPolicy: an invalid row shows its switches and the default settings.
Readable == saved.version = 0 \/ Valid(saved.doc, FALSE)
Controls ==
  [version |-> saved.version,
   doc |-> IF Readable THEN saved.doc ELSE [Defaults EXCEPT !.on = saved.doc.on],
   ready |-> saved.here]

\* controls: the page shows what is stored now.
Show(d) == /\ page[d].asked
           /\ page' = [page EXCEPT ![d] = ShownNow(Controls)]
           /\ panel' = [panel EXCEPT ![d].replacing = FALSE]
           /\ UNCHANGED <<saved, form, post, own>>
\* The dashboard's tick: never while it is busy or a read is pending.
Refresh(d) == /\ ~page[d].asked /\ ~panel[d].waiting
              /\ page' = [page EXCEPT ![d] = AskedAgain(@)]
              /\ UNCHANGED <<saved, form, panel, post, own>>
\* "Reload saved controls".
Reload(d) == /\ ~panel[d].waiting /\ ~page[d].asked
             /\ form' = [form EXCEPT ![d] = NoForm]
             /\ panel' = [panel EXCEPT ![d] = [Quiet EXCEPT !.replacing = Shown(page[d])]]
             /\ page' = [page EXCEPT ![d] = AskedAgain(@)]
             /\ UNCHANGED <<saved, post, own>>
-----------------------------------------------------------------------------
(* The form *)

\* Another administrator saved since the form began.
Changed(d) == form[d] # NoForm /\ form[d].version # page[d].data.version
\* Mutant: the form opens again on the answer that is being replaced.
OpenAtOnce(d) ==
  panel[d].waiting \/ ~Shown(page[d]) \/ Changed(d) \/ panel[d].unsure
Locked(d) ==
  panel[d].waiting \/ ~Shown(page[d]) \/ panel[d].replacing \/ Changed(d) \/ panel[d].unsure

\* change: back at what is shown, there is no draft; a draft keeps the version it began with.
Edits(d, doc, f) ==
  {[doc EXCEPT ![f] = v] : v \in CASE f \in Switches -> BOOLEAN [] f = "close" -> 1 .. 2 [] OTHER -> 0 .. 1} \ {doc}
Change(d) ==
  /\ ~Locked(d)
  /\ LET data == page[d].data
         doc == IF form[d] = NoForm THEN data.doc ELSE form[d].doc
         began == IF form[d] = NoForm THEN [version |-> data.version, base |-> data.doc] ELSE form[d]
     IN \E f \in Switches \cup Numbers : \E next \in Edits(d, doc, f) :
          /\ f = "on" => data.ready \/ doc.on
          /\ Cardinality({g \in Switches \cup Numbers : next[g] # data.doc[g]}) <= MaxFormEdits
          /\ form' = [form EXCEPT ![d] = IF next = data.doc THEN NoForm
                                         ELSE [version |-> began.version, doc |-> next, base |-> began.base]]
  /\ UNCHANGED <<saved, page, panel, post, own>>

MaySave(d) == ~panel[d].waiting /\ ~Changed(d) /\ ~panel[d].unsure /\ Steady(page[d])
SendSave(d, r, version, doc, base) ==
  /\ post[r] = NoPost
  /\ post' = [post EXCEPT ![r] = [step |-> "sent", by |-> d, version |-> version, doc |-> doc, base |-> base]]
  /\ panel' = [panel EXCEPT ![d].waiting = TRUE]
  /\ UNCHANGED <<saved, page, form, own>>
\* save: the draft, with the version it began with; staff are asked once more before voting is switched on.
Save(d, r) ==
  /\ MaySave(d) /\ form[d] # NoForm /\ SettingsFit(form[d].doc)
  /\ SendSave(d, r, form[d].version, form[d].doc, form[d].base)
\* "Save to resume" when voting is paused: the switches as they are shown, and no settings.
Resume(d, r) ==
  /\ MaySave(d) /\ form[d] = NoForm /\ ~panel[d].replacing /\ page[d].data.doc.on /\ page[d].data.ready
  /\ SendSave(d, r, page[d].data.version, page[d].data.doc, page[d].data.doc)

-----------------------------------------------------------------------------
(* The server *)

\* saveControls up to its transaction: switching on for another connection is refused, as a failed channel check is.
Admitted(r) == post[r].doc.on => saved.here
\* A refusal, or no answer in time: the form waits for a reload.
Unsure(r) == panel' = IF post[r].by = Nobody THEN panel
                      ELSE [panel EXCEPT ![post[r].by].unsure = TRUE, ![post[r].by].waiting = FALSE]
Refuse(r) == /\ Unsure(r) /\ post' = [post EXCEPT ![r] = Done]
             /\ UNCHANGED <<saved, page, form, own>>
Check(r) ==
  /\ post[r].step = "sent"
  /\ \/ Admitted(r) /\ post' = [post EXCEPT ![r].step = "checked"] /\ UNCHANGED <<saved, page, form, panel, own>>
     \/ (post[r].doc.on \/ ~Admitted(r)) /\ Refuse(r)

\* mergeSettings: switches whole, settings where the form changed them; a held 50v50 is not offered.
PatchMerged(q) ==
  LET number(f) == IF q.doc[f] # q.base[f] THEN q.doc[f] ELSE saved.doc[f] IN
  [q.doc EXCEPT !.close = number("close"), !.ceiling = number("ceiling"), !.offered = saved.doc.offered /\ ~Held]
\* Mutant: a save is taken whatever was saved since.
AnyVersion(q) == TRUE
SameVersion(q) == q.version = saved.version
\* savePolicy: under the server's lock.
Commit(r) ==
  /\ post[r].step = "checked"
  /\ SameVersion(post[r]) /\ Valid(PatchMerged(post[r]), Held) /\ saved.version < MaxSaves
  /\ saved' = [doc |-> PatchMerged(post[r]), version |-> saved.version + 1, here |-> TRUE]
  /\ post' = [post EXCEPT ![r] = IF @.by = Nobody THEN Done ELSE [@ EXCEPT !.step = "saved"]]
  /\ UNCHANGED <<page, form, panel, own>>
Conflict(r) == post[r].step = "checked" /\ ~(SameVersion(post[r]) /\ Valid(PatchMerged(post[r]), Held)) /\ Refuse(r)

\* The answer reaches the page that still waits for it.
Confirmed(r) ==
  /\ post[r].step = "saved" /\ post[r].by # Nobody
  /\ LET d == post[r].by IN
       /\ form' = [form EXCEPT ![d] = NoForm]
       /\ panel' = [panel EXCEPT ![d] = [Quiet EXCEPT !.replacing = TRUE]]
       /\ page' = [page EXCEPT ![d] = AskedAgain(@)]
       /\ own' = [own EXCEPT ![d] = post[r].version + 1]
  /\ post' = [post EXCEPT ![r] = Done]
  /\ UNCHANGED <<saved>>
\* Lost or timed out: the request may still be carried out.
Unconfirmed(r) ==
  /\ post[r].step \notin {"none", "done"} /\ post[r].by # Nobody /\ Unsure(r)
  /\ post' = [post EXCEPT ![r] = IF @.step = "saved" THEN Done ELSE [@ EXCEPT !.by = Nobody]]
  /\ UNCHANGED <<saved, page, form, own>>

\* The bot restarts: requests end without an answer.
Restart ==
  /\ post' = [r \in Posts |-> IF post[r] = NoPost THEN NoPost ELSE Done]
  /\ panel' = [d \in Panels |-> IF panel[d].waiting
                        THEN [panel[d] EXCEPT !.unsure = TRUE, !.waiting = FALSE] ELSE panel[d]]
  /\ UNCHANGED <<saved, page, form, own>>

ControlsNext ==
  \/ \E d \in Panels : \/ Show(d) \/ Refresh(d) \/ Reload(d)
                       \/ Change(d) \/ \E r \in Posts : Save(d, r) \/ Resume(d, r)
  \/ \E r \in Posts : Check(r) \/ Commit(r) \/ Conflict(r) \/ Confirmed(r) \/ Unconfirmed(r)
  \/ Restart

-----------------------------------------------------------------------------
(* Properties *)

Snapshots == [version : 0 .. MaxSaves, doc : Docs, ready : BOOLEAN]
\* Every record has its fields, and a waiting page is the one its request names.
ControlsTypeOK ==
  /\ saved \in [doc : Docs, version : 0 .. MaxSaves, here : BOOLEAN]
  /\ page \in [Panels -> PageReads(Snapshots)] /\ own \in [Panels -> 0 .. MaxSaves]
  /\ \A d \in Panels : panel[d].waiting <=> \E r \in Posts : post[r].step \notin {"none", "done"} /\ post[r].by = d

\* No form builds on controls older than what this dashboard itself saved: it waits for the answer of its reload.
FormsFresh == \A d \in Panels : form[d] # NoForm => form[d].version >= own[d]

Saving(r) == post[r].step = "checked" /\ saved' # saved
\* A save changes what its form changed and nothing else, whatever other dashboards saved and whoever still waits
\* for it; the document stays valid, a held 50v50 is not offered, and voting moves to another connection only off.
ControlsKept ==
  [][\A r \in Posts : Saving(r) =>
       LET q == post[r] IN post'[r].step \in {"done", "saved"} =>
         /\ \A f \in Switches \cup Numbers : saved'.doc[f] = IF q.doc[f] # q.base[f] THEN q.doc[f] ELSE saved.doc[f]
         /\ Valid(saved'.doc, Held)
         /\ saved.version > 0 /\ saved.doc.on /\ saved'.doc.on => saved.here]_controlVars
=============================================================================
