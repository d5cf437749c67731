----------------------------- MODULE NextSteps -----------------------------
(***************************************************************************)
(* What the Supporters page says has to happen next on a record and who is *)
(* to do it, and what automatic matching then does (supporter-             *)
(* match.rules.ts, founderBlocker in supporters.types.ts, view in          *)
(* supporters.store.ts, the dashboard's policy.ts). The record links the   *)
(* Discord account "x" or none; one other record may be the same person,   *)
(* and account "y" has its own applications. Founders has many records and *)
(* concurrent transactions with simpler rules; here the rules are whole,   *)
(* and the facts change between what the page showed and what is done.     *)
(***************************************************************************)
EXTENDS Integers, Sequences, FiniteSetsExt

CONSTANTS
  SteamIds,     \* SteamIDs
  ValidIds,     \* those of players
  OpeningFacts  \* bound: the facts it starts from, as [me, apps, other, pay, set]

Unknown == "none"

Providers == {"patreon", "paypal"}
DiscordAccounts == {Unknown, "x", "y"}
Statuses == {"pending", "processing", "approved", "declined", "revoked"}
Sources == {Unknown, "signed_status", "manual_receipt", "patreon_api", "paypal"}

\* The rows. "x" is the account the record links, or else the one that Patreon reports for it, if there is one.
OwnRecords ==
  {r \in [provider : Providers, discord : {Unknown, "x"}, from : {Unknown, "staff", "patreon", "patron_signin"},
          reported : DiscordAccounts, steam : SteamIds \cup {Unknown}, copied : BOOLEAN,
          founder : BOOLEAN, refused : BOOLEAN] : r.discord = Unknown => r.reported # "y"}
ApplicationFacts == [steam : SteamIds, status : Statuses, granted : BOOLEAN]
RecordsBeside ==
  [provider : Providers, discord : DiscordAccounts, reports : DiscordAccounts, steam : SteamIds \cup {Unknown},
   founder : BOOLEAN, earlier : BOOLEAN, applied : SUBSET SteamIds]
PaymentFacts ==
  [source : Sources, verified : BOOLEAN, first : BOOLEAN, inWindow : BOOLEAN,
   worth : {"enough", "under", "foreign", "tierUnder"}, recent : BOOLEAN, reversed : BOOLEAN]
MatchSettings == [import : BOOLEAN, fill : BOOLEAN, auto : BOOLEAN, window : BOOLEAN]

ASSUME StepsAssumption ==
  /\ ValidIds \subseteq SteamIds /\ IsFiniteSet(SteamIds) /\ Unknown \notin SteamIds
  /\ OpeningFacts \subseteq
       [me : OwnRecords, apps : SUBSET ApplicationFacts, other : RecordsBeside, pay : PaymentFacts, set : MatchSettings]

VARIABLES
  me,     \* the record: provider, Discord account and where from, the account Patreon reports, SteamID, founder
  apps,   \* its account's applications: SteamID, status, and whether a grant was recorded
  other,  \* another record: provider, account, the account Patreon reports, SteamID, founder, paid earlier;
          \* and what account "y" applied with
  pay,    \* the record's payment as the founder rule sees it
  set     \* the import, the two switches of automatic matching, the founder window

stepVars == <<me, apps, other, pay, set>>

StepsTypeOK ==
  /\ me \in OwnRecords /\ apps \subseteq ApplicationFacts /\ other \in RecordsBeside
  /\ pay \in PaymentFacts /\ set \in MatchSettings

StepsInit == \E o \in OpeningFacts : me = o.me /\ apps = o.apps /\ other = o.other /\ pay = o.pay /\ set = o.set

\* Tests in their order: the first that holds names the reason.
FirstOf(tests) ==
  LET hits == {i \in DOMAIN tests : tests[i][2]}
  IN  IF hits = {} THEN Unknown ELSE tests[Min(hits)][1]

----------------------------------------------------------------------------
\* What the facts say of a SteamID and of the other record.
Standing(a) == a.status \notin {"declined", "revoked"}
HeldBack(s) == other.steam = s
Claimed(s) == s \in other.applied
Rejected(s) == \E a \in apps : a.steam = s /\ ~Standing(a)
SamePerson(r) == r.discord \in {other.discord} \ {Unknown} \/ r.steam \in {other.steam} \ {Unknown}
ReportedElsewhere == me.reported \in {other.discord} \ {Unknown, me.discord} /\ other.provider = "patreon"
ReportedForOther(r) == other.provider = "patreon" /\ r.discord \in {other.reports} \ {Unknown}

\* The one SteamID the account's applications offer, and why it may not be copied.
InStatus(status) == {a \in apps : a.status = status}
Live == InStatus("approved")
Named == {a.steam : a \in Live}
MatchBlock == FirstOf(<<
  <<"no_application", apps = {}>>,
  <<"application_in_progress", InStatus("processing") # {}>>,
  <<"application_pending", Live = {} /\ InStatus("pending") # {}>>,
  <<"no_approved_application", Live = {}>>,
  <<"several_steam_ids", Cardinality(Named) > 1>>,
  <<"invalid_steam_id", ~(Named \subseteq ValidIds)>>,
  <<"application_not_confirmed", \A a \in Live : ~a.granted>>,
  <<"steam_shared", \E s \in Named : Claimed(s)>>,
  <<"steam_rejected_before", \E s \in Named : Rejected(s)>>,
  <<"steam_on_another_record", \E s \in Named : HeldBack(s)>> >>)
Offered == IF Cardinality(Named) = 1 THEN CHOOSE s \in Named : TRUE ELSE Unknown

UntilLinked(r) == r.steam = Unknown /\ \E a \in apps : Standing(a) /\ HeldBack(a.steam)
HeldElsewhere(r) == \E a \in apps : Standing(a) /\ HeldBack(a.steam) /\ a.steam # r.steam

Identity(r) == (r.discord # Unknown \/ r.steam \in ValidIds) /\ r.steam \in ValidIds \cup {Unknown}

\* The founder rule for a payment: why it cannot make this record a founder.
FounderBlocker(p, r) == FirstOf(<<
  <<"window_not_configured", ~set.window>>,
  <<"no_payment", p.source = Unknown>>,
  <<"source_not_qualifying", p.source = "signed_status">>,
  <<"not_verified", ~p.verified>>,
  <<"not_first_payment", ~p.first>>,
  <<"outside_window", ~p.inWindow>>,
  <<"below_minimum", p.worth # "enough">>,
  <<"no_identity", ~Identity(r)>>,
  <<"already_founder", other.founder /\ SamePerson(r)>>,
  <<"steam_applied_by_founder",
    other.founder /\ other.steam = Unknown /\ other.discord = "y" /\ Claimed(r.steam)>> >>)

\* Automatic matching asks for more, and then that rule.
Imported == pay.source = "patreon_api" /\ pay.verified /\ pay.first
AutomaticBlocker(r) ==
  LET rule == FounderBlocker(pay, r) IN FirstOf(<<
  <<"not_patreon", r.provider # "patreon">>,
  <<"no_discord", r.discord = Unknown>>,
  <<"discord_not_from_patreon", r.from \notin {"patreon", "patron_signin"}>>,
  <<"discord_differs", r.reported \notin {Unknown, r.discord}>>,
  <<"discord_reported_for_other_patron", ReportedForOther(r)>>,
  <<"no_identity", r.steam \notin ValidIds \cup {Unknown}>>,
  <<"steam_on_another_record", HeldElsewhere(r)>>,
  <<"no_patreon_payment", ~Imported>>,
  <<"charge_reversed", pay.reversed>>,
  <<"payment_too_recent", pay.recent>>,
  <<"earlier_payment_other_record", other.earlier /\ SamePerson(r)>>,
  <<rule, rule # Unknown>> >>)

\* Only the first-payment mark, which a sync may still settle, stands in the way.
FirstPaymentWaiting ==
  /\ me.provider = "patreon" /\ pay.source = "patreon_api" /\ pay.verified /\ ~pay.first
  /\ LET marked == FounderBlocker([pay EXCEPT !.first = TRUE], me)
     IN  \/ marked = Unknown
         \/ marked = "no_identity" /\ me.discord = Unknown
         \/ marked = "below_minimum" /\ pay.worth = "foreign"

----------------------------------------------------------------------------
\* The steps still needed on the record.
Step(area, code) == [area |-> area, code |-> code]
StepIf(holds, area, code) == IF holds THEN {Step(area, code)} ELSE {}

DiscordSteps ==
  StepIf(me.refused, "discord", "patron_link_conflict") \cup
  IF me.discord = Unknown
    THEN {Step("discord", CASE me.provider = "paypal" -> "link_discord_paypal"
                            [] me.provider = "patreon" /\ ReportedElsewhere -> "discord_on_another_record"
                            [] me.provider = "patreon" /\ ~ReportedElsewhere /\ set.import -> "connect_discord_in_patreon"
                            [] OTHER -> "link_discord_no_import")}
    ELSE IF me.provider = "patreon"
    THEN StepIf(me.reported \notin {Unknown, me.discord}, "discord", "discord_differs")
         \cup StepIf(ReportedForOther(me), "discord", "discord_reported_for_other_patron")
    ELSE {}

\* An application under review is no reason to doubt a SteamID staff linked.
Differs == /\ me.discord # Unknown /\ ~me.copied /\ Offered \notin {Unknown, me.steam}
           /\ MatchBlock \notin {"application_pending", "application_in_progress"}
SourceRevoked == me.copied /\ (me.discord = Unknown \/ \A a \in Live : a.steam # me.steam)

StaffReason == FounderBlocker(pay, me)
Impossible == {"outside_window", "below_minimum", "already_founder"}

ApplicationStep ==
  Step("steam", IF MatchBlock # Unknown THEN MatchBlock
                ELSE IF me.provider = "patreon" /\ set.fill THEN "steam_ready_automatic" ELSE "steam_available")

SteamSteps ==
  IF me.steam # Unknown
    THEN StepIf(SourceRevoked, "steam", "source_application_revoked")
         \cup StepIf(~SourceRevoked /\ Differs, "steam", "steam_differs_from_application")
         \cup StepIf(me.discord # Unknown /\ Claimed(me.steam), "steam", "linked_steam_shared")
    ELSE IF me.discord # Unknown /\ (me.founder \/ StaffReason \notin Impossible)
    THEN {ApplicationStep}
    ELSE {}

\* A reason that Gramps can still settle is waited for; others are notes or for staff.
PaymentReasons == {"no_payment", "not_first_payment", "not_verified"}
ReasonArea ==
  IF \/ StaffReason = "below_minimum" /\ me.provider = "patreon" /\ pay.worth = "foreign"
     \/ StaffReason = "not_first_payment" /\ FirstPaymentWaiting
     \/ StaffReason \notin Impossible \cup PaymentReasons
    THEN "founder" ELSE IF StaffReason \in Impossible THEN "info" ELSE "payment"

AutomaticStep ==
  LET automatic == AutomaticBlocker(me)
      steps(area, code) == {Step(area, code)}
  IN  CASE me.provider # "patreon" -> steps("founder", "ready_staff")
        [] me.provider = "patreon" /\ automatic \in {Unknown, "payment_too_recent"} ->
             steps("founder", IF ~set.auto THEN "ready_automatic_off"
                              ELSE IF automatic = Unknown THEN "ready_automatic" ELSE "automatic_waiting")
        [] automatic = "charge_reversed" -> steps("founder", "waiting_patreon")
        [] automatic \in {"no_discord", "discord_not_from_patreon"} -> steps("founder", "waiting_discord")
        [] automatic \in {"discord_differs", "discord_reported_for_other_patron"} -> {}
        [] automatic = "steam_on_another_record" ->
             StepIf(Step("steam", automatic) \notin SteamSteps, "founder", "steam_on_another")
        [] automatic = "earlier_payment_other_record" -> steps("info", automatic)
        [] OTHER -> steps("founder", "ready_staff")

FounderSteps ==
  IF me.founder THEN StepIf(me.discord = Unknown, "founder", "needs_discord")
  ELSE IF StaffReason # Unknown THEN {Step(ReasonArea, StaffReason)} ELSE AutomaticStep

Steps == DiscordSteps \cup SteamSteps \cup FounderSteps

----------------------------------------------------------------------------
\* The dashboard sorts them by who acts.
WaitingCodes ==
  {"connect_discord_in_patreon", "link_discord_no_import", "steam_ready_automatic", "ready_automatic",
   "automatic_waiting", "ready_automatic_off", "below_minimum", "not_first_payment", "source_not_qualifying",
   "waiting_patreon", "waiting_discord"}
LaterCodes ==
  {"no_application", "application_pending", "application_in_progress", "no_approved_application",
   "application_not_confirmed", "several_steam_ids", "invalid_steam_id", "steam_shared", "steam_rejected_before",
   "steam_available", "source_application_revoked", "steam_differs_from_application", "linked_steam_shared"}

Notes == {s \in Steps : s.area \in {"payment", "info"} \/ s.code = "window_not_configured"}
Waiting ==
  {s \in Steps \ Notes :
     \/ s.code \in WaitingCodes
     \/ s.code = "no_identity" /\ me.discord = Unknown /\ me.steam = Unknown
     \/ s.code = "needs_discord" /\ me.provider = "patreon"}
Later == {s \in Steps \ (Notes \cup Waiting) : s.code \in LaterCodes}
Needs == Steps \ (Notes \cup Waiting \cup Later)

\* "Make founder" shows unless another record may be the same person's.
OtherRecordCodes == {"steam_on_another_record", "steam_on_another", "earlier_payment_other_record"}
MakeFounderOffered == ~me.founder /\ StaffReason = Unknown /\ \A s \in Steps : s.code \notin OtherRecordCodes
SteamOffered ==
  IF me.steam = Unknown /\ me.discord # Unknown
     /\ MatchBlock \in {Unknown, "application_not_confirmed", "steam_on_another_record"}
    THEN Offered ELSE Unknown

----------------------------------------------------------------------------
\* What is done.
\* The import links the account Patreon reports, and owns a link staff made to the same account.
Linked(r) ==
  IF r.provider = "patreon" /\ set.import /\ r.reported = "x" /\ ~ReportedElsewhere /\ r.discord \in {Unknown, "x"}
    THEN [r EXCEPT !.discord = "x", !.from = IF @ = "patron_signin" THEN @ ELSE "patreon"] ELSE r

\* Matching copies the SteamID, then records the promise.
FillAllowed(r) == r.provider = "patreon" /\ r.discord # Unknown /\ r.steam = Unknown /\ MatchBlock = Unknown
Filled(r) == IF set.fill /\ FillAllowed(r) THEN [r EXCEPT !.steam = Offered, !.copied = TRUE] ELSE r
Promised(r) == IF set.auto /\ AutomaticBlocker(r) = Unknown THEN [r EXCEPT !.founder = TRUE] ELSE r

Synced == Promised(Filled(Linked(me)))
Sync == set.import /\ me' = Synced /\ UNCHANGED <<apps, other, pay, set>>
\* After an approval, a webhook or a patron's own link there is no import.
Match == me' = Promised(Filled(me)) /\ UNCHANGED <<apps, other, pay, set>>

\* The refund wait ends; Patreon settles the history, the price of a tier and a reversed charge.
PaymentSettles ==
  /\ pay' \in {[pay EXCEPT !.recent = FALSE], [pay EXCEPT !.first = TRUE], [pay EXCEPT !.reversed = FALSE]}
  /\ UNCHANGED <<me, apps, other, set>>

ReviewApplication ==
  /\ \E a \in apps : \E status \in {"approved", "declined"} :
       a.status \in {"pending", "processing"} /\ apps' = (apps \ {a}) \cup {[a EXCEPT !.status = status]}
  /\ UNCHANGED <<me, other, pay, set>>

\* Staff change the accounts, or make the record a founder.
StaffLinks ==
  /\ \/ me.discord = Unknown /\ other.discord # "x"
        /\ me' = [me EXCEPT !.discord = "x", !.from = "staff", !.refused = FALSE]
     \/ SteamOffered # Unknown /\ me' = [me EXCEPT !.steam = SteamOffered, !.copied = FALSE, !.refused = FALSE]
  /\ UNCHANGED <<apps, other, pay, set>>

MakeFounder ==
  /\ MakeFounderOffered /\ me' = [me EXCEPT !.founder = TRUE]
  /\ UNCHANGED <<apps, other, pay, set>>

StepsNext == Sync \/ Match \/ PaymentSettles \/ ReviewApplication \/ StaffLinks \/ MakeFounder

----------------------------------------------------------------------------
\* A record with nothing for anyone to do is settled: a founder with an account, or it says why it cannot be one.
NobodyForgotten == Needs \cup Waiting = {} => (me.founder /\ me.discord # Unknown) \/ (~me.founder /\ Notes # {})

\* What the page says Gramps does at the next sync, the next sync does.
WordKept ==
  set.import =>
    /\ Step("founder", "ready_automatic") \in Steps => Synced.founder
    /\ Step("steam", "steam_ready_automatic") \in Steps => Synced.steam # Unknown
    /\ (me.reported # Unknown /\ Step("discord", "connect_discord_in_patreon") \in Steps) => Synced.discord = me.reported

\* Copying a SteamID never decides whether the record becomes a founder.
FillDecidesNothing ==
  FillAllowed(me) => AutomaticBlocker([me EXCEPT !.steam = Offered, !.copied = TRUE]) = AutomaticBlocker(me)

\* No one is made a founder twice: not by matching, and not by what the page offers.
FounderOnce ==
  LET byMatching == set.auto /\ ~me.founder /\ AutomaticBlocker(me) = Unknown
  IN  byMatching \/ MakeFounderOffered => ~(other.founder /\ SamePerson(me))

\* The page, the matching and the staff rule agree on every record.
StepsTrue == NobodyForgotten /\ WordKept /\ FillDecidesNothing /\ FounderOnce
=============================================================================
