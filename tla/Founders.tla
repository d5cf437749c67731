-------------------------------- MODULE Founders --------------------------------
(***************************************************************************)
(* Supporter records and founder promises: who links a Discord account or a *)
(* SteamID to a record, and who makes a record a founder                    *)
(* (supporters.store.ts, supporter-match.store.ts, patron-link.store.ts).   *)
(* Every operation is a transaction that locks its row, then the SteamIDs    *)
(* it may link, then the identities of a founder, checks, and commits; it     *)
(* sees what was committed when it looks.                                     *)
(***************************************************************************)
EXTENDS Integers, FiniteSets

CONSTANTS Patrons,   \* Patreon records of the campaign
          Donors,    \* PayPal records
          Accounts,  \* Discord accounts
          Steams,    \* SteamIDs
          Approved,  \* approved whitelist applications with a grant: pairs of account and SteamID
          Pending,   \* applications that wait for review
          PaidOn,    \* [records -> the day of its first payment]
          Transactions,  \* bound: transactions at once
          Openings,      \* bound: the links and founders it starts from, as [link, founders]
          MaxStarts      \* bound: the number of transactions that begin

Records == Patrons \cup Donors
None == "none"
Nothing == {None}
Applied == Approved \cup Pending

LinkRows ==
  [discord : Accounts \cup Nothing, from : {None, "staff", "patreon", "patron_signin"}, steam : Steams \cup Nothing,
   copied : BOOLEAN, reported : Accounts \cup Nothing]
Same(a, b) == a # None /\ a = b
Shares(a, b) == Same(a.discord, b.discord) \/ Same(a.steam, b.steam)

\* It starts from records whose links have their sources, and founders that are different persons.
ASSUME FoundersAssumption ==
  /\ MaxStarts \in Nat /\ Applied \subseteq Accounts \X Steams /\ PaidOn \in [Records -> Nat]
  /\ None \notin Accounts \cup Steams \cup Records
  /\ \A o \in Openings :
       /\ o.link \in [Records -> LinkRows] /\ o.founders \subseteq Records
       /\ \A r \in Records : /\ o.link[r].discord = None => o.link[r].from = None
                             /\ o.link[r].copied => <<o.link[r].discord, o.link[r].steam>> \in Approved
       /\ \A f, g \in o.founders : f # g => ~Shares(o.link[f], o.link[g])

VARIABLES
  link,      \* [Records -> its Discord account, SteamID, their sources, and the account Patreon reports]
  founders,  \* supporter_founders
  released,  \* audit: records the import took an account from, with that account
  tx,        \* [Transactions -> the open transaction, or NoTx]
  starts,    \* bound: transactions so far
  filled,    \* history: founders that got an identity without the founder check
  broken     \* history: what the last commit broke

foundersVars == <<link, founders, released, tx, starts, filled, broken>>

NoTx == [op |-> "none"]
Unlinked == [discord |-> None, from |-> None, steam |-> None, copied |-> FALSE, reported |-> None]

FoundersInit ==
  /\ \E o \in Openings : link = o.link /\ founders = o.founders
  /\ released = {}
  /\ tx = [t \in Transactions |-> NoTx] /\ starts = 0 /\ filled = {} /\ broken = {}

-----------------------------------------------------------------------------
(* What is committed *)

SteamsOf(account, applications) == {s \in Steams : <<account, s>> \in applications}

\* otherFounder: another founder is the same person.
OtherFounder(r, id) ==
  \E f \in founders \ {r} :
    \/ Shares(link[f], id)
    \/ link[f].steam = None /\ <<link[f].discord, id.steam>> \in Applied

OtherHolder(r, steams) == \E q \in Records \ {r} : link[q].steam \in steams

\* The SteamID of the account's approved applications, if there is one and nobody else has to do with it.
SteamMatch(r) ==
  LET account == link[r].discord
      live == SteamsOf(account, Approved) IN
  {s \in live : /\ live = {s} /\ ~OtherHolder(r, {s})
                /\ \A other \in Accounts \ {account} : <<other, s>> \notin Applied}

\* automaticFounderBlocker, for a payment the founder rule accepts.
AutomaticAllowed(r) ==
  LET me == link[r]
      SamePerson(q) == Shares(link[q], me) \/ <<q, me.discord>> \in released IN
  /\ me.from \in {"patreon", "patron_signin"} /\ me.reported \in {None, me.discord}
  /\ \A q \in Patrons \ {r} : link[q].reported # me.discord
  /\ ~OtherHolder(r, SteamsOf(me.discord, Applied) \ {me.steam})
  /\ \A q \in Records \ {r} : SamePerson(q) => PaidOn[q] >= PaidOn[r]

-----------------------------------------------------------------------------
(* Locks *)

Open(t) == tx[t].op # "none"
RowsOf(t) == IF Open(t) THEN {tx[t].record} \cup (IF tx[t].other = None THEN {} ELSE {tx[t].other}) ELSE {}
RowFreeFor(t, r) == \A u \in Transactions \ {t} : r \notin RowsOf(u)
KeysOf(t) == IF Open(t) THEN tx[t].keys ELSE {}
KeysFree(t, keys) == \A u \in Transactions \ {t} : KeysOf(u) \cap keys = {}

FounderKeys(id) ==
  {<<"discord", id.discord>>, <<"founder-steam", id.steam>>} \ {<<"discord", None>>, <<"founder-steam", None>>}
\* Mutant: an award is checked without the locks on its identity.
NoFounderKeys(id) == {}
FounderLocks(id) == FounderKeys(id)
\* Mutant: a SteamID that staff link is not locked.
StaffUnlocked(op, steams) == IF op = "link" THEN {} ELSE {<<"steam", s>> : s \in steams \ Nothing}
SteamLocks(op, steams) == {<<"steam", s>> : s \in steams \ Nothing}

\* A transaction that has locked its row: what it adds to it, the SteamIDs it locks, whether it awards.
Begin(t, op, r, added, steams, award, fill) ==
  /\ ~Open(t) /\ RowFreeFor(t, r) /\ starts < MaxStarts /\ starts' = starts + 1
  /\ tx' = [tx EXCEPT ![t] =
       [op |-> op, record |-> r, other |-> None, added |-> added, steams |-> steams, award |-> award,
        fill |-> fill, keys |-> {}, step |-> "steam"]]
  /\ UNCHANGED <<link, founders, released, filled, broken>>

Adds(discord, steam) == [discord |-> discord, steam |-> steam]

-----------------------------------------------------------------------------
(* The operations *)

\* mutate, link: a SteamID copied for the old account does not follow a new one unconfirmed.
StaffLink(t) ==
  \E r \in Records, discord \in Accounts \cup Nothing, steam \in Steams \cup Nothing, confirmed \in BOOLEAN :
    LET moved == discord \notin {None, link[r].discord}
        changed == steam \notin {None, link[r].steam} IN
    /\ moved \/ changed \/ (confirmed /\ link[r].copied)
    /\ (moved /\ link[r].copied /\ ~changed) => confirmed
    /\ (moved /\ changed /\ <<link[r].discord, steam>> \in Applied) => confirmed
    /\ Begin(t, "link", r, [discord |-> discord, steam |-> steam, restated |-> confirmed /\ ~changed],
             IF changed THEN {steam} ELSE {}, FALSE, FALSE)

\* mutate, founder.
StaffAward(t) ==
  \E r \in Records \ founders :
    /\ {link[r].discord, link[r].steam} # Nothing
    /\ Begin(t, "award", r, Adds(None, None), {}, TRUE, FALSE)

\* recordPaypal on a record, which fills what it has not.
PaypalPayment(t) ==
  \E r \in Donors, discord \in Accounts \cup Nothing, steam \in Steams \cup Nothing, award \in BOOLEAN :
    /\ link[r].discord # None => discord \in {None, link[r].discord}
    /\ link[r].steam # None => steam \in {None, link[r].steam}
    /\ award => r \notin founders /\ {discord, steam, link[r].discord, link[r].steam} # Nothing
    /\ {discord, steam} # Nothing
    /\ Begin(t, "paypal", r, Adds(discord, steam),
             IF link[r].steam = None THEN {steam} ELSE {}, award, FALSE)

\* importApiMember with the account Patreon reports for the patron.
Import(t) ==
  \E r \in Patrons, reported \in Accounts \cup Nothing :
    /\ \/ reported # link[r].reported
       \/ reported \notin {None, link[r].discord}
       \/ (reported = link[r].discord /\ link[r].from = "staff")
    /\ Begin(t, "import", r, Adds(reported, None), {}, FALSE, FALSE)

\* PatronLinkStore.link: the record and the account are not linked.
SignIn(t) ==
  \E r \in Patrons, discord \in Accounts :
    /\ link[r].discord = None /\ \A q \in Patrons : link[q].discord # discord
    /\ Begin(t, "signin", r, Adds(discord, None), {}, FALSE, FALSE)

\* autoMatch: the SteamID of the applications, then the promise.
AutoMatch(t) ==
  \E r \in Patrons, promise \in BOOLEAN :
    LET account == link[r].discord
        match == IF link[r].steam = None THEN SteamMatch(r) ELSE {}
        award == promise /\ r \notin founders /\ AutomaticAllowed(r) IN
    /\ account # None /\ (match # {} \/ award)
    /\ Begin(t, "auto", r, Adds(None, IF match = {} THEN None ELSE CHOOSE s \in match : TRUE),
             match \cup (IF award THEN SteamsOf(account, Applied) \ {link[r].steam} ELSE {}),
             award, match # {})

-----------------------------------------------------------------------------
(* The steps of a transaction *)

SetTx(t, value) == tx' = [tx EXCEPT ![t] = value]
Unchanged == UNCHANGED <<link, founders, released, starts, filled, broken>>
\* Nothing of it stays.
RollBack(t) == Open(t) /\ SetTx(t, NoTx) /\ Unchanged

\* After its row, a transaction locks the SteamIDs; matching then looks for their holders.
LockSteam(t) ==
  LET job == tx[t]
      keys == SteamLocks(job.op, job.steams) IN
  /\ Open(t) /\ job.step = "steam" /\ KeysFree(t, keys)
  /\ LET held == job.op = "auto" /\ OtherHolder(job.record, job.steams) IN
     IF held THEN SetTx(t, NoTx)
     ELSE SetTx(t, [job EXCEPT !.step = IF job.op = "import" THEN "other" ELSE "founder", !.keys = keys])
  /\ Unchanged

Follows(r) == link[r].discord = None \/ (link[r].from = "patreon" /\ r \notin founders)
HolderOf(r, account) == {q \in Patrons \ {r} : link[q].discord = account}
\* Mutant: the other record is not locked.
OtherRead(t, q) == TRUE
OtherRow(t, q) == RowFreeFor(t, q)
\* followPatreonDiscord: the record that holds the account is locked; it gives the account up if Patreon
\* gave it, reports it for that patron no more, and it is no founder's.
FindOther(t) ==
  LET job == tx[t]
      account == job.added.discord
      holders == HolderOf(job.record, account)
      Gives(q) == link[q].from = "patreon" /\ link[q].reported # account /\ q \notin founders IN
  /\ Open(t) /\ job.step = "other"
  /\ IF account \in {None, link[job.record].discord} \/ ~Follows(job.record) \/ holders = {}
     THEN SetTx(t, [job EXCEPT !.step = "commit"])
     ELSE \E q \in holders :
            /\ OtherRow(t, q)
            /\ SetTx(t, IF Gives(q) THEN [job EXCEPT !.step = "commit", !.other = q]
                        ELSE [job EXCEPT !.step = "report"])
  /\ Unchanged

\* What the record would be linked to.
After(t) ==
  LET job == tx[t]
      me == link[job.record] IN
  [discord |-> IF job.added.discord = None THEN me.discord ELSE job.added.discord,
   steam |-> IF job.added.steam = None THEN me.steam ELSE job.added.steam]

\* What a founder's Link adds, or the identity of a new founder.
Checked(t) ==
  LET job == tx[t]
      me == link[job.record]
      new == After(t)
      gains == [discord |-> IF new.discord = me.discord THEN None ELSE new.discord,
                steam |-> IF new.steam = me.steam THEN None ELSE new.steam] IN
  IF job.award THEN new
  ELSE IF job.record \in founders /\ job.op # "paypal" THEN gains ELSE Adds(None, None)

\* The identities of a founder are locked, then another founder is looked for. A match keeps the
\* SteamID when only the promise is refused.
LockFounder(t) ==
  LET job == tx[t]
      id == Checked(t)
      keys == FounderLocks(id)
      tie == id # Adds(None, None) /\ OtherFounder(job.record, id) IN
  /\ Open(t) /\ job.step = "founder" /\ KeysFree(t, keys)
  /\ SetTx(t, IF tie /\ ~(job.op = "auto" /\ job.award /\ job.fill) THEN NoTx
              ELSE [job EXCEPT !.step = "commit", !.keys = job.keys \cup keys, !.award = job.award /\ ~tie])
  /\ Unchanged

\* The unique indexes: one record of the campaign, and one of PayPal, per account and per SteamID.
Unique(r, value) ==
  \A q \in (IF r \in Patrons THEN Patrons ELSE Donors) \ {r} : ~Shares(link[q], value)

\* Mutant: a copied SteamID stays when Patreon moves the record to another account.
SteamKept(me, account) == me
\* A SteamID that was copied for the account it had goes with that account.
SteamCleared(me, account) ==
  IF me.copied /\ me.discord # account THEN [me EXCEPT !.steam = None, !.copied = FALSE] ELSE me

\* The commit of an import: the account moves here, or only the report is kept.
CommitImport(t) ==
  LET job == tx[t]
      r == job.record
      account == job.added.discord
      moves == job.step = "commit" /\ account # None /\ account # link[r].discord /\ Follows(r)
      confirms == account # None /\ account = link[r].discord /\ link[r].from = "staff"
      kept == SteamCleared(link[r], account)
      new == [kept EXCEPT !.discord = account, !.from = "patreon", !.reported = account]
      free == IF job.other = None THEN link
              ELSE [link EXCEPT ![job.other] = [SteamCleared(@, None) EXCEPT !.discord = None, !.from = None]] IN
  /\ Open(t) /\ job.op = "import" /\ job.step \in {"commit", "report"}
  /\ moves => \A q \in Patrons \ {r} : free[q].discord # account
  /\ link' = [free EXCEPT ![r] =
       IF moves THEN new
       ELSE [link[r] EXCEPT !.reported = account, !.from = IF confirms THEN "patreon" ELSE link[r].from]]
  /\ released' = released
       \cup (IF job.other # None THEN {<<job.other, account>>} ELSE {})
       \cup (IF moves /\ link[r].discord # None THEN {<<r, link[r].discord>>} ELSE {})
  /\ filled' = IF moves /\ r \in founders THEN filled \cup {r} ELSE filled
  /\ broken' = IF \E q \in Records :
                    /\ link[q].discord \notin {None, link'[q].discord}
                    /\ q \in founders \/ link[q].from # "patreon"
               THEN broken \cup {"taken"} ELSE broken
  /\ SetTx(t, NoTx) /\ UNCHANGED <<founders, starts>>

\* The commit of any other operation.
CommitLink(t) ==
  LET job == tx[t]
      r == job.record
      me == link[r]
      new == After(t)
      moved == new.discord # me.discord
      changed == new.steam # me.steam
      Rule(name, holds) == IF holds THEN {} ELSE {name} IN
  /\ Open(t) /\ job.op # "import" /\ job.step = "commit"
  /\ Unique(r, new)
  /\ link' = [link EXCEPT ![r] =
       [me EXCEPT !.discord = new.discord, !.steam = new.steam,
          !.from = IF ~moved THEN me.from
                   ELSE IF job.op = "signin" THEN "patron_signin" ELSE "staff",
          !.copied = IF changed THEN job.op = "auto"
                     ELSE me.copied /\ ~(job.op = "link" /\ job.added.restated)]]
  /\ founders' = IF job.award THEN founders \cup {r} ELSE founders
  /\ filled' = IF job.op = "paypal" /\ ~job.award /\ r \in founders /\ (moved \/ changed)
               THEN filled \cup {r} ELSE filled
  /\ broken' = broken
       \cup Rule("copied", ~(job.op = "auto" /\ changed /\ OtherHolder(r, {new.steam})))
       \cup Rule("promised", ~(job.op = "auto" /\ job.award
                               /\ OtherHolder(r, SteamsOf(me.discord, Applied) \ {new.steam})))
  /\ SetTx(t, NoTx) /\ UNCHANGED <<released, starts>>

FoundersNext ==
  \E t \in Transactions :
    StaffLink(t) \/ StaffAward(t) \/ PaypalPayment(t) \/ Import(t) \/ SignIn(t) \/ AutoMatch(t)
    \/ LockSteam(t) \/ FindOther(t) \/ LockFounder(t) \/ CommitImport(t) \/ CommitLink(t) \/ RollBack(t)
FoundersSpec == FoundersInit /\ [][FoundersNext]_foundersVars

-----------------------------------------------------------------------------
(* Properties *)

FoundersTypeOK ==
  /\ founders \subseteq Records /\ filled \subseteq founders /\ starts \in 0 .. MaxStarts
  /\ link \in [Records -> LinkRows] /\ \A r \in Records : link[r].discord = None => link[r].from = None

\* Two founders never hold the same Discord account or the same SteamID, in whatever order staff,
\* matching and sign-ins link and award at the same time; except a founder whose empty identity an
\* import or a payment filled.
OnePromiseEach ==
  \A a, b \in founders \ filled : a # b => ~Shares(link[a], link[b])

\* When matching copies a SteamID, no other record holds it at that moment, and when it records a
\* promise, no other record holds a SteamID the account applied with.
MatchedAlone == broken \cap {"copied", "promised"} = {}

\* The import never takes an account off a founder's record, or one that staff or the patron linked,
\* though these change while it runs.
ImportTakesOnlyItsOwn == "taken" \notin broken

\* A SteamID that was copied from an application is one the linked account was approved with.
CopiedSteamFits == \A r \in Records : link[r].copied => <<link[r].discord, link[r].steam>> \in Approved

\* docs/guides/PATREON_SUPPORTERS.md: each person can be a founder once, and moving a founder's link
\* onto an identity another founder holds is refused.
FoundersNeverShare == \A a, b \in founders : a # b => ~Shares(link[a], link[b])

\* A link is made or taken only by the one whose right it is, whatever runs at the same time.
LinksAreOwn == MatchedAlone /\ ImportTakesOnlyItsOwn /\ CopiedSteamFits

\* Founders stay apart, and links with whom they belong to.
FoundersHold == OnePromiseEach /\ LinksAreOwn
=============================================================================
