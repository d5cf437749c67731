------------------------------- MODULE Applying -------------------------------
(***************************************************************************)
(* Applying for the whitelist on the public website: signing in with        *)
(* Discord, a session kept in the browser alone, and submissions that ask   *)
(* Discord again before they are recorded (applicant.auth.ts, submit and me *)
(* of applications.service.ts). It is about one game server.                *)
(***************************************************************************)
EXTENDS Integers, FiniteSets

CONSTANTS Browsers, Applicants, ApplicantSteams,
          FlowFor,     \* OAUTH_MS
          SessionFor,  \* SESSION_MS
          CountFor,    \* how long submissions are counted: one hour
          TryLimit,    \* submissions counted before they are refused
          MaxTracked,  \* accounts whose submissions are counted at a time
          MaxSignIns,  \* bound: sign-ins
          LastInstant  \* bound: the time

ASSUME ApplyingAssumption ==
  {FlowFor, SessionFor, CountFor, TryLimit, MaxTracked, MaxSignIns, LastInstant} \subseteq Nat

VARIABLES
  now,
  member,     \* Discord: [Applicants -> "in", "screening" or "out"]
  signIns,    \* bound, and the nonce of the last sign-in
  oauth,      \* the oauth cookie: [Browsers -> nonce and time, or NoOauth]
  returns,    \* the ways back from Discord: [nonce, account, began]; the code is spent by the first
  callback,   \* [Browsers -> the account whose code it exchanged and whose membership it asks, or NoRequest]
  session,    \* the session cookie: [Browsers -> account, issued and expiry, or NoSession]
  request,    \* [Browsers -> a submission that asks Discord, or is answered, or NoRequest]
  counts,     \* submissions: [Applicants -> until and count, or NoCount]
  rows,       \* whitelist_applications: [account, steam]
  restarted,  \* bound: the process restarts once
  behind,     \* history: [Browsers -> the browser that began the sign-in of its session]
  seen        \* history: [Browsers -> its account was a member since the submission was sent]

applyingVars == <<now, member, signIns, oauth, returns, callback, session, request, counts, rows,
                  restarted, behind, seen>>

NoOauth == [nonce |-> 0, at |-> 0]
NoSession == [account |-> "none"]
NoCount == [until |-> 0, count |-> 0]
NoRequest == [at |-> "idle"]

ApplyingInit ==
  /\ now = 0 /\ member \in [Applicants -> {"in", "screening"}] /\ signIns = 0
  /\ oauth = [b \in Browsers |-> NoOauth] /\ returns = {} /\ callback = [b \in Browsers |-> NoRequest]
  /\ session = [b \in Browsers |-> NoSession] /\ request = [b \in Browsers |-> NoRequest]
  /\ counts = [a \in Applicants |-> NoCount] /\ rows = {} /\ restarted = FALSE
  /\ behind = [b \in Browsers |-> b] /\ seen = [b \in Browsers |-> FALSE]

-----------------------------------------------------------------------------
(* Signing in *)

\* login: a new nonce replaces the browser's; whoever is signed in at Discord there agrees.
Login(b, account) ==
  /\ signIns < MaxSignIns /\ signIns' = signIns + 1
  /\ oauth' = [oauth EXCEPT ![b] = [nonce |-> signIns + 1, at |-> now]]
  /\ returns' = returns \cup {[nonce |-> signIns + 1, account |-> account, began |-> b]}
  /\ UNCHANGED <<now, member, callback, session, request, counts, rows, restarted, behind, seen>>

\* Mutant: the state of the return is not compared with the cookie.
AnyState(b, back) == TRUE
OwnState(b, back) == oauth[b].nonce = back.nonce
InTime(b) == oauth[b] # NoOauth /\ now - oauth[b].at <= FlowFor

\* callback: the cookie is used up whatever comes of it; then the code is exchanged and membership asked.
Return(b, back) ==
  /\ callback[b] = NoRequest /\ oauth' = [oauth EXCEPT ![b] = NoOauth]
  /\ IF InTime(b) /\ OwnState(b, back)
     THEN /\ callback' = [callback EXCEPT ![b] = [at |-> "asking", account |-> back.account, began |-> back.began]]
          /\ returns' = returns \ {back}
     ELSE UNCHANGED <<callback, returns>>
  /\ UNCHANGED <<now, member, signIns, session, request, counts, rows, restarted, behind, seen>>
SignedIn(b) ==
  /\ callback[b] # NoRequest /\ callback' = [callback EXCEPT ![b] = NoRequest]
  /\ \/ /\ member[callback[b].account] = "in"
        /\ session' = [session EXCEPT ![b] =
             [account |-> callback[b].account, issued |-> now, until |-> now + SessionFor]]
        /\ behind' = [behind EXCEPT ![b] = callback[b].began]
     \/ UNCHANGED <<session, behind>>  \* not a member, or Discord does not answer
  /\ UNCHANGED <<now, member, signIns, oauth, returns, request, counts, rows, restarted, seen>>
Logout(b) ==
  /\ session[b] # NoSession /\ session' = [session EXCEPT ![b] = NoSession] /\ oauth' = [oauth EXCEPT ![b] = NoOauth]
  /\ UNCHANGED <<now, member, signIns, returns, callback, request, counts, rows, restarted, behind, seen>>

-----------------------------------------------------------------------------
(* Submitting *)

ValidSession(b) == session[b] # NoSession /\ now < session[b].until

\* authenticate: the session of the cookie sent, then membership, asked of Discord again.
Submit(b, steam) ==
  /\ ValidSession(b) /\ request[b].at # "asking"
  /\ request' = [request EXCEPT ![b] = [at |-> "asking", account |-> session[b].account, steam |-> steam]]
  /\ seen' = [seen EXCEPT ![b] = member[session[b].account] = "in"]
  /\ UNCHANGED <<now, member, signIns, oauth, returns, callback, session, counts, rows, restarted, behind>>
PageRefused(b) ==
  /\ request[b].at = "asking" /\ request' = [request EXCEPT ![b] = NoRequest]
  /\ UNCHANGED <<now, member, signIns, oauth, returns, callback, session, counts, rows, restarted, behind, seen>>

\* Counts that ended are dropped before a new one is made, if there is room; counts beyond the limit are alike.
CurrentCounts == [a \in Applicants |-> IF counts[a].until <= now THEN NoCount ELSE counts[a]]
Tracked == {a \in Applicants : CurrentCounts[a] # NoCount}
Counted(a) ==
  IF a \in Tracked THEN [CurrentCounts EXCEPT ![a].count = IF @ > TryLimit THEN @ ELSE @ + 1]
  ELSE IF Cardinality(Tracked) < MaxTracked THEN [CurrentCounts EXCEPT ![a] = [until |-> now + CountFor, count |-> 1]]
  ELSE CurrentCounts
LetIn(a) == Counted(a)[a] # NoCount /\ Counted(a)[a].count <= TryLimit

\* create: nothing, when the account or the SteamID has a row.
Taken(account, steam) == \E row \in rows : row.account = account \/ row.steam = steam

\* submit, once Discord has said that the account is a member: the count, then the row.
CreateSession(b) ==
  LET account == request[b].account IN
  /\ request[b].at = "asking" /\ seen[b]
  /\ counts' = Counted(account)
  /\ rows' = IF ~LetIn(account) \/ Taken(account, request[b].steam) THEN rows
             ELSE rows \cup {[account |-> account, steam |-> request[b].steam]}
  /\ request' = [request EXCEPT ![b] =
       [at |-> IF rows' # rows THEN "received" ELSE "refused", account |-> account, steam |-> request[b].steam]]
  /\ UNCHANGED <<now, member, signIns, oauth, returns, callback, session, restarted, behind, seen>>

-----------------------------------------------------------------------------
MemberChanges(a) ==
  /\ \E m \in {"in", "out"} \ {member[a]} :
       /\ member' = [member EXCEPT ![a] = m]
       /\ seen' = [b \in Browsers |-> seen[b] \/ (request[b].at = "asking" /\ request[b].account = a /\ m = "in")]
  /\ UNCHANGED <<now, signIns, oauth, returns, callback, session, request, counts, rows, restarted, behind>>
Elapse ==
  /\ now < LastInstant /\ now' = now + 1
  /\ UNCHANGED <<member, signIns, oauth, returns, callback, session, request, counts, rows, restarted, behind, seen>>
\* The counts and what was under way are gone; cookies and rows stay.
ProcessRestarts ==
  /\ ~restarted /\ restarted' = TRUE /\ counts' = [a \in Applicants |-> NoCount]
  /\ callback' = [b \in Browsers |-> NoRequest] /\ request' = [b \in Browsers |-> NoRequest]
  /\ UNCHANGED <<now, member, signIns, oauth, returns, session, rows, behind, seen>>

ApplyingNext ==
  \/ \E b \in Browsers :
       \/ SignedIn(b) \/ Logout(b) \/ PageRefused(b) \/ CreateSession(b) \/ \E s \in ApplicantSteams : Submit(b, s)
       \/ \E a \in Applicants : Login(b, a)
       \/ \E back \in returns : Return(b, back)
  \/ \E a \in Applicants : MemberChanges(a)
  \/ Elapse \/ ProcessRestarts

-----------------------------------------------------------------------------
(* Properties *)

ApplyingTypeOK ==
  /\ member \in [Applicants -> {"in", "screening", "out"}] /\ signIns \in 0 .. MaxSignIns /\ now \in 0 .. LastInstant
  /\ rows \subseteq [account : Applicants, steam : ApplicantSteams]
  /\ \A b \in Browsers : session[b] # NoSession => session[b].account \in Applicants

\* A browser is signed in by a sign-in that the same browser began, whatever order the ways back from
\* Discord take, and no longer than a session lasts.
OwnSignIn ==
  \A b \in Browsers : session[b] # NoSession =>
    behind[b] = b /\ session[b].issued <= now /\ session[b].until = session[b].issued + SessionFor

\* One application for each account and each SteamID, however requests overlap; whoever is told that it
\* was received has it.
OnePerPerson ==
  /\ \A r, s \in rows : r.account = s.account \/ r.steam = s.steam => r = s
  /\ \A b \in Browsers : request[b].at = "received" =>
       [account |-> request[b].account, steam |-> request[b].steam] \in rows

\* What a browser is signed in as, and what is recorded for it, is its own.
ApplicantsTrue == OwnSignIn /\ OnePerPerson
=============================================================================
