------------------------------ MODULE LinkPatreon ------------------------------
(***************************************************************************)
(* The "Link Patreon" sign-in: a ticket from Discord, a Discord leg that    *)
(* must be the same account, then a Patreon leg whose code is exchanged     *)
(* once (patron-link.state.ts, patron-link.service.ts). Everything is in     *)
(* memory. Requests arrive with any cookie, state and code, twice or late.   *)
(***************************************************************************)
EXTENDS Integers, Sequences

CONSTANTS Visitors,    \* Discord accounts
          Flows,       \* bound: sign-ins
          Codes,       \* bound: Patreon codes
          CodeLife,    \* how long Patreon takes a code
          RefusedFor,  \* PATRON_LINK_REFUSED_CODE_MS
          MaxRefused,  \* PATRON_LINK_MAX_REFUSED_CODES
          StageLength, \* PATRON_LINK_STAGE_MS
          FlowLength,  \* PATRON_LINK_FLOW_MS
          MaxCalls,    \* bound: Discord exchanges of a flow at once
          LastMoment   \* bound: time

ASSUME LinkPatreonAssumption ==
  /\ {CodeLife, RefusedFor, MaxRefused, StageLength, FlowLength, MaxCalls} \subseteq Nat \ {0}
  /\ LastMoment \in Nat /\ CodeLife <= RefusedFor

VARIABLES
  moment,     \* time
  ticket,     \* tickets: accounts with an unspent one -> when it expires, 0 for none
  flow,       \* [Flows -> the sign-in, or NoFlow]
  calls,      \* [Flows -> Discord exchanges under way, on behalf of its account]
  refused,    \* refusedCodes: a sequence of [code, until], in expiry order
  fullUntil,  \* refusedCodesFullUntil
  born,       \* [Codes -> when Patreon issued it, or Unborn]
  strayed,    \* codes that arrived without their sign-in since the process started
  used,       \* [Codes -> the flows that exchanged it while Patreon took it]
  verified    \* flows whose account signed in to Discord

linkVars == <<moment, ticket, flow, calls, refused, fullUntil, born, strayed, used, verified>>

Unborn == 0 - 1
Spent == 0 - 2
NoFlow == [stage |-> "none"]
Unstarted(f) == flow[f].stage = "none" /\ f \notin verified /\ calls[f] = 0 /\ \A c \in Codes : f \notin used[c]

LinkInit ==
  /\ moment = 0 /\ ticket = [a \in Visitors |-> 0]
  /\ flow = [f \in Flows |-> NoFlow] /\ calls = [f \in Flows |-> 0]
  /\ refused = <<>> /\ fullUntil = 0
  /\ born = [c \in Codes |-> Unborn] /\ strayed = {}
  /\ used = [c \in Codes |-> {}] /\ verified = {}

Expired(s) == moment >= s.stageEnd \/ moment >= s.flowEnd
Pruned == [f \in Flows |-> IF flow[f].stage # "none" /\ Expired(flow[f]) THEN NoFlow ELSE flow[f]]
Earlier(a, b) == IF a < b THEN a ELSE b

-----------------------------------------------------------------------------
(* Discord: a ticket, the start page, and the first leg *)

\* issueTicket. A limit may refuse it; a second ticket of the account is as good as the first.
Request(a) ==
  /\ ticket' = [ticket EXCEPT ![a] = moment + StageLength]
  /\ flow' = Pruned
  /\ UNCHANGED <<moment, calls, refused, fullUntil, born, strayed, used, verified>>

\* start: takeTicket and startFlow, which may be refused after the ticket is spent.
Start(f, a) ==
  /\ ticket[a] # 0 /\ Unstarted(f)
  /\ ticket' = [ticket EXCEPT ![a] = 0]
  /\ \E busy \in BOOLEAN :
       flow' = IF moment < ticket[a] /\ ~busy
               THEN [Pruned EXCEPT ![f] = [stage |-> "discord", account |-> a, prompt |-> TRUE,
                                           stageEnd |-> moment + StageLength, flowEnd |-> moment + FlowLength]]
               ELSE IF moment < ticket[a] THEN Pruned ELSE flow
  /\ UNCHANGED <<moment, calls, refused, fullUntil, born, strayed, used, verified>>

\* holds and claim: the leg, its state and its time; anything else ends the flow.
Holds(f, stage, right) == flow[f].stage = stage /\ ~Expired(flow[f]) /\ right
Without(f) == [flow EXCEPT ![f] = NoFlow]

\* discordCallback up to its call: the state may be wrong, Discord may report an error, or a code is exchanged.
DiscordReturn(f) ==
  \E right \in BOOLEAN, answer \in {"code", "denied", "error", "nothing"} :
    /\ flow[f].stage # "none"
    /\ LET claimed == Holds(f, "discord", right) IN
       /\ flow' = IF ~claimed \/ answer \in {"denied", "nothing"} THEN Without(f)
                  ELSE IF answer = "code" THEN flow
                  ELSE IF flow[f].prompt THEN [flow EXCEPT ![f].prompt = FALSE]
                  ELSE Without(f)
       /\ (claimed /\ answer = "code") => calls[f] < MaxCalls
       /\ calls' = IF claimed /\ answer = "code" THEN [calls EXCEPT ![f] = @ + 1] ELSE calls
    /\ UNCHANGED <<moment, ticket, refused, fullUntil, born, strayed, used, verified>>

\* Discord answered: another account, a failure or the leg limit end the flow; advance finds it ended meanwhile.
DiscordAnswer(f) ==
  \E same \in BOOLEAN, limited \in BOOLEAN :
    /\ calls[f] > 0
    /\ calls' = [calls EXCEPT ![f] = @ - 1]
    /\ verified' = IF same THEN verified \cup {f} ELSE verified
    /\ flow' = IF flow[f].stage = "none" THEN flow
               ELSE IF same /\ ~limited
               THEN [flow EXCEPT ![f].stage = "patreon",
                                 ![f].stageEnd = Earlier(moment + StageLength, flow[f].flowEnd)]
               ELSE Without(f)
    /\ UNCHANGED <<moment, ticket, refused, fullUntil, born, strayed, used>>

-----------------------------------------------------------------------------
(* Patreon: codes, and the second leg *)

Alive(c) == born[c] >= 0 /\ moment < born[c] + CodeLife /\ used[c] = {}
Issue(c) ==
  /\ born[c] = Unborn /\ born' = [born EXCEPT ![c] = moment]
  /\ UNCHANGED <<moment, ticket, flow, calls, refused, fullUntil, strayed, used, verified>>

\* forgetRefusedCodes: from the oldest on, up to the first that has time left.
Forgotten == CHOOSE n \in 0 .. Len(refused) :
               /\ \A i \in 1 .. n : refused[i].until <= moment
               /\ n < Len(refused) => moment < refused[n + 1].until
Remembered == SubSeq(refused, Forgotten + 1, Len(refused))
Listed(c) == {i \in 1 .. Len(Remembered) : Remembered[i].code = c}
WithoutAt(rows, i) == SubSeq(rows, 1, i - 1) \o SubSeq(rows, i + 1, Len(rows))
\* A code is listed at most once.
Others(c) == IF Listed(c) = {} THEN Remembered
             ELSE WithoutAt(Remembered, CHOOSE i \in Listed(c) : TRUE)
Full(c) == Len(Others(c)) >= MaxRefused
\* Mutant: nothing tells that a code was dropped.
DropForgotten(c) == fullUntil
\* refuseCode: the oldest is dropped when the list is full, and until it expires no code is used.
DropCloses(c) == IF Full(c) /\ Others(c)[1].until > fullUntil THEN Others(c)[1].until ELSE fullUntil
\* Mutant: the list is bounded after the code was added.
KeepsAll(c) == IF Len(Others(c)) > MaxRefused THEN Tail(Others(c)) ELSE Others(c)
Keeps(c) == IF Full(c) THEN Tail(Others(c)) ELSE Others(c)
KeepsRefused(c) == Append(Keeps(c), [code |-> c, until |-> moment + RefusedFor])

\* codeCheck
MayExchange(c) == Listed(c) = {} /\ moment >= fullUntil

\* Mutant: the flow lives until Patreon has answered.
EndsLater(f, exchange) == IF exchange THEN flow ELSE Without(f)
Ends(f, exchange) == Without(f)

\* A code that arrives without its sign-in, screened before any limit; a flow whose claim fails ends, and
\* the code may be spent at Patreon.
Stray(f, c) ==
  \E right \in BOOLEAN, turnedAway \in BOOLEAN, burned \in BOOLEAN :
    /\ born[c] # Unborn /\ ~Holds(f, "patreon", right)
    /\ refused' = KeepsRefused(c) /\ fullUntil' = DropCloses(c)
    /\ strayed' = strayed \cup {c}
    /\ flow' = IF turnedAway THEN flow ELSE Without(f)
    /\ burned => ~turnedAway /\ Alive(c)
    /\ born' = IF burned THEN [born EXCEPT ![c] = Spent] ELSE born
    /\ UNCHANGED <<moment, ticket, calls, used, verified>>

\* patreonCallback of the sign-in: the flow ends, then its code is checked and exchanged.
PatreonReturn(f) ==
  /\ Holds(f, "patreon", TRUE)
  /\ \E c \in Codes :
       /\ born[c] # Unborn
       /\ refused' = Remembered
       /\ used' = IF MayExchange(c) /\ Alive(c) THEN [used EXCEPT ![c] = @ \cup {f}] ELSE used
       /\ flow' = Ends(f, MayExchange(c))
  /\ UNCHANGED <<moment, ticket, calls, fullUntil, born, strayed, verified>>

\* It declined, failed, or came back without a code.
PatreonDeclined(f) ==
  /\ flow[f].stage # "none" /\ flow' = Without(f)
  /\ UNCHANGED <<moment, ticket, calls, refused, fullUntil, born, strayed, used, verified>>

-----------------------------------------------------------------------------
Passes ==
  /\ moment < LastMoment /\ moment' = moment + 1
  /\ UNCHANGED <<ticket, flow, calls, refused, fullUntil, born, strayed, used, verified>>

\* A restart forgets everything; what Patreon has taken stays taken.
Restarts ==
  /\ ticket' = [a \in Visitors |-> 0] /\ flow' = [f \in Flows |-> NoFlow] /\ calls' = [f \in Flows |-> 0]
  /\ refused' = <<>> /\ fullUntil' = 0 /\ strayed' = {}
  /\ UNCHANGED <<moment, born, used, verified>>

LinkNext ==
  \/ Passes \/ Restarts
  \/ \E a \in Visitors : Request(a)
  \/ \E f \in Flows, a \in Visitors : Start(f, a)
  \/ \E f \in Flows : DiscordReturn(f) \/ DiscordAnswer(f) \/ PatreonReturn(f) \/ PatreonDeclined(f)
  \/ \E c \in Codes : Issue(c)
  \/ \E f \in Flows, c \in Codes : Stray(f, c)
LinkSpec == LinkInit /\ [][LinkNext]_linkVars

-----------------------------------------------------------------------------
(* Properties *)

LinkTypeOK ==
  /\ moment \in 0 .. LastMoment /\ strayed \subseteq Codes /\ verified \subseteq Flows
  /\ Len(refused) <= MaxRefused
  /\ \A f \in Flows : flow[f].stage \in {"none", "discord", "patreon"} /\ calls[f] \in 0 .. MaxCalls

\* A Patreon code that once arrived without its sign-in is never exchanged by this process while Patreon
\* still takes it, not even after the bounded list of refused codes has dropped it.
RefusedNeverUsed == [][\A c \in strayed : used'[c] = used[c]]_linkVars

\* A sign-in exchanges at most one code, and only after the account that asked for it signed in to
\* Discord, however often its redirects are replayed or overtake each other.
FlowLinksOnce ==
  \A f \in Flows :
    LET exchanged == {c \in Codes : f \in used[c]} IN
    /\ \A c, d \in exchanged : c = d
    /\ exchanged # {} => f \in verified

\* A Patreon account is linked by the sign-in that asked for it, and by no other.
LinkedOnce == RefusedNeverUsed /\ []FlowLinksOnce
=============================================================================
