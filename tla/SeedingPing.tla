------------------------------ MODULE SeedingPing ------------------------------
(***************************************************************************)
(* Staff calls for players and the opt-in Seeder role (seeding.service.ts). *)
(* A call claims the cooldown before it reads anything and gives it back     *)
(* when nothing was posted; its reads and its send may outlast the cooldown.  *)
(* Members press the buttons while staff change the role.                    *)
(***************************************************************************)
EXTENDS Integers, FiniteSets

CONSTANTS Calls,       \* /seeding ping commands
          Presses,     \* presses of the opt-in buttons
          CooldownMs,  \* SEEDING_PING_COOLDOWN_MINUTES
          LastCallTime \* bound: time

ASSUME SeedingAssumption == CooldownMs \in Nat \ {0} /\ LastCallTime \in Nat

VARIABLES
  callTime, \* Date.now()
  claim,    \* cooldowns: [by, until] of the guild, or NoClaim
  calls,    \* [Calls -> [step, at]]; step: new, held, reading, sending, then how it ended
  roleSafe, \* the Seeder role carries no power and is not a staff or earned role
  hasRole,  \* Discord: the member has the role
  presses   \* [Presses -> [step, join]]

seedingVars == <<callTime, claim, calls, roleSafe, hasRole, presses>>

NoClaim == [until |-> 0]

SeedingInit ==
  /\ callTime = 0 /\ claim = NoClaim /\ calls = [c \in Calls |-> [step |-> "new", at |-> 0]]
  /\ roleSafe \in BOOLEAN /\ hasRole \in BOOLEAN
  /\ presses = [p \in Presses |-> [step |-> "new", join |-> FALSE]]

-----------------------------------------------------------------------------
(* ping *)

\* Mutant: the cooldown is read with the staff check and claimed when the message is ready.
ClaimLater(c) == UNCHANGED claim
Claim(c) == claim' = [by |-> c, until |-> callTime + CooldownMs]

\* After the staff check: within a cooldown nothing happens, otherwise it is claimed in the same turn.
StaffPings(c) ==
  /\ calls[c].step = "new"
  /\ IF claim.until > callTime
     THEN calls' = [calls EXCEPT ![c].step = "held"] /\ UNCHANGED claim
     ELSE calls' = [calls EXCEPT ![c] = [step |-> "reading", at |-> callTime]] /\ Claim(c)
  /\ UNCHANGED <<callTime, roleSafe, hasRole, presses>>

\* Mutant: whoever posted nothing frees the cooldown.
ReleasesAny(c) == TRUE
\* Only the claim of this call is given back.
Releases(c) == claim # NoClaim /\ claim.by = c
EndsUnposted(c, step) ==
  /\ calls' = [calls EXCEPT ![c].step = step]
  /\ claim' = IF Releases(c) THEN NoClaim ELSE claim

\* The role is missing or unsafe, the channel cannot be used or notify anyone, or a read failed.
PingChecks(c) ==
  /\ calls[c].step = "reading"
  /\ \/ EndsUnposted(c, "refused")
     \/ roleSafe /\ calls' = [calls EXCEPT ![c].step = "sending"] /\ UNCHANGED claim
  /\ UNCHANGED <<callTime, roleSafe, hasRole, presses>>

\* Discord posts the message (the answer may be lost), or refuses it.
PingSent(c) ==
  /\ calls[c].step = "sending"
  /\ \/ \E answer \in {"posted", "unconfirmed", "lost"} : calls' = [calls EXCEPT ![c].step = answer] /\ UNCHANGED claim
     \/ EndsUnposted(c, "refused")
  /\ UNCHANGED <<callTime, roleSafe, hasRole, presses>>

CallTimePasses == /\ callTime < LastCallTime /\ callTime' = callTime + 1
                  /\ UNCHANGED <<claim, calls, roleSafe, hasRole, presses>>

-----------------------------------------------------------------------------
(* toggle *)

\* Staff change the role's permissions or the roles Gramps gives for other reasons.
RoleSetChanges == roleSafe' = ~roleSafe /\ UNCHANGED <<callTime, claim, calls, hasRole, presses>>

\* The member and the role are read; an unsafe role is never handed out, and
\* joining what one has, or leaving what one has not, changes nothing.
Press(p) == \E join \in BOOLEAN :
  /\ presses[p].step = "new"
  /\ presses' = [presses EXCEPT
                 ![p] = [step |-> IF roleSafe /\ join # hasRole THEN "changing" ELSE "answered", join |-> join]]
  /\ UNCHANGED <<callTime, claim, calls, roleSafe, hasRole>>

\* Discord changes the role, or refuses.
Pressed(p) ==
  /\ presses[p].step = "changing" /\ presses' = [presses EXCEPT ![p].step = "answered"]
  /\ \/ hasRole' = presses[p].join
     \/ UNCHANGED hasRole
  /\ UNCHANGED <<callTime, claim, calls, roleSafe>>

SeedingNext ==
  \/ \E c \in Calls : StaffPings(c) \/ PingChecks(c) \/ PingSent(c)
  \/ CallTimePasses \/ RoleSetChanges
  \/ \E p \in Presses : Press(p) \/ Pressed(p)
SeedingSpec == SeedingInit /\ [][SeedingNext]_seedingVars

-----------------------------------------------------------------------------
(* Properties *)

SeedingTypeOK ==
  /\ callTime \in 0 .. LastCallTime /\ claim.until \in 0 .. LastCallTime + CooldownMs
  /\ \A c \in Calls : calls[c].at \in 0 .. LastCallTime

MayHavePosted(c) == calls[c].step \in {"posted", "unconfirmed"}

\* Members are called once per cooldown: two calls that Discord posted were made the cooldown apart, whatever
\* became of the calls between them.
CallsSpaced ==
  \A c, d \in Calls : (c # d /\ MayHavePosted(c) /\ MayHavePosted(d))
    => calls[c].at - calls[d].at >= CooldownMs \/ calls[d].at - calls[c].at >= CooldownMs
=============================================================================
