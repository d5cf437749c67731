---------------------------- MODULE MCDiscordRoles ----------------------------
(* Instances of DiscordRoles for TLC: one role in full, or two roles in ordinary times. *)
EXTENDS DiscordRoles, TLC

CONSTANT u1

Untouched(u, k) == reason[u][k] = "none" /\ k \notin has[u] /\ row[u][k] = NoRow
Fresh(u, k) == /\ u \in here /\ stay[u] = 1
               /\ row[u][k].op \in {"none", "add"} /\ given[u][k] # "staff"
OneRole == /\ \A u \in Users : Untouched(u, "member")
           /\ usable \in {{}, {"member"}, Kinds}
Ordinary == /\ ~full /\ resting = {} /\ usable \in {{}, Kinds}
            /\ step \notin {"error", "unread", "down"} /\ answer \in {"none", "applied"}
            /\ \A u \in Users, k \in Kinds : Fresh(u, k)
Small == OneRole \/ Ordinary
===============================================================================
