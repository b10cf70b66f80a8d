---------------------------- MODULE GeminiQuota ----------------------------
(***************************************************************************)
(* The Gemini budget one capability (copilot or caption) shares between    *)
(* all users: a gate before the model call, two daily counters and the     *)
(* cooldown a 429 sets, kept in the quota store's database.                *)
(*                                                                         *)
(* A turn is a request that passed the gate, until its model call ends:    *)
(* withTimeout answers the client early and leaves the call running, so a  *)
(* turn that timed out still counts or cools down later.  What the client  *)
(* is told is left to module Copilot.  A request that the gate, the token  *)
(* or the rate limit refuses changes nothing here.  When a cooldown ends   *)
(* and when the UTC day turns is left to chance.                           *)
(***************************************************************************)
EXTENDS Naturals, FiniteSets, FiniteSetsExt

CONSTANTS
    Users,          \* addresses
    NoUser,         \* the user of a free slot
    Slots,          \* model calls the backend has under way at a time
    Budget,         \* GEMINI_DAILY_BUDGET
    PerAddressCap   \* GEMINI_PER_ADDRESS_DAILY

ASSUME QuotaAssumption ==
    /\ IsFiniteSet(Users) /\ IsFiniteSet(Slots)
    /\ NoUser \notin Users
    /\ {Budget, PerAddressCap} \subseteq Nat \ {0}

VARIABLES
    turns,      \* per slot: whose turn awaits the model
    cooldown,   \* cooldown_until lies in the future
    count,      \* today's model calls, all users
    attempts    \* today's turns of each address

quotaVars == <<cooldown, count, attempts>>
vars == <<turns, quotaVars>>

TypeOK ==
    /\ turns \in [Slots -> Users \cup {NoUser}]
    /\ cooldown \in BOOLEAN
    /\ count \in Nat
    /\ attempts \in [Users -> Nat]

Init ==
    /\ turns = [s \in Slots |-> NoUser]
    /\ cooldown = FALSE
    /\ count = 0
    /\ attempts = [u \in Users |-> 0]

(* The model calls under way. *)
Running == {s \in Slots : turns[s] # NoUser}

(* Faulty variant of checkBudget: one call past the budget. *)
checkBudget_late(u) == ~cooldown /\ count <= Budget /\ attempts[u] < PerAddressCap

checkBudget(u) == ~cooldown /\ count < Budget /\ attempts[u] < PerAddressCap

(* The gate and the record of the attempt run without an await in between.   *)
Admit(s, u) ==
    /\ turns[s] = NoUser
    /\ checkBudget(u)
    /\ turns' = [turns EXCEPT ![s] = u]
    /\ attempts' = [attempts EXCEPT ![u] = @ + 1]
    /\ UNCHANGED <<cooldown, count>>

(* The model call of slot s is over. *)
Ended(s) ==
    /\ s \in Running
    /\ turns' = [turns EXCEPT ![s] = NoUser]

(* recordSuccess: a call that is answered counts, also with an empty text.   *)
(* A remaining:0 header starts a cooldown.                                   *)
ModelAnswers(s) ==
    /\ Ended(s)
    /\ count' = count + 1
    /\ cooldown' \in {cooldown, TRUE}
    /\ UNCHANGED attempts

(* recordRateLimited *)
ModelLimits(s) ==
    /\ Ended(s)
    /\ cooldown' = TRUE
    /\ UNCHANGED <<count, attempts>>

(* Any other failure records nothing. *)
ModelFails(s) ==
    /\ Ended(s)
    /\ UNCHANGED quotaVars

CooldownEnds ==
    /\ cooldown
    /\ cooldown' = FALSE
    /\ UNCHANGED <<turns, count, attempts>>

(* Faulty variant of Midnight: only the operator's counter has a day.        *)
Midnight_global ==
    /\ count' = 0
    /\ UNCHANGED <<turns, cooldown, attempts>>

(* Faulty variant of Midnight: the day's budget is given back.               *)
Midnight_refunding ==
    /\ count' = count - Budget
    /\ attempts' = [u \in Users |-> 0]
    /\ UNCHANGED <<turns, cooldown>>

(* The counters are keyed by the UTC day. *)
Midnight ==
    /\ count' = 0
    /\ attempts' = [u \in Users |-> 0]
    /\ UNCHANGED <<turns, cooldown>>

(* The turns die with the process; the store is on disk. *)
Restart ==
    /\ turns' = [s \in Slots |-> NoUser]
    /\ UNCHANGED quotaVars

ModelEnds(s) == ModelAnswers(s) \/ ModelLimits(s) \/ ModelFails(s)

Next ==
    \/ \E s \in Slots : (\E u \in Users : Admit(s, u)) \/ ModelEnds(s)
    \/ CooldownEnds \/ Midnight \/ Restart

Spec == Init /\ [][Next]_vars

(* Time passes. *)
FairSpec == Spec /\ WF_vars(CooldownEnds) /\ WF_vars(Midnight)

-----------------------------------------------------------------------------
(* Properties.                                                               *)

(* The operator's budget is checked before the model call and counted after  *)
(* it.  It is overshot by the turns under way when it runs out and no more,  *)
(* also when they outlive their timeout or the day.                          *)
OvershootBounded == count + Cardinality(Running) <= Budget + Cardinality(Slots) - 1

(* Auto-recovery: no user is shut out for ever, neither by the cooldowns and *)
(* the calls of the others nor by what they used up themselves.              *)
BudgetReopens == \A u \in Users : []<>checkBudget(u)

=============================================================================
