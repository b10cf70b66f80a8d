---------------------------- MODULE MemoryRecall ----------------------------
(***************************************************************************)
(* Recall of remembered prompts while the user types (useMemoryRecall):    *)
(* one scope of the hook, personal or global, with its debounce timer, its *)
(* sequence number and the answers of the recall route.                    *)
(*                                                                         *)
(* A token stands for one signed-in session, of whichever account; a new   *)
(* sign-in brings a new token.  Timers and answers are continuations, so   *)
(* they may run between a change of token and the effect on it; a page     *)
(* calls recall after the effects of its render.                           *)
(***************************************************************************)
EXTENDS Naturals, FiniteSets

CONSTANTS
    Queries,    \* queries long enough to recall
    NoQuery,    \* a query that is too short, or cleared; no chips
    MaxTokens,  \* bound: sessions
    MaxCalls    \* bound: recalls under way at a time

RecallAssumption ==
    /\ NoQuery \notin Queries
    /\ MaxTokens \in Nat /\ MaxCalls \in Nat \ {0}

VARIABLES
    token,      \* tokenRef: the session's token, 0 if there is none
    lastToken,  \* the last token handed out
    settled,    \* the effect on the token has run
    query,      \* what recall was called with last
    timer,      \* the debounced recall, none if its query is NoQuery
    calls,      \* recalls under way
    chips,      \* what is shown: the recall it answers, or no chips
    status

session == <<token, lastToken, settled>>
vars == <<session, query, timer, calls, chips, status>>

Recall == [query : Queries \cup {NoQuery}, token : 0..MaxTokens]
Nothing == [query |-> NoQuery, token |-> 0]

(* latest: the sequence number has not moved since. *)
Call == [query : Queries, token : 1..MaxTokens, latest : BOOLEAN]

TypeOK ==
    /\ token \in {0, lastToken} /\ lastToken \in 0..MaxTokens
    /\ settled \in BOOLEAN
    /\ query \in Queries \cup {NoQuery}
    /\ timer \in Recall /\ chips \in Recall
    /\ calls \subseteq Call
    /\ \A c, d \in calls : c.latest /\ d.latest => c = d
    /\ status \in {"idle", "loading", "ready", "empty"}

Init ==
    /\ token = 0 /\ lastToken = 0 /\ settled = TRUE
    /\ query = NoQuery
    /\ timer = Nothing
    /\ calls = {}
    /\ chips = Nothing
    /\ status = "idle"

(* A query that is too short clears the chips; any other starts the timer    *)
(* over and leaves the chips of the last one on show.                        *)
runRecall(q) ==
    /\ settled
    /\ query' = q
    /\ IF token = 0 \/ q = NoQuery
       THEN timer' = Nothing /\ status' = "idle" /\ chips' = Nothing
       ELSE timer' = [query |-> q, token |-> token] /\ status' = "loading" /\ UNCHANGED chips
    /\ UNCHANGED <<session, calls>>

Sent == [query |-> timer.query, token |-> timer.token, latest |-> TRUE]

(* The user has paused.  The recall is sent with the token it was asked      *)
(* under.                                                                    *)
Fire ==
    /\ timer # Nothing
    /\ Cardinality(calls) < MaxCalls
    /\ calls' = {[c EXCEPT !.latest = FALSE] : c \in calls} \cup {Sent}
    /\ timer' = Nothing
    /\ UNCHANGED <<session, query, chips, status>>

fresh(c) == c.latest /\ c.token = token

Shown == IF chips # Nothing THEN "ready" ELSE "empty"

(* Faulty variant of OnFailure: the status is left to the next answer. *)
OnFailure_silent == UNCHANGED <<chips, status>>

(* A failed recall keeps the chips and says what is shown. *)
OnFailure == UNCHANGED chips /\ status' = Shown

OnResults(c) ==
    \/ chips' = [query |-> c.query, token |-> c.token] /\ status' = "ready"
    \/ chips' = Nothing /\ status' = "empty"

Answer(c) ==
    /\ calls' = calls \ {c}
    /\ IF fresh(c) THEN OnResults(c) \/ OnFailure ELSE UNCHANGED <<chips, status>>
    /\ UNCHANGED <<session, query, timer>>

(* Sign-in, or another account. *)
NewToken ==
    /\ settled
    /\ lastToken < MaxTokens
    /\ token' = lastToken + 1 /\ lastToken' = lastToken + 1
    /\ settled' = FALSE
    /\ UNCHANGED <<query, timer, calls, chips, status>>

(* Sign-out, or the token expires. *)
LoseToken ==
    /\ settled
    /\ token # 0
    /\ token' = 0
    /\ settled' = FALSE
    /\ UNCHANGED <<lastToken, query, timer, calls, chips, status>>

(* The timer and the recalls under way are left alone. *)
ClearOnToken ==
    /\ ~settled
    /\ settled' = TRUE
    /\ chips' = Nothing
    /\ status' = "idle"
    /\ UNCHANGED <<token, lastToken, query, timer, calls>>

Typing == \E q \in Queries \cup {NoQuery} : runRecall(q)

Next ==
    \/ Typing
    \/ Fire
    \/ \E c \in calls : Answer(c)
    \/ NewToken \/ LoseToken \/ ClearOnToken

Spec == Init /\ [][Next]_vars

(* Effects and timers run, and a fetch ends.                                 *)
Fairness ==
    /\ WF_vars(ClearOnToken) /\ WF_vars(Fire)
    /\ WF_vars(\E c \in calls : Answer(c))

FairSpec == Spec /\ Fairness

-----------------------------------------------------------------------------
(* Properties.                                                               *)

(* One user's recalled prompts never leak into the next account's view:      *)
(* chips were recalled under the token the page has, however timers, answers *)
(* and changes of account interleave.                                        *)
ChipsAreOwn == settled /\ chips # Nothing => chips.token = token

(* Once the user stops typing, recalling ends, whatever becomes of the token *)
(* and the answers ("settle status to what's shown, never stuck").           *)
LoadingEnds == <>[][~Typing]_vars => (status = "loading" ~> status # "loading")

=============================================================================
