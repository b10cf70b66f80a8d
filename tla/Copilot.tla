------------------------------- MODULE Copilot -------------------------------
(***************************************************************************)
(* The prompt copilot's conversation: the page's hook (useRiffCopilot)     *)
(* and the turn route, which keeps no conversation of its own and trusts   *)
(* the messages it is sent.                                                *)
(*                                                                         *)
(* One page, used by one account after the other.  What a message says is  *)
(* left out; a message keeps who it belongs to and what it answers.  The   *)
(* budget behind the route is module GeminiQuota: here any turn may be     *)
(* refused.  A turn's answer and the page's continuation are one step.     *)
(***************************************************************************)
EXTENDS Naturals, Sequences, FiniteSets

CONSTANTS
    Users,        \* accounts
    NoUser,       \* nobody signed in
    MaxTurns,     \* MAX_TURNS
    MaxMessages,  \* bound: messages in the page's conversation
    MaxCalls      \* bound: turns under way at a time

ASSUME CopilotAssumption ==
    /\ NoUser \notin Users
    /\ {MaxTurns, MaxCalls} \subseteq Nat \ {0}
    /\ MaxMessages \in Nat

VARIABLES
    account,    \* whose token the page has
    settled,    \* the effect on the token has run
    messages,   \* the conversation on the page
    status,
    inFlight,
    finished,
    lastArgs,   \* what retry() sends again
    calls       \* turns under way

session == <<account, settled>>
vars == <<session, messages, status, inFlight, finished, lastArgs, calls>>

(* answers is the number of messages a reply was generated from; dropped     *)
(* says that the conversation it was for had been discarded by then.         *)
Message == [role : {"user", "assistant"}, author : Users, answers : Nat, dropped : BOOLEAN]

NoArgs == [messages |-> <<>>, force |-> FALSE]

(* latest: no later turn, reset or account change has moved the sequence     *)
(* number since.                                                             *)
Call == [user : Users, messages : Seq(Message), force : BOOLEAN, latest : BOOLEAN,
         dropped : BOOLEAN]

TypeOK ==
    /\ account \in Users \cup {NoUser}
    /\ settled \in BOOLEAN
    /\ messages \in Seq(Message)
    /\ status \in {"idle", "thinking", "asking", "done", "error", "quota", "unavailable"}
    /\ inFlight \in BOOLEAN /\ finished \in BOOLEAN
    /\ lastArgs.messages \in Seq(Message) /\ lastArgs.force \in BOOLEAN
    /\ calls \subseteq Call
    /\ inFlight = \E c \in calls : c.latest

Init ==
    /\ account = NoUser
    /\ settled = TRUE
    /\ messages = <<>>
    /\ status = "idle"
    /\ inFlight = FALSE
    /\ finished = FALSE
    /\ lastArgs = NoArgs
    /\ calls = {}

-----------------------------------------------------------------------------
(* The page.                                                                 *)

Turn(next, force) ==
    [user |-> account, messages |-> next, force |-> force, latest |-> TRUE, dropped |-> FALSE]

(* Advancing the sequence number leaves every earlier turn behind; dropping  *)
(* the conversation also makes its turns nobody's.                           *)
Superseded == {[c EXCEPT !.latest = FALSE] : c \in calls}
Dropped == {[c EXCEPT !.latest = FALSE, !.dropped = TRUE] : c \in calls}

(* A click finds the effects of the last render done. *)
drive(next, force) ==
    /\ account # NoUser /\ settled
    /\ Cardinality(calls) < MaxCalls
    /\ lastArgs' = [messages |-> next, force |-> force]
    /\ inFlight' = TRUE
    /\ messages' = next
    /\ status' = "thinking"
    /\ calls' = Superseded \cup {Turn(next, force)}
    /\ UNCHANGED <<session, finished>>

(* The panel offers the input while idle or asking. *)
Open == ~inFlight /\ ~finished /\ status \in {"idle", "asking"}

sendAnswer ==
    /\ Open
    /\ Len(messages) < MaxMessages
    /\ drive(Append(messages, [role |-> "user", author |-> account, answers |-> 0,
                               dropped |-> FALSE]), FALSE)

generateNow ==
    /\ Open
    /\ messages # <<>>
    /\ drive(messages, TRUE)

(* Faulty variant of retry: offered whenever there is something to repeat. *)
retry_anytime ==
    /\ ~inFlight
    /\ lastArgs # NoArgs
    /\ drive(lastArgs.messages, lastArgs.force)

(* The panel offers it after an error only. *)
retry ==
    /\ status = "error"
    /\ ~inFlight
    /\ lastArgs # NoArgs
    /\ drive(lastArgs.messages, lastArgs.force)

(* Faulty variant of reset: the sequence number stays. *)
reset_keeping_seq ==
    /\ calls' = {[c EXCEPT !.dropped = TRUE] : c \in calls}
    /\ inFlight' = FALSE
    /\ finished' = FALSE
    /\ lastArgs' = NoArgs
    /\ messages' = <<>>
    /\ status' = "idle"
    /\ UNCHANGED session

reset ==
    /\ calls' = Dropped
    /\ inFlight' = FALSE
    /\ finished' = FALSE
    /\ lastArgs' = NoArgs
    /\ messages' = <<>>
    /\ status' = "idle"
    /\ UNCHANGED session

(* Sign-in, sign-out, expiry or account switch: the ref has the new token at *)
(* once, the state is cleared by an effect, before the next render.          *)
SwitchAccount(u) ==
    /\ settled
    /\ u # account
    /\ account' = u
    /\ settled' = FALSE
    /\ UNCHANGED <<messages, status, inFlight, finished, lastArgs, calls>>

(* Faulty variant of ClearOnToken: turns under way still count as current.   *)
ClearOnToken_keeping_inFlight ==
    /\ ~settled
    /\ settled' = TRUE
    /\ calls' = Dropped
    /\ finished' = FALSE
    /\ messages' = <<>>
    /\ status' = "idle"
    /\ UNCHANGED <<account, lastArgs, inFlight>>

(* What to retry is not cleared here. *)
ClearOnToken ==
    /\ ~settled
    /\ settled' = TRUE
    /\ calls' = Dropped
    /\ inFlight' = FALSE
    /\ finished' = FALSE
    /\ messages' = <<>>
    /\ status' = "idle"
    /\ UNCHANGED <<account, lastArgs>>

(* The timer set for retryAfterMs. *)
QuotaTimer ==
    /\ status = "quota"
    /\ status' = "idle"
    /\ UNCHANGED <<session, messages, inFlight, finished, lastArgs, calls>>

-----------------------------------------------------------------------------
(* The route.                                                                *)

TurnLimit == 2 * MaxTurns + 1

(* The assistant messages the client sent count as turns taken. *)
deriveTurnIndex(sent) == Len(SelectSeq(sent, LAMBDA m : m.role = "assistant"))

Synthesizes(c) == c.force \/ deriveTurnIndex(c.messages) >= MaxTurns - 1

(* The answers of the route: an error (no token, rate limit, length check,   *)
(* failed model call), and for a conversation that is short enough no key,   *)
(* no budget, or the model's text.                                           *)
Replies(c) ==
    {"error"} \cup IF Len(c.messages) > TurnLimit THEN {}
                   ELSE {"unavailable", "quota", IF Synthesizes(c) THEN "prompt" ELSE "question"}

-----------------------------------------------------------------------------
(* The continuation of a turn on the page.                                   *)

Assistant(c) == [role |-> "assistant", author |-> c.user, answers |-> Len(c.messages),
                 dropped |-> c.dropped]

Settle(c, reply) ==
    /\ status' = CASE reply = "prompt" -> "done" [] reply = "question" -> "asking"
                   [] OTHER -> reply
    /\ messages' = IF reply \in {"question", "prompt"} THEN Append(c.messages, Assistant(c))
                   ELSE messages
    /\ finished' = (finished \/ reply = "prompt")

(* The answer arrives.  One that is not the latest, or is for another token, *)
(* is dropped; the latter still ends inFlight.                               *)
Answer(c) ==
    /\ \E reply \in Replies(c) :
           IF c.latest /\ c.user = account
           THEN Settle(c, reply)
           ELSE UNCHANGED <<messages, status, finished>>
    /\ inFlight' = (inFlight /\ ~c.latest)
    /\ calls' = calls \ {c}
    /\ UNCHANGED <<session, lastArgs>>

(* The fetch throws; only the sequence number is checked. *)
Lose(c) ==
    /\ status' = IF c.latest THEN "error" ELSE status
    /\ inFlight' = (inFlight /\ ~c.latest)
    /\ calls' = calls \ {c}
    /\ UNCHANGED <<session, messages, finished, lastArgs>>

-----------------------------------------------------------------------------
Click == sendAnswer \/ generateNow \/ retry \/ reset

Next ==
    \/ Click \/ ClearOnToken \/ QuotaTimer
    \/ \E u \in Users \cup {NoUser} : SwitchAccount(u)
    \/ \E c \in calls : Answer(c) \/ Lose(c)

Spec == Init /\ [][Next]_vars

(* React runs its effects, and a fetch ends. *)
Fairness ==
    /\ WF_vars(ClearOnToken)
    /\ WF_vars(\E c \in calls : Answer(c) \/ Lose(c))

FairSpec == Spec /\ Fairness

-----------------------------------------------------------------------------
(* Properties.                                                               *)

(* A reply stands where it belongs (the seq guard of useRiffCopilot): every  *)
(* copilot message was generated from exactly the messages above it, never   *)
(* for a conversation that was reset or abandoned in the meantime.           *)
RepliesBelong ==
    \A i \in DOMAIN messages :
        messages[i].role = "assistant" => messages[i].answers = i - 1 /\ ~messages[i].dropped

(* "One user's conversation never leaks into the next account": once the     *)
(* effect has run, every message on the page, and every message a turn of    *)
(* the current account carries, is the account's own.                        *)
ConversationIsOwn ==
    /\ settled => \A i \in DOMAIN messages : messages[i].author = account
    /\ \A c \in calls : \A i \in DOMAIN c.messages : c.messages[i].author = c.user

(* The page never keeps thinking: whatever happens to a turn, to the account *)
(* or to the conversation meanwhile, the input or a message comes back.      *)
ThinkingEnds == status = "thinking" ~> status # "thinking"

=============================================================================
