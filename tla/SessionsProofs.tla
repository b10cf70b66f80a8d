--------------------------- MODULE SessionsProofs ---------------------------
(***************************************************************************)
(* Proofs about what lives with the auth session, for any number of        *)
(* accounts, sessions, turns, recalls and challenges, and any timeouts     *)
(* that fit the budget they were tuned to.                                 *)
(***************************************************************************)
EXTENDS Sessions, Integers, Sequences, SequenceTheorems, NaturalsInduction, WellFoundedInduction,
        FiniteSetTheorems, TLAPS

(* A step of the composition is a step or a stutter of each part.          *)
LEMMA PartSteps ==
    [SessionsNext]_sessionsVars =>
        [Next]_vars /\ [Auth!Next]_(Auth!vars) /\ [Memory!Next]_(Memory!vars) /\ [Read!Next]_(Read!vars)
<1> SUFFICES ASSUME [SessionsNext]_sessionsVars
             PROVE  /\ [Next]_vars /\ [Auth!Next]_(Auth!vars)
                    /\ [Memory!Next]_(Memory!vars) /\ [Read!Next]_(Read!vars)
  OBVIOUS
<1>1. [Next]_vars
  BY DEF SessionsNext, sessionsVars
<1>2. Auth!Next \/ UNCHANGED authVars
  BY DEF SessionsNext, sessionsVars
<1>3. UNCHANGED authVars => UNCHANGED Auth!vars
  BY DEF authVars, Auth!vars
<1>4. Memory!Next \/ UNCHANGED recallVars
  BY DEF SessionsNext, sessionsVars
<1>5. UNCHANGED recallVars => UNCHANGED Memory!vars
  BY DEF recallVars, Memory!vars, Memory!session
<1>6. Read!Next \/ UNCHANGED readVars
  BY DEF SessionsNext, sessionsVars
<1>7. UNCHANGED readVars => UNCHANGED Read!vars
  BY DEF readVars, Read!vars, Read!timers, Read!world
<1>8. QED BY <1>1, <1>2, <1>3, <1>4, <1>5, <1>6, <1>7

-----------------------------------------------------------------------------
(* The copilot: whose messages are on the page.                              *)

Own(sent, u) == \A i \in DOMAIN sent : sent[i].author = u

(* One turn at most is the latest; it is the one lastArgs repeats, and it is *)
(* the current account's once the effect has run.                            *)
LatestTurn ==
    \A c \in calls :
        c.latest => /\ c.messages = lastArgs.messages
                    /\ settled => c.user = account

(* What is retried after an error: lastArgs outlives a change of account,    *)
(* the status does not.                                                      *)
RetryIsOwn == settled /\ status = "error" => Own(lastArgs.messages, account)

CallsOwn == \A c \in calls : Own(c.messages, c.user)

PageOwn == settled => Own(messages, account)

Typed ==
    /\ account \in Users \cup {NoUser}
    /\ settled \in BOOLEAN
    /\ messages \in Seq(Message)
    /\ lastArgs.messages \in Seq(Message) /\ lastArgs.force \in BOOLEAN
    /\ calls \subseteq Call

IInv == Typed /\ LatestTurn /\ RetryIsOwn /\ CallsOwn /\ PageOwn

(* A message appended by its account leaves a conversation its own. *)
LEMMA AppendOwn ==
    ASSUME NEW u, NEW sent \in Seq(Message), Own(sent, u),
           NEW m \in Message, m.author = u
    PROVE  Append(sent, m) \in Seq(Message) /\ Own(Append(sent, m), u)
BY DEF Own

(* Advancing the sequence number changes nothing else of a turn. *)
LEMMA LeavingBehind ==
    ASSUME Typed, CallsOwn
    PROVE  /\ Superseded \subseteq Call /\ Dropped \subseteq Call
           /\ \A c \in Superseded \cup Dropped : ~c.latest /\ Own(c.messages, c.user)
<1>1. \A c \in calls :
          /\ [c EXCEPT !.latest = FALSE] \in Call
          /\ [c EXCEPT !.latest = FALSE, !.dropped = TRUE] \in Call
  BY DEF Typed, Call
<1>2. \A c \in calls :
          LET s == [c EXCEPT !.latest = FALSE]
              d == [c EXCEPT !.latest = FALSE, !.dropped = TRUE]
          IN  /\ ~s.latest /\ s.messages = c.messages /\ s.user = c.user
              /\ ~d.latest /\ d.messages = c.messages /\ d.user = c.user
  BY DEF Typed, Call
<1>3. QED BY <1>1, <1>2 DEF Superseded, Dropped, CallsOwn

(* A turn of the account's own messages keeps the invariant. *)
LEMMA DriveKeeps ==
    ASSUME IInv, NEW next \in Seq(Message), NEW force \in BOOLEAN,
           Own(next, account), drive(next, force)
    PROVE  IInv'
<1> USE DEF IInv
<1>1. account \in Users /\ settled
  BY DEF drive, Typed
<1>2. /\ lastArgs' = [messages |-> next, force |-> force] /\ messages' = next
      /\ status' = "thinking" /\ calls' = Superseded \cup {Turn(next, force)}
      /\ account' = account /\ settled' = settled
  BY DEF drive, session
<1>3. /\ Turn(next, force) \in Call /\ Turn(next, force).messages = next
      /\ Turn(next, force).user = account
  BY <1>1 DEF Turn, Call
<1>4. Typed' BY <1>1, <1>2, <1>3, LeavingBehind DEF Typed
<1>5. LatestTurn' BY <1>2, <1>3, LeavingBehind DEF LatestTurn
<1>6. RetryIsOwn' BY <1>2 DEF RetryIsOwn
<1>7. CallsOwn' BY <1>2, <1>3, LeavingBehind DEF CallsOwn
<1>8. PageOwn' BY <1>2 DEF PageOwn
<1>9. QED BY <1>4, <1>5, <1>6, <1>7, <1>8

(* The continuation of a turn keeps the invariant. *)
LEMMA AnswerKeeps ==
    ASSUME IInv, NEW c \in calls, Answer(c)
    PROVE  IInv'
<1> USE DEF IInv
<1>1. /\ account' = account /\ settled' = settled /\ lastArgs' = lastArgs
      /\ calls' = calls \ {c} /\ c \in Call /\ Own(c.messages, c.user)
  BY DEF Answer, session, Typed, CallsOwn
<1>2. LatestTurn' /\ CallsOwn' BY <1>1 DEF LatestTurn, CallsOwn
<1>3. CASE ~(c.latest /\ c.user = account)
  <2>1. messages' = messages /\ status' = status BY <1>3 DEF Answer
  <2>2. QED BY <1>1, <1>2, <2>1 DEF Typed, RetryIsOwn, PageOwn
<1>4. CASE c.latest /\ c.user = account
  <2>1. PICK reply \in Replies(c) : Settle(c, reply) BY <1>4 DEF Answer
  <2>2. Assistant(c) \in Message /\ Assistant(c).author = c.user
    BY <1>1 DEF Assistant, Message, Call
  <2>3. /\ Append(c.messages, Assistant(c)) \in Seq(Message)
        /\ Own(Append(c.messages, Assistant(c)), account)
    BY <1>1, <1>4, <2>2, AppendOwn DEF Call
  <2>4. messages' \in {messages, Append(c.messages, Assistant(c))}
    BY <2>1 DEF Settle
  <2>5. Typed' /\ PageOwn' BY <1>1, <2>3, <2>4 DEF Typed, PageOwn
  <2>6. RetryIsOwn' BY <1>1, <1>4 DEF RetryIsOwn, LatestTurn
  <2>7. QED BY <1>2, <2>5, <2>6
<1>5. QED BY <1>3, <1>4

(* Every step keeps the invariant. *)
LEMMA Step ==
    ASSUME IInv, [Next]_vars
    PROVE  IInv'
<1> USE DEF IInv
<1>1. CASE sendAnswer
  <2> DEFINE m == [role |-> "user", author |-> account, answers |-> 0, dropped |-> FALSE]
  <2>1. account \in Users /\ settled BY <1>1 DEF sendAnswer, drive, Typed
  <2>2. m \in Message /\ m.author = account BY <2>1 DEF Message
  <2>3. Append(messages, m) \in Seq(Message) /\ Own(Append(messages, m), account)
    <3> HIDE DEF m
    <3> QED BY <2>1, <2>2, AppendOwn DEF Typed, PageOwn
  <2>4. drive(Append(messages, m), FALSE) BY <1>1 DEF sendAnswer
  <2>5. QED BY <2>3, <2>4, DriveKeeps
<1>2. CASE generateNow
  <2>1. drive(messages, TRUE) BY <1>2 DEF generateNow
  <2>2. Own(messages, account) BY <2>1 DEF drive, PageOwn
  <2>3. QED BY <2>1, <2>2, DriveKeeps DEF Typed
<1>3. CASE retry
  <2>1. drive(lastArgs.messages, lastArgs.force) BY <1>3 DEF retry
  <2>2. Own(lastArgs.messages, account) BY <1>3 DEF retry, drive, RetryIsOwn
  <2>3. QED BY <2>1, <2>2, DriveKeeps DEF Typed
<1>4. CASE reset
  <2>1. /\ account' = account /\ settled' = settled /\ messages' = <<>> /\ status' = "idle"
        /\ lastArgs' = NoArgs /\ calls' = Dropped
    BY <1>4 DEF reset, session
  <2>2. QED BY <2>1, LeavingBehind
        DEF NoArgs, Typed, LatestTurn, RetryIsOwn, CallsOwn, PageOwn, Own
<1>5. CASE ClearOnToken
  <2>1. /\ account' = account /\ settled' = TRUE /\ messages' = <<>> /\ status' = "idle"
        /\ lastArgs' = lastArgs /\ calls' = Dropped
    BY <1>5 DEF ClearOnToken
  <2>2. QED BY <2>1, LeavingBehind
        DEF Typed, LatestTurn, RetryIsOwn, CallsOwn, PageOwn, Own
<1>6. CASE QuotaTimer
  BY <1>6 DEF QuotaTimer, session, Typed, LatestTurn, RetryIsOwn, CallsOwn, PageOwn
<1>7. ASSUME NEW u \in Users \cup {NoUser}, SwitchAccount(u) PROVE IInv'
  BY <1>7 DEF SwitchAccount, Typed, LatestTurn, RetryIsOwn, CallsOwn, PageOwn
<1>8. ASSUME NEW c \in calls, Answer(c) PROVE IInv'
  BY <1>8, AnswerKeeps
<1>9. ASSUME NEW c \in calls, Lose(c) PROVE IInv'
  BY <1>9 DEF Lose, session, Typed, LatestTurn, RetryIsOwn, CallsOwn, PageOwn
<1>10. CASE UNCHANGED vars
  BY <1>10 DEF vars, session, Typed, LatestTurn, RetryIsOwn, CallsOwn, PageOwn
<1>11. QED
  BY <1>1, <1>2, <1>3, <1>4, <1>5, <1>6, <1>7, <1>8, <1>9, <1>10 DEF Next, Click

LEMMA Start == Init => IInv
BY DEF Init, IInv, Typed, LatestTurn, RetryIsOwn, CallsOwn, PageOwn, Own, NoArgs

(* However often accounts change and turns fail, are reset or repeated, the  *)
(* page shows its account's messages only, and a turn carries only those of  *)
(* the account whose token it is sent with (the seq and token guards of      *)
(* useRiffCopilot, and retry's being offered after an error alone).          *)
THEOREM ConversationStaysOwn == SessionsSpec => []ConversationIsOwn
<1>1. IInv => ConversationIsOwn
  BY DEF IInv, PageOwn, CallsOwn, Own, ConversationIsOwn
<1>2. SessionsInit => Init
  BY DEF SessionsInit
<1>3. QED BY Start, Step, PartSteps, <1>1, <1>2, PTL DEF SessionsSpec

-----------------------------------------------------------------------------
(* The copilot: where a reply stands.                                        *)

(* A conversation whose replies were generated from what is above them, for  *)
(* no conversation that was dropped.                                         *)
Placed(sent) ==
    \A i \in DOMAIN sent :
        ~sent[i].dropped /\ (sent[i].role = "assistant" => sent[i].answers = i - 1)

(* A turn that is the latest is for the conversation that is on the page.    *)
PlacedInv ==
    /\ Placed(messages) /\ Placed(lastArgs.messages)
    /\ \A c \in calls : Placed(c.messages) /\ (c.latest => ~c.dropped)

LEMMA AppendPlaced ==
    ASSUME NEW sent \in Seq(Message), Placed(sent), NEW m \in Message, ~m.dropped,
           m.role = "assistant" => m.answers = Len(sent)
    PROVE  Placed(Append(sent, m))
BY DEF Placed, Message

LEMMA LeavingBehindPlaced ==
    ASSUME Typed, PlacedInv
    PROVE  \A c \in Superseded \cup Dropped : ~c.latest /\ Placed(c.messages)
<1>1. \A c \in calls :
          LET s == [c EXCEPT !.latest = FALSE]
              d == [c EXCEPT !.latest = FALSE, !.dropped = TRUE]
          IN  ~s.latest /\ s.messages = c.messages /\ ~d.latest /\ d.messages = c.messages
  BY DEF Typed, Call
<1>2. QED BY <1>1 DEF Superseded, Dropped, PlacedInv

LEMMA DrivePlaced ==
    ASSUME Typed, PlacedInv, NEW next \in Seq(Message), NEW force \in BOOLEAN,
           Placed(next), drive(next, force)
    PROVE  PlacedInv'
<1>1. /\ lastArgs' = [messages |-> next, force |-> force] /\ messages' = next
      /\ calls' = Superseded \cup {Turn(next, force)}
  BY DEF drive
<1>2. Turn(next, force).messages = next /\ ~Turn(next, force).dropped
  BY DEF Turn
<1>3. \A c \in calls' : Placed(c.messages) /\ (c.latest => ~c.dropped)
  BY <1>1, <1>2, LeavingBehindPlaced
<1>4. QED BY <1>1, <1>3 DEF PlacedInv, Placed

LEMMA AnswerPlaced ==
    ASSUME Typed, PlacedInv, NEW c \in calls, Answer(c)
    PROVE  PlacedInv'
<1>1. lastArgs' = lastArgs /\ calls' = calls \ {c} /\ c \in Call /\ Placed(c.messages)
  BY DEF Answer, Typed, PlacedInv
<1>2. Placed(messages')
  <2>1. CASE ~(c.latest /\ c.user = account)
    BY <2>1 DEF Answer, PlacedInv
  <2>2. CASE c.latest /\ c.user = account
    <3>1. PICK reply \in Replies(c) : Settle(c, reply) BY <2>2 DEF Answer
    <3>2. /\ Assistant(c) \in Message /\ ~Assistant(c).dropped
          /\ Assistant(c).answers = Len(c.messages) /\ c.messages \in Seq(Message)
      BY <1>1, <2>2 DEF Assistant, Message, Call, PlacedInv
    <3>3. Placed(Append(c.messages, Assistant(c)))
      BY <1>1, <3>2, AppendPlaced
    <3>4. messages' \in {messages, Append(c.messages, Assistant(c))}
      BY <3>1 DEF Settle
    <3>5. QED BY <3>3, <3>4 DEF PlacedInv
  <2>3. QED BY <2>1, <2>2
<1>3. QED BY <1>1, <1>2 DEF PlacedInv, Placed

LEMMA StepPlaced ==
    ASSUME Typed, PlacedInv, [Next]_vars
    PROVE  PlacedInv'
<1>1. CASE sendAnswer
  <2> DEFINE m == [role |-> "user", author |-> account, answers |-> 0, dropped |-> FALSE]
  <2>1. account \in Users /\ drive(Append(messages, m), FALSE)
    BY <1>1 DEF sendAnswer, drive, Typed
  <2>2. m \in Message /\ ~m.dropped /\ m.role # "assistant" BY <2>1 DEF Message
  <2>3. Append(messages, m) \in Seq(Message) /\ Placed(Append(messages, m))
    <3> HIDE DEF m
    <3> QED BY <2>2, AppendPlaced DEF Typed, PlacedInv
  <2>4. QED BY <2>1, <2>3, DrivePlaced
<1>2. CASE generateNow
  BY <1>2, DrivePlaced DEF generateNow, Typed, PlacedInv
<1>3. CASE retry
  BY <1>3, DrivePlaced DEF retry, Typed, PlacedInv
<1>4. CASE reset \/ ClearOnToken
  <2>1. messages' = <<>> /\ lastArgs' \in {NoArgs, lastArgs} /\ calls' = Dropped
    BY <1>4 DEF reset, ClearOnToken
  <2>2. Placed(<<>>) /\ Placed(NoArgs.messages) BY DEF Placed, NoArgs
  <2>3. Placed(messages') /\ Placed(lastArgs'.messages) BY <2>1, <2>2 DEF PlacedInv
  <2>4. \A c \in calls' : Placed(c.messages) /\ (c.latest => ~c.dropped)
    BY <2>1, LeavingBehindPlaced
  <2>5. QED BY <2>3, <2>4 DEF PlacedInv, Placed
<1>5. ASSUME NEW c \in calls, Answer(c) PROVE PlacedInv'
  BY <1>5, AnswerPlaced
<1>6. ASSUME NEW c \in calls, Lose(c) PROVE PlacedInv'
  BY <1>6 DEF Lose, PlacedInv, Placed
<1>7. CASE QuotaTimer \/ (\E u \in Users \cup {NoUser} : SwitchAccount(u)) \/ UNCHANGED vars
  BY <1>7 DEF QuotaTimer, SwitchAccount, vars, PlacedInv, Placed
<1>8. QED BY <1>1, <1>2, <1>3, <1>4, <1>5, <1>6, <1>7 DEF Next, Click

-----------------------------------------------------------------------------
(* Recalled prompts.  Between a change of token and the effect on it nothing *)
(* is promised; the effect clears the chips, and a fresh answer is for the   *)
(* token of now.                                                             *)
LEMMA ChipsStayOwn == Memory!ChipsAreOwn /\ [Memory!Next]_(Memory!vars) => Memory!ChipsAreOwn'
<1> SUFFICES ASSUME Memory!ChipsAreOwn, [Memory!Next]_(Memory!vars) PROVE Memory!ChipsAreOwn'
  OBVIOUS
<1> USE DEF Memory!ChipsAreOwn, Memory!Nothing
<1>1. CASE Memory!Typing
  BY <1>1 DEF Memory!Typing, Memory!runRecall, Memory!session
<1>2. CASE Memory!Fire
  BY <1>2 DEF Memory!Fire, Memory!session
<1>3. ASSUME NEW c \in recalls, Memory!Answer(c) PROVE Memory!ChipsAreOwn'
  BY <1>3 DEF Memory!Answer, Memory!OnResults, Memory!OnFailure, Memory!fresh, Memory!session
<1>4. CASE Memory!NewToken \/ Memory!LoseToken \/ Memory!ClearOnToken
  BY <1>4 DEF Memory!NewToken, Memory!LoseToken, Memory!ClearOnToken
<1>5. CASE UNCHANGED Memory!vars
  BY <1>5 DEF Memory!vars, Memory!session
<1>6. QED BY <1>1, <1>2, <1>3, <1>4, <1>5 DEF Memory!Next

(* Late answers are dropped: a reply stands below exactly the messages it was*)
(* generated from and never in a conversation that was reset, and recalled   *)
(* prompts are of the session the page has, however answers, timers, resets  *)
(* and changes of account interleave.                                        *)
THEOREM LateAnswersAreDropped == SessionsSpec => []LateAnswersDropped
<1>1. PlacedInv /\ Memory!ChipsAreOwn => LateAnswersDropped
  BY DEF PlacedInv, Placed, LateAnswersDropped, RepliesBelong
<1>2. SessionsInit => Typed /\ PlacedInv /\ Memory!ChipsAreOwn
  <2>1. SessionsInit => Init /\ Memory!Init
    BY DEF SessionsInit
  <2>2. Init => Typed /\ PlacedInv
    BY Start DEF IInv, Init, PlacedInv, Placed, NoArgs
  <2>3. Memory!Init => Memory!ChipsAreOwn
    BY DEF Memory!Init, Memory!ChipsAreOwn
  <2>4. QED BY <2>1, <2>2, <2>3
<1>3. IInv /\ PlacedInv /\ Memory!ChipsAreOwn /\ [SessionsNext]_sessionsVars
        => PlacedInv' /\ Memory!ChipsAreOwn'
  BY PartSteps, StepPlaced, ChipsStayOwn DEF IInv
<1>4. SessionsInit => IInv
  BY Start DEF SessionsInit
<1>5. IInv /\ [SessionsNext]_sessionsVars => IInv'
  BY PartSteps, Step
<1>6. QED BY <1>1, <1>2, <1>3, <1>4, <1>5, PTL DEF SessionsSpec
-----------------------------------------------------------------------------
(* Signing in.                                                               *)

(* A challenge that is still in the store was generated, and was not traded  *)
(* yet; one that was not generated is neither there nor traded.              *)
ChallengeInv ==
    /\ issued \in [Nonces -> Nat]
    /\ \A e \in nonces : e.nonce \in generated /\ (e.nonce \in Nonces => issued[e.nonce] = 0)
    /\ \A n \in Nonces : n \notin generated => issued[n] = 0
    /\ \A f \in sign_ins : f.nonce \in Nonces
    /\ Auth!OneTokenPerChallenge

AuthInv == ChallengeInv /\ Auth!SessionFollowsAccount

LEMMA AuthStart == SessionsInit => AuthInv
<1> SUFFICES ASSUME SessionsInit PROVE AuthInv
  OBVIOUS
<1>1. /\ authSession = NoAccount /\ sign_ins = {} /\ nonces = {}
      /\ issued = [n \in Nonces |-> 0]
  BY DEF SessionsInit, Auth!Init
<1>2. QED BY <1>1 DEF AuthInv, ChallengeInv, Auth!OneTokenPerChallenge, Auth!SessionFollowsAccount

(* What the backend does with an answer to a challenge, however often.       *)
LEMMA TakeTrades ==
    ASSUME ChallengeInv, NEW n \in Nonces, NEW ok \in BOOLEAN,
           ok => \E e \in nonces : e.nonce = n,
           Auth!take(n), UNCHANGED generated,
           issued' = [issued EXCEPT ![n] = IF ok THEN @ + 1 ELSE @],
           sign_ins' \subseteq sign_ins
    PROVE  ChallengeInv'
<1>1. nonces' = {e \in nonces : e.nonce # n} BY DEF Auth!take
<1>2. issued' \in [Nonces -> Nat] BY DEF ChallengeInv
<1>3. ok => n \in generated /\ issued[n] = 0
  BY DEF ChallengeInv
<1>4. /\ \A m \in Nonces \ {n} : issued'[m] = issued[m]
      /\ issued'[n] = IF ok THEN issued[n] + 1 ELSE issued[n]
  BY DEF ChallengeInv
<1>5. Auth!OneTokenPerChallenge'
  BY <1>3, <1>4 DEF ChallengeInv, Auth!OneTokenPerChallenge
<1>6. \A e \in nonces' : e.nonce \in generated' /\ (e.nonce \in Nonces => issued'[e.nonce] = 0)
  BY <1>1, <1>4 DEF ChallengeInv
<1>7. \A m \in Nonces : m \notin generated' => issued'[m] = 0
  BY <1>3, <1>4 DEF ChallengeInv
<1>8. QED BY <1>2, <1>5, <1>6, <1>7 DEF ChallengeInv

LEMMA ChallengeStep ==
    ASSUME ChallengeInv, [Auth!Next]_(Auth!vars)
    PROVE  ChallengeInv'
<1>1. CASE UNCHANGED <<nonces, generated, issued, sign_ins>>
  BY <1>1 DEF ChallengeInv, Auth!OneTokenPerChallenge
<1>2. CASE Auth!Backend
  <2>1. UNCHANGED <<generated, issued, sign_ins>>
    BY <1>2 DEF Auth!Backend, Auth!Expire, Auth!Sweep, Auth!RestartBackend
  <2>2. \A e \in nonces' : \E f \in nonces : e.nonce = f.nonce
    <3>1. CASE Auth!Expire
      <4>1. PICK f \in nonces : nonces' = (nonces \ {f}) \cup {[f EXCEPT !.expired = TRUE]}
        BY <3>1 DEF Auth!Expire
      <4>2. [f EXCEPT !.expired = TRUE].nonce = f.nonce
        OBVIOUS
      <4>3. QED BY <4>1, <4>2
    <3>2. CASE Auth!Sweep BY <3>2 DEF Auth!Sweep
    <3>3. CASE Auth!RestartBackend BY <3>3 DEF Auth!RestartBackend
    <3>4. QED BY <1>2, <3>1, <3>2, <3>3 DEF Auth!Backend
  <2>3. QED BY <2>1, <2>2 DEF ChallengeInv, Auth!OneTokenPerChallenge
<1>3. ASSUME NEW n \in Nonces, Auth!BeginSignIn(n) PROVE ChallengeInv'
  <2>1. /\ n \notin generated /\ generated' = generated \cup {n} /\ UNCHANGED issued
        /\ Auth!put(n, walletAccount)
        /\ sign_ins' = sign_ins \cup
             {[address |-> walletAccount, nonce |-> n, signed |-> NoAccount]}
    BY <1>3 DEF Auth!BeginSignIn
  <2>2. \A e \in nonces' : e \in nonces \/ e.nonce = n
    BY <2>1 DEF Auth!put
  <2>3. \A f \in sign_ins' : f.nonce \in Nonces
    BY <2>1 DEF ChallengeInv
  <2>4. QED BY <2>1, <2>2, <2>3 DEF ChallengeInv, Auth!OneTokenPerChallenge
<1>4. ASSUME NEW f \in sign_ins, Auth!SignChallenge(f) PROVE ChallengeInv'
  <2>1. /\ sign_ins' = (sign_ins \ {f}) \cup {[f EXCEPT !.signed = walletAccount]}
        /\ UNCHANGED <<nonces, generated, issued>>
    BY <1>4 DEF Auth!SignChallenge
  <2>2. [f EXCEPT !.signed = walletAccount].nonce = f.nonce
    OBVIOUS
  <2>3. QED BY <2>1, <2>2 DEF ChallengeInv, Auth!OneTokenPerChallenge
<1>5. ASSUME NEW f \in sign_ins, Auth!VerifySignIn(f) \/ Auth!ReplayVerify(f) PROVE ChallengeInv'
  <2> DEFINE ok == Auth!Accepts(f.nonce, f.address, f.signed)
  <2>1. /\ Auth!take(f.nonce) /\ UNCHANGED generated /\ sign_ins' \subseteq sign_ins
        /\ issued' = [issued EXCEPT ![f.nonce] = IF ok THEN @ + 1 ELSE @]
    BY <1>5 DEF Auth!VerifySignIn, Auth!ReplayVerify
  <2>2. (ok => \E e \in nonces : e.nonce = f.nonce) /\ ok \in BOOLEAN
    BY DEF Auth!Accepts
  <2>3. f.nonce \in Nonces BY DEF ChallengeInv
  <2> HIDE DEF ok
  <2>4. QED BY <2>1, <2>2, <2>3, TakeTrades
<1>6. ASSUME NEW f \in sign_ins, Auth!AbandonSignIn(f) PROVE ChallengeInv'
  BY <1>6 DEF Auth!AbandonSignIn, ChallengeInv, Auth!OneTokenPerChallenge
<1>7. CASE Auth!TabStep
  <2>1. UNCHANGED <<nonces, generated, issued>> /\ sign_ins' \subseteq sign_ins
    BY <1>7 DEF Auth!TabStep, Auth!SessionRejected, Auth!Disconnect, Auth!AccountEffect, Auth!Reload,
                Auth!SwitchAccount
  <2>2. QED BY <2>1 DEF ChallengeInv, Auth!OneTokenPerChallenge
<1>8. CASE Auth!KeyStep
  BY <1>1, <1>8 DEF Auth!KeyStep, Auth!BeginDecrypt, Auth!ExpireKey, Auth!SignSessionKey,
                    Auth!activateSession
<1>9. CASE UNCHANGED Auth!vars
  BY <1>1, <1>9 DEF Auth!vars
<1>10. QED BY <1>2, <1>3, <1>4, <1>5, <1>6, <1>7, <1>8, <1>9 DEF Auth!Next, Auth!SignInStep

(* Whatever moves the session or the account leaves the effect to run.       *)
LEMMA FollowsStep ==
    ASSUME Auth!SessionFollowsAccount, [Auth!Next]_(Auth!vars)
    PROVE  Auth!SessionFollowsAccount'
<1> USE DEF Auth!SessionFollowsAccount, Auth!tabVars
<1>1. CASE Auth!Backend
  BY <1>1 DEF Auth!Backend, Auth!Expire, Auth!Sweep, Auth!RestartBackend
<1>2. CASE Auth!SignInStep
  BY <1>2 DEF Auth!SignInStep, Auth!BeginSignIn, Auth!SignChallenge, Auth!VerifySignIn,
              Auth!StartSession, Auth!AbandonSignIn, Auth!ReplayVerify
<1>3. CASE Auth!TabStep
  BY <1>3 DEF Auth!TabStep, Auth!SessionRejected, Auth!clearSession, Auth!Disconnect,
              Auth!AccountEffect, Auth!Reload, Auth!SwitchAccount
<1>4. CASE Auth!KeyStep
  BY <1>4 DEF Auth!KeyStep, Auth!BeginDecrypt, Auth!ExpireKey, Auth!SignSessionKey,
              Auth!activateSession
<1>5. CASE UNCHANGED Auth!vars
  BY <1>5 DEF Auth!vars
<1>6. QED BY <1>1, <1>2, <1>3, <1>4, <1>5 DEF Auth!Next

(* However sign-ins, account switches, reloads, replays, a full store and    *)
(* restarts interleave: a settled session is the connected account's, and    *)
(* every challenge buys one token at most (useSession, routes/auth).         *)
THEOREM SessionsAreEarned == SessionsSpec => []SessionIsEarned
<1>1. AuthInv => SessionIsEarned
  BY DEF AuthInv, ChallengeInv, SessionIsEarned
<1>2. AuthInv /\ [SessionsNext]_sessionsVars => AuthInv'
  BY PartSteps, ChallengeStep, FollowsStep DEF AuthInv
<1>3. QED BY <1>1, <1>2, AuthStart, PTL DEF SessionsSpec

-----------------------------------------------------------------------------
(* The timers of a decryption.                                               *)

KeyStep == KeyTimeout + KeyBackoff
FetchStep == Stall + FetchBackoff

(* How long the key's attempts take when every one times out.                *)
KeyTime == KeyAttempts * KeyTimeout + (KeyAttempts - 1) * KeyBackoff

LEMMA Products ==
    ASSUME NEW n \in Nat, NEW m \in Nat, NEW x \in Nat
    PROVE  n * x \in Nat /\ (n + 1) * x = n * x + x /\ (n <= m => n * x <= m * x)
<1>1. n * x \in Nat /\ (n + 1) * x = n * x + x
  OBVIOUS
<1>2. ASSUME n <= m PROVE n * x <= m * x
  <2>1. PICK k \in Nat : m = n + k BY <1>2
  <2>2. m * x = n * x + k * x /\ k * x \in Nat BY <2>1
  <2>3. QED BY <1>1, <2>2
<1>3. QED BY <1>1, <1>2

LEMMA BudgetCovers ==
    /\ KeyTime \in Nat /\ KeyStep \in Nat /\ FetchStep \in Nat
    /\ (KeyAttempts - 1) * KeyStep + KeyTimeout = KeyTime
    /\ KeyTime + MaxRetries * FetchStep + Stall <= Budget
<1>1. /\ KeyTimeout \in Nat /\ KeyBackoff \in Nat /\ MaxRetries \in Nat /\ FetchBackoff \in Nat
      /\ Budget \in Nat /\ KeyAttempts \in Nat \ {0} /\ Stall \in Nat
      /\ KeyTime + (MaxRetries + 1) * Stall + MaxRetries * FetchBackoff <= Budget
  BY SessionsAssumption DEF Read!ReadAssumption, KeyTime
<1>2. KeyAttempts - 1 \in Nat BY <1>1
<1>3. /\ KeyAttempts * KeyTimeout = (KeyAttempts - 1) * KeyTimeout + KeyTimeout
      /\ (KeyAttempts - 1) * KeyTimeout \in Nat /\ (KeyAttempts - 1) * KeyBackoff \in Nat
  BY <1>1, <1>2, Products
<1>4. (KeyAttempts - 1) * KeyStep = (KeyAttempts - 1) * KeyTimeout + (KeyAttempts - 1) * KeyBackoff
  BY <1>1, <1>2 DEF KeyStep
<1>5. KeyTime \in Nat /\ KeyStep \in Nat /\ FetchStep \in Nat
      /\ (KeyAttempts - 1) * KeyStep + KeyTimeout = KeyTime
  BY <1>1, <1>3, <1>4 DEF KeyTime, KeyStep, FetchStep
<1>6. /\ MaxRetries * FetchStep = MaxRetries * Stall + MaxRetries * FetchBackoff
      /\ (MaxRetries + 1) * Stall = MaxRetries * Stall + Stall
      /\ MaxRetries * Stall \in Nat /\ MaxRetries * FetchBackoff \in Nat
  BY <1>1, Products DEF FetchStep
<1>7. QED BY <1>1, <1>5, <1>6

ReadTypes ==
    /\ phase \in {"key", "keywait", "fetch", "fetchwait", "done", "failed"}
    /\ tries \in Nat /\ now \in Nat /\ due \in Nat /\ stallDue \in Nat
    /\ began \in Nat /\ heard \in Nat /\ left \in Int /\ left <= Chunks
    /\ trickled \in BOOLEAN /\ body \in {"none", "streamed", "buffered"}

(* No timer that is due is passed, and those of a read are armed from its    *)
(* start and its last byte; only a body in one piece has no stall timer.     *)
TimersArmed ==
    /\ Read!Timed => now <= due
    /\ phase = "fetch" =>
         /\ due = began + HardCap
         /\ stallDue \in {0, heard + Stall} /\ (stallDue # 0 => now <= stallDue)
         /\ body # "buffered" => stallDue # 0
         /\ left = Chunks => heard = began

(* How far the attempts of a read on which no byte came have got.            *)
WithinBudget ==
    /\ phase = "key" => tries <= KeyAttempts - 1 /\ due <= tries * KeyStep + KeyTimeout
    /\ phase = "keywait" => tries <= KeyAttempts - 1 /\ due <= tries * KeyStep
    /\ phase = "fetch" /\ ~trickled => tries <= MaxRetries /\ began <= KeyTime + tries * FetchStep
    /\ phase = "fetchwait" /\ ~trickled => tries <= MaxRetries /\ due <= KeyTime + tries * FetchStep

ReadInv == ReadTypes /\ TimersArmed /\ WithinBudget

LEMMA ReadConstants ==
    /\ KeyTimeout \in Nat /\ KeyBackoff \in Nat /\ HardCap \in Nat /\ MaxRetries \in Nat
    /\ FetchBackoff \in Nat /\ Chunks \in Nat \ {0} /\ Budget \in Nat
    /\ KeyAttempts \in Nat \ {0} /\ Stall \in Nat \ {0}
BY SessionsAssumption DEF Read!ReadAssumption

LEMMA ReadStart == SessionsInit => ReadInv
<1> SUFFICES ASSUME SessionsInit PROVE ReadInv
  OBVIOUS
<1>1. /\ phase = "key" /\ tries = 0 /\ now = 0 /\ due = KeyTimeout /\ stallDue = 0
      /\ began = 0 /\ heard = 0 /\ body = "none" /\ left = Chunks /\ trickled = FALSE
  BY DEF SessionsInit, Read!Init
<1>2. ReadTypes
  <2>1. trickled \in BOOLEAN BY <1>1
  <2>2. QED BY <1>1, <2>1, ReadConstants DEF ReadTypes
<1>3. TimersArmed
  BY <1>1, ReadConstants DEF TimersArmed
<1>4. 0 * KeyStep = 0 BY BudgetCovers
<1>5. WithinBudget
  BY <1>1, <1>4, ReadConstants DEF WithinBudget
<1>6. QED BY <1>2, <1>3, <1>5 DEF ReadInv

(* The bound on a read that is wedged.                                       *)
LEMMA WedgedIsBounded == ReadInv => Read!WedgedReadInBudget
<1> SUFFICES ASSUME ReadInv, Read!Timed, ~trickled, left = Chunks, body # "buffered"
             PROVE  now <= Budget
  BY DEF Read!WedgedReadInBudget
<1>1. ReadTypes /\ TimersArmed /\ WithinBudget /\ now <= due BY DEF ReadInv, TimersArmed
<1>2. \A m \in Nat : tries <= m => tries * KeyStep <= m * KeyStep /\ tries * FetchStep <= m * FetchStep
  BY <1>1, BudgetCovers, Products DEF ReadTypes
<1>3. MaxRetries * FetchStep \in Nat /\ tries * KeyStep \in Nat /\ tries * FetchStep \in Nat
  BY <1>1, BudgetCovers, ReadConstants, Products DEF ReadTypes
<1>4. CASE phase = "key" \/ phase = "keywait"
  <2>1. tries <= KeyAttempts - 1 /\ due <= tries * KeyStep + KeyTimeout
    BY <1>1, <1>3, <1>4, ReadConstants DEF WithinBudget, ReadTypes
  <2>2. tries * KeyStep <= (KeyAttempts - 1) * KeyStep
    BY <1>2, <2>1, ReadConstants
  <2>3. (KeyAttempts - 1) * KeyStep \in Nat BY BudgetCovers, ReadConstants, Products
  <2>4. due <= KeyTime
    BY <1>1, <1>3, <2>1, <2>2, <2>3, BudgetCovers, ReadConstants DEF ReadTypes
  <2>5. QED BY <1>1, <1>3, <2>4, BudgetCovers, ReadConstants DEF ReadTypes
<1>5. CASE phase = "fetchwait"
  <2>1. tries <= MaxRetries /\ due <= KeyTime + tries * FetchStep
    BY <1>1, <1>5 DEF WithinBudget
  <2>2. tries * FetchStep <= MaxRetries * FetchStep BY <1>2, <2>1, ReadConstants
  <2>3. QED BY <1>1, <1>3, <2>1, <2>2, BudgetCovers, ReadConstants DEF ReadTypes
<1>6. CASE phase = "fetch"
  <2>1. tries <= MaxRetries /\ began <= KeyTime + tries * FetchStep
    BY <1>1, <1>6 DEF WithinBudget
  <2>2. now <= began + Stall
    BY <1>1, <1>6 DEF TimersArmed
  <2>3. tries * FetchStep <= MaxRetries * FetchStep BY <1>2, <2>1, ReadConstants
  <2>4. QED BY <1>1, <1>3, <2>1, <2>2, <2>3, BudgetCovers, ReadConstants DEF ReadTypes
<1>7. QED BY <1>4, <1>5, <1>6 DEF Read!Timed

(* An attempt that begins within the time of those before it.                *)
LEMMA AttemptInv ==
    ASSUME ReadInv, NEW n \in Nat, Read!Attempt(n), UNCHANGED <<now, trickled>>,
           ~trickled => n <= MaxRetries /\ now <= KeyTime + n * FetchStep
    PROVE  ReadInv'
<1>1. /\ phase' = "fetch" /\ tries' = n /\ due' = now + HardCap /\ stallDue' = now + Stall
      /\ began' = now /\ heard' = now /\ body' = "none" /\ left' = Chunks
  BY DEF Read!Attempt, Read!Enter
<1>2. ReadTypes' /\ TimersArmed'
  BY <1>1, ReadConstants DEF ReadInv, ReadTypes, TimersArmed, Read!Timed
<1>3. WithinBudget' BY <1>1 DEF WithinBudget
<1>4. QED BY <1>2, <1>3 DEF ReadInv

LEMMA StopInv ==
    ASSUME ReadInv, NEW p \in {"done", "failed"}, Read!Stop(p), now' = now, began' = began,
           heard' \in Nat, left' \in Int, left' <= Chunks, trickled' \in BOOLEAN, body' = body
    PROVE  ReadInv'
<1>1. phase' = p /\ tries' = 0 /\ due' = 0 /\ stallDue' = 0
  BY DEF Read!Stop, Read!Enter
<1>2. ReadTypes'
  BY <1>1 DEF ReadInv, ReadTypes
<1>3. TimersArmed' /\ WithinBudget'
  BY <1>1 DEF TimersArmed, WithinBudget, Read!Timed
<1>4. QED BY <1>2, <1>3 DEF ReadInv

LEMMA KeyFailsInv ==
    ASSUME ReadInv, phase = "key", Read!KeyFails PROVE ReadInv'
<1>1. /\ UNCHANGED <<now, began, heard, body, left, trickled>>
  BY DEF Read!KeyFails
<1>2. CASE ~Read!MoreKeyTries
  <2>1. Read!Stop("failed") BY <1>2 DEF Read!KeyFails
  <2>2. QED BY <1>1, <2>1, StopInv DEF ReadInv, ReadTypes
<1>3. CASE Read!MoreKeyTries
  <2>1. phase' = "keywait" /\ tries' = tries + 1 /\ due' = now + KeyBackoff /\ UNCHANGED stallDue
    BY <1>3 DEF Read!KeyFails, Read!Enter
  <2>2. ReadTypes' /\ TimersArmed'
    BY <1>1, <2>1, ReadConstants DEF ReadInv, ReadTypes, TimersArmed, Read!Timed
  <2>3. tries' <= KeyAttempts - 1
    BY <1>3, <2>1, ReadConstants DEF Read!MoreKeyTries, ReadInv, ReadTypes
  <2>4. now <= tries * KeyStep + KeyTimeout
    <3>1. now <= due /\ due <= tries * KeyStep + KeyTimeout
      BY DEF ReadInv, TimersArmed, WithinBudget, Read!Timed
    <3>2. tries * KeyStep \in Nat BY BudgetCovers, Products DEF ReadInv, ReadTypes
    <3>3. QED BY <3>1, <3>2, ReadConstants DEF ReadInv, ReadTypes
  <2>5. (tries + 1) * KeyStep = tries * KeyStep + KeyTimeout + KeyBackoff /\ tries * KeyStep \in Nat
    BY BudgetCovers, ReadConstants, Products DEF ReadInv, ReadTypes, KeyStep
  <2>6. due' <= tries' * KeyStep
    BY <2>1, <2>4, <2>5, ReadConstants DEF ReadInv, ReadTypes
  <2>7. WithinBudget' BY <2>1, <2>3, <2>6 DEF WithinBudget
  <2>8. QED BY <2>2, <2>7 DEF ReadInv
<1>4. QED BY <1>2, <1>3

LEMMA FetchFailsInv ==
    ASSUME ReadInv, phase = "fetch", Read!FetchFails PROVE ReadInv'
<1>1. /\ UNCHANGED <<now, began, heard, body, left>>
      /\ trickled' = (trickled \/ left < Chunks \/ body = "buffered")
  BY DEF Read!FetchFails
<1>2. trickled' \in BOOLEAN BY <1>1 DEF ReadInv, ReadTypes
<1>3. CASE ~(tries < MaxRetries)
  <2>1. Read!Stop("failed") BY <1>3 DEF Read!FetchFails
  <2>2. QED BY <1>1, <1>2, <2>1, StopInv DEF ReadInv, ReadTypes
<1>4. CASE tries < MaxRetries
  <2>1. phase' = "fetchwait" /\ tries' = tries + 1 /\ due' = now + FetchBackoff /\ stallDue' = 0
    BY <1>4 DEF Read!FetchFails, Read!Enter
  <2>2. ReadTypes' /\ TimersArmed'
    BY <1>1, <1>2, <2>1, ReadConstants DEF ReadInv, ReadTypes, TimersArmed, Read!Timed
  <2>3. ASSUME ~trickled'
        PROVE  tries' <= MaxRetries /\ due' <= KeyTime + tries' * FetchStep
    <3>1. ~trickled /\ left = Chunks /\ body # "buffered"
      <4>1. ~trickled /\ ~(left < Chunks) /\ body # "buffered"
        BY <1>1, <2>3, Zenon
      <4>2. QED BY <4>1, ReadConstants DEF ReadInv, ReadTypes
    <3>2. now <= began + Stall /\ began <= KeyTime + tries * FetchStep
      BY <3>1 DEF ReadInv, TimersArmed, WithinBudget
    <3>3. (tries + 1) * FetchStep = tries * FetchStep + Stall + FetchBackoff /\ tries * FetchStep \in Nat
      BY BudgetCovers, ReadConstants, Products DEF ReadInv, ReadTypes, FetchStep
    <3>4. due' <= KeyTime + tries' * FetchStep
      BY <2>1, <3>2, <3>3, BudgetCovers, ReadConstants DEF ReadInv, ReadTypes
    <3>5. QED BY <1>4, <2>1, <3>4, ReadConstants DEF ReadInv, ReadTypes
  <2>4. WithinBudget' BY <2>1, <2>3 DEF WithinBudget
  <2>5. QED BY <2>2, <2>4 DEF ReadInv
<1>5. QED BY <1>3, <1>4

LEMMA ReadStep ==
    ASSUME ReadInv, [Read!Next]_(Read!vars) PROVE ReadInv'
<1>1. CASE UNCHANGED Read!vars \/ Read!WorldChanges
  <2>1. UNCHANGED <<phase, tries, now, due, stallDue, began, heard, body, left, trickled>>
    BY <1>1 DEF Read!vars, Read!timers, Read!WorldChanges
  <2>2. QED BY <2>1 DEF ReadInv, ReadTypes, TimersArmed, WithinBudget, Read!Timed
<1>2. CASE Read!Tick
  <2>1. /\ now' = now + 1 /\ ~Read!Due /\ Read!Timed
        /\ UNCHANGED <<phase, tries, due, stallDue, began, heard, body, left, trickled>>
    BY <1>2 DEF Read!Tick
  <2>2. ReadTypes' /\ WithinBudget'
    BY <2>1 DEF ReadInv, ReadTypes, WithinBudget
  <2>3. TimersArmed'
    BY <2>1, ReadConstants DEF ReadInv, ReadTypes, TimersArmed, Read!Timed, Read!Due
  <2>4. QED BY <2>2, <2>3 DEF ReadInv
<1>3. CASE Read!KeyServersAnswer
  <2>1. phase = "key" BY <1>3 DEF Read!KeyServersAnswer
  <2>2. CASE Read!KeyFails BY <2>1, <2>2, KeyFailsInv
  <2>3. CASE ~Read!Due /\ Read!Attempt(0) /\ UNCHANGED <<now, trickled>>
    <3>1. now <= tries * KeyStep + KeyTimeout /\ tries <= KeyAttempts - 1
      <4>1. tries * KeyStep \in Nat BY BudgetCovers, Products DEF ReadInv, ReadTypes
      <4>2. QED BY <2>1, <4>1, ReadConstants DEF ReadInv, ReadTypes, TimersArmed, WithinBudget, Read!Timed
    <3>2. tries * KeyStep <= (KeyAttempts - 1) * KeyStep
      BY <3>1, BudgetCovers, ReadConstants, Products DEF ReadInv, ReadTypes
    <3>3. tries * KeyStep \in Nat /\ (KeyAttempts - 1) * KeyStep \in Nat /\ 0 * FetchStep = 0
      BY BudgetCovers, ReadConstants, Products DEF ReadInv, ReadTypes
    <3>4. now <= KeyTime + 0 * FetchStep
      BY <3>1, <3>2, <3>3, BudgetCovers, ReadConstants DEF ReadInv, ReadTypes
    <3>5. QED BY <2>3, <3>4, ReadConstants, AttemptInv
  <2>4. QED BY <1>3, <2>2, <2>3 DEF Read!KeyServersAnswer
<1>4. CASE Read!KeyAgain
  <2>1. /\ phase = "keywait" /\ phase' = "key" /\ tries' = tries /\ due' = now + KeyTimeout
        /\ UNCHANGED <<now, stallDue, began, heard, body, left, trickled>>
    BY <1>4 DEF Read!KeyAgain, Read!Enter
  <2>2. ReadTypes' /\ TimersArmed'
    BY <2>1, ReadConstants DEF ReadInv, ReadTypes, TimersArmed, Read!Timed
  <2>3. now <= tries * KeyStep /\ tries <= KeyAttempts - 1
    <3>1. tries * KeyStep \in Nat BY BudgetCovers, Products DEF ReadInv, ReadTypes
    <3>2. QED BY <2>1, <3>1 DEF ReadInv, ReadTypes, TimersArmed, WithinBudget, Read!Timed
  <2>4. tries * KeyStep \in Nat BY BudgetCovers, Products DEF ReadInv, ReadTypes
  <2>5. WithinBudget'
    BY <2>1, <2>3, <2>4, ReadConstants DEF WithinBudget, ReadInv, ReadTypes
  <2>6. QED BY <2>2, <2>5 DEF ReadInv
<1>5. CASE Read!FetchBegins
  <2>1. phase = "fetchwait" /\ Read!Attempt(tries) /\ UNCHANGED <<now, trickled>>
    BY <1>5 DEF Read!FetchBegins
  <2>2. ~trickled => tries <= MaxRetries /\ now <= KeyTime + tries * FetchStep
    <3>1. tries * FetchStep \in Nat BY BudgetCovers, Products DEF ReadInv, ReadTypes
    <3>2. QED BY <2>1, <3>1, BudgetCovers DEF ReadInv, ReadTypes, TimersArmed, WithinBudget, Read!Timed
  <2>3. tries \in Nat BY DEF ReadInv, ReadTypes
  <2>4. QED BY <2>1, <2>2, <2>3, AttemptInv
<1>6. CASE Read!Responds
  <2>1. phase = "fetch" /\ body = "none" BY <1>6 DEF Read!Responds
  <2>2. CASE Read!FetchFails BY <2>1, <2>2, FetchFailsInv
  <2>3. CASE Read!Stop("failed") /\ UNCHANGED <<now, began, heard, body, left, trickled>>
    BY <2>3, StopInv DEF ReadInv, ReadTypes
  <2>4. CASE /\ \/ body' = "streamed" /\ UNCHANGED stallDue
                \/ body' = "buffered" /\ stallDue' = 0
             /\ UNCHANGED <<phase, tries, now, due, began, heard, left, trickled>>
    <3>1. ReadTypes' /\ WithinBudget' BY <2>4 DEF ReadInv, ReadTypes, WithinBudget
    <3>2. TimersArmed' BY <2>1, <2>4 DEF ReadInv, TimersArmed, Read!Timed
    <3>3. QED BY <3>1, <3>2 DEF ReadInv
  <2>5. QED BY <1>6, <2>2, <2>3, <2>4 DEF Read!Responds
<1>7. CASE Read!Piece
  <2>1. /\ phase = "fetch" /\ left' = left - 1 /\ heard' = now /\ ~Read!Due
        /\ UNCHANGED <<now, began, body, trickled>>
    BY <1>7 DEF Read!Piece
  <2>2. left' \in Int /\ left' <= Chunks /\ left' # Chunks /\ heard' \in Nat
    BY <2>1, ReadConstants DEF ReadInv, ReadTypes
  <2>3. CASE left' = 0
    <3>1. PICK p \in {"done", "failed"} : Read!Stop(p) BY <1>7, <2>3 DEF Read!Piece
    <3>2. QED BY <2>1, <2>2, <3>1, StopInv DEF ReadInv, ReadTypes
  <2>4. CASE left' # 0
    <3>1. /\ stallDue' = (IF body = "streamed" THEN now + Stall ELSE 0)
          /\ UNCHANGED <<phase, tries, due>> /\ body # "none"
      BY <1>7, <2>4 DEF Read!Piece, Read!NextStall
    <3>2. ReadTypes' BY <2>1, <2>2, <3>1, ReadConstants DEF ReadInv, ReadTypes
    <3>3. TimersArmed'
      BY <2>1, <2>2, <3>1, ReadConstants DEF ReadInv, ReadTypes, TimersArmed, Read!Timed
    <3>4. WithinBudget' BY <2>1, <3>1 DEF ReadInv, WithinBudget
    <3>5. QED BY <3>2, <3>3, <3>4 DEF ReadInv
  <2>5. QED BY <2>3, <2>4
<1>8. CASE Read!ConnectionBreaks \/ Read!FetchTimesOut
  BY <1>8, FetchFailsInv DEF Read!ConnectionBreaks, Read!FetchTimesOut
<1>9. QED
  BY <1>1, <1>2, <1>3, <1>4, <1>5, <1>6, <1>7, <1>8 DEF Read!Next

(* A read is given up on a timer only when the timers say so.                *)
LEMMA TimersSpareLiveReads ==
    ReadInv => (Read!FetchTimesOut => now - heard >= Stall \/ now - began >= HardCap)
BY ReadConstants DEF ReadInv, ReadTypes, TimersArmed, Read!FetchTimesOut, Read!Due

(* For all timeouts that fit the budget: a read on which no byte ever comes  *)
(* fails within it, the key's attempts included, and one that progresses is  *)
(* not killed before its hard cap.                                           *)
THEOREM ReadsAreTimed == SessionsSpec => ReadIsTimed
<1>1. ReadInv /\ [SessionsNext]_sessionsVars => ReadInv'
  BY PartSteps, ReadStep
<1>2. ReadInv => [Read!FetchTimesOut => now - heard >= Stall \/ now - began >= HardCap]_(Read!vars)
  BY TimersSpareLiveReads
<1>3. QED
  BY <1>1, <1>2, ReadStart, WedgedIsBounded, PTL DEF SessionsSpec, ReadIsTimed, Read!LiveReadIsNotKilled

-----------------------------------------------------------------------------
(* Numbers: a set of them has a least one, and what holds of 0 and of      *)
(* every next number holds of all.                                         *)
LEMMA LeastOne ==
    ASSUME NEW T \in SUBSET Nat, T # {}
    PROVE  \E x \in T : \A y \in T : x <= y
<1>1. PICK x \in T : \A y \in T : <<y, x>> \notin OpToRel(<, Nat)
  BY NatLessThanWellFounded, WFMin
<1>2. ASSUME NEW y \in T PROVE x <= y
  <2>1. x \in Nat /\ y \in Nat OBVIOUS
  <2>2. ~(y < x) BY <1>1, <2>1 DEF OpToRel
  <2>3. QED BY <2>1, <2>2
<1>3. QED BY <1>2

LEMMA CountUp ==
    ASSUME NEW N \in Nat, NEW S, 0 \in S, \A n \in 0..N - 1 : n \in S => n + 1 \in S
    PROVE  0..N \subseteq S
<1> SUFFICES ASSUME (0..N) \ S # {} PROVE FALSE
  OBVIOUS
<1>1. (0..N) \ S \in SUBSET Nat OBVIOUS
<1>2. PICK x \in (0..N) \ S : \A y \in (0..N) \ S : x <= y BY <1>1, LeastOne
<1>3. x \in 1..N BY <1>2
<1>4. x - 1 \in 0..N - 1 /\ x - 1 \in S BY <1>2, <1>3
<1>5. QED BY <1>2, <1>3, <1>4

-----------------------------------------------------------------------------
(* Joining the pieces of a list, one at a time.                            *)
JoinsTo(T, s, m) ==
  {f \in [1..m -> Seq(T)] : \A i \in 1..m : f[i] = IF i = 1 THEN s[i] ELSE f[i - 1] \o s[i]}

LEMMA JoinsExist ==
    ASSUME NEW T, NEW s \in Seq(Seq(T)) PROVE JoinsTo(T, s, Len(s)) # {}
<1> DEFINE S == {k \in Nat : k <= Len(s) => JoinsTo(T, s, k) # {}}
<1>1. 0 \in S
  <2>1. [i \in 1..0 |-> <<>>] \in JoinsTo(T, s, 0) BY DEF JoinsTo
  <2>2. QED BY <2>1
<1>2. ASSUME NEW k \in 0..Len(s) - 1, k \in S PROVE k + 1 \in S
  <2>1. k \in Nat /\ k + 1 \in 1..Len(s) /\ s[k + 1] \in Seq(T) OBVIOUS
  <2>2. PICK f : f \in JoinsTo(T, s, k) BY <1>2, <2>1
  <2>3. f \in [1..k -> Seq(T)]
        /\ \A i \in 1..k : f[i] = IF i = 1 THEN s[i] ELSE f[i - 1] \o s[i]
    BY <2>2 DEF JoinsTo
  <2> DEFINE last == IF k + 1 = 1 THEN s[k + 1] ELSE f[k] \o s[k + 1]
             g == [i \in 1..k + 1 |-> IF i <= k THEN f[i] ELSE last]
  <2>4. last \in Seq(T)
    <3>1. CASE k = 0 BY <2>1, <3>1
    <3>2. CASE k # 0
      <4>1. k \in 1..k BY <2>1, <3>2
      <4>2. f[k] \in Seq(T) BY <2>3, <4>1
      <4>3. QED BY <2>1, <4>2
    <3>3. QED BY <3>1, <3>2
  <2> HIDE DEF last
  <2>5. g \in [1..k + 1 -> Seq(T)] BY <2>3, <2>4
  <2>6. g[k + 1] = last /\ \A i \in 1..k : g[i] = f[i] BY <2>1, <2>3
  <2>7. \A i \in 1..k + 1 : g[i] = IF i = 1 THEN s[i] ELSE g[i - 1] \o s[i]
    <3> HIDE DEF g
    <3>1. ASSUME NEW i \in 1..k PROVE g[i] = IF i = 1 THEN s[i] ELSE g[i - 1] \o s[i]
      <4>1. i # 1 => i - 1 \in 1..k OBVIOUS
      <4>2. g[i] = f[i] /\ (i # 1 => g[i - 1] = f[i - 1]) BY <4>1, <2>6
      <4>3. QED BY <4>2, <2>3
    <3>2. (k + 1) - 1 = k /\ (k + 1 # 1 => g[k] = f[k]) BY <2>1, <2>6
    <3>3. g[k + 1] = IF k + 1 = 1 THEN s[k + 1] ELSE g[(k + 1) - 1] \o s[k + 1]
      BY <3>2, <2>6 DEF last
    <3>4. \A i \in 1..k + 1 : i \in 1..k \/ i = k + 1 BY <2>1
    <3>5. QED BY <3>1, <3>3, <3>4
  <2>8. g \in JoinsTo(T, s, k + 1)
    <3> HIDE DEF g
    <3>1. QED BY <2>5, <2>7 DEF JoinsTo
  <2>9. QED BY <2>1, <2>8
<1>3. Len(s) \in Nat OBVIOUS
<1> HIDE DEF S
<1>4. 0..Len(s) \subseteq S BY <1>1, <1>2, <1>3, CountUp
<1>5. Len(s) \in S BY <1>3, <1>4
<1>6. QED BY <1>5 DEF S

(* There is one way to join, so FlattenSeq is the last of any.             *)
LEMMA JoinIsFlat ==
    ASSUME NEW T, NEW s \in Seq(Seq(T)), s # <<>>, NEW f \in JoinsTo(T, s, Len(s))
    PROVE  Pool!FlattenSeq(s) = f[Len(s)]
<1> DEFINE n == Len(s)
           A(g) == g = [i \in 1..n |-> IF i = 1 THEN s[i] ELSE g[i - 1] \o s[i]]
           h == CHOOSE g : A(g)
           S == {k \in Nat : k \in 1..n => h[k] = f[k]}
<1>1. n \in Nat /\ n # 0 BY EmptySeq
<1>2. /\ f \in [1..n -> Seq(T)]
      /\ \A i \in 1..n : f[i] = IF i = 1 THEN s[i] ELSE f[i - 1] \o s[i]
  BY DEF JoinsTo
<1> HIDE DEF n
<1>3. A(f) BY <1>2
<1>4. Pool!FlattenSeq(s) = h[n] BY <1>1 DEF Pool!FlattenSeq, n
<1>5. A(h) BY <1>3
<1> HIDE DEF h
<1>6. \A i \in 1..n : (i = 1 => h[i] = s[i]) /\ (i # 1 => h[i] = h[i - 1] \o s[i])
  <2>1. \A i \in 1..n : h[i] = IF i = 1 THEN s[i] ELSE h[i - 1] \o s[i] BY <1>5
  <2> HIDE DEF A
  <2>2. QED BY <2>1
<1>61. \A i \in 1..n : (i = 1 => f[i] = s[i]) /\ (i # 1 => f[i] = f[i - 1] \o s[i])
  BY <1>2
<1> HIDE DEF A
<1>7. 0 \in S OBVIOUS
<1>8. ASSUME NEW k \in 0..n - 1, k \in S PROVE k + 1 \in S
  <2>1. k \in Nat /\ k + 1 \in 1..n /\ (k + 1) - 1 = k /\ (k + 1 # 1 => k \in 1..n) BY <1>1
  <2>2. ASSUME k # 0 PROVE h[k] = f[k]
    <3>1. k \in 1..n BY <2>1, <2>2
    <3>2. QED BY <1>8, <3>1
  <2>3. h[k + 1] = f[k + 1]
    <3>1. CASE k = 0
      <4>0. 1 \in 1..n BY <2>1, <3>1
      <4>1. h[1] = s[1] /\ f[1] = s[1] BY <1>6, <1>61, <4>0
      <4>2. QED BY <3>1, <4>1
    <3>2. CASE k # 0
      <4>0. k + 1 # 1 BY <2>1, <3>2
      <4>1. h[k + 1] = h[k] \o s[k + 1]
        <5>1. h[k + 1] = h[(k + 1) - 1] \o s[k + 1] BY <1>6, <2>1, <4>0
        <5>2. QED BY <2>1, <5>1
      <4>2. f[k + 1] = f[k] \o s[k + 1]
        <5>1. f[k + 1] = f[(k + 1) - 1] \o s[k + 1] BY <1>61, <2>1, <4>0
        <5>2. QED BY <2>1, <5>1
      <4>3. QED BY <2>2, <3>2, <4>1, <4>2
    <3>3. QED BY <3>1, <3>2
  <2>4. QED BY <2>1, <2>3
<1> HIDE DEF S
<1>9. 0..n \subseteq S BY <1>1, <1>7, <1>8, CountUp
<1>10. n \in S BY <1>1, <1>9
<1>11. QED BY <1>1, <1>4, <1>10 DEF S, n

LEMMA FlatOne ==
    ASSUME NEW T, NEW s \in Seq(Seq(T)), NEW x \in Seq(T)
    PROVE  /\ Pool!FlattenSeq(s) \in Seq(T)
           /\ Pool!FlattenSeq(Append(s, x)) = Pool!FlattenSeq(s) \o x
<1> DEFINE n == Len(s)
           t == Append(s, x)
<1>1. n \in Nat /\ t \in Seq(Seq(T)) /\ Len(t) = n + 1 /\ t[n + 1] = x
      /\ (\A i \in 1..n : t[i] = s[i]) /\ t # <<>>
  BY AppendProperties
<1> HIDE DEF t
<1>2. PICK f : f \in JoinsTo(T, t, n + 1) BY <1>1, JoinsExist
<1>3. /\ f \in [1..(n + 1) -> Seq(T)]
      /\ \A i \in 1..(n + 1) : f[i] = IF i = 1 THEN t[i] ELSE f[i - 1] \o t[i]
  BY <1>2 DEF JoinsTo
<1>4. Pool!FlattenSeq(t) = f[n + 1] BY <1>1, <1>2, JoinIsFlat
<1>5. CASE s = <<>>
  <2>1. n = 0 /\ Pool!FlattenSeq(s) = <<>> BY <1>5 DEF Pool!FlattenSeq
  <2>2. f[1] = x BY <1>1, <1>3, <2>1
  <2>3. <<>> \o x = x /\ <<>> \in Seq(T) OBVIOUS
  <2>4. QED BY <1>4, <2>1, <2>2, <2>3 DEF t
<1>6. CASE s # <<>>
  <2>1. n # 0 BY <1>6, EmptySeq
  <2> DEFINE g == [i \in 1..n |-> f[i]]
  <2>2. \A i \in 1..n : i \in 1..(n + 1) /\ (i # 1 => i - 1 \in 1..n) BY <1>1
  <2>3. g \in [1..n -> Seq(T)] BY <1>3, <2>2
  <2>4. \A i \in 1..n : g[i] = IF i = 1 THEN s[i] ELSE g[i - 1] \o s[i]
    BY <1>1, <1>3, <2>2
  <2>5. g \in JoinsTo(T, s, n) BY <2>3, <2>4 DEF JoinsTo
  <2>6. Pool!FlattenSeq(s) = g[n]
    <3>1. \A e \in JoinsTo(T, s, Len(s)) : Pool!FlattenSeq(s) = e[Len(s)]
      BY <1>6, JoinIsFlat, Zenon
    <3> HIDE DEF g
    <3>2. QED BY <2>5, <3>1
  <2>7. g[n] = f[n] /\ g[n] \in Seq(T)
    <3>1. n \in 1..n BY <1>1, <2>1
    <3>2. g[n] = f[n] BY <3>1
    <3> HIDE DEF n, g
    <3>3. QED BY <2>3, <3>1, <3>2
  <2>8. f[n + 1] = f[n] \o x
    <3>1. n + 1 \in 1..(n + 1) /\ n + 1 # 1 /\ (n + 1) - 1 = n BY <1>1, <2>1
    <3>2. QED BY <1>1, <1>3, <3>1
  <2>9. QED BY <1>4, <2>6, <2>7, <2>8 DEF t
<1>7. QED BY <1>5, <1>6

-----------------------------------------------------------------------------
(* The codec: what it makes of a prompt, a symbol at a time.               *)
LEMMA LastPiece ==
    ASSUME NEW V, NEW r \in Seq(V), NEW e \in V, NEW f \in Seq(V), Len(f) = Len(r) + 1,
           \A k \in 1..Len(r) : f[k] = r[k], f[Len(r) + 1] = e
    PROVE  f = Append(r, e)
<1> DEFINE b == Append(r, e)
<1>1. b \in Seq(V) /\ Len(b) = Len(r) + 1 /\ b[Len(r) + 1] = e
      /\ \A k \in 1..Len(r) : b[k] = r[k]
  BY AppendProperties
<1> HIDE DEF b
<1>2. Len(r) \in Nat OBVIOUS
<1>3. \A k \in 1..Len(f) : k \in 1..Len(r) \/ k = Len(r) + 1 BY <1>2
<1>4. \A k \in 1..Len(f) : f[k] = b[k] BY <1>1, <1>3
<1>5. f = b BY <1>1, <1>4, SeqEqual
<1>6. QED BY <1>5 DEF b

Escaped(x) ==
  CASE x = "ESC" -> <<"ESC", "0">> [] x = "RS" -> <<"ESC", "1">> [] OTHER -> <<x>>

LEMMA EscapeOne ==
    ASSUME NEW T, {"ESC", "0", "1"} \subseteq T, NEW s \in Seq(T), NEW x \in T
    PROVE  /\ Pool!escape(s) \in Seq(T)
           /\ Pool!escape(Append(s, x)) = Pool!escape(s) \o Escaped(x)
<1> DEFINE pieces(t) == [k \in DOMAIN t |-> Escaped(t[k])]
<1>1. \A t : Pool!escape(t) = Pool!FlattenSeq(pieces(t))
  BY DEF Pool!escape, Escaped, Pool!ESC, Pool!RS
<1>2. \A y \in T : Escaped(y) \in Seq(T)
  <2> SUFFICES ASSUME NEW y \in T PROVE Escaped(y) \in Seq(T) OBVIOUS
  <2>1. <<"ESC", "0">> \in Seq(T) /\ <<"ESC", "1">> \in Seq(T) /\ <<y>> \in Seq(T) OBVIOUS
  <2>2. Escaped(y) \in {<<"ESC", "0">>, <<"ESC", "1">>, <<y>>} BY DEF Escaped
  <2>3. QED BY <2>1, <2>2
<1>3. pieces(s) \in Seq(Seq(T)) /\ Len(pieces(s)) = Len(s)
  <2>1. \A k \in 1..Len(s) : Escaped(s[k]) \in Seq(T) BY <1>2
  <2>2. QED BY <2>1
<1>4. pieces(Append(s, x)) = Append(pieces(s), Escaped(x))
  <2> DEFINE a == pieces(Append(s, x))
  <2>1. Len(s) \in Nat /\ Append(s, x) \in Seq(T) /\ DOMAIN Append(s, x) = 1..(Len(s) + 1)
        /\ Append(s, x)[Len(s) + 1] = x /\ \A k \in 1..Len(s) : Append(s, x)[k] = s[k]
    OBVIOUS
  <2>2. a = [k \in 1..(Len(s) + 1) |-> Escaped(Append(s, x)[k])] BY <2>1
  <2>3. \A k \in 1..(Len(s) + 1) : Append(s, x)[k] \in T BY <2>1
  <2>4. a \in Seq(Seq(T)) /\ Len(a) = Len(s) + 1
    <3> HIDE DEF a
    <3>1. \A k \in 1..(Len(s) + 1) : Escaped(Append(s, x)[k]) \in Seq(T) BY <1>2, <2>3
    <3>2. QED BY <2>1, <2>2, <3>1
  <2>5. a[Len(s) + 1] = Escaped(x) /\ \A k \in 1..Len(s) : a[k] = pieces(s)[k]
    <3> HIDE DEF a
    <3>1. \A k \in 1..Len(s) : k \in 1..(Len(s) + 1) /\ pieces(s)[k] = Escaped(s[k]) BY <2>1
    <3>2. Len(s) + 1 \in 1..(Len(s) + 1) BY <2>1
    <3>3. a[Len(s) + 1] = Escaped(x) BY <2>1, <2>2, <3>2
    <3> HIDE DEF pieces
    <3>4. QED BY <2>1, <2>2, <3>1, <3>3
  <2>6. Escaped(x) \in Seq(T) BY <1>2
  <2> HIDE DEF a, pieces
  <2>7. a = Append(pieces(s), Escaped(x)) BY <1>3, <2>4, <2>5, <2>6, LastPiece
  <2>8. QED BY <2>7 DEF a
<1>5. Escaped(x) \in Seq(T) BY <1>2
<1> HIDE DEF pieces
<1>6. QED BY <1>1, <1>3, <1>4, <1>5, FlatOne

(* Read back, a text that does not end in ESC gains what is appended: a    *)
(* symbol other than a digit after it, or the symbol an escape stands for. *)
ReadOne(t, k) ==
  IF Pool!Escapes(t, k) THEN <<IF t[k + 1] = "0" THEN "ESC" ELSE "RS">>
  ELSE IF Pool!Escapes(t, k - 1) THEN <<>> ELSE <<t[k]>>

ReadAll(t) == [k \in DOMAIN t |-> ReadOne(t, k)]

Clean(t) == t # <<>> => t[Len(t)] # "ESC"

LEMMA UnescapeReads ==
    ASSUME NEW T, NEW t \in Seq(T)
    PROVE  Pool!unescape(t) = Pool!FlattenSeq(ReadAll(t))
<1>1. ASSUME NEW k \in DOMAIN t
      PROVE  (CASE Pool!Escapes(t, k) -> <<IF t[k + 1] = "0" THEN "ESC" ELSE "RS">>
                [] Pool!Escapes(t, k - 1) -> <<>>
                [] OTHER -> <<t[k]>>) = ReadOne(t, k)
  <2>1. k \in Nat /\ (k - 1) + 1 = k BY <1>1
  <2>2. ~(Pool!Escapes(t, k) /\ Pool!Escapes(t, k - 1))
    BY <2>1 DEF Pool!Escapes, Pool!ESC
  <2>3. QED BY <2>2 DEF ReadOne
<1>2. QED BY <1>1 DEF Pool!unescape, ReadAll, Pool!ESC, Pool!RS

LEMMA ReadAllOne ==
    ASSUME NEW T, {"ESC", "RS"} \subseteq T, NEW t \in Seq(T), NEW x \in T, Clean(t) \/ x \notin {"0", "1"}
    PROVE  /\ ReadAll(t) \in Seq(Seq(T))
           /\ ReadAll(Append(t, x)) = Append(ReadAll(t), <<x>>)
<1> DEFINE n == Len(t)
           u == Append(t, x)
<1>1. n \in Nat /\ Len(u) = n + 1 /\ DOMAIN u = 1..(n + 1) /\ DOMAIN t = 1..n
      /\ u[n + 1] = x /\ (\A k \in 1..n : u[k] = t[k])
  OBVIOUS
<1>2. n # 0 /\ x \in {"0", "1"} => t[n] # "ESC"
  BY DEF Clean
<1> HIDE DEF u, n
<1>3. \A k \in 1..n - 1 : (Pool!Escapes(u, k) <=> Pool!Escapes(t, k))
  BY <1>1 DEF Pool!Escapes, n
<1>4. ~Pool!Escapes(u, n) /\ ~Pool!Escapes(t, n)
      /\ ~Pool!Escapes(u, n + 1) /\ ~Pool!Escapes(t, 0) /\ ~Pool!Escapes(u, 0)
  BY <1>1, <1>2 DEF Pool!Escapes, Pool!ESC, n
<1>5. \A k \in 1..n : (Pool!Escapes(u, k) <=> Pool!Escapes(t, k))
                      /\ (Pool!Escapes(u, k - 1) <=> Pool!Escapes(t, k - 1))
  <2> SUFFICES ASSUME NEW k \in 1..n
               PROVE  (Pool!Escapes(u, k) <=> Pool!Escapes(t, k))
                      /\ (Pool!Escapes(u, k - 1) <=> Pool!Escapes(t, k - 1))
    OBVIOUS
  <2>1. k \in 1..n - 1 \/ k = n BY <1>1
  <2>2. k - 1 \in 1..n - 1 \/ k - 1 = 0 BY <1>1
  <2>3. (Pool!Escapes(u, k) <=> Pool!Escapes(t, k)) BY <1>3, <1>4, <2>1
  <2>4. (Pool!Escapes(u, k - 1) <=> Pool!Escapes(t, k - 1)) BY <1>3, <1>4, <2>2
  <2>5. QED BY <2>3, <2>4
<1>6. \A k \in 1..n : ReadOne(u, k) = ReadOne(t, k)
  <2> SUFFICES ASSUME NEW k \in 1..n PROVE ReadOne(u, k) = ReadOne(t, k) OBVIOUS
  <2>1. Pool!Escapes(t, k) => u[k + 1] = t[k + 1]
    <3>1. Pool!Escapes(t, k) => k + 1 \in 1..n BY <1>1 DEF Pool!Escapes, n
    <3>2. QED BY <1>1, <3>1
  <2>2. QED BY <1>1, <1>5, <2>1 DEF ReadOne
<1>7. ReadOne(u, n + 1) = <<x>>
  <2>1. (n + 1) - 1 = n BY <1>1
  <2>2. QED BY <1>1, <1>4, <2>1 DEF ReadOne
<1>8. \A k \in 1..n : ReadOne(t, k) \in Seq(T)
  <2> SUFFICES ASSUME NEW k \in 1..n PROVE ReadOne(t, k) \in Seq(T) OBVIOUS
  <2>1. t[k] \in T BY <1>1
  <2>2. <<"ESC">> \in Seq(T) /\ <<"RS">> \in Seq(T) /\ <<>> \in Seq(T) /\ <<t[k]>> \in Seq(T) BY <2>1
  <2>3. ReadOne(t, k) \in {<<"ESC">>, <<"RS">>, <<>>, <<t[k]>>} BY DEF ReadOne
  <2>4. QED BY <2>2, <2>3
<1>9. ReadAll(t) = [k \in 1..n |-> ReadOne(t, k)] /\ ReadAll(u) = [k \in 1..(n + 1) |-> ReadOne(u, k)]
  BY <1>1 DEF ReadAll
<1>10. ReadAll(t) \in Seq(Seq(T)) /\ Len(ReadAll(t)) = n BY <1>1, <1>8, <1>9
<1>11. ReadAll(u) \in Seq(Seq(T)) /\ Len(ReadAll(u)) = n + 1
  <2>1. \A k \in 1..(n + 1) : k \in 1..n \/ k = n + 1 BY <1>1
  <2>2. <<x>> \in Seq(T) OBVIOUS
  <2>3. \A k \in 1..(n + 1) : ReadOne(u, k) \in Seq(T) BY <1>6, <1>7, <1>8, <2>1, <2>2
  <2>4. QED BY <1>1, <1>9, <2>3
<1>12. ReadAll(u)[n + 1] = <<x>> /\ \A k \in 1..n : ReadAll(u)[k] = ReadAll(t)[k]
  <2>1. n + 1 \in 1..(n + 1) /\ \A k \in 1..n : k \in 1..(n + 1) BY <1>1
  <2>2. QED BY <1>6, <1>7, <1>9, <2>1
<1>13. ReadAll(u) = Append(ReadAll(t), <<x>>)
  <2>1. <<x>> \in Seq(T) OBVIOUS
  <2>2. QED BY <1>10, <1>11, <1>12, <2>1, LastPiece
<1>14. QED BY <1>10, <1>13 DEF u

LEMMA UnescapeOne ==
    ASSUME NEW T, {"ESC", "RS"} \subseteq T, NEW t \in Seq(T), NEW x \in T, Clean(t) \/ x \notin {"0", "1"}
    PROVE  /\ Pool!unescape(t) \in Seq(T)
           /\ Pool!unescape(Append(t, x)) = Append(Pool!unescape(t), x)
<1>1. Append(t, x) \in Seq(T) /\ <<x>> \in Seq(T) OBVIOUS
<1>2. Pool!unescape(t) = Pool!FlattenSeq(ReadAll(t)) BY UnescapeReads
<1>3. Pool!unescape(Append(t, x)) = Pool!FlattenSeq(ReadAll(Append(t, x))) BY <1>1, UnescapeReads
<1>4. ReadAll(t) \in Seq(Seq(T)) /\ ReadAll(Append(t, x)) = Append(ReadAll(t), <<x>>) BY ReadAllOne
<1>5. Pool!FlattenSeq(ReadAll(t)) \in Seq(T)
      /\ Pool!FlattenSeq(Append(ReadAll(t), <<x>>)) = Pool!FlattenSeq(ReadAll(t)) \o <<x>>
  BY <1>1, <1>4, FlatOne
<1>6. QED BY <1>2, <1>3, <1>4, <1>5

LEMMA UnescapeTwo ==
    ASSUME NEW T, {"ESC", "RS", "0", "1"} \subseteq T, NEW t \in Seq(T), Clean(t), NEW d \in {"0", "1"}
    PROVE  Pool!unescape(Append(Append(t, "ESC"), d))
             = Append(Pool!unescape(t), IF d = "0" THEN "ESC" ELSE "RS")
<1> DEFINE n == Len(t)
           y == IF d = "0" THEN "ESC" ELSE "RS"
           m == Append(t, "ESC")
           u == Append(m, d)
           z == Append(Append(ReadAll(t), <<y>>), <<>>)
<1>1. n \in Nat /\ m \in Seq(T) /\ u \in Seq(T) /\ DOMAIN u = 1..(n + 2) /\ Len(u) = n + 2
      /\ u[n + 1] = "ESC" /\ u[n + 2] = d /\ \A k \in 1..n : u[k] = t[k]
  OBVIOUS
<1>2. DOMAIN t = 1..n /\ (n # 0 => t[n] # "ESC") BY DEF Clean
<1>3. y \in T /\ <<y>> \in Seq(T) /\ <<>> \in Seq(T) OBVIOUS
<1> HIDE DEF m, u, n, y
<1>4. \A k \in 1..n - 1 : (Pool!Escapes(u, k) <=> Pool!Escapes(t, k))
  BY <1>1 DEF Pool!Escapes, n
<1>5. ~Pool!Escapes(u, n) /\ ~Pool!Escapes(t, n) /\ Pool!Escapes(u, n + 1)
      /\ ~Pool!Escapes(u, n + 2) /\ ~Pool!Escapes(t, 0) /\ ~Pool!Escapes(u, 0)
  <2>1. (n + 1) \in 1..(n + 2) - 1 /\ (n + 1) + 1 = n + 2 BY <1>1
  <2>2. QED BY <1>1, <1>2, <2>1 DEF Pool!Escapes, Pool!ESC, n
<1>6. \A k \in 1..n : ReadOne(u, k) = ReadOne(t, k)
  <2> SUFFICES ASSUME NEW k \in 1..n PROVE ReadOne(u, k) = ReadOne(t, k) OBVIOUS
  <2>1. k \in 1..n - 1 \/ k = n BY <1>1
  <2>2. k - 1 \in 1..n - 1 \/ k - 1 = 0 BY <1>1
  <2>3. Pool!Escapes(u, k) <=> Pool!Escapes(t, k) BY <1>4, <1>5, <2>1
  <2>4. Pool!Escapes(u, k - 1) <=> Pool!Escapes(t, k - 1) BY <1>4, <1>5, <2>2
  <2>5. Pool!Escapes(t, k) => u[k + 1] = t[k + 1]
    <3>1. Pool!Escapes(t, k) => k + 1 \in 1..n BY <1>1 DEF Pool!Escapes, n
    <3>2. QED BY <1>1, <3>1
  <2>6. QED BY <1>1, <2>3, <2>4, <2>5 DEF ReadOne
<1>7. ReadOne(u, n + 1) = <<y>> /\ ReadOne(u, n + 2) = <<>>
  <2>1. (n + 1) + 1 = n + 2 /\ (n + 2) - 1 = n + 1 BY <1>1
  <2>2. QED BY <1>1, <1>5, <2>1 DEF ReadOne, y
<1>8. ReadAll(t) \in Seq(Seq(T)) /\ Len(ReadAll(t)) = n /\ \A k \in 1..n : ReadAll(t)[k] = ReadOne(t, k)
  <2>1. ReadAll(t) \in Seq(Seq(T))
    <3>1. "ESC" \notin {"0", "1"} /\ "ESC" \in T OBVIOUS
    <3>2. QED BY <3>1, ReadAllOne
  <2>2. QED BY <1>1, <1>2, <2>1 DEF ReadAll
<1>9. ReadAll(u) = [k \in 1..(n + 2) |-> ReadOne(u, k)] BY <1>1 DEF ReadAll
<1>10. ReadAll(u) \in Seq(Seq(T)) /\ Len(ReadAll(u)) = n + 2
  <2>1. \A k \in 1..(n + 2) : k \in 1..n \/ k = n + 1 \/ k = n + 2 BY <1>1
  <2>2. \A k \in 1..n : ReadOne(t, k) \in Seq(T) BY <1>8
  <2>3. \A k \in 1..(n + 2) : ReadOne(u, k) \in Seq(T) BY <1>3, <1>6, <1>7, <2>1, <2>2
  <2>4. QED BY <1>1, <1>9, <2>3
<1>11. z \in Seq(Seq(T)) /\ Len(z) = n + 2 /\ z[n + 1] = <<y>> /\ z[n + 2] = <<>>
       /\ \A k \in 1..n : z[k] = ReadOne(t, k)
  <2> DEFINE w == Append(ReadAll(t), <<y>>)
  <2>1. w \in Seq(Seq(T)) /\ Len(w) = n + 1 /\ w[n + 1] = <<y>> /\ \A k \in 1..n : w[k] = ReadOne(t, k)
    BY <1>3, <1>8, AppendProperties
  <2> HIDE DEF w
  <2>2. Append(w, <<>>) \in Seq(Seq(T)) /\ Len(Append(w, <<>>)) = n + 2 /\ Append(w, <<>>)[n + 2] = <<>>
        /\ \A k \in 1..n + 1 : Append(w, <<>>)[k] = w[k]
    BY <1>1, <1>3, <2>1, AppendProperties
  <2>3. n + 1 \in 1..n + 1 /\ \A k \in 1..n : k \in 1..n + 1 BY <1>1
  <2>4. QED BY <2>1, <2>2, <2>3 DEF w
<1> HIDE DEF z
<1>12. \A k \in 1..(n + 2) : ReadAll(u)[k] = z[k]
  <2>1. \A k \in 1..(n + 2) : k \in 1..n \/ k = n + 1 \/ k = n + 2 BY <1>1
  <2>2. \A k \in 1..(n + 2) : ReadAll(u)[k] = ReadOne(u, k) BY <1>9
  <2>3. \A k \in 1..n : ReadOne(u, k) = z[k] BY <1>6, <1>11
  <2>4. QED BY <1>7, <1>11, <2>1, <2>2, <2>3
<1>13. ReadAll(u) = z BY <1>10, <1>11, <1>12, SeqEqual
<1>14. Pool!unescape(u) = Pool!FlattenSeq(z) BY <1>1, <1>13, UnescapeReads
<1>15. Pool!unescape(t) = Pool!FlattenSeq(ReadAll(t)) /\ Pool!FlattenSeq(ReadAll(t)) \in Seq(T)
  BY <1>8, UnescapeReads, FlatOne
<1>16. Pool!FlattenSeq(Append(ReadAll(t), <<y>>)) = Pool!unescape(t) \o <<y>>
  BY <1>3, <1>8, <1>15, FlatOne
<1>17. Append(ReadAll(t), <<y>>) \in Seq(Seq(T)) BY <1>3, <1>8
<1>18. Pool!FlattenSeq(z) = (Pool!unescape(t) \o <<y>>) \o <<>>
  BY <1>3, <1>16, <1>17, FlatOne DEF z
<1>19. (Pool!unescape(t) \o <<y>>) \o <<>> = Append(Pool!unescape(t), y) BY <1>3, <1>15
<1>20. QED BY <1>14, <1>18, <1>19 DEF u, m, y

(* An escaped prompt is read back to the symbol; it holds no RS.           *)
Kept(e, p) ==
  Clean(e) /\ (\A j \in 1..Len(e) : e[j] # "RS") /\ Pool!unescape(e) = p

LEMMA KeepsOne ==
    ASSUME NEW T, {"ESC", "RS", "0", "1"} \subseteq T, NEW e \in Seq(T), NEW p \in Seq(T), Kept(e, p),
           NEW x \in T
    PROVE  Kept(e \o Escaped(x), Append(p, x))
<1>1. e \o <<>> = e OBVIOUS
<1>2. CASE x \in {"ESC", "RS"}
  <2> DEFINE d == IF x = "ESC" THEN "0" ELSE "1"
             u == Append(Append(e, "ESC"), d)
  <2>1. d \in {"0", "1"} /\ d \in T /\ (IF d = "0" THEN "ESC" ELSE "RS") = x BY <1>2
  <2>2. Escaped(x) = <<"ESC", d>> BY <1>2 DEF Escaped
  <2> HIDE DEF d
  <2>3. e \o <<"ESC", d>> = u BY <2>1
  <2>4. u # <<>> /\ u[Len(u)] = d /\ \A j \in 1..Len(u) : u[j] \in {"ESC", d} \/ (j \in 1..Len(e) /\ u[j] = e[j])
    BY <2>1
  <2> HIDE DEF u
  <2>5. Pool!unescape(u) = Append(p, x)
    <3>1. Clean(e) /\ Pool!unescape(e) = p BY DEF Kept
    <3>2. Pool!unescape(u) = Append(Pool!unescape(e), IF d = "0" THEN "ESC" ELSE "RS")
      BY <2>1, <3>1, UnescapeTwo DEF u
    <3>3. QED BY <2>1, <3>1, <3>2
  <2>6. QED BY <2>1, <2>2, <2>3, <2>4, <2>5 DEF Kept, Clean
<1>3. CASE x \notin {"ESC", "RS"}
  <2> DEFINE u == Append(e, x)
  <2>1. Escaped(x) = <<x>> BY <1>3 DEF Escaped
  <2>2. e \o <<x>> = u OBVIOUS
  <2>3. u # <<>> /\ u[Len(u)] = x /\ \A j \in 1..Len(u) : u[j] = x \/ (j \in 1..Len(e) /\ u[j] = e[j])
    OBVIOUS
  <2> HIDE DEF u
  <2>4. Clean(e) /\ Pool!unescape(e) = p BY DEF Kept
  <2>5. Pool!unescape(u) = Append(p, x) BY <2>4, UnescapeOne DEF u
  <2>6. QED BY <1>3, <2>1, <2>2, <2>3, <2>5 DEF Kept, Clean
<1>4. QED BY <1>2, <1>3

LEMMA ReadsBack ==
    ASSUME NEW V, NEW p \in Seq(V)
    PROVE  /\ Pool!escape(p) \in Seq(V \cup {"ESC", "RS", "0", "1"})
           /\ Kept(Pool!escape(p), p)
<1> DEFINE T == V \cup {"ESC", "RS", "0", "1"}
           n == Len(p)
           First(k) == SubSeq(p, 1, k)
           S == {k \in Nat : k <= n => /\ Pool!escape(First(k)) \in Seq(T)
                                        /\ Kept(Pool!escape(First(k)), First(k))}
<1>1. n \in Nat /\ p \in Seq(T) /\ {"ESC", "RS", "0", "1"} \subseteq T
      /\ \A k \in 1..n : p[k] \in T
  <2>1. V \subseteq T OBVIOUS
  <2>2. QED BY <2>1
<1>2. First(0) = <<>> /\ First(n) = p OBVIOUS
<1>3. \A k \in 0..n : First(k) \in Seq(T) BY <1>1
<1>4. \A k \in 0..n - 1 : First(k + 1) = Append(First(k), p[k + 1])
  <2> SUFFICES ASSUME NEW k \in 0..n - 1 PROVE First(k + 1) = Append(First(k), p[k + 1]) OBVIOUS
  <2>1. First(k) \in Seq(T) /\ First(k + 1) \in Seq(T) /\ p[k + 1] \in T BY <1>1
  <2>2. Len(First(k)) = k /\ Len(First(k + 1)) = k + 1 BY <1>1
  <2>3. (\A j \in 1..k : First(k + 1)[j] = First(k)[j]) /\ First(k + 1)[k + 1] = p[k + 1] BY <1>1
  <2> HIDE DEF First
  <2>4. QED BY <2>1, <2>2, <2>3, LastPiece
<1> HIDE DEF T, n, First
<1>5. Pool!escape(<<>>) = <<>>
  <2>1. [k \in DOMAIN <<>> |->
           CASE <<>>[k] = Pool!ESC -> <<Pool!ESC, "0">>
             [] <<>>[k] = Pool!RS -> <<Pool!ESC, "1">>
             [] OTHER -> <<<<>>[k]>>] = <<>>
    OBVIOUS
  <2>2. Pool!FlattenSeq(<<>>) = <<>> BY DEF Pool!FlattenSeq
  <2>3. QED BY <2>1, <2>2 DEF Pool!escape
<1>6. Kept(<<>>, <<>>)
  <2>1. ReadAll(<<>>) = <<>> BY DEF ReadAll
  <2>2. Pool!FlattenSeq(<<>>) = <<>> BY DEF Pool!FlattenSeq
  <2>3. <<>> \in Seq(T) OBVIOUS
  <2>4. Pool!unescape(<<>>) = <<>> BY <2>1, <2>2, <2>3, UnescapeReads
  <2>5. QED BY <2>4 DEF Kept, Clean
<1>7. 0 \in S
  <2>1. Pool!escape(First(0)) = <<>> /\ Kept(Pool!escape(First(0)), First(0)) BY <1>2, <1>5, <1>6
  <2>2. <<>> \in Seq(T) OBVIOUS
  <2>3. QED BY <2>1, <2>2
<1>8. ASSUME NEW k \in 0..n - 1, k \in S PROVE k + 1 \in S
  <2>1. k \in Nat /\ k \in 0..n /\ k + 1 \in Nat /\ k + 1 \in 1..n BY <1>1
  <2>2. Pool!escape(First(k)) \in Seq(T) /\ Kept(Pool!escape(First(k)), First(k)) BY <1>8, <2>1
  <2>3. Pool!escape(First(k + 1)) = Pool!escape(First(k)) \o Escaped(p[k + 1])
    BY <1>1, <1>3, <1>4, <2>1, EscapeOne
  <2>4. Pool!escape(First(k + 1)) \in Seq(T)
    <3>1. k + 1 \in 0..n BY <2>1
    <3>2. {"ESC", "0", "1"} \subseteq T BY <1>1
    <3>3. First(k + 1) \in Seq(T) /\ p[k + 1] \in T BY <1>1, <1>3, <2>1, <3>1
    <3>4. QED BY <3>2, <3>3, EscapeOne
  <2>5. Kept(Pool!escape(First(k)) \o Escaped(p[k + 1]), Append(First(k), p[k + 1]))
    BY <1>1, <1>3, <2>1, <2>2, KeepsOne
  <2>6. QED BY <1>4, <2>1, <2>3, <2>4, <2>5
<1> HIDE DEF S
<1>9. n \in S
  <2>1. n \in Nat /\ n \in 0..n BY <1>1
  <2>2. 0..n \subseteq S BY <1>7, <1>8, <2>1, CountUp
  <2>3. QED BY <2>1, <2>2
<1>10. QED BY <1>1, <1>2, <1>9 DEF S, T

(* The text of a record: the prompt ends at the first RS.                  *)
LEMMA TrailerAfter ==
    ASSUME NEW T, {"RS", "trailer"} \subseteq T, NEW e \in Seq(T), \A k \in 1..Len(e) : e[k] # "RS",
           NEW t, t = e \o <<"RS", "trailer">>
    PROVE  /\ DOMAIN t = 1..(Len(e) + 2) /\ Len(t) = Len(e) + 2
           /\ \A k \in DOMAIN t : t[k] = "RS" <=> k = Len(e) + 1
           /\ SubSeq(t, 1, Len(e)) = e /\ SubSeq(t, Len(e) + 2, Len(e) + 2) = <<"trailer">>
<1>1. <<"RS", "trailer">> \in Seq(T) /\ Len(<<"RS", "trailer">>) = 2 OBVIOUS
<1>2. t \in Seq(T) /\ Len(t) = Len(e) + 2 BY <1>1, ConcatProperties
<1>3. t[Len(e) + 1] = "RS" /\ t[Len(e) + 2] = "trailer"
  <2>1. t[Len(e) + 1] = <<"RS", "trailer">>[1] OBVIOUS
  <2>2. t[Len(e) + 2] = <<"RS", "trailer">>[2] OBVIOUS
  <2>3. QED BY <2>1, <2>2
<1>4. \A k \in 1..Len(e) : t[k] = e[k] BY <1>1
<1>5. Len(e) \in Nat OBVIOUS
<1>6. \A k \in DOMAIN t : t[k] = "RS" <=> k = Len(e) + 1
  <2>1. \A k \in DOMAIN t : k \in 1..Len(e) \/ k = Len(e) + 1 \/ k = Len(e) + 2 BY <1>2, <1>5
  <2> SUFFICES ASSUME NEW k \in DOMAIN t PROVE t[k] = "RS" <=> k = Len(e) + 1 OBVIOUS
  <2>2. CASE k \in 1..Len(e) BY <1>4, <1>5, <2>2
  <2>3. CASE k = Len(e) + 1 BY <1>3, <2>3
  <2>4. CASE k = Len(e) + 2 BY <1>3, <1>5, <2>4
  <2>5. QED BY <2>1, <2>2, <2>3, <2>4
<1>7. SubSeq(t, 1, Len(e)) = e
  <2>1. SubSeq(t, 1, Len(e)) \in Seq(T) /\ Len(SubSeq(t, 1, Len(e))) = Len(e)
        /\ \A k \in 1..Len(e) : SubSeq(t, 1, Len(e))[k] = t[k]
    <3>1. Len(e) <= Len(t) BY <1>2, <1>5
    <3> HIDE <1>4
    <3>2. QED BY <1>2, <1>5, <3>1, SubSeqProperties
  <2>2. QED BY <1>4, <2>1, SeqEqual
<1>8. SubSeq(t, Len(e) + 2, Len(e) + 2) = <<"trailer">>
  <2> DEFINE m == Len(e) + 2
  <2>1. m \in Nat /\ 1 <= m /\ m <= Len(t) BY <1>2, <1>5
  <2>2. t[m] = "trailer" BY <1>3
  <2> HIDE DEF m
  <2>3. SubSeq(t, m, m) = <<t[m]>>
    <3>1. SubSeq(t, m, m) \in Seq(T) BY <1>2, <2>1
    <3>2. Len(SubSeq(t, m, m)) = 1 BY <1>2, <2>1
    <3>3. SubSeq(t, m, m)[1] = t[m]
      <4>1. SubSeq(t, m, m)[1] = t[m + 1 - 1] BY <1>2, <2>1
      <4>2. m + 1 - 1 = m BY <2>1
      <4>3. QED BY <4>1, <4>2
    <3>4. <<t[m]>> \in Seq(T) /\ Len(<<t[m]>>) = 1 /\ <<t[m]>>[1] = t[m]
      <4>1. PICK y \in T : y = t[m] BY <1>2, <2>1
      <4>2. <<y>> \in Seq(T) /\ Len(<<y>>) = 1 /\ <<y>>[1] = y OBVIOUS
      <4>3. QED BY <4>1, <4>2
    <3>5. \A i \in 1..1 : i = 1 OBVIOUS
    <3>6. QED BY <3>1, <3>2, <3>3, <3>4, <3>5, SeqEqual
  <2>4. QED BY <2>2, <2>3 DEF m
<1>9. QED BY <1>2, <1>6, <1>7, <1>8

(* What is encoded is read back.                                           *)
LEMMA ParsesBack ==
    ASSUME NEW V, NEW p \in Seq(V), NEW ref
    PROVE  Pool!parseMemory(Pool!encodeMemory(p, ref)) = [prompt |-> p, ref |-> ref]
<1> DEFINE T == V \cup {"ESC", "RS", "0", "1"} \cup {"trailer"}
           e == Pool!escape(p)
           n == Len(e)
           t == e \o <<"RS", "trailer">>
           marks == {k \in DOMAIN t : t[k] = "RS"}
<1>1. e \in Seq(T) /\ Kept(e, p)
  <2>1. e \in Seq(V \cup {"ESC", "RS", "0", "1"}) /\ Kept(e, p) BY ReadsBack
  <2>2. V \cup {"ESC", "RS", "0", "1"} \subseteq T OBVIOUS
  <2> HIDE DEF e, T
  <2>3. QED BY <2>1, <2>2
<1>2. {"RS", "trailer"} \subseteq T OBVIOUS
<1> HIDE DEF e, T
<1>21. \A k \in 1..Len(e) : e[k] # "RS" BY <1>1 DEF Kept
<1>3. n \in Nat /\ DOMAIN t = 1..(n + 2) /\ Len(t) = n + 2
      /\ (\A k \in DOMAIN t : t[k] = "RS" <=> k = n + 1)
      /\ SubSeq(t, 1, n) = e /\ SubSeq(t, n + 2, n + 2) = <<"trailer">>
  <2>1. n \in Nat BY <1>1
  <2> HIDE DEF t
  <2>2. t = e \o <<"RS", "trailer">> BY DEF t
  <2>3. QED BY <1>1, <1>2, <1>21, <2>1, <2>2, TrailerAfter
<1> HIDE DEF n, t
<1>5. marks = {n + 1}
  <2>1. n + 1 \in DOMAIN t BY <1>3
  <2>2. QED BY <1>3, <2>1
<1>6. (CHOOSE k \in marks : \A j \in marks : k <= j) = n + 1
  <2>1. n + 1 <= n + 1 BY <1>3
  <2> HIDE DEF marks
  <2>2. QED BY <1>5, <2>1
<1>7. (n + 1) - 1 = n /\ (n + 1) + 1 = n + 2 BY <1>3
<1>8. Pool!unescape(e) = p BY <1>1 DEF Kept
<1> DEFINE r == Pool!encodeMemory(p, ref)
<1>9. r.text = t /\ r.ref = ref BY DEF Pool!encodeMemory, t, e, Pool!RS, Pool!Trailer
<1> HIDE DEF r
<1>10. marks = {k \in DOMAIN r.text : r.text[k] = Pool!RS} /\ marks # {} BY <1>5, <1>9 DEF Pool!RS
<1> HIDE DEF marks
<1>11. Pool!parseMemory(r) = [prompt |-> Pool!unescape(SubSeq(t, 1, (n + 1) - 1)),
          ref |-> IF SubSeq(t, (n + 1) + 1, Len(t)) = <<"trailer">> THEN ref ELSE Pool!NoRef]
  BY <1>6, <1>9, <1>10 DEF Pool!parseMemory, Pool!Trailer
<1>12. QED BY <1>3, <1>7, <1>8, <1>11 DEF r

-----------------------------------------------------------------------------
(* The places that pass, counted.                                          *)
LEMMA NthIsOne ==
    ASSUME NEW N \in Nat, NEW S \in SUBSET (1..N)
    PROVE  /\ Pool!Cardinality(S) \in Nat
           /\ \A i \in 1..Pool!Cardinality(S) : Pool!Nth(S, i) \in S
<1> DEFINE Upto(m) == {j \in S : j <= m}
           C(m) == Cardinality(Upto(m))
           G == {m \in Nat : m <= N => \A i \in 1..C(m) : \E k \in S : C(k) = i}
<1>1. \A m : IsFiniteSet(Upto(m)) /\ C(m) \in Nat
  <2>1. IsFiniteSet(1..N) BY FS_Interval
  <2>2. \A m : Upto(m) \subseteq 1..N OBVIOUS
  <2>3. QED BY <2>1, <2>2, FS_Subset, FS_CardinalityType
<1>2. 0 \in G
  <2>1. Upto(0) = {}
    <3> HIDE DEF C, G
    <3>1. \A j \in S : ~(j <= 0) OBVIOUS
    <3>2. QED BY <3>1
  <2>2. C(0) = 0 BY <2>1, FS_EmptySet
  <2> HIDE DEF C
  <2>3. QED BY <2>2
<1>3. ASSUME NEW m \in 0..N - 1, m \in G PROVE m + 1 \in G
  <2>1. m \in Nat /\ \A i \in 1..C(m) : \E k \in S : C(k) = i
    <3> HIDE DEF C
    <3>1. m \in Nat /\ m <= N OBVIOUS
    <3>2. QED BY <1>3, <3>1
  <2>2. CASE m + 1 \notin S
    <3>1. Upto(m + 1) = Upto(m)
      <4>1. \A j \in S : j \in Int /\ j # m + 1 BY <2>2
      <4>2. \A j \in S : j <= m + 1 <=> j <= m BY <2>1, <4>1
      <4> HIDE DEF C, G
      <4>3. QED BY <4>2
    <3>2. C(m + 1) = C(m) BY <3>1
    <3> HIDE DEF C
    <3>3. QED BY <2>1, <3>2
  <2>3. CASE m + 1 \in S
    <3>1. Upto(m + 1) = Upto(m) \cup {m + 1} /\ m + 1 \notin Upto(m)
      <4>1. \A j \in S : j \in Int OBVIOUS
      <4>2. \A j \in S : j <= m + 1 <=> j <= m \/ j = m + 1 BY <2>1, <4>1
      <4>3. ~(m + 1 <= m) BY <2>1
      <4> HIDE DEF C, G
      <4>4. QED BY <2>3, <4>2, <4>3
    <3>2. C(m + 1) = C(m) + 1 BY <1>1, <3>1, FS_AddElement
    <3>3. C(m) \in Nat BY <1>1
    <3> HIDE DEF C
    <3>4. \A i \in 1..C(m + 1) : i \in 1..C(m) \/ i = C(m + 1) BY <3>2, <3>3
    <3>5. QED BY <2>1, <2>3, <3>4
  <2>4. QED BY <2>2, <2>3
<1> HIDE DEF G
<1>4. N \in G
  <2>1. N \in 0..N OBVIOUS
  <2>2. 0..N \subseteq G BY <1>2, <1>3, CountUp
  <2>3. QED BY <2>1, <2>2
<1>5. Upto(N) = S
  <2>1. \A j \in S : j <= N OBVIOUS
  <2> HIDE DEF C
  <2>2. QED BY <2>1
<1>6. C(N) = Cardinality(S) BY <1>5
<1>7. \A i \in 1..Cardinality(S) : \E k \in S : C(k) = i
  <2> HIDE DEF C
  <2>1. QED BY <1>4, <1>6 DEF G
<1>8. Pool!Cardinality(S) = Cardinality(S) /\ Cardinality(S) \in Nat
  BY <1>1, <1>6 DEF Pool!Cardinality, Cardinality
<1>9. \A i : Pool!Nth(S, i) = CHOOSE k \in S : C(k) = i
  BY DEF Pool!Nth, Pool!Cardinality, Cardinality
<1> HIDE DEF C
<1>10. QED BY <1>7, <1>8, <1>9

LEMMA ListTo ==
    ASSUME NEW V, NEW m \in Nat, NEW f \in [1..m -> V]
    PROVE  Len(f) = m /\ DOMAIN f = 1..m
OBVIOUS

Picked(a, s, pass, n) ==
    a = LET most == IF Pool!Cardinality(pass) < n THEN Pool!Cardinality(pass) ELSE n
        IN [i \in 1..most |-> Pool!Chip(Pool!parseMemory(s[Pool!Nth(pass, i)]))]

AllOf(a, s, pass) == \A j \in DOMAIN a : \E i \in pass : a[j] = Pool!Chip(Pool!parseMemory(s[i]))

(* What is picked is of what passed, and no more than asked for.           *)
LEMMA PicksPass ==
    ASSUME NEW s, \E N \in Nat : DOMAIN s = 1..N, NEW pass \in SUBSET DOMAIN s, NEW n \in Nat, NEW a,
           Picked(a, s, pass, n)
    PROVE  Len(a) <= n /\ AllOf(a, s, pass)
<1> DEFINE c == Pool!Cardinality(pass)
           most == IF c < n THEN c ELSE n
<1>1. c \in Nat /\ \A i \in 1..c : Pool!Nth(pass, i) \in pass
  <2>1. PICK N \in Nat : DOMAIN s = 1..N OBVIOUS
  <2>2. QED BY <2>1, NthIsOne
<1> HIDE DEF c
<1>2. a = [i \in 1..most |-> Pool!Chip(Pool!parseMemory(s[Pool!Nth(pass, i)]))] BY DEF c, Picked
<1>3. most \in Nat /\ most <= n /\ most <= c BY <1>1
<1> HIDE DEF most
<1>4. Len(a) = most /\ DOMAIN a = 1..most
  <2> DEFINE f(i) == Pool!Chip(Pool!parseMemory(s[Pool!Nth(pass, i)]))
  <2>1. a = [i \in 1..most |-> f(i)] BY <1>2
  <2> DEFINE V == {f(i) : i \in 1..most}
  <2> HIDE DEF f
  <2>2. a \in [1..most -> V] BY <2>1
  <2> HIDE DEF V
  <2>3. QED BY <1>3, <2>2, ListTo
<1>5. \A i \in 1..most : i \in 1..c BY <1>1, <1>3
<1>6. QED BY <1>1, <1>2, <1>3, <1>4, <1>5 DEF AllOf

(* The relayer's answers are lists of records of the namespace.            *)
LEMMA RelayedAre ==
    ASSUME NEW ns, IsFiniteSet(records[ns]), NEW limit \in Nat,
           NEW s \in Pool!Relayed(ns, limit) \cup {<<>>}
    PROVE  \E N \in Nat : DOMAIN s = 1..N /\ \A k \in 1..N : s[k] \in records[ns]
<1>1. CASE s = <<>>
  <2>1. DOMAIN s = 1..0 BY <1>1
  <2>2. QED BY <2>1
<1>2. CASE s \in Pool!Relayed(ns, limit)
  <2> DEFINE c == Cardinality(records[ns])
             most == IF c < limit THEN c ELSE limit
  <2>1. c \in Nat BY FS_CardinalityType
  <2>2. Pool!Cardinality(records[ns]) = c BY DEF Pool!Cardinality, Cardinality
  <2> HIDE DEF c
  <2>3. Pool!Relayed(ns, limit)
          = UNION {{t \in [1..k -> records[ns]] : \A i, j \in 1..k : t[i] = t[j] => i = j} : k \in 0..most}
    BY <2>2 DEF Pool!Relayed
  <2>4. most \in Nat BY <2>1
  <2> HIDE DEF most
  <2>5. PICK k \in 0..most : s \in [1..k -> records[ns]] BY <1>2, <2>3
  <2>6. k \in Nat BY <2>4
  <2>7. QED BY <2>5, <2>6
<1>3. QED BY <1>1, <1>2

-----------------------------------------------------------------------------
(* The prompt memory: whatever is stored or on its way was said.           *)

Written == Prompts \cup {Caption}
Namespaces == Users \cup {"global"}
Text(p, m, c) == Pool!encodeMemory(p, [m |-> m, c |-> c])

PoolRequest ==
  [sub : Users, prompt : Written, model : Models, policy : Pool!Policies \cup {"none"},
   step : {"received", "verify"}]

PoolTyped ==
    /\ chain \in [Models -> {Pool!Unpublished} \cup [creator : Users, policy : Pool!Policies]]
    /\ tabSession \in Users \cup {NoUser}
    /\ publish = Pool!NotPublishing
         \/ publish \in [model : Models, prompt : Prompts, policy : Pool!Policies]
         \/ publish \in [model : Models, prompt : {Caption}, policy : {"none"}]
    /\ requests \subseteq PoolRequest
    /\ records = [ns \in Namespaces |-> records[ns]]
    /\ \A ns \in Namespaces : IsFiniteSet(records[ns])
    /\ \A w \in writes : w.ns \in Namespaces

(* A request holds what was said; a caption comes without a policy, and    *)
(* only a policy of the public leads to the pool.                          *)
RequestsMeant ==
    \A r \in requests :
        /\ <<r.sub, r.prompt, r.model>> \in said
        /\ r.prompt = Caption => r.policy = "none"
        /\ r.step = "verify" => r.policy \notin {"none", "restricted"}

(* A record of a user, or of the pool: written elsewhere, or of a model    *)
(* its author has published.                                               *)
OfUser(ns, t) ==
    ns \in Users /\ \E p \in Written, m \in Models : t = Text(p, m, NoUser) /\ <<ns, p, m>> \in said
OfPool(t) ==
    \E p \in Prompts, m \in Models, c \in Users :
        /\ t = Text(p, m, c) /\ <<c, p, m>> \in said
        /\ chain[m].creator = c /\ chain[m].policy # "restricted"
Belongs(ns, t) == OfUser(ns, t) \/ (ns = "global" /\ (t \in Foreign \/ OfPool(t)))

RecordsBelong ==
    /\ \A w \in writes : Belongs(w.ns, w.record)
    /\ \A ns \in Namespaces : \A t \in records[ns] : Belongs(ns, t)

PoolInv == PoolTyped /\ RequestsMeant /\ RecordsBelong

LEMMA PoolSettings ==
    /\ Clients \subseteq Users /\ NoUser \notin Users /\ "global" \notin Users /\ Caption \notin Prompts
    /\ \A p \in Written : \E V : p \in Seq(V)
    /\ IsFiniteSet(Foreign) /\ \A t \in Foreign : t.ref.c \in Users \cup {NoUser}
    /\ OverFetch \in Nat /\ Limits \subseteq Nat
<1>1. Pool!PoolAssumption BY SessionsAssumption
<1>2. IsFiniteSet(Foreign) BY <1>1 DEF Pool!PoolAssumption, Pool!IsFiniteSet, IsFiniteSet
<1>3. \A p \in Written : p \in Seq(Pool!ToSet(p)) BY <1>1 DEF Pool!PoolAssumption, Written
<1>4. \A p \in Written : \E V : p \in Seq(V) BY <1>3
<1>5. QED BY <1>1, <1>2, <1>4 DEF Pool!PoolAssumption

(* What a record is stays so: what was said was said, and a model on the   *)
(* chain stays as it is.                                                   *)
LEMMA BelongsStays ==
    ASSUME said \subseteq said', NEW ns, NEW t, Belongs(ns, t),
           \A m \in Models : chain[m].creator \in Users => chain'[m] = chain[m]
    PROVE  Belongs(ns, t)'
<1>1. OfUser(ns, t) => OfUser(ns, t)' BY DEF OfUser, Text, Pool!encodeMemory
<1>2. OfPool(t) => OfPool(t)'
  <2> SUFFICES ASSUME OfPool(t) PROVE OfPool(t)' OBVIOUS
  <2>1. PICK p \in Prompts, m \in Models, c \in Users :
          /\ t = Text(p, m, c) /\ <<c, p, m>> \in said
          /\ chain[m].creator = c /\ chain[m].policy # "restricted"
    BY DEF OfPool
  <2>2. chain'[m] = chain[m] BY <2>1
  <2>3. t = Text(p, m, c)' BY <2>1 DEF Text, Pool!encodeMemory
  <2>4. QED BY <2>1, <2>2, <2>3 DEF OfPool
<1>3. QED BY <1>1, <1>2 DEF Belongs

LEMMA RecordsStay ==
    ASSUME RecordsBelong, said \subseteq said', writes' \subseteq writes, records' = records,
           \A m \in Models : chain[m].creator \in Users => chain'[m] = chain[m]
    PROVE  RecordsBelong'
<1>1. \A w \in writes' : Belongs(w.ns, w.record)' BY BelongsStays DEF RecordsBelong
<1>2. \A ns \in Namespaces : \A t \in records'[ns] : Belongs(ns, t)' BY BelongsStays DEF RecordsBelong
<1>3. QED BY <1>1, <1>2 DEF RecordsBelong

LEMMA PoolStart == Pool!Init => PoolInv
<1> SUFFICES ASSUME Pool!Init PROVE PoolInv OBVIOUS
<1>1. /\ chain = [m \in Models |-> Pool!Unpublished] /\ tabSession = NoUser
      /\ publish = Pool!NotPublishing /\ requests = {} /\ writes = {}
      /\ records = [ns \in Namespaces |-> IF ns = "global" THEN Foreign ELSE {}]
  BY DEF Pool!Init, Pool!Global, Namespaces
<1>2. \A ns \in Namespaces : IsFiniteSet(records[ns]) BY <1>1, PoolSettings, FS_EmptySet
<1>3. PoolTyped BY <1>1, <1>2 DEF PoolTyped
<1>4. \A ns \in Namespaces : \A t \in records[ns] : Belongs(ns, t)
  BY <1>1 DEF Belongs
<1>5. QED BY <1>1, <1>3, <1>4 DEF PoolInv, RequestsMeant, RecordsBelong

(* A publish adds a model that was not there.                              *)
LEMMA PublishKeeps ==
    ASSUME PoolInv, NEW m \in Models, NEW u \in Users, NEW policy \in Pool!Policies,
           chain[m] = Pool!Unpublished,
           chain' = [chain EXCEPT ![m] = [creator |-> u, policy |-> policy]],
           UNCHANGED <<tabSession, requests, writes, records, said>>,
           publish' = publish
             \/ publish' \in [model : Models, prompt : Prompts, policy : Pool!Policies]
             \/ publish' \in [model : Models, prompt : {Caption}, policy : {"none"}]
    PROVE  PoolInv'
<1>1. chain' \in [Models -> {Pool!Unpublished} \cup [creator : Users, policy : Pool!Policies]]
  BY DEF PoolInv, PoolTyped
<1>2. PoolTyped' BY <1>1 DEF PoolInv, PoolTyped
<1>3. RequestsMeant' BY DEF PoolInv, RequestsMeant
<1>4. \A k \in Models : chain[k].creator \in Users => chain'[k] = chain[k]
  BY PoolSettings DEF PoolInv, PoolTyped, Pool!Unpublished
<1>5. RecordsBelong' BY <1>4, RecordsStay DEF PoolInv
<1>6. QED BY <1>2, <1>3, <1>5 DEF PoolInv

(* A request holds what it says.                                           *)
LEMMA SendKeeps ==
    ASSUME PoolInv, NEW u \in Users, NEW p \in Written, NEW m \in Models,
           NEW policy \in Pool!Policies \cup {"none"}, p = Caption => policy = "none",
           Pool!Send(u, p, m, policy), UNCHANGED <<chain, tabSession, writes, records>>,
           publish' \in {publish, Pool!NotPublishing}
    PROVE  PoolInv'
<1> DEFINE r == [sub |-> u, prompt |-> p, model |-> m, policy |-> policy, step |-> "received"]
<1>1. requests' = requests \cup {r} /\ said' = said \cup {<<u, p, m>>} BY DEF Pool!Send
<1>2. r \in PoolRequest /\ <<r.sub, r.prompt, r.model>> = <<u, p, m>> /\ r.step = "received"
      /\ r.prompt = p /\ r.policy = policy
  BY DEF PoolRequest
<1> HIDE DEF r
<1>3. PoolTyped' BY <1>1, <1>2 DEF PoolInv, PoolTyped
<1>4. RequestsMeant' BY <1>1, <1>2 DEF PoolInv, RequestsMeant
<1>5. RecordsBelong' BY <1>1, RecordsStay DEF PoolInv
<1>6. QED BY <1>3, <1>4, <1>5 DEF PoolInv

(* A write is accepted.                                                    *)
LEMMA WriteKeeps ==
    ASSUME PoolInv, NEW ns \in Namespaces, NEW t, Belongs(ns, t),
           writes' = writes \cup {[ns |-> ns, record |-> t]},
           requests' \subseteq PoolRequest, RequestsMeant',
           UNCHANGED <<chain, tabSession, publish, records, said>>
    PROVE  PoolInv'
<1>1. \A w \in writes' : w \in writes \/ (w.ns = ns /\ w.record = t) OBVIOUS
<1>2. PoolTyped' BY <1>1 DEF PoolInv, PoolTyped
<1>3. \A k, s : Belongs(k, s) => Belongs(k, s)' BY BelongsStays
<1>4. RecordsBelong' BY <1>1, <1>3 DEF PoolInv, RecordsBelong
<1>5. QED BY <1>2, <1>4 DEF PoolInv

(* Fewer requests.                                                         *)
LEMMA DropKeeps ==
    ASSUME PoolInv, NEW r, Pool!Drop(r)
    PROVE  PoolInv'
<1>1. requests' = requests \ {r} /\ UNCHANGED <<chain, tabSession, publish, writes, records, said>>
  BY DEF Pool!Drop
<1>2. PoolTyped' /\ RequestsMeant' BY <1>1 DEF PoolInv, PoolTyped, RequestsMeant
<1>3. RecordsBelong' BY <1>1, RecordsStay DEF PoolInv
<1>4. QED BY <1>2, <1>3 DEF PoolInv

LEMMA RememberKeeps ==
    ASSUME PoolInv, NEW r \in requests, Pool!remember(r)
    PROVE  PoolInv'
<1> DEFINE t == Text(r.prompt, r.model, NoUser)
           v == [r EXCEPT !.step = "verify"]
<1>1. writes' = writes \cup {[ns |-> r.sub, record |-> t]}
      /\ requests' = (requests \ {r}) \cup (IF r.policy \in {"none", "restricted"} THEN {} ELSE {v})
      /\ UNCHANGED <<chain, tabSession, publish, records, said>>
  BY DEF Pool!remember, Text
<1>2. r \in PoolRequest /\ <<r.sub, r.prompt, r.model>> \in said /\ (r.prompt = Caption => r.policy = "none")
  BY DEF PoolInv, PoolTyped, RequestsMeant
<1>3. v \in PoolRequest /\ v.sub = r.sub /\ v.prompt = r.prompt /\ v.model = r.model
      /\ v.policy = r.policy /\ v.step = "verify"
  BY <1>2 DEF PoolRequest
<1> HIDE DEF v, t
<1>4. requests' \subseteq PoolRequest BY <1>1, <1>3 DEF PoolInv, PoolTyped
<1>5. \A q \in requests' : q \in requests \/ (q = v /\ r.policy \notin {"none", "restricted"}) BY <1>1
<1>6. RequestsMeant' BY <1>1, <1>2, <1>3, <1>5 DEF PoolInv, RequestsMeant
<1>7. r.sub \in Users /\ r.prompt \in Written /\ r.model \in Models BY <1>2 DEF PoolRequest
<1>8. Belongs(r.sub, t) BY <1>2, <1>7 DEF Belongs, OfUser, t
<1>9. r.sub \in Namespaces BY <1>7 DEF Namespaces
<1>10. QED BY <1>1, <1>4, <1>6, <1>8, <1>9, WriteKeeps

LEMMA MirrorKeeps ==
    ASSUME PoolInv, NEW r \in requests, Pool!Mirror(r)
    PROVE  PoolInv'
<1>1. CASE Pool!Drop(r) BY <1>1, DropKeeps
<1>2. CASE ~Pool!Drop(r)
  <2> DEFINE t == Text(r.prompt, r.model, r.sub)
  <2>1. /\ r.step = "verify" /\ Pool!verifyGlobalMirror(r)
        /\ writes' = writes \cup {[ns |-> "global", record |-> t]}
        /\ requests' = requests \ {r}
        /\ UNCHANGED <<chain, tabSession, publish, records, said>>
    BY <1>2 DEF Pool!Mirror, Text, Pool!Global
  <2>2. r \in PoolRequest /\ <<r.sub, r.prompt, r.model>> \in said /\ (r.prompt = Caption => r.policy = "none")
        /\ r.policy # "none"
    BY <2>1 DEF PoolInv, PoolTyped, RequestsMeant
  <2>3. r.sub \in Users /\ r.prompt \in Prompts /\ r.model \in Models BY <2>2 DEF PoolRequest, Written
  <2>4. OfPool(t) BY <2>1, <2>2, <2>3 DEF OfPool, Pool!verifyGlobalMirror
  <2> HIDE DEF t
  <2>5. Belongs("global", t) BY <2>4 DEF Belongs
  <2>6. requests' \subseteq PoolRequest BY <2>1 DEF PoolInv, PoolTyped
  <2>7. RequestsMeant' BY <2>1 DEF PoolInv, RequestsMeant
  <2>8. "global" \in Namespaces BY DEF Namespaces
  <2>9. QED BY <2>1, <2>5, <2>6, <2>7, <2>8, WriteKeeps
<1>3. QED BY <1>1, <1>2

LEMMA LandKeeps ==
    ASSUME PoolInv, NEW w \in writes, Pool!Land(w)
    PROVE  PoolInv'
<1>1. writes' = writes \ {w} /\ UNCHANGED <<chain, tabSession, publish, requests, said>>
  BY DEF Pool!Land
<1>2. RequestsMeant' BY <1>1 DEF PoolInv, RequestsMeant
<1>3. CASE records' = records
  <2>1. PoolTyped' BY <1>1, <1>3 DEF PoolInv, PoolTyped
  <2>2. RecordsBelong' BY <1>1, <1>3, RecordsStay DEF PoolInv
  <2>3. QED BY <1>2, <2>1, <2>2 DEF PoolInv
<1>4. CASE records' # records
  <2>1. records' = [records EXCEPT ![w.ns] = @ \cup {w.record}] BY <1>4 DEF Pool!Land
  <2>2. w.ns \in Namespaces /\ Belongs(w.ns, w.record) BY DEF PoolInv, PoolTyped, RecordsBelong
  <2>3. records = [ns \in Namespaces |-> records[ns]] BY DEF PoolInv, PoolTyped
  <2>4. records' = [ns \in Namespaces |-> IF ns = w.ns THEN records[ns] \cup {w.record} ELSE records[ns]]
    BY <2>1, <2>3
  <2>5. \A ns \in Namespaces : IsFiniteSet(records'[ns])
    BY <2>4, FS_AddElement DEF PoolInv, PoolTyped
  <2>6. records' = [ns \in Namespaces |-> records'[ns]] BY <2>4
  <2>7. PoolTyped' BY <1>1, <2>5, <2>6 DEF PoolInv, PoolTyped
  <2>8. \A ns, t : Belongs(ns, t) => Belongs(ns, t)' BY <1>1, BelongsStays
  <2>9. \A ns \in Namespaces : \A t \in records'[ns] : Belongs(ns, t)
    BY <2>2, <2>4 DEF PoolInv, RecordsBelong
  <2>10. RecordsBelong' BY <1>1, <2>8, <2>9 DEF PoolInv, RecordsBelong
  <2>11. QED BY <1>2, <2>7, <2>10 DEF PoolInv
<1>5. QED BY <1>3, <1>4

(* Every step of the memory keeps the invariant.                           *)
LEMMA PoolStep ==
    ASSUME PoolInv, [Pool!Next]_(Pool!vars)
    PROVE  PoolInv'
<1>1. CASE Pool!SwitchAccount
  <2>1. tabSession' \in Users \cup {NoUser} /\ UNCHANGED <<chain, publish, requests, writes, records, said>>
    BY <1>1 DEF Pool!SwitchAccount
  <2>2. PoolTyped' /\ RequestsMeant' BY <2>1 DEF PoolInv, PoolTyped, RequestsMeant
  <2>3. RecordsBelong' BY <2>1, RecordsStay DEF PoolInv
  <2>4. QED BY <2>2, <2>3 DEF PoolInv
<1>2. CASE Pool!rememberCreation
  <2>1. publish # Pool!NotPublishing /\ publish' = Pool!NotPublishing
        /\ UNCHANGED <<chain, tabSession, writes, records>>
    BY <1>2 DEF Pool!rememberCreation
  <2>2. CASE UNCHANGED <<requests, said>>
    <3>1. PoolTyped' /\ RequestsMeant' BY <2>1, <2>2 DEF PoolInv, PoolTyped, RequestsMeant
    <3>2. RecordsBelong' BY <2>1, <2>2, RecordsStay DEF PoolInv
    <3>3. QED BY <3>1, <3>2 DEF PoolInv
  <2>3. CASE tabSession # NoUser
             /\ Pool!Send(tabSession, publish.prompt, publish.model, publish.policy)
    <3>1. tabSession \in Users BY <2>3 DEF PoolInv, PoolTyped
    <3>2. publish \in [model : Models, prompt : Prompts, policy : Pool!Policies]
            \/ publish \in [model : Models, prompt : {Caption}, policy : {"none"}]
      BY <2>1 DEF PoolInv, PoolTyped
    <3>3. publish.prompt \in Written /\ publish.model \in Models /\ publish.policy \in Pool!Policies \cup {"none"}
          /\ (publish.prompt = Caption => publish.policy = "none")
      BY <3>2, PoolSettings DEF Written
    <3>4. QED BY <2>1, <2>3, <3>1, <3>3, SendKeeps
  <2>4. QED BY <1>2, <2>2, <2>3 DEF Pool!rememberCreation
<1>3. ASSUME NEW m \in Models, NEW policy \in Pool!Policies, Pool!PublishHere(m, policy) PROVE PoolInv'
  <2>1. tabSession \in Users BY <1>3 DEF PoolInv, PoolTyped, Pool!PublishHere
  <2>2. /\ chain[m] = Pool!Unpublished
        /\ chain' = [chain EXCEPT ![m] = [creator |-> tabSession, policy |-> policy]]
        /\ UNCHANGED <<tabSession, requests, writes, records, said>>
    BY <1>3 DEF Pool!PublishHere
  <2>3. publish' \in [model : Models, prompt : Prompts, policy : Pool!Policies]
          \/ publish' \in [model : Models, prompt : {Caption}, policy : {"none"}]
    BY <1>3 DEF Pool!PublishHere
  <2>4. QED BY <1>3, <2>1, <2>2, <2>3, PublishKeeps
<1>4. ASSUME NEW m \in Models, NEW policy \in Pool!Policies, NEW u \in Users,
             Pool!PublishElsewhere(u, m, policy)
      PROVE  PoolInv'
  <2>1. /\ chain[m] = Pool!Unpublished
        /\ chain' = [chain EXCEPT ![m] = [creator |-> u, policy |-> policy]]
        /\ UNCHANGED <<tabSession, publish, requests, writes, records, said>>
    BY <1>4 DEF Pool!PublishElsewhere
  <2>2. QED BY <1>4, <2>1, PublishKeeps
<1>5. ASSUME NEW u \in Users, NEW p \in Prompts, NEW m \in Models, NEW policy \in Pool!Policies,
             Pool!OtherClient(u, p, m, policy)
      PROVE  PoolInv'
  <2>1. p \in Written /\ p # Caption BY PoolSettings DEF Written
  <2>2. Pool!Send(u, p, m, policy) /\ UNCHANGED <<chain, tabSession, publish, writes, records>>
    BY <1>5 DEF Pool!OtherClient
  <2>3. QED BY <2>1, <2>2, SendKeeps
<1>6. ASSUME NEW r \in requests, Pool!Refuse(r) \/ Pool!remember(r) \/ Pool!Mirror(r) PROVE PoolInv'
  <2>1. Pool!Refuse(r) => Pool!Drop(r) BY DEF Pool!Refuse
  <2>2. QED BY <1>6, <2>1, DropKeeps, RememberKeeps, MirrorKeeps
<1>7. ASSUME NEW w \in writes, Pool!Land(w) PROVE PoolInv' BY <1>7, LandKeeps
<1>8. CASE UNCHANGED Pool!vars
  <2>1. UNCHANGED <<chain, tabSession, publish, requests, writes, records, said>> BY <1>8 DEF Pool!vars
  <2>2. PoolTyped' /\ RequestsMeant' BY <2>1 DEF PoolInv, PoolTyped, RequestsMeant
  <2>3. RecordsBelong' BY <2>1, RecordsStay DEF PoolInv
  <2>4. QED BY <2>2, <2>3 DEF PoolInv
<1>9. QED BY <1>1, <1>2, <1>3, <1>4, <1>5, <1>6, <1>7, <1>8 DEF Pool!Next

-----------------------------------------------------------------------------
(* What a record says.                                                     *)
LEMMA TextSays ==
    ASSUME NEW p \in Written, NEW m, NEW c
    PROVE  Pool!parseMemory(Text(p, m, c)) = [prompt |-> p, ref |-> [m |-> m, c |-> c]]
<1>1. PICK V : p \in Seq(V) BY PoolSettings
<1>2. QED BY <1>1, ParsesBack DEF Text

LEMMA OwnSays ==
    ASSUME PoolInv, NEW u \in Users, NEW t \in records[u]
    PROVE  Pool!Mine(u, Pool!Chip(Pool!parseMemory(t)))
<1>1. u \in Namespaces /\ u # "global" BY PoolSettings DEF Namespaces
<1>2. OfUser(u, t) BY <1>1 DEF PoolInv, RecordsBelong, Belongs
<1>3. PICK p \in Written, m \in Models : t = Text(p, m, NoUser) /\ <<u, p, m>> \in said
  BY <1>2 DEF OfUser
<1>4. Pool!parseMemory(t) = [prompt |-> p, ref |-> [m |-> m, c |-> NoUser]] BY <1>3, TextSays
<1>5. QED BY <1>3, <1>4 DEF Pool!Mine, Pool!Chip

LEMMA PoolSays ==
    ASSUME PoolInv, NEW t \in records["global"]
    PROVE  /\ Pool!parseMemory(t).ref.c # NoUser => Pool!parseMemory(t).ref.c \in Users
           /\ t \notin Foreign =>
                LET r == Pool!parseMemory(t) IN
                /\ r.ref.m \in Models /\ chain[r.ref.m].creator = r.ref.c
                /\ chain[r.ref.m].policy # "restricted"
                /\ <<r.ref.c, r.prompt, r.ref.m>> \in said /\ r.prompt # Caption
<1>1. Belongs("global", t) /\ "global" \notin Users
  BY PoolSettings DEF PoolInv, RecordsBelong, Namespaces
<1>2. ASSUME t \in Foreign PROVE Pool!parseMemory(t).ref.c # NoUser => Pool!parseMemory(t).ref.c \in Users
  <2>1. t.ref.c \in Users \cup {NoUser} BY <1>2, PoolSettings
  <2>2. Pool!NoRef.c = NoUser BY DEF Pool!NoRef
  <2>3. Pool!parseMemory(t).ref \in {t.ref, Pool!NoRef} BY DEF Pool!parseMemory
  <2>4. QED BY <2>1, <2>2, <2>3
<1>3. ASSUME t \notin Foreign
      PROVE  LET r == Pool!parseMemory(t) IN
             /\ r.ref.m \in Models /\ r.ref.c \in Users /\ chain[r.ref.m].creator = r.ref.c
             /\ chain[r.ref.m].policy # "restricted"
             /\ <<r.ref.c, r.prompt, r.ref.m>> \in said /\ r.prompt # Caption
  <2>1. OfPool(t) BY <1>1, <1>3 DEF Belongs, OfUser
  <2>2. PICK p \in Prompts, m \in Models, c \in Users :
          /\ t = Text(p, m, c) /\ <<c, p, m>> \in said
          /\ chain[m].creator = c /\ chain[m].policy # "restricted"
    BY <2>1 DEF OfPool
  <2>3. p \in Written /\ p # Caption BY PoolSettings DEF Written
  <2>4. Pool!parseMemory(t) = [prompt |-> p, ref |-> [m |-> m, c |-> c]] BY <2>2, <2>3, TextSays
  <2>5. QED BY <2>2, <2>3, <2>4
<1>4. QED BY <1>2, <1>3

(* What a recall answers comes of one answer of the relayer.               *)
LEMMA Answers ==
    ASSUME NEW ns, NEW limit, NEW n, NEW hidden, NEW ids,
           NEW a \in Pool!Recalled(ns, limit, n, hidden, ids)
    PROVE  \E s \in Pool!Relayed(ns, limit) \cup {<<>>} : Picked(a, s, Pool!Passing(s, hidden, ids), n)
BY DEF Pool!Recalled, Picked

LEMMA AnswersPass ==
    ASSUME NEW N \in Nat, NEW s, DOMAIN s = 1..N, NEW n \in Nat, NEW hidden, NEW ids, NEW a,
           Picked(a, s, Pool!Passing(s, hidden, ids), n)
    PROVE  Len(a) <= n /\ AllOf(a, s, Pool!Passing(s, hidden, ids))
<1>1. Pool!Passing(s, hidden, ids) \in SUBSET DOMAIN s BY DEF Pool!Passing
<1>2. QED BY <1>1, PicksPass

(* A recall of one's own namespace.                                        *)
LEMMA OwnRecalls ==
    ASSUME PoolInv, NEW u \in Users, NEW n \in Nat, NEW a,
           a \in Pool!recall(u, "personal", n) \cup Pool!search_models(u, "personal", n)
    PROVE  Len(a) <= n /\ \A k \in DOMAIN a : Pool!Mine(u, a[k])
<1>1. IsFiniteSet(records[u]) BY DEF PoolInv, PoolTyped, Namespaces
<1>2. PICK ids \in BOOLEAN : a \in Pool!Recalled(u, n, n, {}, ids)
  BY DEF Pool!recall, Pool!search_models
<1>3. PICK s \in Pool!Relayed(u, n) \cup {<<>>} : Picked(a, s, Pool!Passing(s, {}, ids), n) BY <1>2, Answers
<1>4. PICK N \in Nat : DOMAIN s = 1..N /\ \A k \in 1..N : s[k] \in records[u]
  BY <1>1, <1>3, RelayedAre
<1>5. Len(a) <= n /\ AllOf(a, s, Pool!Passing(s, {}, ids))
  BY <1>3, <1>4, AnswersPass
<1>6. \A i \in Pool!Passing(s, {}, ids) : s[i] \in records[u] BY <1>4 DEF Pool!Passing
<1>7. QED BY <1>5, <1>6, OwnSays DEF AllOf

(* A recall of the community's.                                            *)
LEMMA PoolRecalls ==
    ASSUME PoolInv, NEW u \in Users, NEW n \in Nat, NEW a
    PROVE  /\ a \in Pool!recall(u, "global", n) =>
                Len(a) <= n /\ \A k \in DOMAIN a : Pool!Known(a[k]) /\ a[k].creator # u
           /\ a \in Pool!search_models(u, "global", n) =>
                Len(a) <= n /\ \A k \in DOMAIN a : Pool!Known(a[k]) /\ a[k].model \in Models
<1>1. IsFiniteSet(records["global"]) /\ n * OverFetch \in Nat
  <2>1. \A i, j \in Nat : i * j \in Nat OBVIOUS
  <2>2. OverFetch \in Nat BY PoolSettings
  <2>3. n * OverFetch \in Nat BY <2>1, <2>2
  <2>4. QED BY <2>3 DEF PoolInv, PoolTyped, Namespaces
<1>2. ASSUME NEW hidden, {NoUser} \cup Denylist \subseteq hidden, NEW ids \in BOOLEAN,
             a \in Pool!Recalled("global", n * OverFetch, n, hidden, ids)
      PROVE  /\ Len(a) <= n
             /\ \A k \in DOMAIN a : /\ Pool!Known(a[k]) /\ a[k].creator \notin hidden
                                    /\ ids => a[k].model \in Models
  <2>1. PICK s \in Pool!Relayed("global", n * OverFetch) \cup {<<>>} : Picked(a, s, Pool!Passing(s, hidden, ids), n)
    BY <1>2, Answers
  <2>2. PICK N \in Nat : DOMAIN s = 1..N /\ \A k \in 1..N : s[k] \in records["global"]
    BY <1>1, <2>1, RelayedAre
  <2>3. Len(a) <= n /\ AllOf(a, s, Pool!Passing(s, hidden, ids))
    BY <2>1, <2>2, AnswersPass
  <2>4. ASSUME NEW i \in Pool!Passing(s, hidden, ids)
        PROVE  LET chip == Pool!Chip(Pool!parseMemory(s[i])) IN
               /\ Pool!Known(chip) /\ chip.creator \notin hidden
               /\ ids => chip.model \in Models
    <3>1. /\ s[i] \in records["global"] /\ Pool!parseMemory(s[i]).ref.c \notin hidden
          /\ ids => Pool!parseMemory(s[i]).ref.m \in Models
      BY <2>2 DEF Pool!Passing
    <3>2. Pool!parseMemory(s[i]).ref.c \in Users \ Denylist BY <1>2, <3>1, PoolSays
    <3>3. QED BY <3>1, <3>2 DEF Pool!Known, Pool!Chip
  <2>5. QED BY <2>3, <2>4 DEF AllOf
<1>3. Pool!recall(u, "global", n) = Pool!Recalled("global", n * OverFetch, n, {NoUser, u} \cup Denylist, FALSE)
  BY DEF Pool!recall, Pool!Global
<1>4. Pool!search_models(u, "global", n) = Pool!Recalled("global", n * OverFetch, n, {NoUser} \cup Denylist, TRUE)
  BY DEF Pool!search_models, Pool!Global
<1>5. a \in Pool!recall(u, "global", n) =>
        Len(a) <= n /\ \A k \in DOMAIN a : Pool!Known(a[k]) /\ a[k].creator # u
  <2> DEFINE hidden == {NoUser, u} \cup Denylist
  <2>1. {NoUser} \cup Denylist \subseteq hidden /\ u \in hidden OBVIOUS
  <2>2. Pool!recall(u, "global", n) = Pool!Recalled("global", n * OverFetch, n, hidden, FALSE) BY <1>3
  <2> HIDE DEF hidden
  <2>3. QED BY <1>2, <2>1, <2>2
<1>6. QED BY <1>2, <1>4, <1>5

LEMMA PoolInvIsHonest == PoolInv => MemoryIsHonest
<1> SUFFICES ASSUME PoolInv PROVE MemoryIsHonest OBVIOUS
<1>1. Pool!PoolIsPublished BY PoolSays DEF Pool!PoolIsPublished, Pool!Global
<1>2. Pool!ChipsAreHonest
  <2>1. \A n \in Limits : n \in Nat BY PoolSettings
  <2>2. QED BY <2>1, OwnRecalls, PoolRecalls DEF Pool!ChipsAreHonest
<1>3. QED BY <1>1, <1>2 DEF MemoryIsHonest

LEMMA PoolPart == [SessionsNext]_sessionsVars => [Pool!Next]_(Pool!vars)
<1>1. UNCHANGED poolVars => UNCHANGED Pool!vars BY DEF poolVars, Pool!vars
<1>2. [SessionsNext]_sessionsVars => Pool!Next \/ UNCHANGED poolVars BY DEF SessionsNext, sessionsVars
<1>3. QED BY <1>1, <1>2

(* Whatever is published, by whomever, whatever the page or another client *)
(* of the route sends and when, however the look at the chain turns out,   *)
(* whatever the relayer loses, delays and ranks: the pool holds, to the    *)
(* symbol, what authors said of models they published for the public, and  *)
(* a recall shows its user no more than the user may see (memory.ts: the   *)
(* codec and verifyGlobalMirror; routes/memory).                           *)
THEOREM MemoryStaysHonest == SessionsSpec => []MemoryIsHonest
<1>1. SessionsInit => Pool!Init BY DEF SessionsInit
<1>2. PoolInv /\ [SessionsNext]_sessionsVars => PoolInv' BY PoolPart, PoolStep
<1>3. QED BY <1>1, <1>2, PoolStart, PoolInvIsHonest, PTL DEF SessionsSpec

-----------------------------------------------------------------------------
(* What the types of the parts need besides.                               *)

(* The copilot: one turn at most is the latest, and it is in flight.       *)
CopilotTypes ==
    /\ status \in {"idle", "thinking", "asking", "done", "error", "quota", "unavailable"}
    /\ inFlight \in BOOLEAN /\ finished \in BOOLEAN
    /\ inFlight <=> \E c \in calls : c.latest
    /\ \A c, d \in calls : c.latest /\ d.latest => c = d

LEMMA NoneLatest == Typed => \A c \in Superseded \cup Dropped : c.latest = FALSE
<1>1. Typed => \A c \in calls :
          /\ [c EXCEPT !.latest = FALSE].latest = FALSE
          /\ [c EXCEPT !.latest = FALSE, !.dropped = TRUE].latest = FALSE
  BY DEF Typed, Call
<1>2. QED BY <1>1 DEF Superseded, Dropped

LEMMA DriveTypes ==
    ASSUME Typed, CopilotTypes, NEW next, NEW force, drive(next, force)
    PROVE  CopilotTypes'
<1>1. /\ inFlight' = TRUE /\ status' = "thinking" /\ finished' = finished
      /\ calls' = Superseded \cup {Turn(next, force)}
  BY DEF drive
<1>2. Turn(next, force).latest = TRUE BY DEF Turn
<1>3. \A c \in calls' : c.latest => c = Turn(next, force) BY <1>1, NoneLatest
<1>4. Turn(next, force) \in calls' BY <1>1
<1>5. QED BY <1>1, <1>2, <1>3, <1>4 DEF CopilotTypes

LEMMA CopilotTypesStep ==
    ASSUME Typed, CopilotTypes, [Next]_vars
    PROVE  CopilotTypes'
<1>1. CASE sendAnswer \/ generateNow \/ retry
  BY <1>1, DriveTypes DEF sendAnswer, generateNow, retry
<1>2. CASE reset \/ ClearOnToken
  <2>1. calls' = Dropped /\ inFlight' = FALSE /\ finished' = FALSE /\ status' = "idle"
    BY <1>2 DEF reset, ClearOnToken
  <2>2. QED BY <2>1, NoneLatest DEF CopilotTypes
<1>3. ASSUME NEW c \in calls, calls' = calls \ {c}, inFlight' = (inFlight /\ ~c.latest),
             finished' \in BOOLEAN,
             status' \in {"idle", "thinking", "asking", "done", "error", "quota", "unavailable"}
      PROVE  CopilotTypes'
  <2>1. inFlight' \in BOOLEAN BY <1>3 DEF CopilotTypes
  <2>2. inFlight' <=> \E d \in calls' : d.latest BY <1>3 DEF CopilotTypes
  <2>3. QED BY <1>3, <2>1, <2>2 DEF CopilotTypes
<1>4. ASSUME NEW c \in calls, Answer(c) PROVE CopilotTypes'
  <2>1. calls' = calls \ {c} /\ inFlight' = (inFlight /\ ~c.latest) BY <1>4 DEF Answer
  <2>2. CASE UNCHANGED <<messages, status, finished>> BY <1>3, <2>1, <2>2 DEF CopilotTypes
  <2>3. CASE \E reply \in Replies(c) : Settle(c, reply)
    <3>1. PICK reply \in Replies(c) : Settle(c, reply) BY <2>3
    <3>2. reply \in {"error", "unavailable", "quota", "prompt", "question"} BY DEF Replies
    <3>3. status' \in {"done", "asking", "error", "quota", "unavailable"} BY <3>1, <3>2 DEF Settle
    <3>4. finished' \in BOOLEAN BY <3>1 DEF Settle, CopilotTypes
    <3>5. QED BY <1>3, <2>1, <3>3, <3>4
  <2>4. QED BY <1>4, <2>2, <2>3 DEF Answer
<1>5. ASSUME NEW c \in calls, Lose(c) PROVE CopilotTypes'
  BY <1>3, <1>5 DEF Lose, CopilotTypes
<1>6. CASE QuotaTimer BY <1>6 DEF QuotaTimer, CopilotTypes
<1>7. CASE (\E u \in Users \cup {NoUser} : SwitchAccount(u)) \/ UNCHANGED vars
  BY <1>7 DEF SwitchAccount, vars, CopilotTypes
<1>8. QED BY <1>1, <1>2, <1>4, <1>5, <1>6, <1>7 DEF Next, Click

LEMMA CopilotIsTyped == Typed /\ CopilotTypes => TypeOK
BY DEF Typed, CopilotTypes, TypeOK

(* The recall hook: a timer that is set has a query and a token.           *)
RecallTypes ==
    /\ Memory!TypeOK
    /\ timer = Memory!Nothing \/ (timer.query \in Queries /\ timer.token \in 1..MaxTokens)

LEMMA RecallStart == Memory!Init => RecallTypes
<1>1. MaxTokens \in Nat BY SessionsAssumption DEF Memory!RecallAssumption
<1>2. QED BY <1>1 DEF Memory!Init, RecallTypes, Memory!TypeOK, Memory!Recall, Memory!Nothing

LEMMA RecallTypesStep ==
    ASSUME RecallTypes, [Memory!Next]_(Memory!vars)
    PROVE  RecallTypes'
<1>0. MaxTokens \in Nat /\ NoQuery \notin Queries BY SessionsAssumption DEF Memory!RecallAssumption
<1>1. ASSUME NEW q \in Queries \cup {NoQuery}, Memory!runRecall(q) PROVE RecallTypes'
  <2>1. UNCHANGED <<token, lastToken, tokenSettled, recalls>> /\ query' = q
    BY <1>1 DEF Memory!runRecall, Memory!session
  <2>2. CASE token = 0 \/ q = NoQuery
    BY <1>0, <1>1, <2>1, <2>2 DEF Memory!runRecall, RecallTypes, Memory!TypeOK, Memory!Recall, Memory!Nothing
  <2>3. CASE token # 0 /\ q # NoQuery
    <3>1. timer' = [query |-> q, token |-> token] /\ recallStatus' = "loading" /\ chips' = chips
      BY <1>1, <2>3 DEF Memory!runRecall
    <3>2. token \in 1..MaxTokens BY <1>0, <2>3 DEF RecallTypes, Memory!TypeOK
    <3>3. timer' \in Memory!Recall BY <1>0, <3>1, <3>2 DEF Memory!Recall
    <3>4. QED BY <2>1, <2>3, <3>1, <3>2, <3>3 DEF RecallTypes, Memory!TypeOK
  <2>4. QED BY <2>2, <2>3
<1>2. CASE Memory!Fire
  <2> DEFINE late == {[c EXCEPT !.latest = FALSE] : c \in recalls}
  <2>1. /\ timer # Memory!Nothing /\ recalls' = late \cup {Memory!Sent} /\ timer' = Memory!Nothing
        /\ UNCHANGED <<token, lastToken, tokenSettled, query, chips, recallStatus>>
    BY <1>2 DEF Memory!Fire, Memory!session
  <2>2. Memory!Sent \in Memory!Call /\ Memory!Sent.latest = TRUE
    BY <2>1 DEF Memory!Sent, Memory!Call, RecallTypes
  <2>3. \A c \in recalls : [c EXCEPT !.latest = FALSE] \in Memory!Call /\ [c EXCEPT !.latest = FALSE].latest = FALSE
    BY DEF RecallTypes, Memory!TypeOK, Memory!Call
  <2>4. recalls' \subseteq Memory!Call /\ \A c, d \in recalls' : c.latest /\ d.latest => c = d
    BY <2>1, <2>2, <2>3
  <2>5. Memory!Nothing \in Memory!Recall BY <1>0 DEF Memory!Nothing, Memory!Recall
  <2> HIDE DEF late
  <2>6. QED BY <2>1, <2>4, <2>5 DEF RecallTypes, Memory!TypeOK
<1>3. ASSUME NEW c \in recalls, Memory!Answer(c) PROVE RecallTypes'
  <2>1. /\ recalls' = recalls \ {c} /\ UNCHANGED <<token, lastToken, tokenSettled, query, timer>>
        /\ c \in Memory!Call
    BY <1>3 DEF Memory!Answer, Memory!session, RecallTypes, Memory!TypeOK
  <2>2. [query |-> c.query, token |-> c.token] \in Memory!Recall /\ Memory!Nothing \in Memory!Recall
    BY <1>0, <2>1 DEF Memory!Call, Memory!Recall, Memory!Nothing
  <2>3. chips' \in {chips, Memory!Nothing, [query |-> c.query, token |-> c.token]}
        /\ recallStatus' \in {recallStatus, "ready", "empty"}
    BY <1>3 DEF Memory!Answer, Memory!OnResults, Memory!OnFailure, Memory!Shown
  <2>4. QED BY <2>1, <2>2, <2>3 DEF RecallTypes, Memory!TypeOK
<1>4. CASE Memory!NewToken \/ Memory!LoseToken
  <2>1. /\ token' \in {0, lastToken'} /\ lastToken' \in 0..MaxTokens /\ tokenSettled' = FALSE
        /\ UNCHANGED <<query, timer, recalls, chips, recallStatus>>
    BY <1>0, <1>4 DEF Memory!NewToken, Memory!LoseToken, RecallTypes, Memory!TypeOK
  <2>2. QED BY <2>1 DEF RecallTypes, Memory!TypeOK
<1>5. CASE Memory!ClearOnToken
  <2>1. Memory!Nothing \in Memory!Recall BY <1>0 DEF Memory!Nothing, Memory!Recall
  <2>2. QED BY <1>5, <2>1 DEF Memory!ClearOnToken, RecallTypes, Memory!TypeOK
<1>6. CASE UNCHANGED Memory!vars
  BY <1>6 DEF Memory!vars, Memory!session, RecallTypes, Memory!TypeOK
<1>7. QED BY <1>1, <1>2, <1>3, <1>4, <1>5, <1>6 DEF Memory!Next, Memory!Typing

-----------------------------------------------------------------------------
(* What was said fits into its bound.                                      *)
SaidIsBounded == IsFiniteSet(said) /\ Cardinality(said) <= MaxSaid

LEMMA SayOneMore ==
    ASSUME SaidIsBounded, NEW x, Pool!Cardinality(said) < MaxSaid, said' = said \cup {x}
    PROVE  SaidIsBounded'
<1>1. Cardinality(said) < MaxSaid BY DEF Pool!Cardinality, Cardinality
<1>2. IsFiniteSet(said') /\ Cardinality(said') \in {Cardinality(said), Cardinality(said) + 1}
  BY FS_AddElement DEF SaidIsBounded
<1>3. MaxSaid \in Nat BY SessionsAssumption DEF Pool!PoolAssumption
<1>4. Cardinality(said) \in Nat BY FS_CardinalityType DEF SaidIsBounded
<1>5. QED BY <1>1, <1>2, <1>3, <1>4 DEF SaidIsBounded

LEMMA SaidStep ==
    ASSUME SaidIsBounded, [Pool!Next]_(Pool!vars)
    PROVE  SaidIsBounded'
<1>1. ASSUME NEW u, NEW p, NEW m, NEW policy, Pool!Send(u, p, m, policy) PROVE SaidIsBounded'
  BY <1>1, SayOneMore DEF Pool!Send
<1>2. CASE said' = said BY <1>2 DEF SaidIsBounded
<1>3. CASE UNCHANGED Pool!vars BY <1>2, <1>3 DEF Pool!vars
<1>4. CASE Pool!SwitchAccount BY <1>2, <1>4 DEF Pool!SwitchAccount
<1>5. CASE Pool!rememberCreation BY <1>1, <1>2, <1>5 DEF Pool!rememberCreation
<1>6. CASE \E m \in Models, policy \in Pool!Policies :
             Pool!PublishHere(m, policy) \/ (\E u \in Users : Pool!PublishElsewhere(u, m, policy))
  BY <1>2, <1>6 DEF Pool!PublishHere, Pool!PublishElsewhere
<1>7. CASE \E u \in Users, prompt \in Prompts, m \in Models, policy \in Pool!Policies :
             Pool!OtherClient(u, prompt, m, policy)
  BY <1>1, <1>7 DEF Pool!OtherClient
<1>8. CASE \E r \in requests : Pool!Refuse(r) \/ Pool!remember(r) \/ Pool!Mirror(r)
  BY <1>2, <1>8 DEF Pool!Refuse, Pool!remember, Pool!Mirror, Pool!Drop
<1>9. CASE \E w \in writes : Pool!Land(w) BY <1>2, <1>9 DEF Pool!Land
<1>10. QED BY <1>3, <1>4, <1>5, <1>6, <1>7, <1>8, <1>9 DEF Pool!Next

LEMMA SaidStart == Pool!Init => SaidIsBounded
<1>1. MaxSaid \in Nat BY SessionsAssumption DEF Pool!PoolAssumption
<1>2. QED BY <1>1, FS_EmptySet DEF Pool!Init, SaidIsBounded

LEMMA PoolIsTyped == PoolInv /\ SaidIsBounded => Pool!TypeOK
<1> SUFFICES ASSUME PoolInv, SaidIsBounded PROVE Pool!TypeOK OBVIOUS
<1>1. Pool!Cardinality(said) <= MaxSaid BY DEF SaidIsBounded, Pool!Cardinality, Cardinality
<1>2. \A m \in Models : chain[m] = Pool!Unpublished
        \/ chain[m] \in [creator : Users, policy : Pool!Policies]
  BY DEF PoolInv, PoolTyped
<1>3. \A r \in requests : r.sub \in Users /\ r.step \in {"received", "verify"}
  BY DEF PoolInv, PoolTyped, PoolRequest
<1>4. \A w \in writes : w.ns \in Users \cup {"global"} BY DEF PoolInv, PoolTyped, Namespaces
<1>5. QED BY <1>1, <1>2, <1>3, <1>4 DEF Pool!TypeOK, PoolInv, PoolTyped, Pool!Global

-----------------------------------------------------------------------------
(* A decryption: how often it has tried, and what it has left to read.     *)
ReadBounds ==
    /\ phase \in {"key", "keywait"} => tries <= KeyAttempts - 1
    /\ phase \in {"fetch", "fetchwait"} => tries <= MaxRetries
    /\ phase \in {"done", "failed"} => tries = 0
    /\ left >= 0 /\ (phase = "fetch" => left >= 1)
    /\ visible \in BOOLEAN /\ inEdge \in BOOLEAN
    /\ blobs \in [Aggregators -> {"holds", "absent", "down"}]

LEMMA ReadIsTyped == ReadInv /\ ReadBounds => Read!TypeOK
<1> SUFFICES ASSUME ReadInv, ReadBounds PROVE Read!TypeOK OBVIOUS
<1>1. phase \in {"key", "keywait", "fetch", "fetchwait", "done", "failed"} BY DEF ReadInv, ReadTypes
<1>2. tries \in 0..(KeyAttempts + MaxRetries)
  BY <1>1, ReadConstants DEF ReadInv, ReadTypes, ReadBounds
<1>3. left \in 0..Chunks BY ReadConstants DEF ReadInv, ReadTypes, ReadBounds
<1>4. QED BY <1>1, <1>2, <1>3 DEF ReadInv, ReadTypes, ReadBounds, Read!TypeOK

LEMMA ReadBoundsStart == Read!Init => ReadBounds
<1> SUFFICES ASSUME Read!Init PROVE ReadBounds OBVIOUS
<1>1. phase = "key" /\ tries = 0 /\ left = Chunks /\ visible \in BOOLEAN /\ inEdge = FALSE
      /\ blobs \in [Aggregators -> {"holds", "absent", "down"}]
  BY DEF Read!Init
<1>2. visible \in BOOLEAN /\ inEdge \in BOOLEAN BY <1>1
<1>3. left >= 0 /\ left >= 1 /\ tries <= KeyAttempts - 1 BY <1>1, ReadConstants
<1>4. QED BY <1>1, <1>2, <1>3 DEF ReadBounds

LEMMA ReadBoundsStep ==
    ASSUME ReadInv, ReadBounds, [Read!Next]_(Read!vars) PROVE ReadBounds'
<1> USE DEF Read!world
<1>0. tries \in Nat /\ left \in Int BY DEF ReadInv, ReadTypes
<1>1. ASSUME NEW n \in Nat, n <= MaxRetries, Read!Attempt(n), UNCHANGED Read!world PROVE ReadBounds'
  BY <1>1, ReadConstants DEF Read!Attempt, Read!Enter, ReadBounds
<1>2. ASSUME NEW p \in {"done", "failed"}, Read!Stop(p), left' \in Int, left' >= 0,
             UNCHANGED <<visible, blobs>>, inEdge' \in BOOLEAN
      PROVE  ReadBounds'
  BY <1>2 DEF Read!Stop, Read!Enter, ReadBounds
<1>3. ASSUME phase = "key", Read!KeyFails PROVE ReadBounds'
  <2>1. UNCHANGED left /\ UNCHANGED Read!world BY <1>3 DEF Read!KeyFails
  <2>2. CASE Read!MoreKeyTries
    BY <1>0, <1>3, <2>1, <2>2, ReadConstants DEF Read!KeyFails, Read!MoreKeyTries, Read!Enter, ReadBounds
  <2>3. CASE ~Read!MoreKeyTries
    BY <1>0, <1>2, <1>3, <2>1, <2>3 DEF Read!KeyFails, ReadBounds
  <2>4. QED BY <2>2, <2>3
<1>4. ASSUME phase = "fetch", Read!FetchFails, UNCHANGED <<visible, blobs>>, inEdge' \in BOOLEAN
      PROVE  ReadBounds'
  <2>1. UNCHANGED left BY <1>4 DEF Read!FetchFails
  <2>2. CASE tries < MaxRetries
    BY <1>0, <1>4, <2>1, <2>2, ReadConstants DEF Read!FetchFails, Read!Enter, ReadBounds
  <2>3. CASE ~(tries < MaxRetries)
    BY <1>0, <1>2, <1>4, <2>1, <2>3 DEF Read!FetchFails, ReadBounds
  <2>4. QED BY <2>2, <2>3
<1>5. CASE UNCHANGED Read!vars BY <1>5 DEF Read!vars, ReadBounds
<1>6. CASE Read!WorldChanges
  <2>1. UNCHANGED <<phase, tries, left, inEdge>> BY <1>6 DEF Read!WorldChanges
  <2>2. visible' \in BOOLEAN BY <1>6 DEF Read!WorldChanges, ReadBounds
  <2>3. blobs' \in [Aggregators -> {"holds", "absent", "down"}] BY <1>6 DEF Read!WorldChanges, ReadBounds
  <2>4. QED BY <2>1, <2>2, <2>3 DEF ReadBounds
<1>7. CASE Read!Tick BY <1>7 DEF Read!Tick, ReadBounds
<1>8. CASE Read!KeyServersAnswer
  BY <1>1, <1>3, <1>8, ReadConstants DEF Read!KeyServersAnswer
<1>9. CASE Read!KeyAgain BY <1>9 DEF Read!KeyAgain, Read!Enter, ReadBounds
<1>10. CASE Read!FetchBegins
  BY <1>0, <1>1, <1>10 DEF Read!FetchBegins, ReadBounds
<1>11. CASE Read!Responds
  <2>1. phase = "fetch" /\ UNCHANGED <<visible, blobs>> BY <1>11 DEF Read!Responds
  <2>2. inEdge' \in BOOLEAN BY <1>11 DEF Read!Responds
  <2>3. CASE Read!FetchFails BY <1>4, <2>1, <2>2, <2>3
  <2>4. CASE Read!Stop("failed") /\ UNCHANGED left BY <1>0, <1>2, <2>1, <2>2, <2>4 DEF ReadBounds
  <2>5. CASE UNCHANGED <<phase, tries, left>> BY <2>1, <2>2, <2>5 DEF ReadBounds
  <2>6. QED BY <1>11, <2>3, <2>4, <2>5 DEF Read!Responds
<1>12. CASE Read!Piece
  <2>1. phase = "fetch" /\ left' = left - 1 /\ UNCHANGED Read!world BY <1>12 DEF Read!Piece
  <2>2. left' \in Int /\ left' >= 0 BY <1>0, <2>1 DEF ReadBounds
  <2>3. CASE left' = 0
    BY <1>2, <1>12, <2>1, <2>2, <2>3 DEF Read!Piece, ReadBounds
  <2>4. CASE left' # 0
    <3>1. UNCHANGED <<phase, tries>> BY <1>12, <2>4 DEF Read!Piece
    <3>2. left' >= 1 BY <2>2, <2>4
    <3>3. UNCHANGED <<visible, blobs, inEdge>> BY <2>1
    <3>4. QED BY <2>2, <3>1, <3>2, <3>3 DEF ReadBounds
  <2>5. QED BY <2>3, <2>4
<1>13. CASE Read!ConnectionBreaks \/ Read!FetchTimesOut
  BY <1>4, <1>13 DEF Read!ConnectionBreaks, Read!FetchTimesOut, ReadBounds
<1>14. QED
  BY <1>5, <1>6, <1>7, <1>8, <1>9, <1>10, <1>11, <1>12, <1>13 DEF Read!Next

-----------------------------------------------------------------------------
(* Signing in: the types of the tab, and the store of challenges.          *)

LEMMA AuthCounts == \A S : Auth!Cardinality(S) = Cardinality(S)
BY DEF Auth!Cardinality, Cardinality

Numbered(S) == \A e \in S : e.at \in Nat
Distinct(S) == \A e, f \in S : e.at = f.at => e = f

(* Of entries put in at different places, at most K have fewer than K      *)
(* younger ones: the oldest of them has all the others after it.           *)
LEMMA YoungestFew ==
    ASSUME NEW S, IsFiniteSet(S), NEW K \in Nat, Numbered(S), Distinct(S)
    PROVE  Cardinality({e \in S : Cardinality({f \in S : f.at > e.at}) < K}) <= K
<1> DEFINE Younger(e) == {f \in S : f.at > e.at}
           few == {e \in S : Cardinality(Younger(e)) < K}
<1> SUFFICES Cardinality(few) <= K OBVIOUS
<1>0. few \subseteq S OBVIOUS
<1> HIDE DEF few
<1>1. IsFiniteSet(few) /\ Cardinality(few) \in Nat BY <1>0, FS_Subset, FS_CardinalityType
<1>2. CASE few = {} BY <1>2, FS_EmptySet
<1>3. CASE few # {}
  <2>1. {e.at : e \in few} \in SUBSET Nat /\ {e.at : e \in few} # {} BY <1>0, <1>3 DEF Numbered
  <2>2. PICK n \in {e.at : e \in few} : \A k \in {e.at : e \in few} : n <= k
    BY <2>1, LeastOne
  <2>3. PICK e \in few : e.at = n BY <2>2
  <2>4. \A f \in few \ {e} : f \in S /\ f.at \in Nat /\ e.at \in Nat /\ e.at <= f.at /\ f.at # e.at
    <3>1. \A f \in few : e.at <= f.at BY <2>2, <2>3
    <3>2. \A f \in few \ {e} : f.at # e.at BY <1>0 DEF Distinct
    <3>3. \A f \in few : f \in S /\ f.at \in Nat BY <1>0 DEF Numbered
    <3>4. QED BY <3>1, <3>2, <3>3
  <2>5. few \ {e} \subseteq Younger(e) BY <2>4
  <2>6. IsFiniteSet(Younger(e)) BY FS_Subset
  <2>7. Cardinality(few \ {e}) <= Cardinality(Younger(e)) BY <2>5, <2>6, FS_Subset
  <2>8. Cardinality(few \ {e}) = Cardinality(few) - 1 BY <1>1, FS_RemoveElement
  <2>9. Cardinality(Younger(e)) < K BY <2>3 DEF few
  <2>10. Cardinality(Younger(e)) \in Nat BY <2>6, FS_CardinalityType
  <2> HIDE DEF Younger
  <2>11. QED BY <1>1, <2>7, <2>8, <2>9, <2>10
<1>4. QED BY <1>2, <1>3

SessionTyped ==
    /\ walletAccount \in Users \cup {NoAccount} /\ authSession \in Users \cup {NoAccount}
    /\ stored \in Users \cup {NoAccount} /\ authSettled \in BOOLEAN
    /\ sign_ins \subseteq Auth!SignInFlow
KeysTyped == decrypts \subseteq Auth!DecryptFlow /\ cached \in [Users -> Auth!Owners \cup {"none"}]

(* Entries are numbered in the order in which they come.                   *)
StoreTypes ==
    /\ generated \subseteq Nonces /\ IsFiniteSet(generated)
    /\ nonces \subseteq Auth!NonceEntry /\ IsFiniteSet(nonces) /\ Cardinality(nonces) <= MaxNonces
    /\ \A e \in nonces : e.at < Cardinality(generated)
    /\ Distinct(nonces)

LEMMA AuthTypesStart == Auth!Init => SessionTyped /\ KeysTyped /\ StoreTypes
<1> SUFFICES ASSUME Auth!Init PROVE SessionTyped /\ KeysTyped /\ StoreTypes OBVIOUS
<1>1. MaxNonces \in Nat BY SessionsAssumption DEF Auth!SignInAssumption
<1>2. StoreTypes BY <1>1, FS_EmptySet DEF Auth!Init, StoreTypes, Distinct
<1>3. authSettled \in BOOLEAN BY DEF Auth!Init
<1>4. SessionTyped BY <1>3 DEF Auth!Init, SessionTyped
<1>5. KeysTyped BY DEF Auth!Init, KeysTyped, Auth!Owners
<1>6. QED BY <1>2, <1>4, <1>5

(* Fewer entries.                                                          *)
LEMMA StoreShrinks ==
    ASSUME StoreTypes, nonces' \subseteq nonces, UNCHANGED generated
    PROVE  StoreTypes'
<1>1. IsFiniteSet(nonces') /\ Cardinality(nonces') <= Cardinality(nonces) BY FS_Subset DEF StoreTypes
<1>2. Cardinality(nonces') \in Nat /\ Cardinality(nonces) \in Nat BY <1>1, FS_CardinalityType DEF StoreTypes
<1>3. MaxNonces \in Nat BY SessionsAssumption DEF Auth!SignInAssumption
<1>4. QED BY <1>1, <1>2, <1>3 DEF StoreTypes, Distinct

LEMMA StoreExpires ==
    ASSUME StoreTypes, Auth!Expire
    PROVE  StoreTypes'
<1>1. PICK e \in nonces : nonces' = (nonces \ {e}) \cup {[e EXCEPT !.expired = TRUE]}
  BY DEF Auth!Expire
<1> DEFINE late == [e EXCEPT !.expired = TRUE]
<1>2. late \in Auth!NonceEntry /\ late.at = e.at
  BY DEF StoreTypes, Auth!NonceEntry
<1> HIDE DEF late
<1>3. UNCHANGED generated BY DEF Auth!Expire
<1>4. nonces' = (nonces \ {e}) \cup {late} BY <1>1 DEF late
<1>5. IsFiniteSet(nonces \ {e}) /\ Cardinality(nonces \ {e}) = Cardinality(nonces) - 1
  BY FS_RemoveElement DEF StoreTypes
<1>6. IsFiniteSet(nonces') /\ Cardinality(nonces') \in {Cardinality(nonces \ {e}), Cardinality(nonces \ {e}) + 1}
  BY <1>4, <1>5, FS_AddElement
<1>7. Cardinality(nonces') <= MaxNonces
  <2>1. MaxNonces \in Nat BY SessionsAssumption DEF Auth!SignInAssumption
  <2>2. Cardinality(nonces) \in Nat BY FS_CardinalityType DEF StoreTypes
  <2>3. QED BY <1>5, <1>6, <2>1, <2>2 DEF StoreTypes
<1>8. Distinct(nonces)'
  <2>1. \A f \in nonces \ {e} : f.at # late.at BY <1>2 DEF StoreTypes, Distinct
  <2>2. QED BY <1>4, <2>1 DEF StoreTypes, Distinct
<1>9. \A f \in nonces' : f.at < Cardinality(generated) BY <1>2, <1>4 DEF StoreTypes
<1>10. nonces' \subseteq Auth!NonceEntry BY <1>2, <1>4 DEF StoreTypes
<1>11. QED BY <1>3, <1>6, <1>7, <1>8, <1>9, <1>10 DEF StoreTypes

(* The store makes room before it puts one more in (put).                  *)
LEMMA StoreGrows ==
    ASSUME StoreTypes, NEW n \in Nonces, NEW u \in Users, Auth!put(n, u),
           n \notin generated, generated' = generated \cup {n}
    PROVE  StoreTypes'
<1> DEFINE swept == IF Auth!Cardinality(nonces) < MaxNonces THEN nonces ELSE {e \in nonces : Auth!Live(e)}
           kept == {e \in swept : Cardinality({f \in swept : f.at > e.at}) < MaxNonces - 1}
           new == [nonce |-> n, address |-> u, expired |-> FALSE, at |-> Cardinality(generated)]
<1>1. nonces' = kept \cup {new} BY AuthCounts DEF Auth!put
<1>2. swept \subseteq nonces OBVIOUS
<1>3. MaxNonces \in Nat /\ MaxNonces - 1 \in Nat BY SessionsAssumption DEF Auth!SignInAssumption
<1>4. IsFiniteSet(swept) BY <1>2, FS_Subset DEF StoreTypes
<1>5. \A e \in nonces : e.at \in Nat BY DEF StoreTypes, Auth!NonceEntry
<1>6. Numbered(swept) /\ Distinct(swept) BY <1>2, <1>5 DEF StoreTypes, Numbered, Distinct
<1> HIDE DEF swept
<1>7. Cardinality(kept) <= MaxNonces - 1 BY <1>3, <1>4, <1>6, YoungestFew
<1>8. kept \subseteq swept OBVIOUS
<1> HIDE DEF kept
<1>9. IsFiniteSet(kept) /\ Cardinality(kept) \in Nat BY <1>4, <1>8, FS_Subset, FS_CardinalityType
<1>10. IsFiniteSet(nonces') /\ Cardinality(nonces') \in {Cardinality(kept), Cardinality(kept) + 1}
  BY <1>1, <1>9, FS_AddElement
<1>11. Cardinality(nonces') <= MaxNonces BY <1>3, <1>7, <1>9, <1>10
<1>12. IsFiniteSet(generated') /\ Cardinality(generated') = Cardinality(generated) + 1
       /\ Cardinality(generated) \in Nat
  BY FS_AddElement, FS_CardinalityType DEF StoreTypes
<1>13. new \in Auth!NonceEntry /\ new.at = Cardinality(generated)
  BY <1>12 DEF Auth!NonceEntry
<1> HIDE DEF new
<1>14. \A e \in kept : e.at \in Nat /\ e.at < Cardinality(generated) BY <1>2, <1>5, <1>8 DEF StoreTypes
<1>15. \A e \in nonces' : e.at < Cardinality(generated') BY <1>1, <1>12, <1>13, <1>14
<1>16. Distinct(nonces)'
  <2>1. \A e \in kept : e.at # new.at BY <1>12, <1>13, <1>14
  <2>2. Distinct(kept) BY <1>2, <1>8 DEF StoreTypes, Distinct
  <2>3. QED BY <1>1, <2>1, <2>2 DEF Distinct
<1>17. nonces' \subseteq Auth!NonceEntry BY <1>1, <1>2, <1>8, <1>13 DEF StoreTypes
<1>18. QED BY <1>10, <1>11, <1>12, <1>15, <1>16, <1>17 DEF StoreTypes

LEMMA StoreStep ==
    ASSUME SessionTyped, StoreTypes, [Auth!Next]_(Auth!vars)
    PROVE  StoreTypes'
<1>1. CASE UNCHANGED <<nonces, generated>> BY <1>1, StoreShrinks
<1>2. CASE Auth!Backend
  BY <1>2, StoreShrinks, StoreExpires DEF Auth!Backend, Auth!Sweep, Auth!RestartBackend
<1>3. ASSUME NEW n \in Nonces, Auth!BeginSignIn(n) PROVE StoreTypes'
  <2>1. walletAccount \in Users BY <1>3 DEF Auth!BeginSignIn, SessionTyped
  <2>2. QED BY <1>3, <2>1, StoreGrows DEF Auth!BeginSignIn
<1>4. ASSUME NEW f \in sign_ins, Auth!SignChallenge(f) \/ Auth!AbandonSignIn(f) PROVE StoreTypes'
  BY <1>1, <1>4 DEF Auth!SignChallenge, Auth!AbandonSignIn
<1>5. ASSUME NEW f \in sign_ins, Auth!VerifySignIn(f) \/ Auth!ReplayVerify(f) PROVE StoreTypes'
  BY <1>5, StoreShrinks DEF Auth!VerifySignIn, Auth!ReplayVerify, Auth!take
<1>6. CASE Auth!TabStep
  BY <1>1, <1>6 DEF Auth!TabStep, Auth!SessionRejected, Auth!Disconnect, Auth!AccountEffect, Auth!Reload,
                    Auth!SwitchAccount
<1>7. CASE Auth!KeyStep
  BY <1>1, <1>7 DEF Auth!KeyStep, Auth!BeginDecrypt, Auth!ExpireKey, Auth!SignSessionKey,
                    Auth!activateSession
<1>8. CASE UNCHANGED Auth!vars BY <1>1, <1>8 DEF Auth!vars
<1>9. QED BY <1>2, <1>3, <1>4, <1>5, <1>6, <1>7, <1>8 DEF Auth!Next, Auth!SignInStep

(* The keys of a session that ends or is replaced stay typed.              *)
LEMMA OutliveTypes ==
    ASSUME NEW o, NEW ends, NEW S, o \in S, "ended" \in S
    PROVE  Auth!Outlive(o, ends) \in S
BY DEF Auth!Outlive

LEMMA KeysOutlive ==
    ASSUME KeysTyped, NEW ends,
           decrypts' = {[d EXCEPT !.owner = Auth!Outlive(@, ends)] : d \in decrypts},
           \/ cached' = [a \in Users |-> Auth!Outlive(cached[a], ends)]
           \/ cached' = [a \in Users |-> "none"]
    PROVE  KeysTyped'
<1>1. decrypts' \subseteq Auth!DecryptFlow
  <2>1. ASSUME NEW d \in decrypts PROVE [d EXCEPT !.owner = Auth!Outlive(@, ends)] \in Auth!DecryptFlow
    <3>1. d \in Auth!DecryptFlow /\ d.owner \in Auth!Owners BY DEF KeysTyped, Auth!DecryptFlow
    <3>2. Auth!Outlive(d.owner, ends) \in Auth!Owners BY <3>1, OutliveTypes DEF Auth!Owners
    <3>3. QED BY <3>1, <3>2 DEF Auth!DecryptFlow
  <2>2. QED BY <2>1
<1>2. cached' \in [Users -> Auth!Owners \cup {"none"}]
  <2>1. \A a \in Users : Auth!Outlive(cached[a], ends) \in Auth!Owners \cup {"none"}
    <3>1. ASSUME NEW a \in Users PROVE cached[a] \in Auth!Owners \cup {"none"} BY DEF KeysTyped
    <3>2. "ended" \in Auth!Owners \cup {"none"} BY DEF Auth!Owners
    <3>3. QED BY <3>1, <3>2, OutliveTypes
  <2>2. QED BY <2>1
<1>3. QED BY <1>1, <1>2 DEF KeysTyped

LEMMA SessionTypedStep ==
    ASSUME SessionTyped, [Auth!Next]_(Auth!vars)
    PROVE  SessionTyped'
<1> USE DEF Auth!tabVars
<1>1. CASE Auth!Backend
  BY <1>1 DEF Auth!Backend, Auth!Expire, Auth!Sweep, Auth!RestartBackend, SessionTyped
<1>2. ASSUME NEW n \in Nonces, Auth!BeginSignIn(n) PROVE SessionTyped'
  <2>1. [address |-> walletAccount, nonce |-> n, signed |-> NoAccount] \in Auth!SignInFlow
    BY <1>2 DEF Auth!BeginSignIn, SessionTyped, Auth!SignInFlow
  <2>2. QED BY <1>2, <2>1 DEF Auth!BeginSignIn, SessionTyped
<1>3. ASSUME NEW f \in sign_ins, Auth!SignChallenge(f) PROVE SessionTyped'
  <2>1. [f EXCEPT !.signed = walletAccount] \in Auth!SignInFlow
    BY DEF SessionTyped, Auth!SignInFlow
  <2>2. QED BY <1>3, <2>1 DEF Auth!SignChallenge, SessionTyped
<1>4. ASSUME NEW f \in sign_ins, Auth!VerifySignIn(f) PROVE SessionTyped'
  <2>1. f.address \in Users BY DEF SessionTyped, Auth!SignInFlow
  <2>2. sign_ins' \subseteq sign_ins /\ walletAccount' = walletAccount
        /\ (\/ authSession' = f.address /\ stored' = f.address /\ authSettled' = FALSE
            \/ UNCHANGED <<authSession, stored, authSettled>>)
    BY <1>4 DEF Auth!VerifySignIn, Auth!StartSession
  <2>3. authSettled' \in BOOLEAN BY <2>2 DEF SessionTyped
  <2>4. QED BY <2>1, <2>2, <2>3 DEF SessionTyped
<1>5. ASSUME NEW f \in sign_ins, Auth!AbandonSignIn(f) \/ Auth!ReplayVerify(f) PROVE SessionTyped'
  BY <1>5 DEF Auth!AbandonSignIn, Auth!ReplayVerify, SessionTyped
<1>6. CASE Auth!SessionRejected \/ Auth!Disconnect
  <2>1. authSettled' \in BOOLEAN
    BY <1>6 DEF Auth!SessionRejected, Auth!Disconnect, SessionTyped
  <2>2. QED BY <1>6, <2>1 DEF Auth!SessionRejected, Auth!Disconnect, Auth!clearSession, SessionTyped
<1>7. CASE Auth!AccountEffect
  <2>1. authSettled' = TRUE /\ UNCHANGED <<walletAccount, sign_ins>> BY <1>7 DEF Auth!AccountEffect
  <2>2. authSession' \in {authSession, NoAccount} /\ stored' \in {stored, NoAccount}
    BY <1>7 DEF Auth!AccountEffect, Auth!clearSession
  <2>3. authSettled' \in BOOLEAN BY <2>1
  <2>4. QED BY <2>1, <2>2, <2>3 DEF SessionTyped
<1>8. CASE Auth!Reload
  <2>1. authSettled' \in BOOLEAN BY <1>8 DEF Auth!Reload
  <2>2. QED BY <1>8, <2>1 DEF Auth!Reload, SessionTyped
<1>9. ASSUME NEW a \in Users \cup {NoAccount}, Auth!SwitchAccount(a) PROVE SessionTyped'
  <2>1. authSettled' \in BOOLEAN BY <1>9 DEF Auth!SwitchAccount
  <2>2. QED BY <1>9, <2>1 DEF Auth!SwitchAccount, SessionTyped
<1>10. CASE Auth!KeyStep
  BY <1>10 DEF Auth!KeyStep, Auth!BeginDecrypt, Auth!ExpireKey, Auth!SignSessionKey,
               Auth!activateSession, SessionTyped
<1>11. CASE UNCHANGED Auth!vars BY <1>11 DEF Auth!vars, SessionTyped
<1>12. QED
  BY <1>1, <1>2, <1>3, <1>4, <1>5, <1>6, <1>7, <1>8, <1>9, <1>10, <1>11
     DEF Auth!Next, Auth!SignInStep, Auth!TabStep

LEMMA KeysTypedStep ==
    ASSUME KeysTyped, SessionTyped, [Auth!Next]_(Auth!vars)
    PROVE  KeysTyped'
<1>1. CASE UNCHANGED <<decrypts, cached>> BY <1>1 DEF KeysTyped
<1>2. CASE Auth!Backend
  BY <1>1, <1>2 DEF Auth!Backend, Auth!Expire, Auth!Sweep, Auth!RestartBackend
<1>3. CASE \E n \in Nonces : Auth!BeginSignIn(n) BY <1>1, <1>3 DEF Auth!BeginSignIn
<1>4. ASSUME NEW f \in sign_ins,
             Auth!SignChallenge(f) \/ Auth!AbandonSignIn(f) \/ Auth!ReplayVerify(f)
      PROVE  KeysTyped'
  BY <1>1, <1>4 DEF Auth!SignChallenge, Auth!AbandonSignIn, Auth!ReplayVerify
<1>5. ASSUME NEW f \in sign_ins, Auth!VerifySignIn(f) PROVE KeysTyped'
  <2>1. CASE Auth!EndsSession(authSession # f.address)
    BY <2>1, KeysOutlive DEF Auth!EndsSession
  <2>2. QED BY <1>1, <1>5, <2>1 DEF Auth!VerifySignIn, Auth!StartSession
<1>6. CASE Auth!clearSession BY <1>6, KeysOutlive DEF Auth!clearSession
<1>7. CASE Auth!SessionRejected \/ Auth!Disconnect \/ Auth!AccountEffect
  BY <1>1, <1>6, <1>7 DEF Auth!SessionRejected, Auth!Disconnect, Auth!AccountEffect
<1>8. CASE Auth!Reload BY <1>8 DEF Auth!Reload, KeysTyped
<1>9. CASE \E a \in Users \cup {NoAccount} : Auth!SwitchAccount(a) BY <1>1, <1>9 DEF Auth!SwitchAccount
<1>10. ASSUME NEW a \in Users, Auth!BeginDecrypt(a) PROVE KeysTyped'
  <2>1. [address |-> a, signed |-> FALSE, owner |-> IF a = authSession THEN "live" ELSE "bare"]
          \in Auth!DecryptFlow
    BY DEF Auth!DecryptFlow, Auth!Owners
  <2>2. QED BY <1>10, <2>1 DEF Auth!BeginDecrypt, KeysTyped
<1>11. ASSUME NEW a \in Users, Auth!ExpireKey(a) PROVE KeysTyped'
  BY <1>11 DEF Auth!ExpireKey, KeysTyped
<1>12. ASSUME NEW d \in decrypts, Auth!SignSessionKey(d) PROVE KeysTyped'
  <2>1. [d EXCEPT !.signed = TRUE] \in Auth!DecryptFlow BY DEF KeysTyped, Auth!DecryptFlow
  <2>2. QED BY <1>12, <2>1 DEF Auth!SignSessionKey, KeysTyped
<1>13. ASSUME NEW d \in decrypts, Auth!activateSession(d) PROVE KeysTyped'
  <2>1. d.owner \in Auth!Owners BY DEF KeysTyped, Auth!DecryptFlow
  <2>2. QED BY <1>13, <2>1 DEF Auth!activateSession, KeysTyped
<1>14. CASE UNCHANGED Auth!vars BY <1>1, <1>14 DEF Auth!vars
<1>15. QED
  BY <1>2, <1>3, <1>4, <1>5, <1>7, <1>8, <1>9, <1>10, <1>11, <1>12, <1>13, <1>14
     DEF Auth!Next, Auth!SignInStep, Auth!TabStep, Auth!KeyStep

AuthTyped == ChallengeInv /\ SessionTyped /\ KeysTyped /\ StoreTypes

LEMMA AuthTypedStep ==
    ASSUME AuthTyped, [Auth!Next]_(Auth!vars)
    PROVE  AuthTyped'
<1>1. ChallengeInv' BY ChallengeStep DEF AuthTyped
<1>2. SessionTyped' BY SessionTypedStep DEF AuthTyped
<1>3. KeysTyped' BY KeysTypedStep DEF AuthTyped
<1>4. StoreTypes' BY StoreStep DEF AuthTyped
<1>5. QED BY <1>1, <1>2, <1>3, <1>4 DEF AuthTyped

LEMMA AuthIsTyped == AuthTyped => Auth!TypeOK
BY AuthCounts DEF AuthTyped, ChallengeInv, SessionTyped, KeysTyped, StoreTypes, Auth!TypeOK

-----------------------------------------------------------------------------
(* All of them together.                                                   *)
TypesInv ==
    /\ IInv /\ CopilotTypes /\ AuthTyped /\ RecallTypes
    /\ ReadInv /\ ReadBounds /\ PoolInv /\ SaidIsBounded

LEMMA TypesStart == SessionsInit => TypesInv
<1> SUFFICES ASSUME SessionsInit PROVE TypesInv OBVIOUS
<1>1. Init /\ Auth!Init /\ Memory!Init /\ Read!Init /\ Pool!Init BY DEF SessionsInit
<1>2. CopilotTypes
  <2>1. calls = {} /\ inFlight = FALSE /\ finished = FALSE /\ status = "idle" BY <1>1 DEF Init
  <2>2. inFlight \in BOOLEAN /\ finished \in BOOLEAN BY <2>1
  <2>3. QED BY <2>1, <2>2 DEF CopilotTypes
<1>3. AuthTyped BY <1>1, AuthStart, AuthTypesStart DEF AuthTyped, AuthInv
<1>4. QED
  BY <1>1, <1>2, <1>3, Start, RecallStart, ReadStart, ReadBoundsStart, PoolStart, SaidStart DEF TypesInv

LEMMA TypesStep == TypesInv /\ [SessionsNext]_sessionsVars => TypesInv'
<1> SUFFICES ASSUME TypesInv, [SessionsNext]_sessionsVars PROVE TypesInv' OBVIOUS
<1>1. /\ [Next]_vars /\ [Auth!Next]_(Auth!vars) /\ [Memory!Next]_(Memory!vars)
      /\ [Read!Next]_(Read!vars) /\ [Pool!Next]_(Pool!vars)
  BY PartSteps, PoolPart
<1>2. IInv' /\ CopilotTypes' BY <1>1, Step, CopilotTypesStep DEF TypesInv, IInv
<1>3. AuthTyped' BY <1>1, AuthTypedStep DEF TypesInv
<1>4. RecallTypes' BY <1>1, RecallTypesStep DEF TypesInv
<1>5. ReadInv' /\ ReadBounds' BY <1>1, ReadStep, ReadBoundsStep DEF TypesInv
<1>6. PoolInv' /\ SaidIsBounded' BY <1>1, PoolStep, SaidStep DEF TypesInv
<1>7. QED BY <1>2, <1>3, <1>4, <1>5, <1>6 DEF TypesInv

(* Every part keeps its types and bounds, for any accounts, challenges,    *)
(* clients and timeouts: the copilot has one latest turn at most, the      *)
(* backend no more challenges than its ceiling, however they are put in,   *)
(* expire and are taken (routes/auth.ts: put), a decryption no more        *)
(* attempts than it may make and nothing left to read below zero.          *)
THEOREM SessionsStayTyped == SessionsSpec => []SessionsTypeOK
<1>1. TypesInv => SessionsTypeOK
  BY CopilotIsTyped, AuthIsTyped, ReadIsTyped, PoolIsTyped DEF TypesInv, IInv, RecallTypes, SessionsTypeOK
<1>2. QED BY <1>1, TypesStart, TypesStep, PTL DEF SessionsSpec
=============================================================================
