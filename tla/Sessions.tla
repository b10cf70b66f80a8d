------------------------------- MODULE Sessions -------------------------------
(***************************************************************************)
(* What of the browser tab lives with the auth session, as one model: the  *)
(* session itself with the wallet, the backend's challenges and the Seal   *)
(* keys (SignIn), the copilot hook and its route (Copilot), the recall     *)
(* hook (MemoryRecall), the memory behind it (PromptMemory), and a         *)
(* decryption with such a key (DecryptRead).  They share nothing but the   *)
(* token each of them reads, so each keeps its own account of it and a     *)
(* behaviour is about one of them.                                         *)
(***************************************************************************)
EXTENDS Copilot

CONSTANTS
  NoAccount, Nonces, MaxNonces, MaxFlows,                            \* signing in
  Queries, NoQuery, MaxTokens, MaxRecalls,                           \* the recall hook
  KeyAttempts, KeyTimeout, KeyBackoff, Stall, HardCap, MaxRetries,   \* a decryption
  FetchBackoff, Chunks, Aggregators, Budget,
  Clients, Models, Prompts, Caption, Foreign, Denylist, OverFetch,   \* the prompt memory
  Limits, MaxSaid

VARIABLES
  part,
  walletAccount, authSession, stored, authSettled, sign_ins, decrypts, cached, nonces,
  generated, issued,
  token, lastToken, tokenSettled, query, timer, recalls, chips, recallStatus,
  phase, tries, now, due, stallDue, began, heard, body, left, trickled, visible, blobs, inEdge,
  chain, tabSession, publish, requests, writes, records, said

authVars == <<walletAccount, authSession, stored, authSettled, sign_ins, decrypts, cached,
              nonces, generated, issued>>
recallVars == <<token, lastToken, tokenSettled, query, timer, recalls, chips, recallStatus>>
readVars == <<phase, tries, now, due, stallDue, began, heard, body, left, trickled, visible,
              blobs, inEdge>>
poolVars == <<chain, tabSession, publish, requests, writes, records, said>>

Auth == INSTANCE SignIn WITH
  Accounts <- Users, account <- walletAccount, session <- authSession, settled <- authSettled

Memory == INSTANCE MemoryRecall WITH
  MaxCalls <- MaxRecalls,
  settled <- tokenSettled, calls <- recalls, status <- recallStatus

Read == INSTANCE DecryptRead WITH cached <- inEdge

Pool == INSTANCE PromptMemory WITH Nobody <- NoUser, session <- tabSession

ASSUME SessionsAssumption ==
  /\ Auth!SignInAssumption /\ Memory!RecallAssumption /\ Read!ReadAssumption
  /\ Pool!PoolAssumption

SessionsInit ==
  /\ part \in {"copilot", "auth", "memory", "read", "pool"}
  /\ Init /\ Auth!Init /\ Memory!Init /\ Read!Init /\ Pool!Init
  /\ part # "read" => visible /\ \A a \in Aggregators : blobs[a] = "holds"

SessionsNext ==
  /\ UNCHANGED part
  /\ \/ part = "copilot" /\ Next /\ UNCHANGED <<authVars, recallVars, readVars, poolVars>>
     \/ part = "auth" /\ Auth!Next /\ UNCHANGED <<vars, recallVars, readVars, poolVars>>
     \/ part = "memory" /\ Memory!Next /\ UNCHANGED <<vars, authVars, readVars, poolVars>>
     \/ part = "read" /\ Read!Next /\ UNCHANGED <<vars, authVars, recallVars, poolVars>>
     \/ part = "pool" /\ Pool!Next /\ UNCHANGED <<vars, authVars, recallVars, readVars>>

sessionsVars == <<part, vars, authVars, recallVars, readVars, poolVars>>

SessionsFairness ==
  /\ Fairness
  /\ Memory!Fairness
  /\ WF_readVars(part = "read" /\ Read!Tick)
  /\ WF_readVars(/\ part = "read"
                 /\ Read!KeyTimesOut \/ Read!KeyAgain \/ Read!FetchBegins \/ Read!FetchTimesOut)

SessionsSpec == SessionsInit /\ [][SessionsNext]_sessionsVars /\ SessionsFairness

-----------------------------------------------------------------------------
(* Every part's type invariant.                                            *)
SessionsTypeOK == TypeOK /\ Auth!TypeOK /\ Memory!TypeOK /\ Read!TypeOK /\ Pool!TypeOK

(* A session belongs to the connected account, and each challenge of the   *)
(* backend is traded for one token at most (useSession, routes/auth).      *)
SessionIsEarned == Auth!SessionFollowsAccount /\ Auth!OneTokenPerChallenge

(* The prompt memory: the community's pool holds what is published, by its *)
(* author; recalls show their users what they may see (routes/memory).     *)
MemoryIsHonest == Pool!PoolIsPublished /\ Pool!ChipsAreHonest

(* Late answers: a reply was generated from the conversation it ends, and  *)
(* recalled prompts under the token the page has (the seq guards of        *)
(* useRiffCopilot and useMemoryRecall).                                    *)
LateAnswersDropped == RepliesBelong /\ Memory!ChipsAreOwn

(* The timers of a decryption: a wedged read fails within the budget they  *)
(* were tuned to, a live one is not killed.                                *)
ReadIsTimed == []Read!WedgedReadInBudget /\ Read!LiveReadIsNotKilled

(* Nothing waits for ever: a turn, a recall and a decryption come to an end*)
(* whatever becomes of the account, the token and the answers.             *)
WaitingEnds ==
  /\ ThinkingEnds
  /\ Memory!LoadingEnds
  /\ part = "read" => Read!DecryptEnds
=============================================================================
