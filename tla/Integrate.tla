------------------------------ MODULE Integrate ------------------------------
(***************************************************************************)
(* The integration page (integration/RegisterIntegrationPage.tsx): a       *)
(* leaderboard of the open collections (useIntegrationLeaderboard.ts, with *)
(* the names of useCollectionNames.ts) over a form that registers a work   *)
(* with one of them against the fee the chain asks.                        *)
(*                                                                         *)
(* The page reads the collections twice, for the form and for the board,   *)
(* and neither again; their creators move fees and policies meanwhile.     *)
(***************************************************************************)
EXTENDS Integers, Sequences, SequencesExt, FiniteSets

CONSTANTS
  Collections, Fees,
  PublishTimeOf,  \* collection -> when its base was published
  IdRankOf,       \* collection -> the place of its id in the alphabet
  TokenPages,     \* pages of the scan for names: the collections of their tokens
  MAX_PAGES,      \* 20 in the code
  None,
  MaxMoves,       \* bound: changes of a fee or a policy
  MaxClicks       \* bound: clicks on Register

IntegrateAssumption ==
  /\ None \notin Collections /\ IsFiniteSet(Collections) /\ Fees \subseteq Nat
  /\ PublishTimeOf \in [Collections -> Int] /\ IdRankOf \in [Collections -> Int]
  /\ \A c, d \in Collections : IdRankOf[c] = IdRankOf[d] => c = d
  /\ TokenPages \in Seq(SUBSET Collections) \ {<<>>} /\ MAX_PAGES \in Nat \ {0}
  /\ MaxMoves \in Nat

VARIABLES
  fee, moves,     \* register_fee of a collection; the changes so far, in all
  open,           \* collections under POLICY_PERMISSIONLESS
  registered,     \* on chain: of, paid and the click it comes from
  account,        \* a wallet is connected
  offered,        \* registerable: the collections and their fees as read, or not loaded
  board,          \* the open collections the leaderboard read, or not loaded
  counts,         \* the indexer's counts, all 0 when its route failed
  countsLoading,
  scan,           \* useCollectionNames: pages read, what they name, and how it ended
  param,          \* ?collection=
  selected,       \* a collection and its fee as read
  form,           \* name and url: "bad", "v1", "v2"
  phase,
  task,           \* onRegister while it awaits
  clicks,
  lastChoice,     \* history: the collection the user pointed at last
  outcome         \* history: how the last transaction ended

chainVars == <<fee, moves, open, registered>>
boardVars == <<board, counts, countsLoading, scan>>
formVars == <<param, selected, form, lastChoice>>
vars == <<chainVars, boardVars, formVars, account, offered, phase, task, clicks, outcome>>

NoPick == [id |-> None, fee |-> 0]
Unread == {NoPick}
NoTask == [step |-> "none", of |-> None, form |-> "bad", fee |-> 0, at |-> 0,
           click |-> [of |-> None, form |-> "bad"]]
busy == phase = "signing"
Zero == [c \in Collections |-> [count |-> 0, latest |-> 0]]

Init ==
  /\ fee \in [Collections -> Fees] /\ moves = 0 /\ open = Collections /\ registered = <<>>
  /\ account = TRUE
  /\ offered = Unread /\ board = {None} /\ counts = Zero /\ countsLoading = TRUE
  /\ scan = [page |-> 0, named |-> {}, state |-> "scanning"]
  /\ param \in Collections \cup {None} /\ selected = NoPick /\ form = "bad" /\ lastChoice = param
  /\ phase = "idle" /\ task = NoTask /\ clicks = 0 /\ outcome = "none"

-----------------------------------------------------------------------------
(* The creators: set_register_fee, set_integration_policy. *)
SetFee(c, f) ==
  /\ moves < MaxMoves /\ f # fee[c]
  /\ moves' = moves + 1 /\ fee' = [fee EXCEPT ![c] = f]
  /\ UNCHANGED <<open, registered, boardVars, formVars, account, offered, phase, task, clicks,
                 outcome>>

SetPolicy(c) ==
  /\ moves < MaxMoves /\ moves' = moves + 1
  /\ open' = (open \ {c}) \cup ({c} \ open)
  /\ UNCHANGED <<fee, registered, boardVars, formVars, account, offered, phase, task, clicks,
                 outcome>>

(* Connect, disconnect. *)
Connect ==
  /\ account' = ~account
  /\ UNCHANGED <<chainVars, boardVars, formVars, offered, phase, task, clicks, outcome>>

-----------------------------------------------------------------------------
(* The effect on the param: once it finds its collection it selects it and *)
(* consumes the param; otherwise it waits for the collections.             *)
Seed(p, choices) ==
  IF \E o \in choices : o.id = p
  THEN selected' = (CHOOSE o \in choices : o.id = p) /\ param' = None
  ELSE param' = p /\ UNCHANGED selected

registerable == offered \ Unread

CollectionsLoad ==
  /\ offered = Unread
  /\ \/ offered' = {[id |-> c, fee |-> fee[c]] : c \in open}
     \/ offered' = {}
  /\ Seed(param, offered')
  /\ UNCHANGED <<chainVars, boardVars, account, form, lastChoice, phase, task, clicks, outcome>>

BoardLoads ==
  /\ board = {None} /\ board' \in {open, {}}
  /\ UNCHANGED <<chainVars, counts, countsLoading, scan, formVars, account, offered, phase, task,
                 clicks, outcome>>

IntegrationsOf(c) == {i \in DOMAIN registered : registered[i].of = c}
CountOf(c) == Cardinality(IntegrationsOf(c))
LatestOf(c) == Max(IntegrationsOf(c) \cup {0})

(* The counts, or zeros: "pessimistic; never drop the list". *)
CountsLoad ==
  /\ countsLoading /\ countsLoading' = FALSE
  /\ counts' \in {Zero, [c \in Collections |-> [count |-> CountOf(c), latest |-> LatestOf(c)]]}
  /\ UNCHANGED <<chainVars, board, scan, formVars, account, offered, phase, task, clicks, outcome>>

(* fetchCollectionNames: page after page; a failure drops what was read. *)
NamesPage ==
  /\ scan.state = "scanning"
  /\ \/ scan' = [page |-> 0, named |-> {}, state |-> "failed"]
     \/ LET n == scan.page + 1
        IN  scan' = [page |-> n, named |-> scan.named \cup TokenPages[n],
                     state |-> IF n = Len(TokenPages) \/ n = MAX_PAGES THEN "done" ELSE "scanning"]
  /\ UNCHANGED <<chainVars, board, counts, countsLoading, formVars, account, offered, phase, task,
                 clicks, outcome>>

(* buildLeaderboardRows: a left join; most integrated first, then the one  *)
(* integrated last, then the newest, then by id.                           *)
Joined(cs) == cs
Keys(c) == <<counts[c].count, counts[c].latest, PublishTimeOf[c], -IdRankOf[c]>>
Above(c, d) ==
  \E k \in 1..4 : Keys(c)[k] > Keys(d)[k] /\ \A j \in 1..(k - 1) : Keys(c)[j] = Keys(d)[j]
rows ==
  IF board = {None} \/ countsLoading THEN <<>>
  ELSE [k \in 1..Cardinality(Joined(board)) |->
          CHOOSE c \in Joined(board) : Cardinality({d \in Joined(board) : Above(d, c)}) = k - 1]

NameOf(c) == IF scan.state = "done" /\ c \in scan.named THEN "its creator's" ELSE "its base's"

-----------------------------------------------------------------------------
(* "Register your work" in a row: enabled while the page is busy.  The     *)
(* effect does not run for a param that has not changed.                   *)
ChooseRow(c) ==
  /\ Contains(rows, c) /\ lastChoice' = c
  /\ IF c = param THEN UNCHANGED <<param, selected>> ELSE Seed(c, registerable)
  /\ UNCHANGED <<chainVars, boardVars, account, offered, form, phase, task, clicks, outcome>>

Pick(o) ==
  /\ account /\ ~busy /\ o \in registerable
  /\ selected' = o /\ lastChoice' = o.id
  /\ UNCHANGED <<chainVars, boardVars, account, offered, param, form, phase, task, clicks, outcome>>

Type(f) ==
  /\ account /\ ~busy /\ selected # NoPick /\ form' = f
  /\ UNCHANGED <<chainVars, boardVars, account, offered, param, selected, lastChoice, phase, task,
                 clicks, outcome>>

(* onRegister keeps what was on the page at the click. *)
Register ==
  /\ account /\ ~busy /\ selected # NoPick /\ form # "bad"
  /\ clicks < MaxClicks /\ clicks' = clicks + 1
  /\ phase' = "signing"
  /\ task' = [step |-> "read", of |-> selected.id, form |-> form, fee |-> selected.fee, at |-> 0,
              click |-> [of |-> selected.id, form |-> form]]
  /\ UNCHANGED <<chainVars, boardVars, formVars, account, offered, outcome>>

(* The fee is read again right before signing. *)
Quoted(t) == fee[t.of]

LiveRead ==
  /\ task.step = "read"
  /\ task' = [task EXCEPT !.step = "sign", !.fee = Quoted(task), !.at = moves]
  /\ UNCHANGED <<chainVars, boardVars, formVars, account, offered, phase, clicks, outcome>>

(* What is registered: the collection of the handler's own render. *)
Target_faulty(t) == selected.id
Target(t) == t.of

Ends_faulty(ph, how) == phase' = ph /\ outcome' = how /\ UNCHANGED task
Ends(ph, how) == phase' = ph /\ outcome' = how /\ task' = NoTask

(* A read that fails, a wallet that refuses or is gone. *)
Rejected ==
  /\ task # NoTask /\ Ends("error", "rejected")
  /\ UNCHANGED <<chainVars, boardVars, formVars, account, offered, clicks>>

(* register_integration, with a coin of the fee; what it does not take it  *)
(* hands back.                                                             *)
Sign ==
  /\ task.step = "sign" /\ account
  /\ LET c == Target(task)
     IN  CASE c \notin open -> Ends("error", "closed") /\ UNCHANGED registered
           [] c \in open /\ task.fee < fee[c] -> Ends("error", "fee too low") /\ UNCHANGED registered
           [] c \in open /\ task.fee >= fee[c] /\ CountOf(c) > 0 ->
                Ends("error", "already registered") /\ UNCHANGED registered
           [] OTHER ->
                /\ registered' = Append(registered, [of |-> c, form |-> task.form, paid |-> fee[c],
                                                     sent |-> task.fee, at |-> task.at,
                                                     click |-> task.click])
                /\ Ends("success", "registered")
  /\ UNCHANGED <<fee, moves, open, boardVars, formVars, account, offered, clicks>>

Next ==
  \/ \E c \in Collections : SetPolicy(c) \/ ChooseRow(c) \/ \E f \in Fees : SetFee(c, f)
  \/ Connect \/ CollectionsLoad \/ BoardLoads \/ CountsLoad \/ NamesPage
  \/ \E o \in registerable : Pick(o)
  \/ \E f \in {"bad", "v1", "v2"} : Type(f)
  \/ Register \/ LiveRead \/ Rejected \/ Sign

Spec == Init /\ [][Next]_vars

-----------------------------------------------------------------------------
TypeOK ==
  /\ fee \in [Collections -> Fees] /\ moves \in 0..MaxMoves /\ open \subseteq Collections
  /\ account \in BOOLEAN /\ countsLoading \in BOOLEAN /\ counts \in [Collections -> [count : Nat, latest : Nat]]
  /\ param \in Collections \cup {None} /\ selected.id \in Collections \cup {None}
  /\ form \in {"bad", "v1", "v2"} /\ phase \in {"idle", "signing", "success", "error"}
  /\ task.step \in {"none", "read", "sign"} /\ busy <=> task # NoTask
  /\ scan.state \in {"scanning", "done", "failed"} /\ scan.page \in 0..MAX_PAGES

(* What goes on the chain is what stood on the page at the click, whatever *)
(* is clicked while the wallet is open; no more is paid than was read at   *)
(* signing, and no registration fails for its fee unless a fee or a policy *)
(* moved since ("so we never abort EFeeTooLow with a stale UI value",      *)
(* RegisterIntegrationPage.tsx:19-20).                                     *)
RegistersAsClicked ==
  \A i \in DOMAIN registered :
    LET r == registered[i]
    IN  r.of = r.click.of /\ r.form = r.click.form /\ r.form # "bad" /\ r.paid <= r.sent

FeeFailsOnlyIfMoved ==
  task.step = "sign" /\ task.fee < fee[task.of] => moves > task.at

(* The form is for the collection the user pointed at last, in the address,*)
(* in a row or in the form, when it is on offer.                           *)
SelectedIsLastChoice ==
  (\E o \in registerable : o.id = lastChoice) => selected.id = lastChoice

(* Every open collection the board has read has its row, counted or not,   *)
(* more integrations first; a name of another collection is never shown,   *)
(* and the creator's own is, once the scan has passed one of its tokens.   *)
BoardIsWhole ==
  board # {None} /\ ~countsLoading =>
    /\ ToSet(rows) = board /\ Len(rows) = Cardinality(board)
    /\ \A i, j \in DOMAIN rows : i < j => counts[rows[i]].count >= counts[rows[j]].count
    /\ scan.state = "done" =>
         \A c \in board : NameOf(c) = "its creator's" <=>
           \E n \in DOMAIN TokenPages : n <= MAX_PAGES /\ c \in TokenPages[n]
=============================================================================
