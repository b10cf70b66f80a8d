------------------------------- MODULE SignIn -------------------------------
(***************************************************************************)
(* Signing in with a wallet: the challenge store of /api/auth, the session *)
(* a browser tab keeps for the wallet that signed, and the Seal session    *)
(* keys cached beside it, while the user switches accounts, reloads, and   *)
(* the network and the backend fail.                                       *)
(*                                                                         *)
(* React state updates are immediate; the effect that compares the session *)
(* with the connected account runs in a step of its own, since promise     *)
(* continuations can come between.                                         *)
(***************************************************************************)
EXTENDS Naturals, FiniteSets

CONSTANTS
    Accounts,   \* wallet accounts of the user
    NoAccount,  \* no account connected, or nobody signed in
    Nonces,     \* challenges the backend can generate
    MaxNonces,  \* DEFAULT_MAX_NONCES
    MaxFlows    \* bound: sign-ins, and decrypts, under way at a time

SignInAssumption ==
    /\ NoAccount \notin Accounts
    /\ MaxNonces \in Nat \ {0}

(* Whose auth session a Seal key was made under: "bare" if nobody was signed *)
(* in, "live" while that session lasts, "ended" once it is over.             *)
Owners == {"bare", "live", "ended"}

VARIABLES
    account,     \* the wallet's current account
    session,     \* address of the auth session, in React state
    stored,      \* address of the session in localStorage
    settled,     \* the account-switch effect has seen account and session
    sign_ins,    \* sign-ins under way
    decrypts,    \* decrypts under way, up to their session key
    cached,      \* sessionCache: whose session each account's key is from
    nonces,      \* the backend's nonce store; at is the place of insertion
    generated,   \* history: nonces the backend has generated
    issued       \* history: how many tokens each challenge was traded for

tabVars == <<account, session, stored, settled>>
vars == <<account, session, stored, settled, sign_ins, decrypts, cached,
          nonces, generated, issued>>

(* signed is the account whose key made the signature, once there is one. *)
SignInFlow == [address : Accounts, nonce : Nonces, signed : Accounts \cup {NoAccount}]
DecryptFlow == [address : Accounts, owner : Owners, signed : BOOLEAN]
NonceEntry == [nonce : Nonces, address : Accounts, expired : BOOLEAN, at : Nat]

TypeOK ==
    /\ account \in Accounts \cup {NoAccount}
    /\ session \in Accounts \cup {NoAccount}
    /\ stored \in Accounts \cup {NoAccount}
    /\ settled \in BOOLEAN
    /\ sign_ins \subseteq SignInFlow
    /\ decrypts \subseteq DecryptFlow
    /\ cached \in [Accounts -> Owners \cup {"none"}]
    /\ nonces \subseteq NonceEntry /\ Cardinality(nonces) <= MaxNonces
    /\ generated \subseteq Nonces
    /\ issued \in [Nonces -> Nat]

Init ==
    /\ account = NoAccount
    /\ session = NoAccount
    /\ stored = NoAccount
    /\ settled = TRUE
    /\ sign_ins = {}
    /\ decrypts = {}
    /\ cached = [a \in Accounts |-> "none"]
    /\ nonces = {}
    /\ generated = {}
    /\ issued = [n \in Nonces |-> 0]

Live(entry) == ~entry.expired

-----------------------------------------------------------------------------
(* The backend (routes/auth.ts).                                             *)

(* At the ceiling, expired entries go, then the oldest until there is room. *)
put(nonce, address) ==
    LET swept == IF Cardinality(nonces) < MaxNonces THEN nonces ELSE {e \in nonces : Live(e)}
        Younger(e) == {f \in swept : f.at > e.at} IN
    nonces' = {e \in swept : Cardinality(Younger(e)) < MaxNonces - 1} \cup
              {[nonce |-> nonce, address |-> address, expired |-> FALSE,
                at |-> Cardinality(generated)]}

(* Faulty variant of take: the entry stays. *)
take_leaving(nonce) == UNCHANGED nonces

(* The entry goes, whatever the verification then says. *)
take(nonce) == nonces' = {e \in nonces : e.nonce # nonce}

(* What /verify answers for a nonce, an address and a signature. *)
Accepts(nonce, address, signer) ==
    /\ \E e \in nonces : e.nonce = nonce /\ Live(e) /\ e.address = address
    /\ signer = address

Expire ==
    /\ \E e \in nonces : nonces' = (nonces \ {e}) \cup {[e EXCEPT !.expired = TRUE]}
    /\ UNCHANGED <<tabVars, sign_ins, decrypts, cached, generated, issued>>

Sweep ==
    /\ nonces' = {e \in nonces : Live(e)}
    /\ UNCHANGED <<tabVars, sign_ins, decrypts, cached, generated, issued>>

RestartBackend ==
    /\ nonces' = {}
    /\ UNCHANGED <<tabVars, sign_ins, decrypts, cached, generated, issued>>

-----------------------------------------------------------------------------
(* Signing in (useSession).                                                  *)

(* The address is captured here and used to the end of the flow. *)
BeginSignIn(nonce) ==
    /\ account # NoAccount
    /\ Cardinality(sign_ins) < MaxFlows
    /\ nonce \notin generated
    /\ generated' = generated \cup {nonce}
    /\ put(nonce, account)
    /\ sign_ins' = sign_ins \cup {[address |-> account, nonce |-> nonce, signed |-> NoAccount]}
    /\ UNCHANGED <<tabVars, decrypts, cached, issued>>

(* The wallet signs with the account it has now, not the one captured. *)
SignChallenge(flow) ==
    /\ flow \in sign_ins
    /\ flow.signed = NoAccount
    /\ account # NoAccount
    /\ sign_ins' = (sign_ins \ {flow}) \cup {[flow EXCEPT !.signed = account]}
    /\ UNCHANGED <<tabVars, decrypts, cached, nonces, generated, issued>>

(* Session keys and decrypts of a session that another one replaces. *)
Outlive(owner, ends) == IF owner = "live" /\ ends THEN "ended" ELSE owner

EndsSession(ends) ==
    /\ decrypts' = {[d EXCEPT !.owner = Outlive(@, ends)] : d \in decrypts}
    /\ cached' = [a \in Accounts |-> Outlive(cached[a], ends)]

(* Faulty variant of StartSession: the effect does not depend on the session,*)
(* only on the account.                                                      *)
StartSessionUnwatched(address) ==
    /\ session' = address
    /\ stored' = address
    /\ UNCHANGED settled
    /\ EndsSession(session # address)

StartSession(address) ==
    /\ session' = address
    /\ stored' = address
    /\ settled' = FALSE
    /\ EndsSession(session # address)

(* The token arrives and the session is stored; a request the backend saw    *)
(* but whose answer is lost leaves the flow failed and the nonce consumed.   *)
VerifySignIn(flow) ==
    /\ flow \in sign_ins
    /\ flow.signed # NoAccount
    /\ sign_ins' = sign_ins \ {flow}
    /\ take(flow.nonce)
    /\ LET ok == Accepts(flow.nonce, flow.address, flow.signed) IN
       /\ issued' = [issued EXCEPT ![flow.nonce] = IF ok THEN @ + 1 ELSE @]
       /\ \/ ok /\ StartSession(flow.address)
          \/ UNCHANGED <<session, stored, settled, decrypts, cached>>
    /\ UNCHANGED <<account, generated>>

(* The user rejects the signature, or the network fails before /verify. *)
AbandonSignIn(flow) ==
    /\ flow \in sign_ins
    /\ sign_ins' = sign_ins \ {flow}
    /\ UNCHANGED <<tabVars, decrypts, cached, nonces, generated, issued>>

(* The same /verify request reaches the backend once more; its answer has    *)
(* no flow to go to.                                                         *)
ReplayVerify(flow) ==
    /\ flow \in sign_ins
    /\ flow.signed # NoAccount
    /\ take(flow.nonce)
    /\ issued' = [issued EXCEPT ![flow.nonce] =
                     IF Accepts(flow.nonce, flow.address, flow.signed) THEN @ + 1 ELSE @]
    /\ UNCHANGED <<tabVars, sign_ins, decrypts, cached, generated>>

-----------------------------------------------------------------------------
(* Ending the session.                                                       *)

(* React state, localStorage and the Seal cache are cleared together. *)
clearSession ==
    /\ session' = NoAccount
    /\ stored' = NoAccount
    /\ decrypts' = {[d EXCEPT !.owner = Outlive(@, TRUE)] : d \in decrypts}
    /\ cached' = [a \in Accounts |-> "none"]

(* A page calls it when the backend answers 401. *)
SessionRejected ==
    /\ session # NoAccount
    /\ clearSession
    /\ UNCHANGED <<account, settled, sign_ins, nonces, generated, issued>>

Disconnect ==
    /\ account # NoAccount
    /\ clearSession
    /\ account' = NoAccount
    /\ settled' = FALSE
    /\ UNCHANGED <<sign_ins, nonces, generated, issued>>

(* A session for an account other than the connected one is torn down. *)
AccountEffect ==
    /\ ~settled
    /\ settled' = TRUE
    /\ IF account \notin {NoAccount, session} /\ session # NoAccount
       THEN clearSession ELSE UNCHANGED <<session, stored, decrypts, cached>>
    /\ UNCHANGED <<account, sign_ins, nonces, generated, issued>>

(* The user picks another account in the wallet, or disconnects there. *)
SwitchAccount(a) ==
    /\ a # account
    /\ account' = a
    /\ settled' = FALSE
    /\ UNCHANGED <<session, stored, sign_ins, decrypts, cached, nonces, generated, issued>>

(* Memory goes; localStorage comes back, unless its token has expired. *)
Reload ==
    /\ \E found \in {stored, NoAccount} : session' = found /\ stored' = found
    /\ settled' = FALSE
    /\ sign_ins' = {}
    /\ decrypts' = {}
    /\ cached' = [a \in Accounts |-> "none"]
    /\ UNCHANGED <<account, nonces, generated, issued>>

-----------------------------------------------------------------------------
(* Seal session keys (sessionKey.ts, decryptAndView.ts).                     *)

(* A page decrypts for the connected account (ModelDetailPage) or for the    *)
(* account of the session (LaunchCollectionPage).  With a usable cached key  *)
(* there is nothing to sign.                                                 *)
BeginDecrypt(a) ==
    /\ a \in {account, session} \ {NoAccount}
    /\ account # NoAccount
    /\ cached[a] = "none"
    /\ Cardinality(decrypts) < MaxFlows
    /\ decrypts' = decrypts \cup {[address |-> a, signed |-> FALSE,
                                   owner |-> IF a = session THEN "live" ELSE "bare"]}
    /\ UNCHANGED <<tabVars, sign_ins, cached, nonces, generated, issued>>

(* A signature by another account does not activate the key. *)
SignSessionKey(d) ==
    /\ d \in decrypts
    /\ ~d.signed
    /\ account # NoAccount
    /\ decrypts' = (decrypts \ {d}) \cup
                   (IF account = d.address THEN {[d EXCEPT !.signed = TRUE]} ELSE {})
    /\ UNCHANGED <<tabVars, sign_ins, cached, nonces, generated, issued>>

activateSession(d) ==
    /\ d \in decrypts
    /\ d.signed
    /\ cached' = [cached EXCEPT ![d.address] = d.owner]
    /\ decrypts' = decrypts \ {d}
    /\ UNCHANGED <<tabVars, sign_ins, nonces, generated, issued>>

(* A key past its time to live counts as absent and is evicted when asked. *)
ExpireKey(a) ==
    /\ cached[a] # "none"
    /\ cached' = [cached EXCEPT ![a] = "none"]
    /\ UNCHANGED <<tabVars, sign_ins, decrypts, nonces, generated, issued>>

-----------------------------------------------------------------------------
Backend == Expire \/ Sweep \/ RestartBackend

SignInStep ==
    \/ \E n \in Nonces : BeginSignIn(n)
    \/ \E flow \in sign_ins :
           SignChallenge(flow) \/ VerifySignIn(flow) \/ AbandonSignIn(flow) \/ ReplayVerify(flow)

TabStep ==
    \/ SessionRejected \/ Disconnect \/ AccountEffect \/ Reload
    \/ \E a \in Accounts \cup {NoAccount} : SwitchAccount(a)

KeyStep ==
    \/ \E a \in Accounts : BeginDecrypt(a) \/ ExpireKey(a)
    \/ \E d \in decrypts : SignSessionKey(d) \/ activateSession(d)

Next == Backend \/ SignInStep \/ TabStep \/ KeyStep

Spec == Init /\ [][Next]_vars

-----------------------------------------------------------------------------
(* Properties.                                                               *)

(* A session never stands against another account (useSession): once the     *)
(* effect has run, the session is the connected account's, also when the     *)
(* sign-in completed after the account had been switched away.               *)
SessionFollowsAccount ==
    settled /\ session # NoAccount /\ account # NoAccount => session = account

(* A challenge is traded for at most one token (routes/auth.ts), however     *)
(* often its answer is sent and whatever is lost or restarted in between.    *)
OneTokenPerChallenge == \A n \in Nonces : issued[n] <= 1

(* What useSession.ts says of M-4: a Seal session key never outlives the     *)
(* auth session it belongs to.                                               *)
KeyEndsWithSession == \A a \in Accounts : cached[a] # "ended"

=============================================================================
