------------------------------ MODULE DecryptRead ------------------------------
(***************************************************************************)
(* decryptBaseGlb (seal/forkerDecrypt.ts, seal/envelope.ts), which every   *)
(* viewer, forker and agent runs: unwrap the key, then read the ciphertext *)
(* with fetchBytesWithStallTimeout (walrus/fetchWithStallTimeout.ts)       *)
(* through the CDN worker (cdn-worker/src/worker.js).  One clock; a timer  *)
(* is due at an instant, and time does not pass a timer that is due.       *)
(***************************************************************************)
EXTENDS Naturals, FiniteSets

CONSTANTS
  KeyAttempts, KeyTimeout, KeyBackoff,
  Stall, HardCap, MaxRetries, FetchBackoff,
  Chunks,        \* pieces the ciphertext comes in
  Aggregators,
  Budget         \* the time a decryption should take at most

(* The tuning the timeouts' comments claim: a key server that never answers *)
(* and then a read on which no byte comes fit into the budget together.    *)
(* A ciphertext is never empty: it holds its tag.                          *)
ReadAssumption ==
  /\ {KeyTimeout, KeyBackoff, HardCap, MaxRetries, FetchBackoff, Budget} \subseteq Nat
  /\ {KeyAttempts, Stall, Chunks} \subseteq Nat \ {0}
  /\ KeyAttempts * KeyTimeout + (KeyAttempts - 1) * KeyBackoff
       + (MaxRetries + 1) * Stall + MaxRetries * FetchBackoff <= Budget

VARIABLES
  phase,
  tries,         \* failed attempts of the phase
  now,           \* time since the decryption began
  due,           \* when the phase's timer fires: key timeout, backoff, or hard cap
  stallDue,      \* when the stall timer fires; 0 when it is cleared
  began, heard,  \* when the attempt began, and when its last byte came
  body, left,    \* how the body comes, and its pieces not read yet
  trickled,      \* a failed attempt had got bytes, or was read in one piece
  visible,       \* the key servers' fullnode knows the entitlement
  blobs,         \* aggregator -> what it does with the blob
  cached         \* the blob is in the edge cache

timers == <<now, due, stallDue, began, heard>>
world == <<visible, blobs, cached>>
vars == <<phase, tries, timers, body, left, trickled, world>>

Init ==
  /\ phase = "key" /\ tries = 0 /\ now = 0 /\ due = KeyTimeout /\ stallDue = 0
  /\ began = 0 /\ heard = 0 /\ body = "none" /\ left = Chunks /\ trickled = FALSE
  /\ visible \in BOOLEAN /\ blobs \in [Aggregators -> {"holds", "absent", "down"}]
  /\ cached = FALSE

(* The fullnode catches up; an aggregator breaks down or recovers.         *)
WorldChanges ==
  /\ \/ ~visible /\ visible' = TRUE /\ UNCHANGED blobs
     \/ \E a \in Aggregators, b \in {"holds", "down"} :
          blobs' = [blobs EXCEPT ![a] = b] /\ UNCHANGED visible
  /\ UNCHANGED <<phase, tries, timers, body, left, trickled, cached>>

-----------------------------------------------------------------------------
Timed == phase \in {"key", "keywait", "fetch", "fetchwait"}
Due == now >= due \/ (phase = "fetch" /\ stallDue > 0 /\ now >= stallDue)

Tick ==
  /\ Timed /\ ~Due /\ now' = now + 1
  /\ UNCHANGED <<phase, tries, due, stallDue, began, heard, body, left, trickled, world>>

Enter(p, n, d) == phase' = p /\ tries' = n /\ due' = d
Stop(p) == Enter(p, 0, 0) /\ stallDue' = 0

(* An attempt starts with both timers armed.                               *)
Attempt(n) ==
  /\ Enter("fetch", n, now + HardCap) /\ stallDue' = now + Stall
  /\ began' = now /\ heard' = now /\ body' = "none" /\ left' = Chunks

FetchBegins ==
  /\ phase = "fetchwait" /\ Due /\ Attempt(tries)
  /\ UNCHANGED <<now, trickled, world>>

-----------------------------------------------------------------------------
(* decryptKeyWithRetry: every failure, a denial too, is tried again.       *)
MoreKeyTries == tries + 1 < KeyAttempts

KeyFails ==
  /\ IF MoreKeyTries
     THEN Enter("keywait", tries + 1, now + KeyBackoff) /\ UNCHANGED stallDue
     ELSE Stop("failed")
  /\ UNCHANGED <<now, began, heard, body, left, trickled, world>>

(* The dry run of seal_approve passes, or is refused, or nothing comes.    *)
KeyServersAnswer ==
  /\ phase = "key"
  /\ \/ visible /\ ~Due /\ Attempt(0) /\ UNCHANGED <<now, trickled, world>>
     \/ KeyFails

KeyAgain ==
  /\ phase = "keywait" /\ Due /\ Enter("key", tries, now + KeyTimeout)
  /\ UNCHANGED <<now, stallDue, began, heard, body, left, trickled, world>>

-----------------------------------------------------------------------------
(* The worker: the cache, else each aggregator in turn until one holds the *)
(* blob or says there is none.  In any order: it is the operator's list.   *)
WorkerAnswers ==
  IF cached THEN {200}
  ELSE {s \in {200, 404, 502} :
          CASE s = 200 -> \E a \in Aggregators : blobs[a] = "holds"
            [] s = 404 -> \E a \in Aggregators : blobs[a] = "absent"
            [] s = 502 -> \A a \in Aggregators : blobs[a] = "down"}

(* fetchBytesWithStallTimeout: a 4xx is final, anything else is retried.   *)
FetchFails ==
  /\ trickled' = (trickled \/ left < Chunks \/ body = "buffered")
  /\ IF tries < MaxRetries
     THEN Enter("fetchwait", tries + 1, now + FetchBackoff) /\ stallDue' = 0
     ELSE Stop("failed")
  /\ UNCHANGED <<now, began, heard, body, left>>

Responds ==
  /\ phase = "fetch" /\ body = "none" /\ ~Due
  /\ \E status \in WorkerAnswers :
       /\ cached' = (cached \/ status = 200)
       /\ \/ /\ status = 200
             /\ \/ body' = "streamed" /\ UNCHANGED stallDue
                \/ body' = "buffered" /\ stallDue' = 0
             /\ UNCHANGED <<phase, tries, now, due, began, heard, left, trickled>>
          \/ /\ status = 404 /\ Stop("failed")
             /\ UNCHANGED <<now, began, heard, body, left, trickled>>
          \/ status = 502 /\ FetchFails
  /\ UNCHANGED <<visible, blobs>>

NextStall_faulty == stallDue
NextStall == now + Stall

(* A piece of the body; the last one ends the read, and AES-GCM takes it   *)
(* or finds it tampered with.                                              *)
Piece ==
  /\ phase = "fetch" /\ body # "none" /\ ~Due
  /\ left' = left - 1 /\ heard' = now
  /\ IF left' = 0
     THEN \E p \in {"done", "failed"} : Stop(p)
     ELSE /\ stallDue' = IF body = "streamed" THEN NextStall ELSE 0
          /\ UNCHANGED <<phase, tries, due>>
  /\ UNCHANGED <<now, began, body, trickled, world>>

ConnectionBreaks == phase = "fetch" /\ ~Due /\ FetchFails /\ UNCHANGED world

FetchTimesOut == phase = "fetch" /\ Due /\ FetchFails /\ UNCHANGED world

Next ==
  \/ WorldChanges \/ Tick \/ KeyServersAnswer \/ KeyAgain
  \/ FetchBegins \/ Responds \/ Piece \/ ConnectionBreaks \/ FetchTimesOut

(* Time passes and a timer that is due fires; nobody else owes anything.   *)
KeyTimesOut == phase = "key" /\ Due /\ KeyFails
Fairness == WF_vars(Tick) /\ WF_vars(KeyTimesOut \/ KeyAgain \/ FetchBegins \/ FetchTimesOut)
Spec == Init /\ [][Next]_vars /\ Fairness

-----------------------------------------------------------------------------
TypeOK ==
  /\ phase \in {"key", "keywait", "fetch", "fetchwait", "done", "failed"}
  /\ tries \in 0..(KeyAttempts + MaxRetries) /\ {now, due, stallDue, began, heard} \subseteq Nat
  /\ body \in {"none", "streamed", "buffered"} /\ left \in 0..Chunks
  /\ {trickled, visible, cached} \subseteq BOOLEAN
  /\ blobs \in [Aggregators -> {"holds", "absent", "down"}]

(* fetchWithStallTimeout.ts: "a steadily-progressing large download is     *)
(* never killed".  An attempt is given up on a timer only after Stall      *)
(* without a byte, or at its hard cap.                                     *)
LiveReadIsNotKilled ==
  [][FetchTimesOut => now - heard >= Stall \/ now - began >= HardCap]_vars

(* The budget the timeouts were tuned to: a read on which no byte ever     *)
(* comes fails within it, the key's attempts included.                     *)
WedgedReadInBudget == Timed /\ ~trickled /\ left = Chunks /\ body # "buffered" => now <= Budget

(* The spinner never spins for ever, whatever storage and key servers do.  *)
DecryptEnds == <>(phase \in {"done", "failed"})
=============================================================================
