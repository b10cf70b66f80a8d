---------------------------- MODULE WalrusUpload ----------------------------
(***************************************************************************)
(* Storing files on Walrus: the upload hook of the launch and create pages *)
(* with its batches and relay retries (useWalrusUpload, retryAsync), the   *)
(* trail of breadcrumbs that outlives the tab (uploadTrail), and the panel *)
(* that tells the user which transactions have landed                      *)
(* (BatchProgressPanel).                                                   *)
(*                                                                         *)
(* Files are numbered in the order they were given.  The caller keeps one  *)
(* upload of its page at a time; one left behind by a change of route goes *)
(* on without a page and shares the trail.  Awaits are the steps, so a     *)
(* breadcrumb is in sessionStorage when its step ends: the microtask that  *)
(* writes it runs before the await can resume.                             *)
(***************************************************************************)
EXTENDS Integers, Sequences, FiniteSets, SequencesExt

CONSTANTS
  Plans,       \* <<files, files of a quilt>>: what the callers upload at once
  Digits,      \* of an identifier: 10 in the code
  PadWidth,    \* digits of the shortest identifier
  Attempts,    \* of the relay upload
  MaxEntries,  \* of the trail
  MaxBehind    \* bound: uploads a route change left running

UploadAssumption ==
  /\ \A plan \in Plans : plan \in (Nat \ {0}) \X (Nat \ {0})
  /\ MaxEntries \in Nat \ {0} /\ PadWidth \in Nat \ {0} /\ Digits \in Nat /\ Digits > 1
  /\ Attempts \in Nat \ {0} /\ MaxBehind \in Nat

VARIABLES
  stage, batchIndex, batchTotal, txDigests, error,  \* of the hook, as React shows it
  run,       \* the upload under way, or the last one
  landed,    \* transactions of run that were executed
  returned,  \* the files the returned ids address, in order
  trail, stored,    \* breadcrumbs: in the module, in sessionStorage
  surfaced,  \* a stale trail was looked for in this load
  behind,    \* uploads left running without a page
  shared,    \* one of them ran beside an upload that wrote to the trail
  died       \* the step of the upload the last page died in, if it was alone

hookVars == <<stage, batchIndex, batchTotal, txDigests, error>>
runVars == <<run, landed, returned>>
trailVars == <<trail, stored, surfaced, behind, shared, died>>
vars == <<hookVars, runVars, trailVars>>

NoError == [stage |-> "none", batch |-> 0]
NoDeath == [step |-> "none", quilt |-> 0, alone |-> TRUE]
NoRun == [kind |-> "none", files |-> 0, size |-> 1, quilt |-> 0, step |-> "none", tries |-> 0,
          ids |-> <<>>]
Working == {"encoding", "awaiting-register", "relay-upload", "awaiting-certify"}

Running == run.step # "none"
QuiltCount(r) == (r.files + r.size - 1) \div r.size

-----------------------------------------------------------------------------
(* Identifiers: the number of a file in its quilt, with leading zeros.     *)

(* A number without its last k digits.                                     *)
Cut(n, k) == LET cut[i \in 0..k] == IF i = 0 THEN n ELSE cut[i - 1] \div Digits IN cut[k]
NumberWidth(n) == Min({w \in 1..(n + 1) : Cut(n, w) = 0})
(* Faulty: one width for every quilt.                                      *)
WidthOf_faulty(count) == PadWidth
WidthOf(count) == Max({PadWidth, NumberWidth(count - 1)})
identifier(n, count) ==
  LET w == Max({NumberWidth(n), WidthOf(count)}) IN [p \in 1..w |-> Cut(n, w - p) % Digits]

(* The order in which the SDK packs a quilt.                               *)
Lexicographic(a, b) ==
  \/ a # b /\ IsPrefix(a, b)
  \/ \E p \in DOMAIN a \cap DOMAIN b : a[p] < b[p] /\ \A q \in 1..(p - 1) : a[q] = b[q]

(* The files of quilt q, in the order listFiles returns them.              *)
listFiles(r, q) ==
  LET first == q * r.size
      count == IF first + r.size > r.files THEN r.files - first ELSE r.size
      before(m) == {n \in 0..(count - 1) :
                      Lexicographic(identifier(n, count), identifier(m, count))}
      packed == [k \in 1..count |->
                   CHOOSE m \in 0..(count - 1) : Cardinality(before(m)) = k - 1]
  IN [k \in 1..count |-> first + packed[k] + 1]

-----------------------------------------------------------------------------
(* Breadcrumbs.  A standalone blob leaves none.                            *)

Crumb(at, step, q) == [at |-> at, step |-> step, quilt |-> q]
NewestOf(s) == IF Len(s) > MaxEntries THEN SubSeq(s, Len(s) - MaxEntries + 1, Len(s)) ELSE s

Write(crumbs) == trail' = NewestOf(trail \o crumbs) /\ stored' = trail'

writeDiag(r, crumbs) ==
  /\ IF r.kind = "files" THEN Write(crumbs) ELSE UNCHANGED <<trail, stored>>
  /\ UNCHANGED <<surfaced, behind, shared, died>>

clearTrail(r) ==
  /\ IF r.kind = "files" THEN trail' = <<>> /\ stored' = <<>> ELSE UNCHANGED <<trail, stored>>
  /\ UNCHANGED <<surfaced, behind, shared, died>>

-----------------------------------------------------------------------------
Idle ==
  /\ stage' = "idle" /\ batchIndex' = 0 /\ batchTotal' = 1 /\ txDigests' = <<>>
  /\ error' = NoError
  /\ run' = NoRun /\ landed' = {} /\ returned' = <<>>

Init ==
  /\ stage = "idle" /\ batchIndex = 0 /\ batchTotal = 1 /\ txDigests = <<>> /\ error = NoError
  /\ run = NoRun /\ landed = {} /\ returned = <<>>
  /\ trail = <<>> /\ stored = <<>> /\ surfaced = FALSE
  /\ behind = 0 /\ shared = FALSE /\ died = NoDeath

(* The first hook of a load tells of the trail the last one left.          *)
surfaceStaleTrail ==
  /\ ~surfaced /\ surfaced' = TRUE
  /\ stored' = <<>> /\ trail' = <<>> /\ died' = NoDeath
  /\ UNCHANGED <<hookVars, runVars, behind, shared>>

uploadFiles(plan) ==
  /\ surfaced /\ ~Running
  /\ LET r == [NoRun EXCEPT !.kind = "files", !.files = plan[1], !.size = plan[2],
                            !.step = "encoding"] IN
     /\ run' = r /\ landed' = {} /\ returned' = <<>>
     /\ stage' = "encoding" /\ batchIndex' = 0 /\ batchTotal' = QuiltCount(r)
     /\ txDigests' = <<>> /\ error' = NoError
     /\ Write(<<Crumb("pre", "encoding", 0), Crumb("pre", "encoding", 0)>>)
  /\ shared' = (behind > 0)
  /\ UNCHANGED <<surfaced, behind, died>>

uploadBlob ==
  /\ surfaced /\ ~Running
  /\ run' = [NoRun EXCEPT !.kind = "blob", !.files = 1, !.step = "encoding"]
  /\ landed' = {} /\ returned' = <<>>
  /\ stage' = "encoding" /\ error' = NoError
  /\ UNCHANGED <<batchIndex, batchTotal, txDigests, trailVars>>

(* The step under way throws.                                              *)
Throw ==
  /\ error' = [stage |-> stage, batch |-> run.quilt] /\ stage' = "error"
  /\ run' = [run EXCEPT !.step = "none"]
  /\ clearTrail(run)
  /\ UNCHANGED <<batchIndex, batchTotal, txDigests, returned>>

(* The step under way ends and the next one begins.                        *)
Enter(next) ==
  /\ run' = [run EXCEPT !.step = next]
  /\ stage' = next
  /\ writeDiag(run, <<Crumb("post", stage, run.quilt), Crumb("pre", next, run.quilt)>>)

encode ==
  /\ run.step = "encoding"
  /\ \/ Enter("awaiting-register") /\ UNCHANGED <<batchIndex, batchTotal, txDigests, error, returned>>
     \/ Throw
  /\ UNCHANGED landed

(* A transaction is executed or not, and one that is may not be answered.  *)
Sign(what) == landed' \in {landed, landed \cup {<<what, run.quilt>>}}
Signed(what) == landed' = landed \cup {<<what, run.quilt>>}

executeRegister ==
  /\ run.step = "awaiting-register"
  /\ \/ /\ Signed("register") /\ Enter("relay-upload")
        /\ txDigests' = IF run.kind = "files" THEN Append(txDigests, run.quilt) ELSE txDigests
        /\ UNCHANGED <<batchIndex, batchTotal, error, returned>>
     \/ Sign("register") /\ Throw

(* retryAsync, around the relay alone and for transient errors.            *)
MayRetry == run.kind = "files" /\ run.tries + 1 < Attempts
upload ==
  /\ run.step = "relay-upload"
  /\ \/ Enter("awaiting-certify")
        /\ UNCHANGED <<batchIndex, batchTotal, txDigests, error, returned>>
     \/ /\ MayRetry /\ run' = [run EXCEPT !.tries = @ + 1]
        /\ writeDiag(run, <<Crumb("retry", "relay-upload", run.quilt)>>)
        /\ UNCHANGED <<hookVars, returned>>
     \/ Throw
  /\ UNCHANGED landed

Done(ids) ==
  /\ run' = [run EXCEPT !.step = "none", !.ids = ids] /\ stage' = "done" /\ returned' = ids
  /\ clearTrail(run)
  /\ UNCHANGED <<batchIndex, batchTotal, txDigests, error>>

executeCertify ==
  /\ run.step = "awaiting-certify"
  /\ \/ /\ run.kind = "files" /\ Signed("certify")
        /\ run' = [run EXCEPT !.step = "listing"]
        /\ writeDiag(run, <<Crumb("post", "awaiting-certify", run.quilt)>>)
        /\ UNCHANGED <<hookVars, returned>>
     \/ run.kind = "blob" /\ Signed("certify") /\ Done(<<1>>)
     \/ Sign("certify") /\ Throw

(* The ids of the quilt are appended; the next quilt begins after a pause. *)
Collect ==
  /\ run.step = "listing"
  /\ LET ids == run.ids \o listFiles(run, run.quilt)
         q == run.quilt + 1
     IN \/ q = QuiltCount(run) /\ Done(ids)
        \/ /\ q < QuiltCount(run)
           /\ run' = [run EXCEPT !.quilt = q, !.step = "encoding", !.tries = 0, !.ids = ids]
           /\ batchIndex' = q /\ stage' = "encoding"
           /\ writeDiag(run, <<Crumb("pre", "encoding", q)>>)
           /\ UNCHANGED <<batchTotal, txDigests, error, returned>>
        \/ Throw
  /\ UNCHANGED landed

-----------------------------------------------------------------------------
(* A change of route: the next page has a hook of its own.                 *)
Leave ==
  /\ surfaced /\ (Running => behind < MaxBehind)
  /\ behind' = (IF Running /\ run.kind = "files" THEN behind + 1 ELSE behind)
  /\ Idle
  /\ UNCHANGED <<trail, stored, surfaced, shared, died>>

(* The upload left behind goes on in any way, and ends.                    *)
BehindWrites ==
  /\ behind > 0 /\ Write(<<Crumb("pre", "of another", 0)>>)
  /\ UNCHANGED <<hookVars, runVars, surfaced, behind, shared, died>>
BehindEnds ==
  /\ behind > 0 /\ behind' = behind - 1
  /\ trail' = <<>> /\ stored' = <<>>
  /\ shared' = (shared \/ Running)
  /\ UNCHANGED <<hookVars, runVars, surfaced, died>>

(* The tab crashes or is reloaded.  The module starts from sessionStorage. *)
PageDies ==
  /\ IF surfaced
     THEN died' = [(IF Running /\ run.kind = "files"
                    THEN [NoDeath EXCEPT !.step = run.step, !.quilt = run.quilt] ELSE NoDeath)
                   EXCEPT !.alone = behind = 0 /\ ~(Running /\ shared)]
     ELSE UNCHANGED died
  /\ behind' = 0 /\ shared' = FALSE
  /\ trail' = stored /\ surfaced' = FALSE
  /\ Idle /\ UNCHANGED stored

Next ==
  \/ surfaceStaleTrail \/ (\E plan \in Plans : uploadFiles(plan)) \/ uploadBlob
  \/ encode \/ executeRegister \/ upload \/ executeCertify \/ Collect
  \/ Leave \/ BehindWrites \/ BehindEnds \/ PageDies

Spec == Init /\ [][Next]_vars

-----------------------------------------------------------------------------
(* The panel.                                                              *)

rowErrorStage(i) == IF error # NoError /\ i = error.batch THEN error.stage ELSE "none"

RegisterRow(i) ==
  IF stage = "idle" \/ i > batchIndex THEN "pending" ELSE
  IF i < batchIndex THEN "done" ELSE
  CASE stage \in {"encoding", "awaiting-register"} -> "active"
    [] stage = "error" /\ rowErrorStage(i) \in {"encoding", "awaiting-register"} -> "error"
    [] OTHER -> "done"

CertifyRow(i) ==
  IF stage = "idle" \/ i > batchIndex THEN "pending" ELSE
  IF i < batchIndex THEN "done" ELSE
  CASE stage = "awaiting-certify" -> "active"
    [] stage = "done" -> "done"
    [] stage = "error" /\ rowErrorStage(i) = "awaiting-certify" -> "error"
    [] OTHER -> "pending"

OrphansShown == IF stage = "error" THEN error.batch ELSE 0

-----------------------------------------------------------------------------
TypeOK ==
  /\ stage \in Working \cup {"idle", "done", "error"}
  /\ batchTotal \in Nat \ {0} /\ batchIndex \in 0..batchTotal - 1
  /\ run.step \in Working \cup {"none", "listing"} /\ run.tries \in 0..Attempts - 1
  /\ Len(trail) <= MaxEntries /\ Len(stored) <= MaxEntries
  /\ behind \in 0..MaxBehind /\ shared \in BOOLEAN /\ surfaced \in BOOLEAN

(* The ids an upload returns address its files in the order given, also    *)
(* when a quilt holds more files than short identifiers can number; each   *)
(* quilt was registered and certified (uploadFiles, listFiles).            *)
UploadsInOrder ==
  stage = "done" =>
    /\ returned = [k \in 1..run.files |-> k]
    /\ landed = {"register", "certify"} \X (0..QuiltCount(run) - 1)

(* BatchProgressPanel: a row reads done only if its transaction landed,    *)
(* and a link is to that transaction; one that landed is never pending;    *)
(* the quilts said to be stored are.                                       *)
PanelIsHonest ==
  run.kind = "files" =>
    /\ \A i \in 0..batchTotal - 1 :
         /\ RegisterRow(i) = "done" => /\ <<"register", i>> \in landed
                                       /\ i + 1 \in DOMAIN txDigests /\ txDigests[i + 1] = i
         /\ CertifyRow(i) = "done" => <<"certify", i>> \in landed
         /\ <<"register", i>> \in landed => RegisterRow(i) # "pending"
         /\ <<"certify", i>> \in landed => CertifyRow(i) # "pending"
    /\ \A i \in 0..OrphansShown - 1 : <<"certify", i>> \in landed

(* uploadTrail: a load finds a trail exactly when the last page died in an *)
(* upload of files, and its last breadcrumb names the step it died in.     *)
(* Uploads that a route change left running share the trail with the next  *)
(* one, and nothing is claimed then.                                       *)
DeathIsTold ==
  ~surfaced /\ died.alone =>
    /\ stored = <<>> <=> died = NoDeath
    /\ died # NoDeath =>
         LET last == Last(stored) IN
         /\ last.quilt = died.quilt
         /\ IF died.step = "listing" THEN last.at = "post" /\ last.step = "awaiting-certify"
            ELSE last.at \in {"pre", "retry"} /\ last.step = died.step
=============================================================================
