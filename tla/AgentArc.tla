------------------------------- MODULE AgentArc -------------------------------
(***************************************************************************)
(* An agent that buys a model and decrypts it: the MCP tools               *)
(* build_purchase_tx and download_content (backend/src/mcp/tools), and the *)
(* helper the agent runs on its own machine (frontend/scripts/             *)
(* agentDecrypt.ts), which may crash at any step.  What the agent does     *)
(* between the tools is external: it may sign any transaction it was       *)
(* given, late or twice, and run the helper with another key.              *)
(***************************************************************************)
EXTENDS Naturals, FiniteSets

CONSTANTS
  Models, Agents,
  Creator,        \* model -> its creator
  Policy,         \* model -> "ALLOW_LIST", "RESTRICTED" or "PERMISSIONLESS"
  MaxEntitlements, MaxCrashes   \* bounds

ArcAssumption == {MaxEntitlements, MaxCrashes} \subseteq Nat

VARIABLES
  ents,      \* the chain: the entitlements sold
  replica,   \* those the fullnode of the tools and the key servers knows
  offers,    \* transactions build_purchase_tx has returned
  material,  \* what download_content has returned
  run,       \* the helper's run
  temp,      \* temporary files: what is in each
  file,      \* samples/<modelId>.glb
  crashes

vars == <<ents, replica, offers, material, run, temp, file, crashes>>

Entitlement == [id : 1..MaxEntitlements, model : Models, owner : Agents]
Material == [model : Models, ent : Entitlement]
NoRun == [stage |-> "none"]
Part == [model : Models, by : Agents, whole : BOOLEAN]
NoFile == [model |-> "none"]

Init ==
  /\ ents = {} /\ replica = {} /\ offers = {} /\ material = {}
  /\ run = NoRun /\ temp = {} /\ file = [m \in Models |-> NoFile] /\ crashes = 0

ReplicaCatchesUp ==
  /\ replica # ents /\ replica' = ents
  /\ UNCHANGED <<ents, offers, material, run, temp, file, crashes>>

-----------------------------------------------------------------------------
Bought(m, sender, known) == \E e \in known : e.model = m /\ e.owner = sender

(* purchase_access on chain: nobody buys their own model, or one twice.    *)
Purchasable(m, sender) ==
  Policy[m] = "ALLOW_LIST" /\ Creator[m] # sender /\ ~Bought(m, sender, ents)

(* build_purchase_tx: for the caller, or any sender it names.  It checks   *)
(* policy and creator itself, and the last word is the dry run's, against  *)
(* the chain as the fullnode knows it.                                     *)
Offered(m, sender) ==
  Policy[m] = "ALLOW_LIST" /\ Creator[m] # sender /\ ~Bought(m, sender, replica)

build_purchase_tx(m, sender) ==
  /\ Offered(m, sender)
  /\ offers' = offers \cup {[model |-> m, sender |-> sender]}
  /\ UNCHANGED <<ents, replica, material, run, temp, file, crashes>>

(* The agent signs and sends one it holds.                                 *)
Execute(o) ==
  /\ o \in offers /\ Cardinality(ents) < MaxEntitlements
  /\ Purchasable(o.model, o.sender)
  /\ ents' = ents \cup
       {[id |-> Cardinality(ents) + 1, model |-> o.model, owner |-> o.sender]}
  /\ UNCHANGED <<replica, offers, material, run, temp, file, crashes>>

(* download_content: fails closed unless the entitlement that was named is *)
(* the caller's and this model's.                                          *)
Entitled(m, e, sub) == e \in replica /\ e.owner = sub /\ e.model = m

download_content(m, e, sub) ==
  /\ Entitled(m, e, sub) /\ Policy[m] # "PERMISSIONLESS"
  /\ material' = material \cup {[model |-> m, ent |-> e]}
  /\ UNCHANGED <<ents, replica, offers, run, temp, file, crashes>>

-----------------------------------------------------------------------------
(* The helper: runAgentDecrypt on some material with some key.             *)
runAgentDecrypt(m, signer) ==
  /\ run = NoRun /\ m \in material
  /\ run' = [stage |-> "key", of |-> m, signer |-> signer]
  /\ UNCHANGED <<ents, replica, offers, material, temp, file, crashes>>

(* seal_approve_entitlement, dry-run by the key servers for the signer.    *)
Approves(r) == r.of.ent \in replica /\ r.of.ent.owner = r.signer /\ r.of.ent.model = r.of.model

KeyAnswers ==
  /\ run.stage = "key"
  /\ \/ Approves(run) /\ run' = [run EXCEPT !.stage = "read"]
     \/ run' = NoRun
  /\ UNCHANGED <<ents, replica, offers, material, temp, file, crashes>>

(* The ciphertext is read and decrypted: all of it, or AES-GCM throws.     *)
Plaintext ==
  /\ run.stage = "read"
  /\ \/ run' = [run EXCEPT !.stage = "write"] \/ run' = NoRun
  /\ UNCHANGED <<ents, replica, offers, material, temp, file, crashes>>

Mine(whole) == [model |-> run.of.model, by |-> run.signer, whole |-> whole]

(* writeFileAtomic: a temporary file grows, then takes the target's name.  *)
WriteStarts ==
  /\ run.stage = "write" /\ run' = [run EXCEPT !.stage = "writing"]
  /\ temp' = temp \cup {Mine(FALSE)}
  /\ UNCHANGED <<ents, replica, offers, material, file, crashes>>

WriteEnds ==
  /\ run.stage = "writing"
  /\ \/ temp' = (temp \ {Mine(FALSE)}) \cup {Mine(TRUE)} /\ run' = [run EXCEPT !.stage = "rename"]
     \/ temp' = temp \ {Mine(FALSE)} /\ run' = NoRun
  /\ UNCHANGED <<ents, replica, offers, material, file, crashes>>

MayRename_faulty == run.stage \in {"writing", "rename"}
MayRename == run.stage = "rename"

Rename ==
  /\ MayRename /\ run' = NoRun
  /\ \E part \in temp :
       /\ part = Mine(run.stage = "rename") /\ temp' = temp \ {part}
       /\ file' \in {file, [file EXCEPT ![run.of.model] = part]}
  /\ UNCHANGED <<ents, replica, offers, material, crashes>>

(* The helper's process dies; what is on the disk stays.                   *)
Crash ==
  /\ run # NoRun /\ crashes < MaxCrashes
  /\ run' = NoRun /\ crashes' = crashes + 1
  /\ UNCHANGED <<ents, replica, offers, material, temp, file>>

Next ==
  \/ ReplicaCatchesUp \/ KeyAnswers \/ Plaintext \/ WriteStarts \/ WriteEnds \/ Rename \/ Crash
  \/ \E m \in Models, a \in Agents :
       \/ build_purchase_tx(m, a)
       \/ \E e \in replica : download_content(m, e, a)
  \/ \E o \in offers : Execute(o)
  \/ \E m \in material, a \in Agents : runAgentDecrypt(m, a)

Spec == Init /\ [][Next]_vars

-----------------------------------------------------------------------------
TypeOK ==
  /\ ents \subseteq Entitlement /\ replica \subseteq ents
  /\ offers \subseteq [model : Models, sender : Agents] /\ material \subseteq Material
  /\ run = NoRun \/ (run.of \in Material /\ run.signer \in Agents)
  /\ temp \subseteq Part /\ crashes \in 0..MaxCrashes
  /\ \A m \in Models : file[m] \in Part \cup {NoFile}

(* An unsigned transaction is handed out only if the chain takes it, now   *)
(* and however late the agent signs it; the only thing that can have come  *)
(* between is the entitlement it would buy, and no agent pays for two.     *)
OffersExecute ==
  /\ \A o \in offers : Purchasable(o.model, o.sender) \/ Bought(o.model, o.sender, ents)
  /\ \A e, f \in ents : e.model = f.model /\ e.owner = f.owner => e = f

(* A model's file is whole, whatever crashed, and was decrypted by a key   *)
(* that paid for this model.                                               *)
FileIsWholeAndPaid ==
  \A m \in Models : file[m] # NoFile =>
    /\ file[m].whole
    /\ \E e \in ents : e.model = m /\ e.owner = file[m].by

(* The whole arc: an agent pays once, for what it then holds whole.        *)
ArcDelivers == OffersExecute /\ FileIsWholeAndPaid

=============================================================================
