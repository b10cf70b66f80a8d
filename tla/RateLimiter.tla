---------------------------- MODULE RateLimiter ----------------------------
(***************************************************************************)
(* The two fixed-window limiters of the MCP endpoint (backend/src/mcp/     *)
(* auth.ts, route.ts): every request charges its client IP's window before *)
(* anything else, and a tool call with a valid bearer then charges the     *)
(* address's window.  A table is a Map in insertion order, capped at       *)
(* MaxKeys: at the ceiling expired windows are swept, then the oldest key  *)
(* goes.  A periodic sweep drops expired windows in between.               *)
(***************************************************************************)
EXTENDS Naturals, Sequences, FiniteSets

CONSTANTS
  Ips, Addresses,   \* who calls: the keys of the two tables
  MaxKeys,          \* size a table may reach
  MaxPerWindow,     \* table -> requests a window admits
  WindowMs,         \* length of a window
  MaxClock,         \* bound: how far time runs
  MaxCalls          \* bound: requests

Keys == Ips \cup Addresses
Tables == {"ip", "address"}

LimiterAssumption ==
  /\ Ips \cap Addresses = {}
  /\ MaxKeys \in Nat \ {0} /\ WindowMs \in Nat \ {0}
  /\ MaxPerWindow \in [Tables -> Nat \ {0}]
  /\ {MaxClock, MaxCalls} \subseteq Nat

VARIABLES
  clock,
  hits,      \* table -> its windows, oldest key first
  admitted,  \* key -> the times at which it was let through
  evicted,   \* keys whose window was dropped before it ended
  calls

vars == <<clock, hits, admitted, evicted, calls>>

Init ==
  /\ clock = 0 /\ hits = [t \in Tables |-> <<>>]
  /\ admitted = [k \in Keys |-> <<>>] /\ evicted = {} /\ calls = 0

-----------------------------------------------------------------------------
Live(entry) == clock < entry.resetAt
Entry(table, k) == {i \in DOMAIN table : table[i].key = k}

(* The entries at the positions kept, in their order.                      *)
Keeping(table, kept) ==
  LET upTo[n \in 0..Len(table)] ==
        IF n = 0 THEN <<>>
        ELSE IF n \in kept THEN Append(upTo[n - 1], table[n]) ELSE upTo[n - 1]
  IN  upTo[Len(table)]

Without(table, k) == Keeping(table, DOMAIN table \ Entry(table, k))

(* sweepMcpRateLimit: drop the expired windows.                            *)
Swept_faulty(table) == <<>>
Swept(table) == Keeping(table, {i \in DOMAIN table : Live(table[i])})

(* Room for a key the table does not hold: at the ceiling sweep, then evict*)
(* from the oldest.                                                        *)
WithRoom(table) ==
  IF Len(table) < MaxKeys THEN table
  ELSE LET live == Swept(table)
           excess == IF Len(live) < MaxKeys THEN 0 ELSE Len(live) - MaxKeys + 1
       IN  SubSeq(live, excess + 1, Len(live))

(* mcpRateLimited / mcpIpRateLimited: the table after a request of k.      *)
Opens(table, k) == \A i \in Entry(table, k) : ~Live(table[i])

Charge(table, k) ==
  IF Opens(table, k)
  THEN LET room == IF Entry(table, k) = {} THEN WithRoom(table) ELSE table
       IN  Append(Without(room, k), [key |-> k, count |-> 1, resetAt |-> clock + WindowMs])
  ELSE [i \in DOMAIN table |->
          IF table[i].key = k THEN [table[i] EXCEPT !.count = @ + 1] ELSE table[i]]

(* ... and whether that request is refused.                                *)
Limited(t, table, k) ==
  \E i \in Entry(table, k) : Live(table[i]) /\ table[i].count >= MaxPerWindow[t]

LostTo(table, after) ==
  {table[i].key : i \in {j \in DOMAIN table :
     Live(table[j]) /\ Entry(after, table[j].key) = {}}}

-----------------------------------------------------------------------------
Tick ==
  /\ clock < MaxClock /\ clock' = clock + 1
  /\ UNCHANGED <<hits, admitted, evicted, calls>>

(* A request the IP window refuses: 429 before any server is built.        *)
Refused(ip) ==
  /\ calls < MaxCalls /\ Limited("ip", hits["ip"], ip)
  /\ hits' = [hits EXCEPT !["ip"] = Charge(@, ip)]
  /\ calls' = calls + 1
  /\ UNCHANGED <<clock, admitted, evicted>>

(* A request without a bearer (or with a bad one): only the IP is charged. *)
Anonymous(ip) ==
  /\ calls < MaxCalls /\ ~Limited("ip", hits["ip"], ip)
  /\ LET after == Charge(hits["ip"], ip)
     IN  /\ hits' = [hits EXCEPT !["ip"] = after]
         /\ evicted' = evicted \cup LostTo(hits["ip"], after)
  /\ admitted' = [admitted EXCEPT ![ip] = Append(@, clock)]
  /\ calls' = calls + 1
  /\ UNCHANGED clock

(* A tool call of a verified address: both windows are charged, the        *)
(* address's own decides.                                                  *)
ToolCall(ip, a) ==
  /\ calls < MaxCalls /\ ~Limited("ip", hits["ip"], ip)
  /\ LET ips == Charge(hits["ip"], ip)
         addresses == Charge(hits["address"], a)
     IN  /\ hits' = [ip |-> ips, address |-> addresses]
         /\ evicted' = evicted \cup LostTo(hits["ip"], ips)
                         \cup LostTo(hits["address"], addresses)
         /\ admitted' = [admitted EXCEPT
              ![ip] = Append(@, clock),
              ![a] = IF Limited("address", hits["address"], a) THEN @ ELSE Append(@, clock)]
  /\ calls' = calls + 1
  /\ UNCHANGED clock

(* The interval's sweep of both tables.                                    *)
Sweep ==
  /\ \E t \in Tables : \E i \in DOMAIN hits[t] : ~Live(hits[t][i])
  /\ hits' = [t \in Tables |-> Swept(hits[t])]
  /\ UNCHANGED <<clock, admitted, evicted, calls>>

Next ==
  \/ Tick \/ Sweep
  \/ \E ip \in Ips : Refused(ip) \/ Anonymous(ip) \/ \E a \in Addresses : ToolCall(ip, a)

Spec == Init /\ [][Next]_vars

-----------------------------------------------------------------------------
TableOf(k) == IF k \in Ips THEN "ip" ELSE "address"
Windows == [key : Keys, count : Nat, resetAt : Nat]

TypeOK ==
  /\ clock \in 0..MaxClock /\ calls \in 0..MaxCalls
  /\ hits \in [Tables -> Seq(Windows)]
  /\ admitted \in [Keys -> Seq(0..MaxClock)] /\ evicted \subseteq Keys

(* Fixed windows admit a burst across their edge, but never a double one:  *)
(* in any span of WindowMs a key whose window was never evicted is let     *)
(* through less than twice what a window admits.                           *)
RateBounded ==
  \A k \in Keys \ evicted : \A t \in 0..MaxClock :
    Cardinality({i \in DOMAIN admitted[k] : admitted[k][i] \in t..(t + WindowMs - 1)})
      < 2 * MaxPerWindow[TableOf(k)]

(* A window still running is dropped only when the table is full of running*)
(* windows, and then it is the one nearest its end: a key that just came   *)
(* back is never the victim.                                               *)
OnlyTheStalestEvicted ==
  [][\A t \in Tables : \A i \in DOMAIN hits[t] :
       Live(hits[t][i]) /\ Entry(hits'[t], hits[t][i].key) = {}
         => /\ Len(hits[t]) = MaxKeys
            /\ \A j \in DOMAIN hits[t] :
                 Live(hits[t][j]) /\ hits[t][i].resetAt <= hits[t][j].resetAt]_vars
=============================================================================
