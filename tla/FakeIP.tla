------------------------------- MODULE FakeIP -------------------------------
(***************************************************************************)
(* The fake addresses of the DNS service (component/fakeip) on the store   *)
(* that the app always configures: a bucket of the cache file, which       *)
(* outlives the process.  A pool hands out its addresses in a circle.      *)
(* Parsing a configuration makes another pool on the same bucket, which    *)
(* empties it if it finds the first address in use; the new pool replaces  *)
(* the running one when the configuration is applied, and is dropped when  *)
(* it was only validated.  A pool has a mutex, the bucket none: each       *)
(* access is one transaction of the database.                              *)
(*                                                                         *)
(* StoreState is left out, since the app never shuts the core down: it is  *)
(* killed, so that no offset is ever found in the bucket.                  *)
(***************************************************************************)
EXTENDS Naturals

CONSTANTS
  Client,   \* DNS queries and the connections made with their answers
  Host,     \* names
  Size,     \* the addresses of the range: first is 1, last is Size + 1
  None      \* no host, no address

IP   == 1 .. Size
Pool == {1, 2}     \* bound: the running pool and one more, new or being replaced

VARIABLES
  hostOf,    \* the bucket: the host of an address
  ipOf,      \* the bucket: the address of a host
  running,   \* the pool of the DNS service, or 0 before the first configuration
  parsed,    \* the other pool: "none", "check" and "flush" in restoreState, or "ready"
  offset,    \* the address a pool handed out last
  cycle,     \* whether a pool has been round
  query,     \* what a client's query is doing
  before,    \* history: <<a, b>> if both are in use and a was handed out before b
  overlapped,\* history: since the bucket was emptied, two lookups, or one and that emptying, overlapped
  mixed      \* history: since then, a lookup and a reload overlapped, or a configuration was only
             \* validated while the running pool had handed out addresses

bucket  == <<hostOf, ipOf>>
pools   == <<running, parsed, offset, cycle>>
history == <<overlapped, mixed>>
vars    == <<bucket, pools, query, before, history>>

Steps == {"lock", "get", "del", "putIP", "putHost"}

Idle == [at |-> "idle"]

TypeOK ==
  /\ hostOf \in [IP -> Host \cup {None}] /\ ipOf \in [Host -> IP \cup {None}]
  /\ running \in 0 .. 2 /\ parsed \in {"none", "check", "flush", "ready"}
  /\ offset \in [Pool -> 0 .. Size] /\ cycle \in [Pool -> BOOLEAN]
  /\ query \in [Client -> {Idle} \cup [at : Steps, pool : Pool, host : Host]]
  /\ before \subseteq IP \X IP /\ overlapped \in BOOLEAN /\ mixed \in BOOLEAN

Spare == IF running = 2 THEN 1 ELSE 2

Inside(c, p) == query[c].at \in Steps \ {"lock"} /\ query[c].pool = p
Locked(p)    == \E c \in Client : Inside(c, p)

Busy         == Locked(1) \/ Locked(2)

-----------------------------------------------------------------------------
(* A query: withFakeIP calls Lookup on the pool of the service it runs in. *)

At(c, step) == query[c].at = step

Go(c, step) == query' = [query EXCEPT ![c].at = step]

Ask(c, h) ==
  /\ query[c] = Idle /\ running # 0
  /\ query' = [query EXCEPT ![c] = [at |-> "lock", pool |-> running, host |-> h]]
  /\ UNCHANGED <<bucket, pools, before, history>>

\* Lookup takes the mutex and looks for the host.
Lookup(c) ==
  LET p == query[c].pool
  IN  /\ At(c, "lock") /\ ~Locked(p)
      /\ IF ipOf[query[c].host] # None
         THEN query' = [query EXCEPT ![c] = Idle] /\ UNCHANGED history
         ELSE /\ Go(c, "get") /\ overlapped' = (overlapped \/ Busy)
              /\ mixed' = (mixed \/ p # running \/ parsed # "none")
      /\ UNCHANGED <<bucket, pools, before>>

\* get: the next address, round the circle.
Get(c) ==
  LET p    == query[c].pool
      wrap == offset[p] + 1 >= Size + 1
      next == IF wrap THEN 1 ELSE offset[p] + 1
  IN  /\ At(c, "get")
      /\ offset' = [offset EXCEPT ![p] = next]
      /\ cycle' = [cycle EXCEPT ![p] = @ \/ wrap]
      /\ Go(c, IF cycle'[p] \/ hostOf[next] # None THEN "del" ELSE "putIP")
      /\ UNCHANGED <<bucket, running, parsed, before, history>>

InUse == {ip \in IP : hostOf[ip] # None}

Without(ip) == {pair \in before : ip \notin {pair[1], pair[2]}}

(* Mutant: the host keeps its entry *)
DelByIPOnly(c) ==
  LET ip == offset[query[c].pool]
  IN  /\ At(c, "del")
      /\ hostOf' = [hostOf EXCEPT ![ip] = None]
      /\ before' = Without(ip)
      /\ Go(c, "putIP")
      /\ UNCHANGED <<ipOf, pools, history>>

\* DelByIP, one transaction: the host that the address belongs to loses its entry as well.
DelByIP(c) ==
  LET ip == offset[query[c].pool]
  IN  /\ At(c, "del")
      /\ hostOf' = [hostOf EXCEPT ![ip] = None]
      /\ ipOf' = [h \in Host |-> IF h = hostOf[ip] THEN None ELSE ipOf[h]]
      /\ before' = Without(ip)
      /\ Go(c, "putIP")
      /\ UNCHANGED <<pools, history>>

PutByIP(c) ==
  LET ip == offset[query[c].pool]
  IN  /\ At(c, "putIP")
      /\ hostOf' = [hostOf EXCEPT ![ip] = query[c].host]
      /\ before' = Without(ip) \cup ((InUse \ {ip}) \X {ip})
      /\ Go(c, "putHost")
      /\ UNCHANGED <<ipOf, pools, history>>

\* PutByHost, and Lookup returns.
PutByHost(c) ==
  /\ At(c, "putHost")
  /\ ipOf' = [ipOf EXCEPT ![query[c].host] = offset[query[c].pool]]
  /\ query' = [query EXCEPT ![c] = Idle]
  /\ UNCHANGED <<hostOf, pools, before, history>>

-----------------------------------------------------------------------------
(* Configurations.                                                         *)

\* New, when a configuration is parsed.  The one before has no query left.
New ==
  /\ parsed = "none" /\ \A c \in Client : query[c].at # "idle" => query[c].pool = running
  /\ offset' = [offset EXCEPT ![Spare] = 0] /\ cycle' = [cycle EXCEPT ![Spare] = FALSE]
  /\ parsed' = "check"
  /\ mixed' = (mixed \/ Busy)
  /\ UNCHANGED <<bucket, running, query, before, overlapped>>

(* Mutant: what an earlier pool left in the bucket is kept *)
RestoreStateKeeping ==
  /\ parsed = "check" /\ parsed' = "ready"
  /\ UNCHANGED <<bucket, running, offset, cycle, query, before, history>>

\* restoreState: no offset was stored, but the first address is in use.
RestoreState ==
  /\ parsed = "check"
  /\ parsed' = IF hostOf[1] # None THEN "flush" ELSE "ready"
  /\ UNCHANGED <<bucket, running, offset, cycle, query, before, history>>

Empty ==
  /\ hostOf' = [ip \in IP |-> None] /\ ipOf' = [h \in Host |-> None]
  /\ before' = {}

FlushFakeIP ==
  /\ parsed = "flush" /\ parsed' = "ready"
  /\ Empty /\ overlapped' = Busy /\ mixed' = Busy
  /\ UNCHANGED <<running, offset, cycle, query>>

\* updateDNS: the new pool is that of the service from now on.
Install ==
  /\ parsed = "ready" /\ parsed' = "none"
  /\ running' = Spare
  /\ UNCHANGED <<bucket, offset, cycle, query, before, history>>

\* FetchAndValid has parsed the configuration to validate it.
Discard ==
  /\ parsed = "ready" /\ parsed' = "none"
  /\ mixed' = (mixed \/ (running # 0 /\ offset[running] # 0))
  /\ UNCHANGED <<bucket, running, offset, cycle, query, before, overlapped>>

\* The process is killed; the bucket is what is left when it is back.
Crash ==
  /\ running' = 0 /\ parsed' = "none"
  /\ offset' = [p \in Pool |-> 0] /\ cycle' = [p \in Pool |-> FALSE]
  /\ query' = [c \in Client |-> Idle]
  /\ UNCHANGED <<bucket, before, history>>

-----------------------------------------------------------------------------
Init ==
  /\ hostOf = [ip \in IP |-> None] /\ ipOf = [h \in Host |-> None]
  /\ running = 0 /\ parsed = "none"
  /\ offset = [p \in Pool |-> 0] /\ cycle = [p \in Pool |-> FALSE]
  /\ query = [c \in Client |-> Idle]
  /\ before = {} /\ overlapped = FALSE /\ mixed = FALSE

LookupStep(c) == Lookup(c) \/ Get(c) \/ DelByIP(c) \/ PutByIP(c) \/ PutByHost(c)

Next ==
  \/ \E c \in Client : LookupStep(c) \/ \E h \in Host : Ask(c, h)
  \/ New \/ RestoreState \/ FlushFakeIP \/ Install \/ Discard
  \/ Crash

Spec == Init /\ [][Next]_vars

-----------------------------------------------------------------------------
(* Properties.                                                             *)

\* The address a host is answered with leads back to that host, whatever is reused, flushed or
\* lost in a crash between two transactions, unless the queries of two pools, or a query and
\* the flush of another pool, overlap.
AnswersLeadBack ==
  ~overlapped => \A h \in Host : ipOf[h] # None => hostOf[ipOf[h]] = h

\* An address in use is taken from its host only when no address is free, and then it is the
\* one that was handed out longest ago, also after reloads and crashes, unless queries ran
\* during a reload, or the pool of a configuration that was only validated emptied the bucket.
OldestIsReused ==
  [][\A ip \in IP :
       /\ \E c \in Client : DelByIP(c)
       /\ hostOf[ip] # None /\ hostOf'[ip] = None /\ ~mixed
       => \A other \in IP \ {ip} : <<ip, other>> \in before]_vars
=============================================================================
