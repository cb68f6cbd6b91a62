------------------------------ MODULE Resolver ------------------------------
(***************************************************************************)
(* The resolver of names (dns): a cache that answers with what has expired *)
(* while it fetches anew, a singleflight that lets one exchange run for a  *)
(* question at a time, queries that give up before it ends, and retries.   *)
(*                                                                         *)
(* One question, and the servers as one: which of them is asked or         *)
(* believed is left out, as are responses that are never cached.  The      *)
(* count of retries is left out: nobody reads the answer of a retry, so    *)
(* that there is never a second one.  The cache is the default one, and no *)
(* call panics.                                                            *)
(***************************************************************************)
EXTENDS Naturals

CONSTANTS
  Client,     \* queries with the fetch they may leave behind; bound: the next is after that
  MaxChange,  \* bound: changes of the record on the servers
  None        \* no entry, no flight, no answer

VARIABLES
  record,  \* on the servers: its version, and whether its TTL is not zero
  entry,   \* in the cache: a version, and whether it has not expired
  flight,  \* the call of the singleflight: its step, its answer, and whether it is shared
  at,      \* what each goroutine of each client is doing
  newest   \* history: the newest version that may be kept and was the answer to a query or retry

vars == <<record, entry, flight, at, newest>>

Record == [version : 0 .. MaxChange, kept : BOOLEAN]
Entry  == [version : 0 .. MaxChange, fresh : BOOLEAN]
Flight == [at : {"ask", "put", "end"}, answer : Record \cup {None}, shared : BOOLEAN]

Query(c)  == <<c, "query">>
Fetch(c)  == <<c, "fetch">>
Goroutine == Client \X {"query", "fetch"}

TypeOK ==
  /\ record \in Record /\ entry \in Entry \cup {None} /\ flight \in Flight \cup {None}
  /\ at \in [Goroutine -> {"idle", "join", "wait", "monitor", "failed", "alone", "retry"}]
  /\ newest \in 0 .. MaxChange

Later(v) == IF v > newest THEN v ELSE newest

-----------------------------------------------------------------------------
(* Queries.                                                                *)

\* ExchangeContext finds nothing in the cache.
Miss(c) ==
  /\ at[Query(c)] = "idle" /\ at[Fetch(c)] = "idle"
  /\ entry = None
  /\ at' = [at EXCEPT ![Query(c)] = "join"]
  /\ UNCHANGED <<record, entry, flight, newest>>

(* Mutant: an answer that has expired is not fetched anew *)
HitOnly(c) ==
  /\ at[Query(c)] = "idle" /\ at[Fetch(c)] = "idle"
  /\ entry # None
  /\ newest' = Later(entry.version)
  /\ UNCHANGED <<record, entry, flight, at>>

\* It is answered from the cache, and goes on to fetch an answer that has expired.
Hit(c) ==
  /\ at[Query(c)] = "idle" /\ at[Fetch(c)] = "idle"
  /\ entry # None
  /\ newest' = Later(entry.version)
  /\ at' = IF entry.fresh THEN at ELSE [at EXCEPT ![Fetch(c)] = "join"]
  /\ UNCHANGED <<record, entry, flight>>

\* DoChan starts the exchange or joins the one that runs.
DoChan ==
  flight' = IF flight = None THEN [at |-> "ask", answer |-> None, shared |-> FALSE]
            ELSE [flight EXCEPT !.shared = TRUE]

ExchangeWithoutCache(g) ==
  /\ at[g] = "join" /\ at' = [at EXCEPT ![g] = "wait"]
  /\ DoChan
  /\ UNCHANGED <<record, entry, newest>>

\* The goroutine is done with g; a query that ran out of time goes on in the background.
GoesOn(g, state) ==
  at' = [h \in Goroutine |-> IF h = g THEN state
                             ELSE IF g[2] = "query" /\ h = Fetch(g[1]) THEN "join" ELSE at[h]]

\* The context of the caller is done: a monitor waits in its place.
ContextDone(g) ==
  /\ at[g] = "wait" /\ GoesOn(g, "monitor")
  /\ UNCHANGED <<record, entry, flight, newest>>

\* The exchange has failed, for want of time or otherwise; it is retried if it was nobody else's.
Failed(g) ==
  /\ at[g] \in {"failed", "alone"}
  /\ GoesOn(g, "idle") \/ at' = [at EXCEPT ![g] = "idle"]
  /\ IF at[g] = "alone" THEN DoChan ELSE UNCHANGED flight
  /\ UNCHANGED <<record, entry, newest>>

\* The same in a monitor.
MonitorFailed(g) ==
  /\ at[g] = "retry" /\ at' = [at EXCEPT ![g] = "idle"]
  /\ DoChan
  /\ UNCHANGED <<record, entry, newest>>

-----------------------------------------------------------------------------
(* The exchange, in a goroutine of its own.                                *)

\* The servers answer.
Answer ==
  /\ flight # None /\ flight.at = "ask"
  /\ flight' = [flight EXCEPT !.at = "put", !.answer = record]
  /\ UNCHANGED <<record, entry, at, newest>>

\* No server does, or none in time.
NoAnswer ==
  /\ flight # None /\ flight.at = "ask"
  /\ flight' = [flight EXCEPT !.at = "end"]
  /\ UNCHANGED <<record, entry, at, newest>>

(* Mutant: an entry that is there is left alone *)
PutMsgIfAbsent ==
  /\ flight # None /\ flight.at = "put"
  /\ flight' = [flight EXCEPT !.at = "end"]
  /\ entry' = IF flight.answer.kept /\ entry = None
              THEN [version |-> flight.answer.version, fresh |-> TRUE] ELSE entry
  /\ UNCHANGED <<record, at, newest>>

\* The answer is cached, unless its TTL is zero: what was cached before then stays.
PutMsgToCache ==
  /\ flight # None /\ flight.at = "put"
  /\ flight' = [flight EXCEPT !.at = "end"]
  /\ entry' = IF flight.answer.kept
              THEN [version |-> flight.answer.version, fresh |-> TRUE] ELSE entry
  /\ UNCHANGED <<record, at, newest>>

\* What becomes of a goroutine that waits for the exchange.
Received(state) ==
  IF flight.answer # None THEN "idle"
  ELSE IF state = "wait" THEN IF flight.shared THEN "failed" ELSE "alone"
  ELSE IF flight.shared THEN "idle" ELSE "retry"

\* The end of doCall: whoever waits receives the answer or the error.
DoCallEnds ==
  /\ flight # None /\ flight.at = "end" /\ flight' = None
  /\ at' = [g \in Goroutine |-> IF at[g] \in {"wait", "monitor"} THEN Received(at[g]) ELSE at[g]]
  /\ newest' = IF flight.answer # None /\ flight.answer.kept THEN Later(flight.answer.version)
               ELSE newest
  /\ UNCHANGED <<record, entry>>

-----------------------------------------------------------------------------
Expire ==
  /\ entry # None /\ entry.fresh
  /\ entry' = [entry EXCEPT !.fresh = FALSE]
  /\ UNCHANGED <<record, flight, at, newest>>

\* ClearCache, or the place is needed for another question.
ClearCache ==
  /\ entry # None /\ entry' = None
  /\ UNCHANGED <<record, flight, at, newest>>

Change ==
  /\ record.version < MaxChange
  /\ \E kept \in BOOLEAN : record' = [version |-> record.version + 1, kept |-> kept]
  /\ UNCHANGED <<entry, flight, at, newest>>

-----------------------------------------------------------------------------
Init ==
  /\ record \in [version : {0}, kept : BOOLEAN] /\ newest = 0
  /\ entry = None /\ flight = None
  /\ at = [g \in Goroutine |-> "idle"]

Step(g) == ExchangeWithoutCache(g) \/ Failed(g) \/ MonitorFailed(g)

CallStep == Answer \/ NoAnswer \/ PutMsgToCache \/ DoCallEnds

Next ==
  \/ \E c \in Client : Miss(c) \/ Hit(c)
  \/ \E g \in Goroutine : Step(g) \/ ContextDone(g)
  \/ CallStep
  \/ Expire \/ ClearCache \/ Change

Spec == Init /\ [][Next]_vars

\* Goroutines run, an exchange has a timeout, now and then the servers answer one, entries expire,
\* and somebody goes on asking.
Fairness ==
  /\ \A g \in Goroutine : WF_vars(Step(g))
  /\ WF_vars(CallStep) /\ SF_vars(Answer)
  /\ WF_vars(Expire) /\ SF_vars(\E c \in Client : Hit(c))

FairSpec == Spec /\ Fairness

-----------------------------------------------------------------------------
(* Properties.                                                             *)

\* No query is answered with an older version than one that was answered before, unless that one
\* had a TTL of zero: whatever is fetched in the background, retried or given up, what a cache
\* hit or the exchange that ends would answer is at least as new.
AnswersNeverGoBack ==
  /\ entry # None => entry.version >= newest
  /\ flight # None /\ flight.at = "end" /\ flight.answer # None => flight.answer.version >= newest

\* The cache ends up with what the servers have, or empty, while somebody goes on asking, although
\* it answers with what has expired and a fetch may join an exchange that read an older version,
\* fail or be given up; unless the TTL is zero at last.
CatchesUp == <>[](entry # None /\ record.kept => entry.version = record.version)
=============================================================================
