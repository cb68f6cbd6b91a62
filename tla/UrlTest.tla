------------------------------ MODULE UrlTest ------------------------------
(***************************************************************************)
(* A url-test group and the provider whose nodes it chooses from           *)
(* (adapter/outboundgroup, adapter/provider, common/singledo).  The group  *)
(* caches the list of nodes under the version of the provider, and the     *)
(* node it has chosen for ten seconds; dialers that ask while it is being  *)
(* chosen wait for that answer.  A selection of the user and a health      *)
(* check of the group reset the choice.                                    *)
(*                                                                         *)
(* One provider without filters; which nodes are alive, delays and the     *)
(* tolerance are abstracted to a choice among the nodes.  A call that ends *)
(* keeps its answer and wakes those who wait for it in one step, where the *)
(* code wakes them a moment before: they have that answer either way, and  *)
(* one who asks in between waits for the call that has ended.              *)
(***************************************************************************)
EXTENDS Naturals, FiniteSets

CONSTANTS
  Dialer,      \* goroutines that dial through the group
  Node,
  MaxVersion,  \* bound: updates of the provider
  None         \* no node, no list, no call

VARIABLES
  proxies, version,   \* the provider
  cached,             \* the group: the list in providerProxies and the version it is filed under
  selected, setting,  \* the node the user fixed; whether ForceSet is between its two steps
  fastNode,
  call, result,       \* fastSingle: whose call runs, and the answer that is kept
  dial                \* what each dialer is doing

provider == <<proxies, version>>
group    == <<cached, selected, setting, fastNode, call, result>>
vars     == <<provider, group, dial>>

Idle == [at |-> "idle"]

Answer == [node : Node \cup {None}, sel : Node \cup {None}]

TypeOK ==
  /\ proxies \subseteq Node /\ version \in 0 .. MaxVersion
  /\ setting \in BOOLEAN
  /\ cached = None \/ cached \in [version : 0 .. MaxVersion, list : (SUBSET Node) \ {{}}]
  /\ selected \in Node \cup {None} /\ fastNode \in Node \cup {None}
  /\ call \in Dialer \cup {None} /\ result \in Answer \cup {None}
  /\ dial \in [Dialer ->
       {Idle} \cup [at : {"versions"}] \cup [at : {"list"}, version : 0 .. MaxVersion]
       \cup [at : {"pick"}, list : SUBSET Node] \cup [at : {"return"}, sel : Node \cup {None}]
       \cup [at : {"store"}, answer : Answer] \cup [at : {"wait"}, on : Dialer]]

-----------------------------------------------------------------------------
(* The provider.                                                           *)

(* Mutant: a list of the same length counts as unchanged *)
SetProxiesSameCount(nodes) ==
  /\ version < MaxVersion
  /\ version' = IF Cardinality(nodes) = Cardinality(proxies) THEN version ELSE version + 1
  /\ proxies' = nodes
  /\ UNCHANGED <<group, dial>>

SetProxies(nodes) ==
  /\ version < MaxVersion /\ version' = version + 1
  /\ proxies' = nodes
  /\ UNCHANGED <<group, dial>>

-----------------------------------------------------------------------------
(* fast: fastSingle.Do around the choice.                                  *)

Go(d, state) == dial' = [dial EXCEPT ![d] = state]

\* Do: an answer that is kept is returned, a call that runs is waited for.
Do(d) ==
  /\ dial[d] = Idle
  /\ result = None
  /\ IF call # None THEN Go(d, [at |-> "wait", on |-> call]) /\ UNCHANGED call
     ELSE call' = d /\ Go(d, [at |-> "versions"])
  /\ UNCHANGED <<provider, cached, selected, setting, fastNode, result>>

\* GetProxies: the version is read, then the list is taken under the mutex of the group.
ReadVersions(d) ==
  /\ dial[d].at = "versions"
  /\ Go(d, [at |-> "list", version |-> version])
  /\ UNCHANGED <<provider, group>>

(* Mutant: the fallback of an empty list is cached *)
GetProxiesCachingEmpty(d) ==
  /\ dial[d].at = "list"
  /\ IF cached # None /\ cached.version = dial[d].version
     THEN Go(d, [at |-> "pick", list |-> cached.list]) /\ UNCHANGED cached
     ELSE /\ Go(d, [at |-> "pick", list |-> proxies])
          /\ cached' = [version |-> dial[d].version, list |-> proxies]
  /\ UNCHANGED <<provider, selected, setting, fastNode, call, result>>

\* An empty list is answered with the fallback and not cached.
GetProxies(d) ==
  /\ dial[d].at = "list"
  /\ IF cached # None /\ cached.version = dial[d].version
     THEN Go(d, [at |-> "pick", list |-> cached.list]) /\ UNCHANGED cached
     ELSE /\ Go(d, [at |-> "pick", list |-> proxies])
          /\ cached' = IF proxies = {} THEN cached ELSE [version |-> dial[d].version, list |-> proxies]
  /\ UNCHANGED <<provider, selected, setting, fastNode, call, result>>

\* The node the user fixed, if it is in the list and alive.
PickSelected(d) ==
  /\ dial[d].at = "pick" /\ selected \in dial[d].list
  /\ fastNode' = selected
  /\ Go(d, [at |-> "store", answer |-> [node |-> selected, sel |-> selected]])
  /\ UNCHANGED <<provider, cached, selected, setting, call, result>>

\* Otherwise the one the delays and the tolerance point to, which may be any of the list.
PickFast(d) ==
  /\ dial[d].at = "pick"
  /\ fastNode' \in IF dial[d].list = {} THEN {None} ELSE dial[d].list
  /\ Go(d, [at |-> "return", sel |-> selected])
  /\ UNCHANGED <<provider, cached, selected, setting, call, result>>

\* fastNode is read again when it is returned, and another call may have written it.
Return(d) ==
  /\ dial[d].at = "return"
  /\ Go(d, [at |-> "store", answer |-> [node |-> fastNode, sel |-> dial[d].sel]])
  /\ UNCHANGED <<provider, group>>

\* Everybody who waits for this call has its answer.
Woken(d) ==
  [e \in Dialer |-> IF e = d \/ dial[e] = [at |-> "wait", on |-> d] THEN Idle ELSE dial[e]]

(* Mutant: the answer is kept although there was a reset *)
StoreAlways(d) ==
  /\ dial[d].at = "store" /\ dial' = Woken(d)
  /\ call' = None /\ result' = dial[d].answer
  /\ UNCHANGED <<provider, cached, selected, setting, fastNode>>

(* Mutant: a call that was reset does not wake those who wait for it *)
StoreSilently(d) ==
  /\ dial[d].at = "store"
  /\ dial' = IF call = d THEN Woken(d) ELSE [dial EXCEPT ![d] = Idle]
  /\ IF call = d THEN call' = None /\ result' = dial[d].answer ELSE UNCHANGED <<call, result>>
  /\ UNCHANGED <<provider, cached, selected, setting, fastNode>>

\* The end of Do: the answer is kept unless there was a reset.
Store(d) ==
  /\ dial[d].at = "store" /\ dial' = Woken(d)
  /\ IF call = d THEN call' = None /\ result' = dial[d].answer ELSE UNCHANGED <<call, result>>
  /\ UNCHANGED <<provider, cached, selected, setting, fastNode>>

Expire ==
  /\ result # None /\ result' = None
  /\ UNCHANGED <<provider, cached, selected, setting, fastNode, call, dial>>

\* Reset, by itself at the begin and the end of a health check of the group.
Reset ==
  /\ call' = None /\ result' = None
  /\ UNCHANGED <<provider, cached, selected, fastNode, dial>>

HealthCheck == Reset /\ UNCHANGED setting

\* ForceSet.
ForceSet(name) ==
  /\ ~setting /\ setting' = TRUE /\ selected' = name
  /\ UNCHANGED <<provider, cached, fastNode, call, result, dial>>

ForceSetReset == setting /\ setting' = FALSE /\ Reset

-----------------------------------------------------------------------------
Init ==
  /\ proxies \in SUBSET Node /\ version = 0
  /\ cached = None /\ selected = None /\ setting = FALSE /\ fastNode = None
  /\ call = None /\ result = None /\ dial = [d \in Dialer |-> Idle]

DialStep(d) == ReadVersions(d) \/ GetProxies(d) \/ PickSelected(d) \/ PickFast(d) \/ Return(d) \/ Store(d)

Next ==
  \/ \E nodes \in SUBSET Node : SetProxies(nodes)
  \/ \E d \in Dialer : Do(d) \/ DialStep(d)
  \/ Expire \/ HealthCheck \/ ForceSetReset
  \/ \E name \in Node : ForceSet(name)

Spec == Init /\ [][Next]_vars

Fairness == \A d \in Dialer : WF_vars(DialStep(d))

FairSpec == Spec /\ Fairness

-----------------------------------------------------------------------------
(* Properties.                                                             *)

\* A list that is filed under the version the provider has is the list of the provider, although
\* version and nodes are read apart and without the mutex of the provider.
CacheIsCurrent == cached # None /\ cached.version = version => cached.list = proxies

\* Once ForceSet has returned, no answer is kept that was chosen without knowing the node the
\* user fixed, whatever calls were running.
SelectionIsKnown == result # None /\ ~setting => result.sel = selected

\* A dialer gets its answer, also when the call it waits for was reset.
DialersAnswered == \A d \in Dialer : []<>(dial[d] = Idle)
=============================================================================
