----------------------------- MODULE CoreProofs -----------------------------
(***************************************************************************)
(* The safety of the parts of the core, for any number of queries, dialers *)
(* and updaters.  Each part has an inductive invariant over its own        *)
(* variables; a step of one part leaves those of the others alone.         *)
(***************************************************************************)
EXTENDS MCCore, TLAPS

(***************************************************************************)
(* The group.                                                              *)
(***************************************************************************)

\* No version is newer than the provider's.
VersionInv ==
  /\ cached # None => cached.version \in 0 .. version
  /\ \A d \in Dialer : dial[d].at = "list" => dial[d].version \in 0 .. version

\* The call that runs is that of a dialer which does not wait, and between two selections what it
\* will answer was chosen with the last one in view.
CallInv ==
  call # None =>
    /\ call \in Dialer /\ dial[call].at \notin {"idle", "wait"}
    /\ ~setting /\ dial[call].at = "return" => dial[call].sel = selected
    /\ ~setting /\ dial[call].at = "store" => dial[call].answer.sel = selected

\* Whoever waits, waits for a dialer at work, also after a reset: nobody waits for one who waits.
Working == {"versions", "list", "pick", "return", "store"}

WaitInv == \A d \in Dialer : dial[d].at = "wait" => dial[dial[d].on].at \in Working

GroupInv ==
  /\ Group!TypeOK /\ VersionInv /\ CallInv /\ WaitInv
  /\ Group!CacheIsCurrent /\ Group!SelectionIsKnown

LEMMA GroupInit ==
  ASSUME MaxVersion \in Nat PROVE Group!Init => GroupInv
<1> SUFFICES ASSUME Group!Init PROVE GroupInv
  OBVIOUS
<1>1. Group!TypeOK
  <2> USE DEF Group!Init, Group!Idle
  <2>1. dial \in [Dialer -> {Group!Idle}]
    OBVIOUS
  <2>2. setting \in BOOLEAN
    OBVIOUS
  <2> QED
    BY <2>1, <2>2 DEF Group!TypeOK
<1>2. VersionInv /\ CallInv /\ WaitInv
  BY DEF Group!Init, VersionInv, CallInv, WaitInv, Group!Idle
<1>3. Group!CacheIsCurrent /\ Group!SelectionIsKnown
  BY DEF Group!Init, Group!CacheIsCurrent, Group!SelectionIsKnown
<1> QED
  BY <1>1, <1>2, <1>3 DEF GroupInv

LEMMA GroupTypes ==
  ASSUME MaxVersion \in Nat, None \notin Dialer, Group!TypeOK, Group!Next
  PROVE  Group!TypeOK'
<1> USE DEF Group!TypeOK, Group!Idle, Group!Answer
<1>1. ASSUME NEW list \in SUBSET Node, Group!SetProxies(list) PROVE Group!TypeOK'
  BY <1>1 DEF Group!SetProxies, Group!group
<1>2. ASSUME NEW d \in Dialer, Group!Do(d) PROVE Group!TypeOK'
  BY <1>2 DEF Group!Do, Group!Go, Group!provider
<1>3. ASSUME NEW d \in Dialer, Group!ReadVersions(d) PROVE Group!TypeOK'
  BY <1>3 DEF Group!ReadVersions, Group!Go, Group!provider, Group!group
<1>4. ASSUME NEW d \in Dialer, Group!GetProxies(d) PROVE Group!TypeOK'
  BY <1>4 DEF Group!GetProxies, Group!Go, Group!provider
<1>5. ASSUME NEW d \in Dialer, Group!PickSelected(d) PROVE Group!TypeOK'
  BY <1>5 DEF Group!PickSelected, Group!Go, Group!provider
<1>6. ASSUME NEW d \in Dialer, Group!PickFast(d) PROVE Group!TypeOK'
  BY <1>6 DEF Group!PickFast, Group!Go, Group!provider
<1>7. ASSUME NEW d \in Dialer, Group!Return(d) PROVE Group!TypeOK'
  BY <1>7 DEF Group!Return, Group!Go, Group!provider, Group!group
<1>8. ASSUME NEW d \in Dialer, Group!Store(d) PROVE Group!TypeOK'
  BY <1>8 DEF Group!Store, Group!Woken, Group!provider
<1>9. CASE Group!Expire
  BY <1>9 DEF Group!Expire, Group!provider
<1>10. CASE Group!HealthCheck
  BY <1>10 DEF Group!HealthCheck, Group!Reset, Group!provider
<1>11. CASE Group!ForceSetReset
  BY <1>11 DEF Group!ForceSetReset, Group!Reset, Group!provider
<1>12. ASSUME NEW name \in Node, Group!ForceSet(name) PROVE Group!TypeOK'
  BY <1>12 DEF Group!ForceSet, Group!provider
<1> QED
  BY <1>1, <1>2, <1>3, <1>4, <1>5, <1>6, <1>7, <1>8, <1>9, <1>10, <1>11, <1>12
     DEF Group!Next, Group!DialStep

\* A list is filed under a version that was read before it.
LEMMA GroupVersions ==
  ASSUME MaxVersion \in Nat, Group!TypeOK, VersionInv, Group!CacheIsCurrent, Group!Next
  PROVE  VersionInv' /\ Group!CacheIsCurrent'
<1> USE DEF Group!TypeOK, VersionInv, Group!CacheIsCurrent
<1>1. ASSUME NEW list \in SUBSET Node, Group!SetProxies(list)
      PROVE  VersionInv' /\ Group!CacheIsCurrent'
  <2>1. version \in Nat /\ version' = version + 1 /\ cached' = cached /\ dial' = dial
    BY <1>1 DEF Group!SetProxies, Group!group
  <2>2. \A v \in 0 .. version : v \in 0 .. version' /\ v # version'
    BY <2>1
  <2> QED
    BY <2>1, <2>2
<1>2. ASSUME NEW d \in Dialer, Group!ReadVersions(d)
      PROVE  VersionInv' /\ Group!CacheIsCurrent'
  <2>1. version \in Nat /\ version \in 0 .. version
    OBVIOUS
  <2>2. /\ version' = version /\ proxies' = proxies /\ cached' = cached
        /\ dial' = [dial EXCEPT ![d] = [at |-> "list", version |-> version]]
    BY <1>2 DEF Group!ReadVersions, Group!Go, Group!provider, Group!group
  <2> QED
    BY <2>1, <2>2
<1>3. ASSUME NEW d \in Dialer, Group!GetProxies(d)
      PROVE  VersionInv' /\ Group!CacheIsCurrent'
  <2>1. /\ version' = version /\ proxies' = proxies
        /\ \A e \in Dialer : dial'[e].at = "list" => dial'[e] = dial[e]
    BY <1>3 DEF Group!GetProxies, Group!Go, Group!provider
  <2>2. dial[d].at = "list" /\ dial[d].version \in 0 .. version
    BY <1>3 DEF Group!GetProxies
  <2>3. CASE cached' = cached
    BY <2>1, <2>3
  <2>4. CASE cached' = [version |-> dial[d].version, list |-> proxies]
    BY <2>1, <2>2, <2>4
  <2>5. cached' = cached \/ cached' = [version |-> dial[d].version, list |-> proxies]
    BY <1>3 DEF Group!GetProxies
  <2> QED
    BY <2>3, <2>4, <2>5
<1>4. ASSUME NEW d \in Dialer, Group!Do(d) PROVE VersionInv' /\ Group!CacheIsCurrent'
  BY <1>4 DEF Group!Do, Group!Go, Group!provider
<1>5. ASSUME NEW d \in Dialer, Group!PickSelected(d) \/ Group!PickFast(d)
      PROVE  VersionInv' /\ Group!CacheIsCurrent'
  BY <1>5 DEF Group!PickSelected, Group!PickFast, Group!Go, Group!provider
<1>6. ASSUME NEW d \in Dialer, Group!Return(d) PROVE VersionInv' /\ Group!CacheIsCurrent'
  BY <1>6 DEF Group!Return, Group!Go, Group!provider, Group!group
<1>7. ASSUME NEW d \in Dialer, Group!Store(d) PROVE VersionInv' /\ Group!CacheIsCurrent'
  BY <1>7 DEF Group!Store, Group!Woken, Group!Idle, Group!provider
<1>8. ASSUME UNCHANGED <<version, proxies, cached, dial>>
      PROVE  VersionInv' /\ Group!CacheIsCurrent'
  BY <1>8
<1> QED
  BY <1>1, <1>2, <1>3, <1>4, <1>5, <1>6, <1>7, <1>8
     DEF Group!Next, Group!DialStep, Group!Expire, Group!HealthCheck, Group!ForceSetReset,
         Group!Reset, Group!ForceSet, Group!provider

\* A choice is filed only by the call that runs, which has seen the last selection.
LEMMA GroupSelections ==
  ASSUME None \notin Dialer, Group!TypeOK, CallInv, Group!SelectionIsKnown, Group!Next
  PROVE  CallInv' /\ Group!SelectionIsKnown'
<1> USE DEF Group!TypeOK, CallInv, Group!SelectionIsKnown, Group!Idle
<1>1. ASSUME NEW list \in SUBSET Node, Group!SetProxies(list)
      PROVE  CallInv' /\ Group!SelectionIsKnown'
  BY <1>1 DEF Group!SetProxies, Group!group
<1>2. ASSUME NEW d \in Dialer, Group!Do(d) PROVE CallInv' /\ Group!SelectionIsKnown'
  BY <1>2 DEF Group!Do, Group!Go, Group!provider
<1>3. ASSUME NEW d \in Dialer, Group!ReadVersions(d) \/ Group!GetProxies(d)
      PROVE  CallInv' /\ Group!SelectionIsKnown'
  BY <1>3 DEF Group!ReadVersions, Group!GetProxies, Group!Go, Group!provider, Group!group
<1>4. ASSUME NEW d \in Dialer, Group!PickSelected(d) \/ Group!PickFast(d)
      PROVE  CallInv' /\ Group!SelectionIsKnown'
  BY <1>4 DEF Group!PickSelected, Group!PickFast, Group!Go, Group!provider
<1>5. ASSUME NEW d \in Dialer, Group!Return(d) PROVE CallInv' /\ Group!SelectionIsKnown'
  BY <1>5 DEF Group!Return, Group!Go, Group!provider, Group!group
<1>6. ASSUME NEW d \in Dialer, Group!Store(d) PROVE CallInv' /\ Group!SelectionIsKnown'
  BY <1>6 DEF Group!Store, Group!Woken, Group!provider
<1>7. CASE Group!Expire \/ Group!HealthCheck \/ Group!ForceSetReset
  BY <1>7 DEF Group!Expire, Group!HealthCheck, Group!ForceSetReset, Group!Reset, Group!provider
<1>8. ASSUME NEW name \in Node, Group!ForceSet(name)
      PROVE  CallInv' /\ Group!SelectionIsKnown'
  BY <1>8 DEF Group!ForceSet, Group!provider
<1> QED
  BY <1>1, <1>2, <1>3, <1>4, <1>5, <1>6, <1>7, <1>8 DEF Group!Next, Group!DialStep

\* The end of a call wakes all who wait for it, whether or not it was reset meanwhile.
LEMMA GroupWaits ==
  ASSUME None \notin Dialer, Group!TypeOK, CallInv, WaitInv, Group!Next PROVE WaitInv'
<1> USE DEF Group!TypeOK, WaitInv, Working, Group!Idle
<1>1. ASSUME NEW d \in Dialer, Group!Do(d) PROVE WaitInv'
  <2>1. CASE call # None
    <3>1. call \in Dialer /\ dial[call].at \in Working
      BY <2>1 DEF CallInv
    <3>2. dial' = [dial EXCEPT ![d] = [at |-> "wait", on |-> call]] /\ dial[d].at = "idle"
      BY <1>1, <2>1 DEF Group!Do, Group!Go
    <3>3. call # d /\ dial'[call] = dial[call] /\ dial'[d].on = call
      BY <3>1, <3>2
    <3>4. \A e \in Dialer : e # d => dial'[e] = dial[e]
      BY <3>2
    <3>5. \A e \in Dialer : dial[e].at = "wait" => dial[e].on \in Dialer /\ dial[e].on # d
      BY <3>2
    <3> QED
      BY <3>1, <3>3, <3>4, <3>5
  <2>2. CASE call = None
    BY <1>1, <2>2 DEF Group!Do, Group!Go
  <2> QED
    BY <2>1, <2>2
<1>2. ASSUME NEW d \in Dialer,
             \/ Group!ReadVersions(d) \/ Group!GetProxies(d) \/ Group!PickSelected(d)
             \/ Group!PickFast(d) \/ Group!Return(d)
      PROVE  WaitInv'
  <2>1. /\ dial[d].at \in Working /\ dial'[d].at \in Working
        /\ \A e \in Dialer : e # d => dial'[e] = dial[e]
    BY <1>2 DEF Group!ReadVersions, Group!GetProxies, Group!PickSelected, Group!PickFast,
                Group!Return, Group!Go
  <2> QED
    BY <2>1
<1>3. ASSUME NEW d \in Dialer, Group!Store(d) PROVE WaitInv'
  <2>1. dial' = Group!Woken(d)
    BY <1>3 DEF Group!Store
  <2>2. ASSUME NEW e \in Dialer, dial'[e].at = "wait"
        PROVE  dial'[e] = dial[e] /\ dial[e].on \in Dialer /\ dial[e].on # d
    <3>1. e # d /\ dial[e] # [at |-> "wait", on |-> d] /\ dial'[e] = dial[e]
      BY <2>1, <2>2 DEF Group!Woken
    <3>2. dial[e] \in [at : {"wait"}, on : Dialer]
      BY <2>2, <3>1
    <3> QED
      BY <3>1, <3>2
  <2>3. ASSUME NEW e \in Dialer, e # d, dial[e].at \in Working PROVE dial'[e].at \in Working
    BY <2>1, <2>3 DEF Group!Woken
  <2> QED
    BY <2>2, <2>3
<1>4. ASSUME UNCHANGED dial PROVE WaitInv'
  BY <1>4
<1> QED
  BY <1>1, <1>2, <1>3, <1>4
     DEF Group!Next, Group!DialStep, Group!SetProxies, Group!Expire, Group!HealthCheck,
         Group!ForceSetReset, Group!Reset, Group!ForceSet

LEMMA GroupStep ==
  ASSUME MaxVersion \in Nat, None \notin Dialer, GroupInv, Group!Next
  PROVE  GroupInv'
  BY GroupTypes, GroupVersions, GroupSelections, GroupWaits DEF GroupInv

LEMMA GroupRest == GroupInv /\ UNCHANGED group => GroupInv'
  BY DEF group, GroupInv, Group!TypeOK, VersionInv, CallInv, WaitInv, Group!CacheIsCurrent,
         Group!SelectionIsKnown

(***************************************************************************)
(* The fetcher.                                                            *)
(***************************************************************************)

\* The hash is that of what is shown; a tag that is sent stands for the hash that was read, so
\* that whatever is ready to load has the hash of what the server had.
HashInv ==
  /\ hash = shown
  /\ \A u \in Fetch!Updater :
       /\ update[u].at = "sent" => update[u].tag \in {None, update[u].old}
       /\ update[u].at = "load" => update[u].hash = update[u].had

\* Once a content is shown and the file is only the fetcher's, no import is under way and no former
\* fetcher has the file open; whoever opens it beside a fetcher that writes is noticed.
AsideInv ==
  /\ aside.at = "ask" => Fetch!Importing
  /\ Fetch!Locked /\ Fetch!Copying => torn
  /\ ~loaded => shown = None /\ \A u \in Fetch!Updater : update[u] = Fetch!Idle
  /\ shown # None /\ ~raced /\ aside # Fetch!Idle => ~Fetch!Importing /\ ~Fetch!Copying

FetchInv == Fetch!TypeOK /\ HashInv /\ AsideInv /\ Fetch!FileKeepsShown

LEMMA FetchInit ==
  ASSUME MaxChange \in Nat, MaxCrash \in Nat PROVE Fetch!Init => FetchInv
<1> SUFFICES ASSUME Fetch!Init PROVE FetchInv
  OBVIOUS
<1>1. update \in [Fetch!Updater -> {Fetch!Idle}]
  BY DEF Fetch!Init
<1>2. Fetch!TypeOK
  <2>1. /\ loaded \in BOOLEAN /\ aside \in {Fetch!Idle}
        /\ former \in BOOLEAN /\ torn \in BOOLEAN /\ raced \in BOOLEAN
    BY DEF Fetch!Init
  <2>2. /\ remote \in Fetch!Content /\ changes \in 0 .. MaxChange /\ crashes \in 0 .. MaxCrash
        /\ etag \in Fetch!Content \cup {None} /\ file \in Fetch!Content \cup {None, Partial}
        /\ hash \in Good \cup {None, Partial} /\ shown \in Good \cup {None, Partial}
    BY DEF Fetch!Init
  <2> QED
    BY <1>1, <2>1, <2>2 DEF Fetch!TypeOK
<1>3. HashInv /\ Fetch!FileKeepsShown
  BY DEF Fetch!Init, HashInv, Fetch!FileKeepsShown, Fetch!Idle
<1>4. AsideInv
  BY DEF Fetch!Init, AsideInv, Fetch!Idle, Fetch!Locked, Fetch!At
<1> QED
  BY <1>2, <1>3, <1>4 DEF FetchInv

LEMMA FetchTypes ==
  ASSUME MaxChange \in Nat, MaxCrash \in Nat, None \notin Good \cup Bad, Fetch!TypeOK, HashInv,
         Fetch!Next
  PROVE  Fetch!TypeOK'
<1> USE DEF Fetch!TypeOK, Fetch!Idle, Fetch!Content, Fetch!At, Fetch!Go
<1>1. ASSUME NEW u \in Fetch!Updater, Fetch!Update(u) PROVE Fetch!TypeOK'
  BY <1>1 DEF Fetch!Update, Fetch!server, Fetch!disk, Fetch!memory, Fetch!second
<1>2. ASSUME NEW u \in Fetch!Updater, Fetch!Read(u) PROVE Fetch!TypeOK'
  BY <1>2 DEF Fetch!Read, Fetch!server, Fetch!disk, Fetch!memory, Fetch!second
<1>3. ASSUME NEW u \in Fetch!Updater, Fetch!HttpRequest(u) PROVE Fetch!TypeOK'
  <2>1. CASE update[u].tag = remote
    <3>1. update[u].old = remote /\ remote \in Fetch!Content
      BY <1>3, <2>1 DEF Fetch!HttpRequest, HashInv
    <3> QED
      BY <1>3, <2>1, <3>1
         DEF Fetch!HttpRequest, Fetch!server, Fetch!disk, Fetch!memory, Fetch!second
  <2>2. CASE update[u].tag # remote
    BY <1>3, <2>2 DEF Fetch!HttpRequest, Fetch!server, Fetch!disk, Fetch!memory, Fetch!second
  <2> QED
    BY <2>1, <2>2
<1>4. ASSUME NEW u \in Fetch!Updater, Fetch!Fails(u) PROVE Fetch!TypeOK'
  BY <1>4 DEF Fetch!Fails, Fetch!server, Fetch!disk, Fetch!memory, Fetch!second
<1>5. ASSUME NEW u \in Fetch!Updater, Fetch!SetETagWithHash(u) PROVE Fetch!TypeOK'
  BY <1>5 DEF Fetch!SetETagWithHash, Fetch!server, Fetch!memory, Fetch!second
<1>6. ASSUME NEW u \in Fetch!Updater, Fetch!LoadBuf(u) PROVE Fetch!TypeOK'
  <2>1. UNCHANGED <<remote, changes, crashes, loaded, etag, hash, shown, aside, former, raced>>
    BY <1>6 DEF Fetch!LoadBuf, Fetch!server, Fetch!memory
  <2>2. torn' \in BOOLEAN /\ file' \in Fetch!Content \cup {None, Partial}
    BY <1>6 DEF Fetch!LoadBuf, Fetch!Copying
  <2>3. CASE update' = [update EXCEPT ![u] = Fetch!Idle]
    BY <2>1, <2>2, <2>3
  <2>4. CASE update' = [update EXCEPT ![u] = [at |-> "write", buf |-> update[u].buf]]
    <3>1. update[u].buf \in Good
      BY <1>6, <2>4 DEF Fetch!LoadBuf, Fetch!NothingToLoad
    <3> QED
      BY <2>1, <2>2, <2>4, <3>1
  <2> QED
    BY <1>6, <2>3, <2>4 DEF Fetch!LoadBuf
<1>7. ASSUME NEW u \in Fetch!Updater, Fetch!Write(u) \/ Fetch!WriteFails(u) PROVE Fetch!TypeOK'
  <2>1. update[u] \in [at : {"write"}, buf : Good]
    BY <1>7 DEF Fetch!Write, Fetch!WriteFails
  <2>2. file' \in Fetch!Content \cup {None, Partial}
    BY <1>7, <2>1 DEF Fetch!Write, Fetch!WriteFails, Fetch!Closed
  <2>3. torn' \in BOOLEAN /\ raced' \in BOOLEAN
    BY <1>7 DEF Fetch!Write, Fetch!WriteFails, Fetch!Copying, Fetch!Importing
  <2> QED
    BY <1>7, <2>1, <2>2, <2>3 DEF Fetch!Write, Fetch!WriteFails, Fetch!server, Fetch!memory
<1>8. CASE Fetch!Initial
  <2>1. /\ UNCHANGED <<Fetch!server, crashes, Fetch!disk, update, aside, former, torn>>
        /\ loaded' = TRUE /\ raced' \in BOOLEAN
        /\ hash' \in Good \cup {None, Partial} /\ shown' \in Good \cup {None, Partial}
    BY <1>8 DEF Fetch!Initial, Fetch!Copying, Fetch!Importing
  <2> QED
    BY <2>1 DEF Fetch!server, Fetch!disk
<1>9. CASE Fetch!Crash \/ Fetch!Reload
  <2>1. /\ UNCHANGED <<Fetch!server, Fetch!disk>> /\ loaded' = FALSE
        /\ hash' = None /\ shown' = None /\ update' \in [Fetch!Updater -> {Fetch!Idle}]
        /\ former' \in BOOLEAN /\ torn' \in BOOLEAN /\ raced' \in BOOLEAN
    BY <1>9 DEF Fetch!Crash, Fetch!Reload
  <2>4. crashes' \in 0 .. MaxCrash
    <3>1. crashes < MaxCrash /\ crashes' = crashes + 1
      BY <1>9 DEF Fetch!Crash, Fetch!Reload
    <3> QED
      BY <3>1
  <2>2. aside' \in {Fetch!Idle, aside} \cup Fetch!Left
    BY <1>9 DEF Fetch!Crash, Fetch!Reload
  <2>3. ASSUME NEW left \in Fetch!Left
        PROVE  left \in [at : {"ask", "body", "load", "copy"}, who : {"import", "former"},
                         buf : Fetch!Content \cup {None}]
    BY <2>3 DEF Fetch!Left, Fetch!Another
  <2> QED
    BY <2>1, <2>2, <2>3, <2>4 DEF Fetch!server, Fetch!disk
<1>10. ASSUME NEW new \in Fetch!Content, Fetch!Publish(new) PROVE Fetch!TypeOK'
  BY <1>10 DEF Fetch!Publish, Fetch!disk, Fetch!memory, Fetch!second
<1>11. CASE Fetch!AsideStep
  <2>1. UNCHANGED <<remote, changes, crashes, loaded, hash, shown, update, former>>
    BY <1>11 DEF Fetch!AsideStep, Fetch!Import, Fetch!ImportAnswered, Fetch!FormerUpdate,
                 Fetch!FormerETag, Fetch!FormerWrites, Fetch!AsideEnds, Fetch!AsideWrites,
                 Fetch!server, Fetch!memory
  <2>2. /\ etag' \in Fetch!Content \cup {None} /\ torn' \in BOOLEAN /\ raced' \in BOOLEAN
        /\ file' \in Fetch!Content \cup {None, Partial}
        /\ aside' \in {Fetch!Idle} \cup
             [at : {"ask", "body", "load", "copy"}, who : {"import", "former"},
              buf : Fetch!Content \cup {None}]
    <3> USE DEF Fetch!Another, Fetch!Locked, Fetch!Copying, Fetch!disk
    <3>1. CASE Fetch!Import \/ Fetch!FormerUpdate \/ Fetch!AsideEnds
      BY <3>1 DEF Fetch!Import, Fetch!FormerUpdate, Fetch!AsideEnds
    <3>2. CASE Fetch!ImportAnswered
      BY <3>2 DEF Fetch!ImportAnswered
    <3>3. CASE Fetch!FormerETag
      BY <3>3 DEF Fetch!FormerETag
    <3>4. CASE Fetch!FormerWrites
      BY <3>4 DEF Fetch!FormerWrites
    <3>5. CASE Fetch!AsideWrites
      BY <3>5 DEF Fetch!AsideWrites, Fetch!Closed
    <3> QED
      BY <1>11, <3>1, <3>2, <3>3, <3>4, <3>5 DEF Fetch!AsideStep
  <2> QED
    BY <2>1, <2>2
<1> QED
  BY <1>1, <1>2, <1>3, <1>4, <1>5, <1>6, <1>7, <1>8, <1>9, <1>10, <1>11
     DEF Fetch!Next, Fetch!UpdateStep

\* An answer without a content has the hash that the server confirmed.
LEMMA FetchHashes ==
  ASSUME None \notin Good \cup Bad, Fetch!TypeOK, HashInv, Fetch!Next
  PROVE  HashInv'
<1> USE DEF Fetch!TypeOK, Fetch!Idle, Fetch!Content, Fetch!At, Fetch!Go, HashInv
<1>1. ASSUME NEW u \in Fetch!Updater, Fetch!Update(u) \/ Fetch!Fails(u) \/ Fetch!WriteFails(u)
      PROVE  HashInv'
  BY <1>1 DEF Fetch!Update, Fetch!Fails, Fetch!WriteFails, Fetch!memory
<1>2. ASSUME NEW u \in Fetch!Updater, Fetch!Read(u) PROVE HashInv'
  BY <1>2 DEF Fetch!Read, Fetch!memory
<1>3. ASSUME NEW u \in Fetch!Updater, Fetch!HttpRequest(u) PROVE HashInv'
  BY <1>3 DEF Fetch!HttpRequest, Fetch!memory
<1>4. ASSUME NEW u \in Fetch!Updater, Fetch!SetETagWithHash(u) PROVE HashInv'
  BY <1>4 DEF Fetch!SetETagWithHash, Fetch!memory
<1>5. ASSUME NEW u \in Fetch!Updater, Fetch!LoadBuf(u) PROVE HashInv'
  BY <1>5 DEF Fetch!LoadBuf, Fetch!memory
<1>6. ASSUME NEW u \in Fetch!Updater, Fetch!Write(u) PROVE HashInv'
  BY <1>6 DEF Fetch!Write
<1>7. CASE Fetch!Initial
  BY <1>7 DEF Fetch!Initial
<1>8. CASE Fetch!Crash \/ Fetch!Reload
  BY <1>8 DEF Fetch!Crash, Fetch!Reload
<1>9. CASE (\E new \in Fetch!Content : Fetch!Publish(new)) \/ Fetch!AsideStep
  <2>1. UNCHANGED <<hash, shown, update>>
    BY <1>9 DEF Fetch!Publish, Fetch!AsideStep, Fetch!Import, Fetch!ImportAnswered,
                Fetch!FormerUpdate, Fetch!FormerETag, Fetch!FormerWrites, Fetch!AsideEnds,
                Fetch!AsideWrites, Fetch!memory
  <2> QED
    BY <2>1
<1> QED
  BY <1>1, <1>2, <1>3, <1>4, <1>5, <1>6, <1>7, <1>8, <1>9 DEF Fetch!Next, Fetch!UpdateStep

\* The check that the file is not there keeps an import from one that holds what is shown.
LEMMA FetchFile ==
  ASSUME None # Partial, Fetch!TypeOK, AsideInv, Fetch!FileKeepsShown, Fetch!Next
  PROVE  AsideInv' /\ Fetch!FileKeepsShown'
<1> USE DEF Fetch!TypeOK, Fetch!Idle, Fetch!At, Fetch!Go, AsideInv, Fetch!FileKeepsShown,
            Fetch!Locked, Fetch!Copying, Fetch!Importing
<1>1. ASSUME NEW u \in Fetch!Updater,
             \/ Fetch!Update(u) \/ Fetch!Read(u) \/ Fetch!HttpRequest(u) \/ Fetch!Fails(u)
             \/ Fetch!SetETagWithHash(u)
      PROVE  AsideInv' /\ Fetch!FileKeepsShown'
  <2>1. /\ UNCHANGED <<loaded, file, shown, aside, torn, raced>>
        /\ update'[u].at # "write" /\ \A v \in Fetch!Updater : v # u => update'[v] = update[v]
        /\ loaded
    BY <1>1 DEF Fetch!Update, Fetch!Read, Fetch!HttpRequest, Fetch!Fails, Fetch!SetETagWithHash,
                Fetch!disk, Fetch!memory, Fetch!second
  <2> QED
    BY <2>1
<1>2. ASSUME NEW u \in Fetch!Updater, Fetch!LoadBuf(u) PROVE AsideInv' /\ Fetch!FileKeepsShown'
  <2>1. loaded /\ UNCHANGED <<loaded, shown, aside, raced>>
    BY <1>2 DEF Fetch!LoadBuf, Fetch!memory
  <2>2. CASE UNCHANGED <<file, torn>> /\ update' = [update EXCEPT ![u] = Fetch!Idle]
    BY <2>1, <2>2
  <2>3. CASE file' = Partial /\ torn' = Fetch!Copying
    BY <2>1, <2>3
  <2> QED
    BY <1>2, <2>2, <2>3 DEF Fetch!LoadBuf
<1>3. ASSUME NEW u \in Fetch!Updater, Fetch!Write(u) PROVE AsideInv' /\ Fetch!FileKeepsShown'
  BY <1>3 DEF Fetch!Write, Fetch!Closed
<1>4. ASSUME NEW u \in Fetch!Updater, Fetch!WriteFails(u)
      PROVE  AsideInv' /\ Fetch!FileKeepsShown'
  BY <1>4 DEF Fetch!WriteFails, Fetch!Closed, Fetch!memory
<1>5. CASE Fetch!Initial
  BY <1>5 DEF Fetch!Initial, Fetch!disk
<1>6. CASE Fetch!Crash \/ Fetch!Reload
  <2>1. aside' \in {Fetch!Idle, aside} \cup Fetch!Left
    BY <1>6 DEF Fetch!Crash, Fetch!Reload
  <2>2. \A left \in Fetch!Left : left.at # "ask"
    BY DEF Fetch!Left, Fetch!Another
  <2> QED
    BY <1>6, <2>1, <2>2 DEF Fetch!Crash, Fetch!Reload
<1>7. CASE \E new \in Fetch!Content : Fetch!Publish(new)
  BY <1>7 DEF Fetch!Publish, Fetch!disk, Fetch!memory, Fetch!second
<1>8. CASE Fetch!Import \/ Fetch!FormerUpdate \/ Fetch!AsideEnds
  BY <1>8 DEF Fetch!Import, Fetch!FormerUpdate, Fetch!AsideEnds, Fetch!Another, Fetch!disk,
              Fetch!memory
<1>12. CASE Fetch!FormerETag
  <2>1. /\ aside # Fetch!Idle /\ aside'.at = "load" /\ aside'.who = aside.who
        /\ UNCHANGED <<loaded, file, shown, update, torn, raced>>
    BY <1>12 DEF Fetch!FormerETag, Fetch!memory
  <2> QED
    BY <2>1
<1>9. CASE Fetch!ImportAnswered
  BY <1>9 DEF Fetch!ImportAnswered, Fetch!Another, Fetch!memory
<1>10. CASE Fetch!FormerWrites
  BY <1>10 DEF Fetch!FormerWrites, Fetch!memory
<1>11. CASE Fetch!AsideWrites
  BY <1>11 DEF Fetch!AsideWrites, Fetch!memory
<1> QED
  BY <1>1, <1>2, <1>3, <1>4, <1>5, <1>6, <1>7, <1>8, <1>9, <1>10, <1>11, <1>12
     DEF Fetch!Next, Fetch!UpdateStep, Fetch!AsideStep

LEMMA FetchStep ==
  ASSUME MaxChange \in Nat, MaxCrash \in Nat, None \notin Good \cup Bad, None # Partial,
         FetchInv, Fetch!Next
  PROVE  FetchInv'
  BY FetchTypes, FetchHashes, FetchFile DEF FetchInv

LEMMA FetchRest == FetchInv /\ UNCHANGED fetch => FetchInv'
  BY DEF fetch, FetchInv, Fetch!TypeOK, HashInv, AsideInv, Fetch!FileKeepsShown,
         Fetch!Locked, Fetch!Copying, Fetch!Importing, Fetch!At

(***************************************************************************)
(* The fake addresses.                                                     *)
(***************************************************************************)

Storing == {"del", "putIP", "putHost"}

\* The types of what a lookup reads and writes.
FakeTypes ==
  /\ hostOf \in [Fake!IP -> Host \cup {None}] /\ ipOf \in [Host -> Fake!IP \cup {None}]
  /\ running \in 0 .. 2 /\ offset \in [Fake!Pool -> 0 .. Size]
  /\ query \in [Client ->
       {Fake!Idle} \cup [at : Fake!Steps, pool : Fake!Pool, host : Host]]

\* A pool whose address is being stored has handed one out.
Taken ==
  \A c \in Client : query[c].at \in Storing => offset[query[c].pool] \in Fake!IP

\* Each pool has one lookup inside, and only one of them has when no two overlapped.
Alone ==
  \A c, d \in Client :
    /\ query[c].at \in Fake!Steps \ {"lock"} /\ query[d].at \in Fake!Steps \ {"lock"}
    /\ ~overlapped
    => c = d

\* Before an address is filed under its host no other host has it, and after that it is filed.
Stored ==
  ~overlapped =>
    \A c \in Client :
      /\ query[c].at = "putIP" => \A h \in Host : ipOf[h] # offset[query[c].pool]
      /\ query[c].at = "putHost" => /\ hostOf[offset[query[c].pool]] = query[c].host
                                     /\ \A h \in Host : ipOf[h] # offset[query[c].pool]

FakeInv == FakeTypes /\ Taken /\ Alone /\ Stored /\ Fake!AnswersLeadBack

LEMMA FakeInit ==
  ASSUME Size \in Nat \ {0} PROVE Fake!Init => FakeInv
<1> SUFFICES ASSUME Fake!Init PROVE FakeInv
  OBVIOUS
<1>1. query \in [Client -> {Fake!Idle}]
  BY DEF Fake!Init
<1>2. FakeTypes
  BY <1>1 DEF Fake!Init, FakeTypes, Fake!Pool
<1>3. Taken /\ Alone /\ Stored /\ Fake!AnswersLeadBack
  BY DEF Fake!Init, Fake!Idle, Taken, Alone, Stored, Storing, Fake!Steps, Fake!AnswersLeadBack
<1> QED
  BY <1>2, <1>3 DEF FakeInv

\* The address that get chooses is one of the range.
LEMMA NextAddress ==
  ASSUME Size \in Nat \ {0}, FakeTypes, NEW c \in Client, Fake!Get(c)
  PROVE  /\ query[c].at = "get" /\ query[c].pool \in Fake!Pool /\ query[c].host \in Host
         /\ offset'[query[c].pool] \in Fake!IP
         /\ offset' \in [Fake!Pool -> 0 .. Size]
         /\ \A p \in Fake!Pool : p # query[c].pool => offset'[p] = offset[p]
         /\ query' = [query EXCEPT ![c].at = query'[c].at] /\ query'[c].at \in {"del", "putIP"}
         /\ query'[c].at = "putIP" => hostOf[offset'[query[c].pool]] = None
         /\ UNCHANGED <<Fake!bucket, running, overlapped>>
<1> USE DEF FakeTypes, Fake!IP, Fake!Pool, Fake!Idle, Fake!Steps, Fake!At, Fake!Go
<1>1. query[c].at = "get" /\ query[c].pool \in Fake!Pool /\ query[c].host \in Host
  BY DEF Fake!Get
<1>2. PICK next \in Fake!IP : /\ offset' = [offset EXCEPT ![query[c].pool] = next]
                              /\ \/ Fake!Go(c, "del")
                                 \/ Fake!Go(c, "putIP") /\ hostOf[next] = None
  <2> DEFINE p    == query[c].pool
             wrap == offset[p] + 1 >= Size + 1
             next == IF wrap THEN 1 ELSE offset[p] + 1
  <2>1. next \in Fake!IP
    BY <1>1
  <2>2. offset' = [offset EXCEPT ![p] = next]
    BY DEF Fake!Get
  <2>3. Fake!Go(c, "del") \/ (Fake!Go(c, "putIP") /\ hostOf[next] = None)
    <3>1. CASE cycle'[p] \/ hostOf[next] # None
      BY <3>1 DEF Fake!Get
    <3>2. CASE ~cycle'[p] /\ hostOf[next] = None
      BY <3>2 DEF Fake!Get
    <3> QED
      BY <3>1, <3>2
  <2> QED
    BY <2>1, <2>2, <2>3
<1>3. UNCHANGED <<Fake!bucket, running, overlapped>>
  BY DEF Fake!Get, Fake!history
<1> QED
  BY <1>1, <1>2, <1>3


LEMMA KnownQuery ==
  ASSUME FakeTypes, NEW c \in Client, query[c].at \in Fake!Steps
  PROVE  /\ query[c] \in [at : Fake!Steps, pool : Fake!Pool, host : Host]
         /\ \A step \in Fake!Steps :
              [query EXCEPT ![c].at = step] \in
                [Client -> {Fake!Idle} \cup [at : Fake!Steps, pool : Fake!Pool, host : Host]]
         /\ [query EXCEPT ![c] = Fake!Idle] \in
                [Client -> {Fake!Idle} \cup [at : Fake!Steps, pool : Fake!Pool, host : Host]]
  BY DEF FakeTypes, Fake!Idle, Fake!Steps

\* As long as no two overlapped, the others are outside the mutex.
LEMMA Outside ==
  ASSUME FakeTypes, Alone, ~overlapped,
         NEW c \in Client, query[c].at \in Fake!Steps \ {"lock"}, NEW d \in Client, d # c
  PROVE  query[d].at \in {"idle", "lock"}
  BY DEF FakeTypes, Alone, Fake!Idle, Fake!Steps

\* No pool starts again at no address while a lookup of its own is inside.
LEMMA FakeTypesStep ==
  ASSUME Size \in Nat \ {0}, FakeTypes, Taken, Fake!Next
  PROVE  FakeTypes' /\ Taken'
<1> USE DEF FakeTypes, Taken, Storing, Fake!IP, Fake!Pool, Fake!Idle, Fake!Steps, Fake!At, Fake!Go
<1>1. ASSUME NEW c \in Client, NEW h \in Host, Fake!Ask(c, h) PROVE FakeTypes' /\ Taken'
  BY <1>1 DEF Fake!Ask, Fake!bucket, Fake!pools
<1>2. ASSUME NEW c \in Client, Fake!Lookup(c) PROVE FakeTypes' /\ Taken'
  <2>1. UNCHANGED <<hostOf, ipOf, running, offset>>
    BY <1>2 DEF Fake!Lookup, Fake!bucket, Fake!pools
  <2>2. query' = [query EXCEPT ![c] = Fake!Idle] \/ query' = [query EXCEPT ![c].at = "get"]
    BY <1>2 DEF Fake!Lookup
  <2>3. query[c].at \in Fake!Steps
    BY <1>2 DEF Fake!Lookup
  <2>4. query' \in [Client ->
          {Fake!Idle} \cup [at : Fake!Steps, pool : Fake!Pool, host : Host]]
    <3>1. CASE query' = [query EXCEPT ![c] = Fake!Idle]
      BY <2>3, <3>1, KnownQuery
    <3>2. CASE query' = [query EXCEPT ![c].at = "get"]
      BY <2>3, <3>2, KnownQuery
    <3> QED
      BY <2>2, <3>1, <3>2
  <2>5. Taken'
    BY <2>1, <2>2
  <2> QED
    BY <2>1, <2>4, <2>5
<1>3. ASSUME NEW c \in Client, Fake!Get(c) PROVE FakeTypes' /\ Taken'
  <2>1. PICK step \in {"del", "putIP"} : query' = [query EXCEPT ![c].at = step]
    BY <1>3, NextAddress
  <2>2. query' \in [Client ->
          {Fake!Idle} \cup [at : Fake!Steps, pool : Fake!Pool, host : Host]]
    <3>1. query[c].at \in Fake!Steps /\ step \in Fake!Steps
      BY <1>3, NextAddress
    <3> QED
      BY <2>1, <3>1, KnownQuery
  <2>3. UNCHANGED <<hostOf, ipOf, running>> /\ offset' \in [Fake!Pool -> 0 .. Size]
    BY <1>3, NextAddress DEF Fake!bucket
  <2>4. Taken'
    <3>1. \A d \in Client : query[d].at \in Storing => query[d].pool \in Fake!Pool
      BY KnownQuery
    <3>2. /\ offset'[query[c].pool] \in Fake!IP
          /\ \A p \in Fake!Pool : p # query[c].pool => offset'[p] = offset[p]
      BY <1>3, NextAddress
    <3>3. \A d \in Client : query[d].at \in Storing => offset'[query[d].pool] \in Fake!IP
      BY <3>1, <3>2
    <3> QED
      BY <2>1, <3>2, <3>3
  <2> QED
    BY <2>2, <2>3, <2>4
<1>4. ASSUME NEW c \in Client, Fake!DelByIP(c) PROVE FakeTypes' /\ Taken'
  <2>1. query' = [query EXCEPT ![c].at = "putIP"] /\ query[c].at = "del"
    BY <1>4 DEF Fake!DelByIP
  <2>2. query' \in [Client ->
          {Fake!Idle} \cup [at : Fake!Steps, pool : Fake!Pool, host : Host]]
    BY <2>1, KnownQuery
  <2> QED
    BY <1>4, <2>1, <2>2 DEF Fake!DelByIP, Fake!pools
<1>5. ASSUME NEW c \in Client, Fake!PutByIP(c) PROVE FakeTypes' /\ Taken'
  <2>1. query' = [query EXCEPT ![c].at = "putHost"] /\ query[c].at = "putIP"
    BY <1>5 DEF Fake!PutByIP
  <2>2. query' \in [Client ->
          {Fake!Idle} \cup [at : Fake!Steps, pool : Fake!Pool, host : Host]]
    BY <2>1, KnownQuery
  <2>3. hostOf' \in [Fake!IP -> Host \cup {None}]
    BY <1>5, <2>1, KnownQuery DEF Fake!PutByIP
  <2> QED
    BY <1>5, <2>1, <2>2, <2>3 DEF Fake!PutByIP, Fake!pools
<1>6. ASSUME NEW c \in Client, Fake!PutByHost(c) PROVE FakeTypes' /\ Taken'
  BY <1>6 DEF Fake!PutByHost, Fake!pools
<1>7. CASE Fake!New
  <2>1. \A c \in Client : query[c].at \in Storing => query[c].pool = running
    BY <1>7 DEF Fake!New
  <2>2. Fake!Spare \in Fake!Pool /\ Fake!Spare # running
    BY DEF Fake!Spare
  <2> QED
    BY <1>7, <2>1, <2>2 DEF Fake!New, Fake!bucket
<1>8. CASE Fake!RestoreState \/ Fake!Install \/ Fake!Discard
  BY <1>8 DEF Fake!RestoreState, Fake!Install, Fake!Discard, Fake!Spare, Fake!bucket
<1>9. CASE Fake!FlushFakeIP
  BY <1>9 DEF Fake!FlushFakeIP, Fake!Empty
<1>10. CASE Fake!Crash
  BY <1>10 DEF Fake!Crash, Fake!bucket
<1> QED
  BY <1>1, <1>2, <1>3, <1>4, <1>5, <1>6, <1>7, <1>8, <1>9, <1>10 DEF Fake!Next, Fake!LookupStep

\* Whoever passes the mutex while another lookup is inside records the overlap.
LEMMA FakeAlone ==
  ASSUME Size \in Nat \ {0}, FakeTypes, Alone, Fake!Next
  PROVE  Alone'
<1> USE DEF FakeTypes, Alone, Fake!Pool, Fake!Idle, Fake!Steps, Fake!At, Fake!Go
<1>1. ASSUME NEW c \in Client, NEW h \in Host, Fake!Ask(c, h) PROVE Alone'
  BY <1>1 DEF Fake!Ask, Fake!history
<1>2. ASSUME NEW c \in Client, Fake!Lookup(c) PROVE Alone'
  <2>1. CASE query' = [query EXCEPT ![c] = Fake!Idle] /\ UNCHANGED Fake!history
    BY <2>1 DEF Fake!history
  <2>2. CASE Fake!Go(c, "get") /\ overlapped' = (overlapped \/ Fake!Busy)
    <3>1. SUFFICES ASSUME ~overlapped', NEW d \in Client, d # c,
                          query[d].at \in Fake!Steps \ {"lock"}
                   PROVE  FALSE
      BY <2>2
    <3>2. Fake!Busy
      BY <3>1 DEF Fake!Busy, Fake!Locked, Fake!Inside
    <3> QED
      BY <2>2, <3>1, <3>2
  <2> QED
    BY <1>2, <2>1, <2>2 DEF Fake!Lookup
<1>3. ASSUME NEW c \in Client, Fake!Get(c) PROVE Alone'
  BY <1>3, NextAddress
<1>4. ASSUME NEW c \in Client, Fake!DelByIP(c) \/ Fake!PutByIP(c) \/ Fake!PutByHost(c)
      PROVE  Alone'
  <2>1. UNCHANGED overlapped /\ query[c].at \in Fake!Steps \ {"lock"}
        /\ \A d \in Client : d # c => query'[d] = query[d]
    BY <1>4 DEF Fake!DelByIP, Fake!PutByIP, Fake!PutByHost, Fake!history
  <2> QED
    BY <2>1, Outside
<1>5. CASE Fake!New \/ Fake!RestoreState \/ Fake!Install \/ Fake!Discard
  BY <1>5 DEF Fake!New, Fake!RestoreState, Fake!Install, Fake!Discard, Fake!history
<1>6. CASE Fake!FlushFakeIP
  <2>1. SUFFICES ASSUME ~overlapped', NEW d \in Client, query[d].at \in Fake!Steps \ {"lock"}
                 PROVE  FALSE
    BY <1>6 DEF Fake!FlushFakeIP
  <2>2. Fake!Busy
    BY <2>1 DEF Fake!Busy, Fake!Locked, Fake!Inside
  <2> QED
    BY <1>6, <2>1, <2>2 DEF Fake!FlushFakeIP
<1>7. CASE Fake!Crash
  BY <1>7 DEF Fake!Crash
<1> QED
  BY <1>1, <1>2, <1>3, <1>4, <1>5, <1>6, <1>7 DEF Fake!Next, Fake!LookupStep

Bucketed == Stored /\ Fake!AnswersLeadBack

\* What the one lookup inside does to the bucket, transaction by transaction.
LEMMA FakeStored ==
  ASSUME Size \in Nat \ {0}, None \notin Host, None \notin Fake!IP, FakeInv, FakeTypes', Taken',
         Alone', Fake!Next
  PROVE  Bucketed'
<1> USE DEF FakeTypes, Taken, Alone, Stored, Storing, Bucketed, Fake!AnswersLeadBack, Fake!IP,
            Fake!Pool, Fake!Idle, Fake!Steps, Fake!At, Fake!Go
<1>0. FakeTypes /\ Taken /\ Alone /\ Bucketed
  BY DEF FakeInv
<1>1. ASSUME NEW c \in Client, NEW h \in Host, Fake!Ask(c, h) PROVE Bucketed'
  BY <1>0, <1>1 DEF Fake!Ask, Fake!bucket, Fake!pools, Fake!history
<1>2. ASSUME NEW c \in Client, Fake!Lookup(c) PROVE Bucketed'
  <2>1. UNCHANGED <<hostOf, ipOf, offset>> /\ (overlapped => overlapped')
        /\ \/ query' = [query EXCEPT ![c] = Fake!Idle]
           \/ query' = [query EXCEPT ![c].at = "get"]
    BY <1>2 DEF Fake!Lookup, Fake!bucket, Fake!pools, Fake!history
  <2> QED
    BY <1>0, <2>1
<1>3. ASSUME NEW c \in Client, Fake!Get(c), ~overlapped' PROVE Bucketed'
  <2>1. \A d \in Client : d # c => query'[d].at \in {"idle", "lock"}
    BY <1>0, <1>3, NextAddress, Outside
  <2> QED
    <3>1. hostOf' = hostOf /\ ipOf' = ipOf /\ ~overlapped
      BY <1>3 DEF Fake!Get, Fake!bucket, Fake!history
    <3>2. query'[c].pool = query[c].pool /\ query'[c].at \in {"del", "putIP"}
      BY <1>0, <1>3, NextAddress
    <3>3. query'[c].at = "putIP" => \A h \in Host : ipOf[h] # offset'[query[c].pool]
      BY <1>0, <1>3, <3>1, NextAddress
    <3>4. \A d \in Client : d # c => query'[d].at \notin Storing
      BY <2>1
    <3>5. \A h \in Host : ipOf'[h] # None => hostOf'[ipOf'[h]] = h
      BY <1>0, <3>1
    <3>6. \A d \in Client :
            /\ query'[d].at = "putIP" => \A h \in Host : ipOf'[h] # offset'[query'[d].pool]
            /\ query'[d].at # "putHost"
      BY <3>1, <3>2, <3>3, <3>4
    <3> QED
      BY <3>5, <3>6
<1>4. ASSUME NEW c \in Client, Fake!DelByIP(c), ~overlapped' PROVE Bucketed'
  <2>1. \A d \in Client : d # c => query'[d].at \in {"idle", "lock"}
    BY <1>0, <1>4, Outside DEF Fake!DelByIP, Fake!history
  <2> QED
    BY <1>0, <1>4, <2>1 DEF Fake!DelByIP, Fake!pools, Fake!history
<1>5. ASSUME NEW c \in Client, Fake!PutByIP(c), ~overlapped' PROVE Bucketed'
  <2>1. \A d \in Client : d # c => query'[d].at \in {"idle", "lock"}
    BY <1>0, <1>5, Outside DEF Fake!PutByIP, Fake!history
  <2> QED
    BY <1>0, <1>5, <2>1 DEF Fake!PutByIP, Fake!pools, Fake!history
<1>6. ASSUME NEW c \in Client, Fake!PutByHost(c), ~overlapped' PROVE Bucketed'
  <2>1. \A d \in Client : d # c => query'[d].at \in {"idle", "lock"}
    BY <1>0, <1>6, Outside DEF Fake!PutByHost, Fake!history
  <2> QED
    BY <1>0, <1>6, <2>1 DEF Fake!PutByHost, Fake!pools, Fake!history
<1>7. CASE Fake!New
  <2>1. \A c \in Client : query[c].at \in Storing => query[c].pool = running
    BY <1>7 DEF Fake!New
  <2>2. Fake!Spare \in Fake!Pool /\ Fake!Spare # running
    BY <1>0 DEF Fake!Spare
  <2> QED
    BY <1>0, <1>7, <2>1, <2>2 DEF Fake!New, Fake!bucket
<1>8. CASE Fake!RestoreState \/ Fake!Install \/ Fake!Discard
  BY <1>0, <1>8 DEF Fake!RestoreState, Fake!Install, Fake!Discard, Fake!bucket, Fake!history
<1>9. CASE Fake!FlushFakeIP
  <2>1. ASSUME ~overlapped', NEW d \in Client, query[d].at \in Fake!Steps \ {"lock"} PROVE FALSE
    <3>1. query[d].pool = 1 \/ query[d].pool = 2
      BY <1>0, <2>1, KnownQuery
    <3> QED
      BY <1>9, <2>1, <3>1 DEF Fake!FlushFakeIP, Fake!Busy, Fake!Locked, Fake!Inside
  <2> QED
    BY <1>0, <1>9, <2>1 DEF Fake!FlushFakeIP, Fake!Empty
<1>10. CASE Fake!Crash
  BY <1>0, <1>10 DEF Fake!Crash, Fake!bucket, Fake!history
<1>11. CASE overlapped'
  BY <1>11
<1> QED
  BY <1>1, <1>2, <1>3, <1>4, <1>5, <1>6, <1>7, <1>8, <1>9, <1>10, <1>11
     DEF Fake!Next, Fake!LookupStep

LEMMA FakeStep ==
  ASSUME Size \in Nat \ {0}, None \notin Host, None \notin Fake!IP, FakeInv, Fake!Next
  PROVE  FakeInv'
  BY FakeTypesStep, FakeAlone, FakeStored DEF FakeInv, Bucketed

LEMMA FakeRest == FakeInv /\ UNCHANGED fake => FakeInv'
  BY DEF fake, FakeInv, FakeTypes, Taken, Alone, Stored, Fake!AnswersLeadBack

(***************************************************************************)
(* The circle of a pool.  The history is mixed once lookups ran during a   *)
(* reload, or a pool that may have emptied the bucket was dropped; until   *)
(* then the bucket and the order in which its addresses were handed out    *)
(* follow from how far the running pool has got.                           *)
(***************************************************************************)

\* The types that no other part of the proof needs.
HistoryTypes ==
  /\ parsed \in {"none", "check", "flush", "ready"} /\ cycle \in [Fake!Pool -> BOOLEAN]
  /\ before \subseteq Fake!IP \X Fake!IP /\ overlapped \in BOOLEAN /\ mixed \in BOOLEAN

\* A pool that handed out address l last began its circle at l + 1.
Precedes(l, a, b) == (a > l /\ b <= l) \/ (a < b /\ (b <= l \/ a > l))

Ordered(l) ==
  \A a, b \in Fake!IP :
    <<a, b>> \in before <=> a \in Fake!InUse /\ b \in Fake!InUse /\ Precedes(l, a, b)

\* The addresses in use are those the pool has handed out, or all of them.
Fits(p) ==
  /\ Ordered(offset[p])
  /\ \/ Fake!InUse = Fake!IP
     \/ ~cycle[p] /\ Fake!InUse = 1 .. offset[p]
     \/ ~cycle[p] /\ offset[p] = 0 /\ Fake!InUse = Fake!IP \ {1}

\* A mutex lets one lookup in.
Exclusive ==
  \A c, d \in Client : \A p \in Fake!Pool : Fake!Inside(c, p) /\ Fake!Inside(d, p) => c = d

\* A pool that is parsed has handed out nothing, and nobody asks it.
Renewed ==
  /\ \A p \in Fake!Pool : cycle[p] => offset[p] # 0
  /\ parsed # "none" =>
       /\ offset[Fake!Spare] = 0
       /\ \A c \in Client : query[c].at \in Fake!Steps => query[c].pool # Fake!Spare

\* Lookups are those of the running pool, which is not being replaced.
InRunning ==
  \A c \in Client :
    query[c].at \in Fake!Steps \ {"lock"} => query[c].pool = running /\ parsed = "none"

\* What a new pool finds and does not flush: nothing, or everything but the first address.
Leftover ==
  hostOf[1] = None =>
    Ordered(0) /\ (Fake!InUse = {} \/ Fake!InUse = Fake!IP \ {1})

Flushed == parsed = "ready" => hostOf[1] = None

\* The bucket is what the running pool has made of it, step by step.
Circle ==
  running # 0 /\ (parsed = "ready" => offset[running] = 0) =>
    /\ (\A c \in Client : query[c].at \notin {"del", "putIP"}) => Fits(running)
    /\ \A c \in Client :
         query[c].at = "del" => Fake!InUse = Fake!IP /\ Ordered(offset[running] - 1)
    /\ \A c \in Client :
         query[c].at = "putIP" =>
           /\ Ordered(offset[running] - 1)
           /\ \/ Fake!InUse = Fake!IP \ {offset[running]}
              \/ ~cycle[running] /\ Fake!InUse = 1 .. (offset[running] - 1)

Unmixed == InRunning /\ Leftover /\ Flushed /\ Circle

CircleInv == HistoryTypes /\ Exclusive /\ Renewed /\ (~mixed => Unmixed)

LEMMA CircleInit ==
  ASSUME Size \in Nat \ {0} PROVE Fake!Init => CircleInv
<1> SUFFICES ASSUME Fake!Init PROVE CircleInv
  OBVIOUS
<1>1. HistoryTypes
  BY DEF Fake!Init, HistoryTypes
<1>2. Exclusive /\ Renewed
  BY DEF Fake!Init, Fake!Idle, Fake!Steps, Fake!Inside, Exclusive, Renewed
<1>3. Fake!InUse = {} /\ Ordered(0)
  BY DEF Fake!Init, Fake!InUse, Ordered
<1>4. Unmixed
  BY <1>3 DEF Fake!Init, Fake!Idle, Fake!Steps, Unmixed, InRunning, Leftover, Flushed, Circle
<1> QED
  BY <1>1, <1>2, <1>4 DEF CircleInv

LEMMA HistoryTypesStep ==
  ASSUME Size \in Nat \ {0}, FakeTypes, Taken, HistoryTypes, Fake!Next
  PROVE  HistoryTypes'
<1> USE DEF HistoryTypes, Fake!Pool
<1>1. ASSUME NEW c \in Client, NEW h \in Host, Fake!Ask(c, h) PROVE HistoryTypes'
  BY <1>1 DEF Fake!Ask, Fake!pools, Fake!history
<1>2. ASSUME NEW c \in Client, Fake!Lookup(c) PROVE HistoryTypes'
  BY <1>2 DEF Fake!Lookup, Fake!pools, Fake!history, Fake!Busy, Fake!Locked
<1>3. ASSUME NEW c \in Client, Fake!Get(c) PROVE HistoryTypes'
  BY <1>3 DEF Fake!Get, Fake!history
<1>4. ASSUME NEW c \in Client, Fake!DelByIP(c) PROVE HistoryTypes'
  BY <1>4 DEF Fake!DelByIP, Fake!Without, Fake!pools, Fake!history
<1>5. ASSUME NEW c \in Client, Fake!PutByIP(c) PROVE HistoryTypes'
  <2>1. offset[query[c].pool] \in Fake!IP
    BY <1>5 DEF Fake!PutByIP, Fake!At, Taken, Storing
  <2> QED
    BY <1>5, <2>1 DEF Fake!PutByIP, Fake!Without, Fake!InUse, Fake!pools, Fake!history
<1>6. ASSUME NEW c \in Client, Fake!PutByHost(c) PROVE HistoryTypes'
  BY <1>6 DEF Fake!PutByHost, Fake!pools, Fake!history
<1>7. CASE Fake!New \/ Fake!Crash
  BY <1>7 DEF Fake!New, Fake!Crash, Fake!Busy, Fake!Locked, Fake!bucket, Fake!history
<1>8. CASE Fake!RestoreState \/ Fake!Install \/ Fake!Discard
  BY <1>8 DEF Fake!RestoreState, Fake!Install, Fake!Discard, Fake!history
<1>9. CASE Fake!FlushFakeIP
  BY <1>9 DEF Fake!FlushFakeIP, Fake!Empty, Fake!Busy, Fake!Locked
<1> QED
  BY <1>1, <1>2, <1>3, <1>4, <1>5, <1>6, <1>7, <1>8, <1>9 DEF Fake!Next, Fake!LookupStep

\* An address that begins the circle leaves it.
LEMMA OrderedDel ==
  ASSUME Size \in Nat \ {0}, NEW o \in Fake!IP, Ordered(o - 1),
         hostOf \in [Fake!IP -> Host \cup {None}],
         hostOf' = [hostOf EXCEPT ![o] = None], before' = Fake!Without(o)
  PROVE  Ordered(o - 1)' /\ Fake!InUse' = Fake!InUse \ {o}
<1>1. Fake!InUse' = Fake!InUse \ {o}
  BY DEF Fake!InUse
<1>2. \A a, b \in Fake!IP : <<a, b>> \in before' <=> <<a, b>> \in before /\ a # o /\ b # o
  BY DEF Fake!Without
<1> QED
  BY <1>1, <1>2 DEF Ordered, Precedes

\* An address that is handed out ends the circle.
LEMMA OrderedPut ==
  ASSUME Size \in Nat \ {0}, NEW o \in Fake!IP, Ordered(o - 1), None \notin Host, NEW h \in Host,
         hostOf \in [Fake!IP -> Host \cup {None}], hostOf' = [hostOf EXCEPT ![o] = h],
         before' = Fake!Without(o) \cup ((Fake!InUse \ {o}) \X {o})
  PROVE  Ordered(o)' /\ Fake!InUse' = Fake!InUse \cup {o}
<1>1. Fake!InUse' = Fake!InUse \cup {o}
  BY DEF Fake!InUse
<1>2. \A a, b \in Fake!IP :
        <<a, b>> \in before' <=> \/ <<a, b>> \in before /\ a # o /\ b # o
                                 \/ a \in Fake!InUse /\ a # o /\ b = o
  BY DEF Fake!Without
<1>3. \A a, b \in Fake!IP : a # o /\ b # o => (Precedes(o - 1, a, b) <=> Precedes(o, a, b))
  BY DEF Precedes, Fake!IP
<1>4. \A a \in Fake!IP : (Precedes(o, a, o) <=> a # o) /\ ~Precedes(o, o, a)
  BY DEF Precedes, Fake!IP
<1>5. ASSUME NEW a \in Fake!IP, NEW b \in Fake!IP
      PROVE  <<a, b>> \in before' <=> a \in Fake!InUse' /\ b \in Fake!InUse' /\ Precedes(o, a, b)
  <2>1. CASE a # o /\ b # o
    BY <1>1, <1>2, <1>3, <2>1 DEF Ordered
  <2>2. CASE a = o
    BY <1>2, <1>4, <2>2
  <2>3. CASE a # o /\ b = o
    BY <1>1, <1>2, <1>4, <2>3
  <2> QED
    BY <2>1, <2>2, <2>3
<1> QED
  BY <1>1, <1>5 DEF Ordered

\* The circle that ends at the last address begins at the first.
LEMMA OrderedRound ==
  ASSUME Size \in Nat \ {0} PROVE Ordered(Size) <=> Ordered(0)
<1>1. \A a, b \in Fake!IP : Precedes(Size, a, b) <=> Precedes(0, a, b)
  BY DEF Precedes, Fake!IP
<1> QED
  BY <1>1 DEF Ordered

LEMMA ExclusiveStep ==
  ASSUME Size \in Nat \ {0}, FakeTypes, Exclusive, Fake!Next PROVE Exclusive'
<1> USE DEF FakeTypes, Exclusive, Fake!Inside, Fake!Pool, Fake!Idle, Fake!Steps
<1>1. ASSUME NEW c \in Client, NEW h \in Host, Fake!Ask(c, h) PROVE Exclusive'
  BY <1>1 DEF Fake!Ask
<1>2. ASSUME NEW c \in Client, Fake!Lookup(c) PROVE Exclusive'
  <2>1. CASE query' = [query EXCEPT ![c] = Fake!Idle]
    BY <2>1
  <2>2. CASE query' = [query EXCEPT ![c].at = "get"]
    <3>1. \A d \in Client : ~Fake!Inside(d, query[c].pool)
      BY <1>2 DEF Fake!Lookup, Fake!Locked
    <3>2. query[c].at = "lock"
      BY <1>2 DEF Fake!Lookup, Fake!At
    <3> QED
      BY <2>2, <3>1, <3>2
  <2> QED
    BY <1>2, <2>1, <2>2 DEF Fake!Lookup, Fake!Go
<1>3. ASSUME NEW c \in Client,
             Fake!Get(c) \/ Fake!DelByIP(c) \/ Fake!PutByIP(c) \/ Fake!PutByHost(c)
      PROVE  Exclusive'
  <2>1. /\ query[c].at \in Fake!Steps \ {"lock"}
        /\ \/ \E step \in Fake!Steps : query' = [query EXCEPT ![c].at = step]
           \/ query' = [query EXCEPT ![c] = Fake!Idle]
    <3>1. CASE Fake!Get(c)
      BY <3>1, NextAddress
    <3>2. CASE Fake!DelByIP(c) \/ Fake!PutByIP(c) \/ Fake!PutByHost(c)
      BY <3>2 DEF Fake!DelByIP, Fake!PutByIP, Fake!PutByHost, Fake!At, Fake!Go
    <3> QED
      BY <1>3, <3>1, <3>2
  <2> QED
    BY <2>1
<1>4. CASE Fake!New \/ Fake!RestoreState \/ Fake!FlushFakeIP \/ Fake!Install \/ Fake!Discard
  BY <1>4 DEF Fake!New, Fake!RestoreState, Fake!FlushFakeIP, Fake!Install, Fake!Discard
<1>5. CASE Fake!Crash
  BY <1>5 DEF Fake!Crash
<1> QED
  BY <1>1, <1>2, <1>3, <1>4, <1>5 DEF Fake!Next, Fake!LookupStep

LEMMA RenewedStep ==
  ASSUME Size \in Nat \ {0}, FakeTypes, Taken, HistoryTypes, Renewed, Fake!Next PROVE Renewed'
<1> USE DEF FakeTypes, HistoryTypes, Renewed, Fake!Pool, Fake!Steps, Fake!Idle, Fake!IP
<1>1. ASSUME NEW c \in Client, NEW h \in Host, Fake!Ask(c, h) PROVE Renewed'
  <2>1. running # Fake!Spare
    BY DEF Fake!Spare
  <2> QED
    BY <1>1, <2>1 DEF Fake!Ask, Fake!pools, Fake!Spare
<1>2. ASSUME NEW c \in Client, Fake!Lookup(c) PROVE Renewed'
  BY <1>2 DEF Fake!Lookup, Fake!At, Fake!Go, Fake!pools, Fake!Spare
<1>3. ASSUME NEW c \in Client, Fake!Get(c) PROVE Renewed'
  <2>1. /\ offset'[query[c].pool] \in Fake!IP /\ query[c].at = "get"
        /\ \A p \in Fake!Pool : p # query[c].pool => offset'[p] = offset[p]
        /\ query' = [query EXCEPT ![c].at = query'[c].at]
    BY <1>3, NextAddress
  <2>2. /\ \A p \in Fake!Pool : p # query[c].pool => cycle'[p] = cycle[p]
        /\ parsed' = parsed /\ running' = running
    BY <1>3 DEF Fake!Get
  <2>3. \A p \in Fake!Pool : cycle'[p] => offset'[p] # 0
    BY <2>1, <2>2
  <2>4. Fake!Spare' = Fake!Spare /\ Fake!Spare \in Fake!Pool
    BY <2>2 DEF Fake!Spare
  <2>5. \A d \in Client :
          query'[d].at \in Fake!Steps => query[d].at \in Fake!Steps /\ query'[d].pool = query[d].pool
    <3>1. query'[c].pool = query[c].pool /\ query[c].at \in Fake!Steps
      <4>1. query[c].at \in Fake!Steps
        BY <2>1
      <4>2. query[c] \in [at : Fake!Steps, pool : Fake!Pool, host : Host]
        BY <4>1, KnownQuery
      <4>3. query'[c] = [query[c] EXCEPT !.at = query'[c].at]
        BY <2>1
      <4> HIDE DEF FakeTypes, Renewed
      <4> QED
        BY <4>1, <4>2, <4>3
    <3>2. \A d \in Client : d # c => query'[d] = query[d]
      BY <2>1
    <3> QED
      BY <3>1, <3>2
  <2>6. ASSUME parsed # "none"
        PROVE  /\ offset'[Fake!Spare] = 0
               /\ \A d \in Client : query'[d].at \in Fake!Steps => query'[d].pool # Fake!Spare
    <3>1. query[c].pool # Fake!Spare
      BY <2>1, <2>6
    <3> QED
      BY <2>1, <2>4, <2>5, <2>6, <3>1
  <2> QED
    BY <2>2, <2>3, <2>4, <2>6
<1>4. ASSUME NEW c \in Client, Fake!DelByIP(c) \/ Fake!PutByIP(c) \/ Fake!PutByHost(c)
      PROVE  Renewed'
  <2>1. /\ query[c].at \in Fake!Steps /\ UNCHANGED <<running, parsed, offset, cycle>>
        /\ \/ \E step \in Fake!Steps : query' = [query EXCEPT ![c].at = step]
           \/ query' = [query EXCEPT ![c] = Fake!Idle]
    BY <1>4 DEF Fake!DelByIP, Fake!PutByIP, Fake!PutByHost, Fake!At, Fake!Go, Fake!pools
  <2> QED
    BY <2>1 DEF Fake!Spare
<1>5. CASE Fake!New
  <2>1. running # Fake!Spare /\ Fake!Spare \in Fake!Pool
    BY DEF Fake!Spare
  <2> QED
    BY <1>5, <2>1 DEF Fake!New, Fake!Spare
<1>6. CASE Fake!RestoreState \/ Fake!FlushFakeIP \/ Fake!Install \/ Fake!Discard
  BY <1>6 DEF Fake!RestoreState, Fake!FlushFakeIP, Fake!Install, Fake!Discard, Fake!Spare
<1>7. CASE Fake!Crash
  BY <1>7 DEF Fake!Crash
<1> QED
  BY <1>1, <1>2, <1>3, <1>4, <1>5, <1>6, <1>7 DEF Fake!Next, Fake!LookupStep

\* In an unmixed history the lookup inside is the only one, in the running pool.
LEMMA OneInside ==
  ASSUME FakeTypes, Exclusive, InRunning, NEW c \in Client, query[c].at \in Fake!Steps \ {"lock"}
  PROVE  /\ query[c].pool = running /\ running \in Fake!Pool /\ parsed = "none"
         /\ query[c].host \in Host
         /\ \A d \in Client : d # c => query[d].at \in {"idle", "lock"}
<1>1. query[c].pool = running /\ running \in Fake!Pool /\ parsed = "none" /\ query[c].host \in Host
  <2>1. query[c] \in [at : Fake!Steps, pool : Fake!Pool, host : Host]
    BY KnownQuery
  <2>2. query[c].pool = running /\ parsed = "none"
    BY DEF InRunning
  <2> QED
    BY <2>1, <2>2
<1>2. ASSUME NEW d \in Client, query[d].at \in Fake!Steps \ {"lock"} PROVE d = c
  <2>1. query[d].pool = running
    BY <1>2 DEF InRunning
  <2> QED
    BY <1>1, <1>2, <2>1 DEF Exclusive, Fake!Inside
<1>3. \A d \in Client : query[d].at \in {"idle"} \cup Fake!Steps
  BY DEF FakeTypes, Fake!Idle, Fake!Steps
<1> QED
  BY <1>1, <1>2, <1>3 DEF Fake!Steps

\* The next address is free, or all are in use and it is the oldest.
LEMMA GetUnmixed ==
  ASSUME Size \in Nat \ {0}, None \notin Fake!IP, FakeTypes, HistoryTypes, Exclusive, Unmixed,
         NEW c \in Client, Fake!Get(c)
  PROVE  Unmixed'
<1> USE DEF Fake!IP, Fake!Pool
<1>1. /\ query[c].at = "get" /\ query[c].pool = running /\ running \in Fake!Pool /\ parsed = "none"
      /\ \A d \in Client : d # c => query[d].at \in {"idle", "lock"}
  BY OneInside DEF Unmixed, Fake!Get, Fake!At, Fake!Steps
<1> DEFINE o    == offset[running]
           wrap == o + 1 >= Size + 1
           next == IF wrap THEN 1 ELSE o + 1
<1>2. o \in 0 .. Size /\ cycle[running] \in BOOLEAN /\ running # 0
  BY <1>1 DEF FakeTypes, HistoryTypes
<1>3. Fits(running)
  BY <1>1, <1>2 DEF Unmixed, Circle
<1>4. /\ offset'[running] = next /\ cycle'[running] = (cycle[running] \/ wrap)
      /\ query' = [query EXCEPT ![c].at =
                     IF cycle'[running] \/ hostOf[next] # None THEN "del" ELSE "putIP"]
      /\ UNCHANGED <<hostOf, ipOf, before, running, parsed>>
  BY <1>1 DEF Fake!Get, Fake!Go, Fake!bucket, FakeTypes, HistoryTypes
<1>5. next \in Fake!IP /\ Ordered(next - 1)
  <2>1. CASE wrap
    BY <1>2, <1>3, <2>1, OrderedRound DEF Fits
  <2>2. CASE ~wrap
    BY <1>2, <1>3, <2>2 DEF Fits
  <2> QED
    BY <2>1, <2>2
<1>6. hostOf[next] # None <=> next \in Fake!InUse
  BY <1>5 DEF Fake!InUse
<1>7. cycle'[running] \/ hostOf[next] # None => Fake!InUse = Fake!IP
  BY <1>2, <1>3, <1>4, <1>6 DEF Fits
<1>8. ~cycle'[running] /\ hostOf[next] = None =>
        \/ Fake!InUse = Fake!IP \ {next}
        \/ Fake!InUse = 1 .. (next - 1)
  <2> SUFFICES ASSUME ~cycle'[running], hostOf[next] = None
               PROVE  \/ Fake!InUse = Fake!IP \ {next}
                      \/ Fake!InUse = 1 .. (next - 1)
    OBVIOUS
  <2>1. next = o + 1 /\ next - 1 = o /\ next \notin Fake!InUse
    <3>1. ~wrap
      BY <1>4
    <3>2. next = o + 1
      BY <3>1
    <3> QED
      BY <1>2, <1>6, <3>2
  <2>2. \/ Fake!InUse = 1 .. o
        \/ o = 0 /\ Fake!InUse = Fake!IP \ {1}
    BY <1>3, <1>5, <2>1 DEF Fits
  <2> HIDE DEF next, o
  <2> QED
    BY <2>1, <2>2
<1> HIDE DEF next
<1>9. InRunning' /\ Flushed'
  BY <1>1, <1>4 DEF Unmixed, InRunning, Flushed, FakeTypes
<1>10. Fake!InUse' = Fake!InUse /\ \A l \in Nat : Ordered(l)' <=> Ordered(l)
  BY <1>4 DEF Fake!InUse, Ordered
<1>11. Leftover'
  BY <1>4, <1>10 DEF Unmixed, Leftover
<1>12. Circle'
  <2>1. query'[c].at \in {"del", "putIP"} /\ \A d \in Client : d # c => query'[d] = query[d]
    BY <1>4 DEF FakeTypes
  <2>2. query'[c].at = "del" => Fake!InUse' = Fake!IP
    BY <1>4, <1>7, <1>10 DEF FakeTypes
  <2>3. query'[c].at = "putIP" =>
          \/ Fake!InUse' = Fake!IP \ {offset'[running']}
          \/ ~cycle'[running'] /\ Fake!InUse' = 1 .. (offset'[running'] - 1)
    BY <1>4, <1>8, <1>10 DEF FakeTypes
  <2>4. \A a, b \in Fake!IP :
          <<a, b>> \in before' <=>
            a \in Fake!InUse' /\ b \in Fake!InUse' /\ Precedes(offset'[running'] - 1, a, b)
    BY <1>4, <1>5, <1>10 DEF Ordered
  <2> QED
    BY <1>1, <2>1, <2>2, <2>3, <2>4 DEF Circle, Ordered
<1> QED
  BY <1>9, <1>11, <1>12 DEF Unmixed

\* All but the oldest stay, in their order.
LEMMA DelUnmixed ==
  ASSUME Size \in Nat \ {0}, None \notin Fake!IP, FakeTypes, Taken, Exclusive, Unmixed,
         NEW c \in Client, Fake!DelByIP(c)
  PROVE  Unmixed'
<1>1. /\ query[c].at = "del" /\ query[c].pool = running /\ running \in Fake!Pool
      /\ parsed = "none"
      /\ \A d \in Client : d # c => query[d].at \in {"idle", "lock"}
  BY OneInside DEF Unmixed, Fake!DelByIP, Fake!At, Fake!Steps
<1> DEFINE o == offset[running]
<1>2. o \in Fake!IP /\ running # 0
  BY <1>1 DEF Taken, Storing, Fake!Pool
<1>3. Fake!InUse = Fake!IP /\ Ordered(o - 1)
  BY <1>1, <1>2 DEF Unmixed, Circle
<1>4. /\ hostOf' = [hostOf EXCEPT ![o] = None] /\ before' = Fake!Without(o)
      /\ query' = [query EXCEPT ![c].at = "putIP"]
      /\ UNCHANGED <<running, parsed, offset, cycle>>
  BY <1>1 DEF Fake!DelByIP, Fake!Go, Fake!pools
<1>5. Fake!InUse' = Fake!IP \ {o} /\ Ordered(o - 1)'
  BY <1>2, <1>3, <1>4, OrderedDel DEF FakeTypes
<1>6. query'[c].at = "putIP" /\ \A d \in Client : d # c => query'[d] = query[d]
  BY <1>4 DEF FakeTypes
<1>7. InRunning' /\ Flushed'
  BY <1>1, <1>4 DEF Unmixed, InRunning, Flushed, FakeTypes
<1>8. Leftover'
  <2>1. hostOf'[1] = None => o = 1
    BY <1>3, <1>4 DEF Fake!InUse, Fake!IP
  <2>2. hostOf'[1] = None => Ordered(0)' /\ Fake!InUse' = Fake!IP \ {1}
    BY <1>4, <1>5, <2>1 DEF Ordered
  <2> QED
    BY <2>2 DEF Leftover
<1>9. Circle'
  BY <1>1, <1>4, <1>5, <1>6 DEF Circle, Ordered
<1> QED
  BY <1>7, <1>8, <1>9 DEF Unmixed

\* The address that is handed out becomes the newest.
LEMMA PutUnmixed ==
  ASSUME Size \in Nat \ {0}, None \notin Host, None \notin Fake!IP, FakeTypes, HistoryTypes, Taken,
         Exclusive, Unmixed, NEW c \in Client, Fake!PutByIP(c)
  PROVE  Unmixed'
<1>1. /\ query[c].at = "putIP" /\ query[c].pool = running /\ running \in Fake!Pool
      /\ parsed = "none" /\ query[c].host \in Host
      /\ \A d \in Client : d # c => query[d].at \in {"idle", "lock"}
  BY OneInside DEF Unmixed, Fake!PutByIP, Fake!At, Fake!Steps
<1> DEFINE o == offset[running]
<1>2. o \in Fake!IP /\ running # 0
  BY <1>1 DEF Taken, Storing, Fake!Pool
<1>3. /\ Ordered(o - 1)
      /\ Fake!InUse = Fake!IP \ {o} \/ (~cycle[running] /\ Fake!InUse = 1 .. (o - 1))
  BY <1>1, <1>2 DEF Unmixed, Circle
<1>4. /\ hostOf' = [hostOf EXCEPT ![o] = query[c].host]
      /\ before' = Fake!Without(o) \cup ((Fake!InUse \ {o}) \X {o})
      /\ query' = [query EXCEPT ![c].at = "putHost"]
      /\ UNCHANGED <<running, parsed, offset, cycle>>
  BY <1>1 DEF Fake!PutByIP, Fake!Go, Fake!pools
<1>5. Fake!InUse' = Fake!InUse \cup {o} /\ Ordered(o)'
  BY <1>1, <1>2, <1>3, <1>4, OrderedPut DEF FakeTypes
<1>6. query'[c].at = "putHost" /\ \A d \in Client : d # c => query'[d] = query[d]
  BY <1>4 DEF FakeTypes
<1>7. InRunning' /\ Flushed'
  BY <1>1, <1>4 DEF Unmixed, InRunning, Flushed, FakeTypes
<1>8. Leftover'
  <2>1. 1 \in Fake!InUse'
    BY <1>2, <1>3, <1>5 DEF Fake!IP
  <2> QED
    BY <2>1 DEF Leftover, Fake!InUse
<1>9. Fits(running)'
  <2>1. Fake!InUse' = Fake!IP \/ (~cycle'[running'] /\ Fake!InUse' = 1 .. offset'[running'])
    <3>1. CASE Fake!InUse = Fake!IP \ {o}
      BY <1>2, <1>5, <3>1
    <3>2. CASE ~cycle[running] /\ Fake!InUse = 1 .. (o - 1)
      <4>1. 1 .. (o - 1) \cup {o} = 1 .. o
        BY <1>2 DEF Fake!IP
      <4> QED
        BY <1>4, <1>5, <3>2, <4>1
    <3> QED
      BY <1>3, <3>1, <3>2
  <2> QED
    BY <1>4, <1>5, <2>1 DEF Fits, Ordered
<1>10. Circle'
  BY <1>1, <1>6, <1>9 DEF Circle
<1> QED
  BY <1>7, <1>8, <1>10 DEF Unmixed

\* A pool begins with what the one before has left.
LEMMA InstallUnmixed ==
  ASSUME Size \in Nat \ {0}, FakeTypes, HistoryTypes, Renewed, Unmixed, Fake!Install
  PROVE  Unmixed'
<1>1. /\ parsed = "ready" /\ hostOf[1] = None /\ parsed' = "none" /\ running' = Fake!Spare
      /\ UNCHANGED <<hostOf, before, offset, cycle, query>>
  BY DEF Fake!Install, Fake!bucket, Unmixed, Flushed
<1>2. \A c \in Client : query[c].at \notin Fake!Steps \ {"lock"}
  BY <1>1 DEF Unmixed, InRunning
<1>3. Fake!Spare \in Fake!Pool /\ offset[Fake!Spare] = 0 /\ ~cycle[Fake!Spare]
  BY <1>1 DEF Renewed, Fake!Spare, Fake!Pool
<1>4. Ordered(0) /\ (Fake!InUse = {} \/ Fake!InUse = Fake!IP \ {1})
  BY <1>1 DEF Unmixed, Leftover
<1>5. Fake!InUse' = Fake!InUse /\ (Ordered(0)' <=> Ordered(0))
  BY <1>1 DEF Fake!InUse, Ordered
<1>6. Fits(running)'
  <2>1. 1 .. 0 = {}
    OBVIOUS
  <2> QED
    BY <1>1, <1>3, <1>4, <1>5, <2>1 DEF Fits, Ordered
<1> QED
  BY <1>1, <1>2, <1>4, <1>5, <1>6
     DEF Unmixed, InRunning, Leftover, Flushed, Circle, Fake!Steps

\* An emptied bucket fits whatever pool has handed out nothing.
LEMMA FlushUnmixed ==
  ASSUME Size \in Nat \ {0}, FakeTypes, HistoryTypes, Renewed, Fake!FlushFakeIP, ~mixed'
  PROVE  Unmixed'
<1>1. /\ hostOf' = [ip \in Fake!IP |-> None] /\ before' = {} /\ ~Fake!Busy
      /\ UNCHANGED <<running, offset, cycle, query>>
  BY DEF Fake!FlushFakeIP, Fake!Empty
<1>2. Fake!InUse' = {} /\ \A l \in Nat : Ordered(l)'
  BY <1>1 DEF Fake!InUse, Ordered
<1>3. \A c \in Client : query'[c].at \notin Fake!Steps \ {"lock"}
  <2>1. ASSUME NEW c \in Client, query[c].at \in Fake!Steps \ {"lock"} PROVE FALSE
    <3>1. query[c].pool = 1 \/ query[c].pool = 2
      BY <2>1, KnownQuery DEF Fake!Steps, Fake!Pool
    <3> QED
      BY <1>1, <2>1, <3>1 DEF Fake!Busy, Fake!Locked, Fake!Inside
  <2> QED
    BY <1>1, <2>1
<1>4. running # 0 /\ offset[running] = 0 => Fits(running)'
  <2>1. 1 .. 0 = {}
    OBVIOUS
  <2>2. running # 0 /\ offset[running] = 0 => ~cycle[running]
    BY DEF FakeTypes, Renewed, Fake!Pool
  <2> QED
    BY <1>1, <1>2, <2>1, <2>2 DEF Fits, Ordered
<1>5. parsed' = "ready" /\ hostOf'[1] = None
  BY <1>1 DEF Fake!FlushFakeIP, Fake!IP
<1> QED
  BY <1>1, <1>2, <1>3, <1>4, <1>5
     DEF Unmixed, InRunning, Leftover, Flushed, Circle, Fake!Steps

\* Steps that leave the bucket and the running pool alone.
LEMMA QuietUnmixed ==
  ASSUME FakeTypes, Unmixed, UNCHANGED <<hostOf, before, running, parsed, offset, cycle>>,
         \A c \in Client :
           /\ query[c].at \in {"del", "putIP"} <=> query'[c].at \in {"del", "putIP"}
           /\ query[c].at \in {"del", "putIP"} => query'[c] = query[c]
           /\ query'[c].at \in Fake!Steps \ {"lock"} =>
                query'[c].pool = running /\ parsed = "none"
  PROVE  Unmixed'
<1>1. Fake!InUse' = Fake!InUse
  BY DEF Fake!InUse
<1>2. InRunning' /\ Flushed' /\ Leftover'
  BY <1>1 DEF Unmixed, InRunning, Flushed, Leftover, Ordered
<1>3. /\ Fits(running)' <=> Fits(running)
      /\ Ordered(offset[running] - 1)' <=> Ordered(offset[running] - 1)
  BY <1>1 DEF Fits, Ordered
<1>4. Circle'
  BY <1>1, <1>3 DEF Unmixed, Circle
<1> QED
  BY <1>2, <1>4 DEF Unmixed

LEMMA CircleStep ==
  ASSUME Size \in Nat \ {0}, None \notin Host, None \notin Fake!IP, FakeTypes, Taken, CircleInv,
         Fake!Next
  PROVE  CircleInv'
<1>1. HistoryTypes' /\ Exclusive' /\ Renewed'
  BY HistoryTypesStep, ExclusiveStep, RenewedStep DEF CircleInv
<1>2. ASSUME ~mixed' PROVE Unmixed'
  <2>1. CASE Fake!FlushFakeIP
    BY <1>2, <2>1, FlushUnmixed DEF CircleInv
  <2>2. CASE ~Fake!FlushFakeIP
    <3>1. ~mixed
      BY <1>2, <2>2 DEF Fake!Next, Fake!LookupStep, Fake!Ask, Fake!Lookup, Fake!Get, Fake!DelByIP,
         Fake!PutByIP, Fake!PutByHost, Fake!New, Fake!RestoreState, Fake!Install, Fake!Discard,
         Fake!Crash, Fake!history
    <3>2. FakeTypes /\ HistoryTypes /\ Exclusive /\ Renewed /\ Unmixed
      BY <3>1 DEF CircleInv
    <3>3. ASSUME NEW c \in Client, NEW h \in Host, Fake!Ask(c, h) PROVE Unmixed'
      <4>1. /\ query[c].at = "idle"
            /\ query' = [query EXCEPT ![c] = [at |-> "lock", pool |-> running, host |-> h]]
            /\ UNCHANGED <<hostOf, before, running, parsed, offset, cycle>>
        BY <3>3 DEF Fake!Ask, Fake!Idle, Fake!bucket, Fake!pools
      <4> QED
        BY <3>2, <4>1, QuietUnmixed DEF FakeTypes, Unmixed, InRunning
    <3>4. ASSUME NEW c \in Client, Fake!Lookup(c) PROVE Unmixed'
      <4>1. /\ query[c].at = "lock"
            /\ \/ query' = [query EXCEPT ![c] = Fake!Idle]
               \/ /\ query' = [query EXCEPT ![c].at = "get"]
                  /\ query[c].pool = running /\ parsed = "none"
            /\ UNCHANGED <<hostOf, before, running, parsed, offset, cycle>>
        BY <1>2, <3>4 DEF Fake!Lookup, Fake!At, Fake!Go, Fake!bucket, Fake!pools
      <4> QED
        BY <3>2, <4>1, QuietUnmixed DEF FakeTypes, Fake!Idle, Fake!Steps, Unmixed, InRunning
    <3>5. ASSUME NEW c \in Client, Fake!PutByHost(c) PROVE Unmixed'
      <4>1. /\ query[c].at = "putHost" /\ query' = [query EXCEPT ![c] = Fake!Idle]
            /\ UNCHANGED <<hostOf, before, running, parsed, offset, cycle>>
        BY <3>5 DEF Fake!PutByHost, Fake!At, Fake!pools
      <4> QED
        BY <3>2, <4>1, QuietUnmixed DEF FakeTypes, Fake!Idle, Fake!Steps, Unmixed, InRunning
    <3>6. ASSUME NEW c \in Client, Fake!Get(c) \/ Fake!DelByIP(c) \/ Fake!PutByIP(c)
          PROVE  Unmixed'
      BY <3>2, <3>6, GetUnmixed, DelUnmixed, PutUnmixed
    <3>7. CASE Fake!New
      <4>1. /\ ~Fake!Busy /\ parsed' = "check"
            /\ offset' = [offset EXCEPT ![Fake!Spare] = 0]
            /\ cycle' = [cycle EXCEPT ![Fake!Spare] = FALSE]
            /\ UNCHANGED <<hostOf, before, running, query>>
        BY <1>2, <3>7 DEF Fake!New, Fake!bucket
      <4>2. \A c \in Client : query[c].at \notin Fake!Steps \ {"lock"}
        <5>1. ASSUME NEW c \in Client, query[c].at \in Fake!Steps \ {"lock"} PROVE FALSE
          <6>1. query[c].pool = 1 \/ query[c].pool = 2
            BY <3>2, <5>1, KnownQuery DEF Fake!Steps, Fake!Pool
          <6> QED
            BY <4>1, <5>1, <6>1 DEF Fake!Busy, Fake!Locked, Fake!Inside
        <5> QED
          BY <5>1
      <4>3. running # 0 => offset'[running] = offset[running] /\ cycle'[running] = cycle[running]
        <5>1. running # Fake!Spare
          BY DEF Fake!Spare
        <5> QED
          BY <3>2, <4>1, <5>1 DEF FakeTypes, HistoryTypes, Fake!Pool
      <4>4. running # 0 => Fits(running)
        BY <3>2, <4>2, <3>7 DEF Unmixed, Circle, Fake!New, Fake!Steps
      <4>5. running # 0 => Fits(running)'
        BY <4>1, <4>3, <4>4 DEF Fits, Ordered, Fake!InUse
      <4>6. Leftover'
        BY <3>2, <4>1 DEF Unmixed, Leftover, Ordered, Fake!InUse
      <4> QED
        BY <4>1, <4>2, <4>5, <4>6 DEF Unmixed, InRunning, Flushed, Circle, Fake!Steps
    <3>8. CASE Fake!RestoreState \/ Fake!Discard
      <4>1. /\ parsed # "none" /\ (parsed' = "ready" => hostOf[1] = None)
            /\ UNCHANGED <<hostOf, before, running, offset, cycle, query>>
            /\ parsed = "ready" => running = 0 \/ offset[running] = 0
        BY <1>2, <3>8 DEF Fake!RestoreState, Fake!Discard, Fake!bucket
      <4>2. \A c \in Client : query[c].at \notin Fake!Steps \ {"lock"}
        BY <3>2, <4>1 DEF Unmixed, InRunning
      <4>3. Fake!InUse' = Fake!InUse
        BY <4>1 DEF Fake!InUse
      <4>4. running # 0 => Fits(running)
        BY <3>2, <4>1, <4>2 DEF Unmixed, Circle, Fake!Steps
      <4>5. running # 0 => Fits(running)'
        BY <4>1, <4>3, <4>4 DEF Fits, Ordered
      <4>6. Leftover'
        BY <3>2, <4>1, <4>3 DEF Unmixed, Leftover, Ordered
      <4> QED
        BY <4>1, <4>2, <4>5, <4>6 DEF Unmixed, InRunning, Flushed, Circle, Fake!Steps
    <3>9. CASE Fake!Install
      BY <3>2, <3>9, InstallUnmixed
    <3>10. CASE Fake!Crash
      <4>1. /\ running' = 0 /\ parsed' = "none" /\ UNCHANGED <<hostOf, before>>
            /\ \A c \in Client : query'[c].at = "idle"
        BY <3>10 DEF Fake!Crash, Fake!bucket, Fake!Idle
      <4>2. Leftover'
        BY <3>2, <4>1 DEF Unmixed, Leftover, Ordered, Fake!InUse
      <4> QED
        BY <4>1, <4>2 DEF Unmixed, InRunning, Flushed, Circle, Fake!Steps
    <3> QED
      BY <2>2, <3>3, <3>4, <3>5, <3>6, <3>7, <3>8, <3>9, <3>10 DEF Fake!Next, Fake!LookupStep
  <2> QED
    BY <2>1, <2>2
<1> QED
  BY <1>1, <1>2 DEF CircleInv

LEMMA CircleRest == CircleInv /\ UNCHANGED fake => CircleInv'
<1> SUFFICES ASSUME CircleInv, UNCHANGED fake PROVE CircleInv'
  OBVIOUS
<1>1. Fake!InUse' = Fake!InUse
  BY DEF fake, Fake!InUse
<1>2. HistoryTypes' /\ Exclusive' /\ Renewed'
  BY DEF fake, CircleInv, HistoryTypes, Exclusive, Renewed, Fake!Inside, Fake!Spare
<1>3. Unmixed => Unmixed'
  BY <1>1 DEF fake, Unmixed, InRunning, Leftover, Flushed, Circle, Fits, Ordered
<1> QED
  BY <1>2, <1>3 DEF fake, CircleInv

\* What is taken from its host is the beginning of the circle.
LEMMA CircleReuse ==
  ASSUME Size \in Nat \ {0}, None \notin Fake!IP, FakeTypes, Taken, CircleInv, ~mixed,
         NEW c \in Client, Fake!DelByIP(c), NEW ip \in Fake!IP, hostOf[ip] # None,
         hostOf'[ip] = None, NEW other \in Fake!IP \ {ip}
  PROVE  <<ip, other>> \in before
<1>1. /\ query[c].at = "del" /\ query[c].pool = running /\ running \in Fake!Pool
      /\ parsed = "none"
  BY OneInside DEF CircleInv, Unmixed, Fake!DelByIP, Fake!At, Fake!Steps
<1>2. ip = offset[running]
  BY <1>1 DEF Fake!DelByIP, FakeTypes
<1>3. Fake!InUse = Fake!IP /\ Ordered(ip - 1)
  BY <1>1, <1>2 DEF CircleInv, Unmixed, Circle, Fake!Pool
<1>4. Precedes(ip - 1, ip, other)
  BY DEF Precedes, Fake!IP
<1> QED
  BY <1>3, <1>4 DEF Ordered

(***************************************************************************)
(* The resolver.                                                           *)
(***************************************************************************)

\* The answer a flight has: it was read after whatever is cached, and when the flight ends it is
\* cached as well, unless the cache was emptied since.
FlightInv ==
  flight # None =>
    /\ flight.at = "ask" => flight.answer = None
    /\ flight.at = "put" => flight.answer # None
    /\ flight.answer # None =>
         /\ flight.answer.version >= newest /\ flight.answer.version <= record.version
         /\ entry # None => entry.version <= flight.answer.version
         /\ flight.at = "end" /\ flight.answer.kept /\ entry # None
              => entry.version = flight.answer.version

EntryInv ==
  /\ newest <= record.version
  /\ entry # None => entry.version >= newest /\ entry.version <= record.version

\* Whoever waits for an exchange, waits for one that flies.
CallersInv == \A g \in Names!Goroutine : at[g] \in {"wait", "monitor"} => flight # None

NameInv == Names!TypeOK /\ FlightInv /\ EntryInv /\ CallersInv

LEMMA NameInit == ASSUME MaxRecord \in Nat PROVE Names!Init => NameInv
  BY DEF Names!Init, NameInv, Names!TypeOK, Names!Record, FlightInv, EntryInv, CallersInv

\* DoChan leaves a call that has the answer of the one before, if there was one.
LEMMA NameDoChan ==
  ASSUME MaxRecord \in Nat, Names!TypeOK, FlightInv, Names!DoChan,
         UNCHANGED <<record, entry, newest>>
  PROVE  flight' \in Names!Flight /\ FlightInv'
  BY DEF Names!DoChan, Names!TypeOK, Names!Flight, FlightInv

LEMMA NameTypes ==
  ASSUME MaxRecord \in Nat, Names!TypeOK, FlightInv, Names!Next PROVE Names!TypeOK'
<1> USE DEF Names!TypeOK
<1>1. ASSUME NEW c \in Client, Names!Miss(c) PROVE Names!TypeOK'
  BY <1>1 DEF Names!Miss
<1>2. ASSUME NEW c \in Client, Names!Hit(c) PROVE Names!TypeOK'
  BY <1>2 DEF Names!Hit, Names!Later, Names!Entry
<1>3. ASSUME NEW g \in Names!Goroutine, Names!ExchangeWithoutCache(g) PROVE Names!TypeOK'
  BY <1>3, NameDoChan DEF Names!ExchangeWithoutCache
<1>4. ASSUME NEW g \in Names!Goroutine, Names!ContextDone(g) PROVE Names!TypeOK'
  BY <1>4 DEF Names!ContextDone, Names!GoesOn
<1>5. ASSUME NEW g \in Names!Goroutine, Names!Failed(g) PROVE Names!TypeOK'
  <2>1. flight' \in Names!Flight \cup {None}
    BY <1>5, NameDoChan DEF Names!Failed
  <2>2. at' \in [Names!Goroutine -> {"idle", "join", "wait", "monitor", "failed", "alone", "retry"}]
    BY <1>5 DEF Names!Failed, Names!GoesOn
  <2> QED
    BY <1>5, <2>1, <2>2 DEF Names!Failed
<1>6. ASSUME NEW g \in Names!Goroutine, Names!MonitorFailed(g) PROVE Names!TypeOK'
  BY <1>6, NameDoChan DEF Names!MonitorFailed
<1>7. CASE Names!Answer \/ Names!NoAnswer
  BY <1>7 DEF Names!Answer, Names!NoAnswer, Names!Flight
<1>8. CASE Names!PutMsgToCache
  BY <1>8 DEF Names!PutMsgToCache, FlightInv, Names!Flight, Names!Entry, Names!Record
<1>9. CASE Names!DoCallEnds
  BY <1>9 DEF Names!DoCallEnds, Names!Received, Names!Later, Names!Flight, Names!Record
<1>10. CASE Names!Expire \/ Names!ClearCache
  BY <1>10 DEF Names!Expire, Names!ClearCache, Names!Entry
<1>11. CASE Names!Change
  BY <1>11 DEF Names!Change, Names!Record
<1> QED
  BY <1>1, <1>2, <1>3, <1>4, <1>5, <1>6, <1>7, <1>8, <1>9, <1>10, <1>11
     DEF Names!Next, Names!Step, Names!CallStep

\* A flight reads the servers after everything that is cached, and nobody caches while it flies.
LEMMA NameOrder ==
  ASSUME MaxRecord \in Nat, None \notin Names!Record, Names!TypeOK, FlightInv, EntryInv, Names!Next
  PROVE  FlightInv' /\ EntryInv'
<1> USE DEF Names!TypeOK, Names!Record, Names!Entry, Names!Flight, EntryInv
<1>1. ASSUME NEW c \in Client, Names!Miss(c) PROVE FlightInv' /\ EntryInv'
  BY <1>1 DEF Names!Miss, FlightInv
<1>2. ASSUME NEW c \in Client, Names!Hit(c) PROVE FlightInv' /\ EntryInv'
  BY <1>2 DEF Names!Hit, Names!Later, FlightInv
<1>3. ASSUME NEW g \in Names!Goroutine,
             Names!Step(g) \/ Names!ContextDone(g)
      PROVE  FlightInv' /\ EntryInv'
  <2>1. UNCHANGED <<record, entry, newest>> /\ (Names!DoChan \/ UNCHANGED flight)
    BY <1>3 DEF Names!Step, Names!ExchangeWithoutCache, Names!Failed, Names!MonitorFailed,
                Names!ContextDone
  <2> QED
    BY <2>1, NameDoChan DEF FlightInv
<1>4. CASE Names!Answer
  <2>1. /\ flight' \in Names!Flight /\ flight'.at = "put" /\ flight'.answer = record
        /\ UNCHANGED <<record, entry, newest>>
    BY <1>4 DEF Names!Answer
  <2>2. record.version \in 0 .. MaxRecord /\ newest \in 0 .. MaxRecord /\ record # None
    OBVIOUS
  <2> QED
    BY <2>1, <2>2 DEF FlightInv
<1>5. CASE Names!NoAnswer
  BY <1>5 DEF Names!NoAnswer, FlightInv
<1>6. CASE Names!PutMsgToCache
  BY <1>6 DEF Names!PutMsgToCache, FlightInv
<1>7. CASE Names!DoCallEnds
  BY <1>7 DEF Names!DoCallEnds, Names!Later, FlightInv
<1>8. CASE Names!Expire \/ Names!ClearCache
  BY <1>8 DEF Names!Expire, Names!ClearCache, FlightInv
<1>9. CASE Names!Change
  BY <1>9 DEF Names!Change, FlightInv
<1> QED
  BY <1>1, <1>2, <1>3, <1>4, <1>5, <1>6, <1>7, <1>8, <1>9 DEF Names!Next, Names!CallStep

\* The end of an exchange is the end of every wait for it.
LEMMA NameCallers ==
  ASSUME None \notin Names!Flight, Names!TypeOK, CallersInv, Names!Next PROVE CallersInv'
<1> USE DEF Names!TypeOK, CallersInv
<1>0. ASSUME Names!DoChan PROVE flight' # None
  <2>1. flight' \in Names!Flight
    BY <1>0 DEF Names!DoChan, Names!Flight
  <2> QED
    BY <2>1
<1>1. ASSUME NEW c \in Client, Names!Miss(c) \/ Names!Hit(c) PROVE CallersInv'
  BY <1>1 DEF Names!Miss, Names!Hit
<1>2. ASSUME NEW g \in Names!Goroutine, Names!ExchangeWithoutCache(g) PROVE CallersInv'
  <2>1. flight' # None
    BY <1>0, <1>2 DEF Names!ExchangeWithoutCache
  <2> QED
    BY <2>1
<1>3. ASSUME NEW g \in Names!Goroutine, Names!ContextDone(g) PROVE CallersInv'
  BY <1>3 DEF Names!ContextDone, Names!GoesOn
<1>4. ASSUME NEW g \in Names!Goroutine, Names!Failed(g) \/ Names!MonitorFailed(g) PROVE CallersInv'
  <2>1. flight' # None \/ UNCHANGED flight
    BY <1>0, <1>4 DEF Names!Failed, Names!MonitorFailed
  <2>2. \A h \in Names!Goroutine : at'[h] \in {"wait", "monitor"} => at[h] \in {"wait", "monitor"}
    BY <1>4 DEF Names!Failed, Names!MonitorFailed, Names!GoesOn
  <2> QED
    BY <2>1, <2>2
<1>5. CASE Names!Answer \/ Names!NoAnswer \/ Names!PutMsgToCache
  <2>1. flight' \in Names!Flight /\ UNCHANGED at
    BY <1>5 DEF Names!Answer, Names!NoAnswer, Names!PutMsgToCache, Names!Flight
  <2> QED
    BY <2>1
<1>6. CASE Names!DoCallEnds
  <2>1. \A g \in Names!Goroutine : at'[g] \notin {"wait", "monitor"}
    BY <1>6 DEF Names!DoCallEnds, Names!Received
  <2> QED
    BY <2>1
<1>7. CASE Names!Expire \/ Names!ClearCache \/ Names!Change
  BY <1>7 DEF Names!Expire, Names!ClearCache, Names!Change
<1> QED
  BY <1>1, <1>2, <1>3, <1>4, <1>5, <1>6, <1>7 DEF Names!Next, Names!Step, Names!CallStep

LEMMA NameStep ==
  ASSUME MaxRecord \in Nat, None \notin Names!Record, None \notin Names!Flight,
         NameInv, Names!Next
  PROVE  NameInv'
  BY NameTypes, NameOrder, NameCallers DEF NameInv

LEMMA NameRest == NameInv /\ UNCHANGED names => NameInv'
  BY DEF names, NameInv, Names!TypeOK, FlightInv, EntryInv, CallersInv

(***************************************************************************)
(* The health check.                                                       *)
(***************************************************************************)

CheckInv == Check!TypeOK

LEMMA CheckInit == ASSUME MaxUpdate \in Nat PROVE Check!Init => CheckInv
<1> SUFFICES ASSUME Check!Init PROVE CheckInv
  OBVIOUS
<1>1. lazy \in BOOLEAN /\ touched \in BOOLEAN /\ starting \in BOOLEAN /\ recent \in BOOLEAN
  BY DEF Check!Init
<1>2. /\ nodes \subseteq Object /\ updates \in 0 .. MaxUpdate /\ tested \subseteq nodes
      /\ checking \in {None}
  BY DEF Check!Init
<1> QED
  BY <1>1, <1>2 DEF CheckInv, Check!TypeOK

\* A test counts only for the nodes that are there when it ends.
LEMMA CheckStep == ASSUME MaxUpdate \in Nat, CheckInv, Check!Next PROVE CheckInv'
<1> USE DEF CheckInv, Check!TypeOK
<1>1. ASSUME NEW list \in SUBSET Object, Check!SetProxies(list) PROVE CheckInv'
  BY <1>1 DEF Check!SetProxies
<1>2. CASE Check!StartedCheck \/ Check!UserCheck \/ Check!Tick
  <2>1. Check!Check \/ UNCHANGED checking
    BY <1>2 DEF Check!StartedCheck, Check!UserCheck, Check!Tick
  <2>2. checking' \in {None} \cup ((SUBSET Object) \ {{}})
    BY <2>1 DEF Check!Check
  <2>3. /\ UNCHANGED <<nodes, updates, lazy, recent, tested>>
        /\ touched' \in BOOLEAN /\ starting' \in BOOLEAN
    BY <1>2 DEF Check!StartedCheck, Check!UserCheck, Check!Tick
  <2> QED
    BY <2>2, <2>3
<1>3. CASE Check!Touch \/ Check!Checked \/ Check!Second
  BY <1>3 DEF Check!Touch, Check!Checked, Check!Second
<1> QED
  BY <1>1, <1>2, <1>3 DEF Check!Next

LEMMA CheckRest == CheckInv /\ UNCHANGED check => CheckInv'
  BY DEF check, CheckInv, Check!TypeOK

(***************************************************************************)
(* The parts side by side.                                                 *)
(***************************************************************************)

CoreInv == FakeInv /\ CircleInv /\ NameInv /\ GroupInv /\ CheckInv /\ FetchInv

LEMMA CoreInitial == Init => CoreInv
  BY CoreAssumption, FakeInit, CircleInit, NameInit, GroupInit, CheckInit, FetchInit
     DEF Init, CoreInv

\* The part that moves keeps its invariant, the others rest.
LEMMA CoreStep == CoreInv /\ [Next]_vars => CoreInv'
<1> SUFFICES ASSUME CoreInv, [Next]_vars PROVE CoreInv'
  OBVIOUS
<1> USE DEF CoreInv
<1>1. CASE InFake(Fake!Next)
  <2>1. FakeInv'
    BY <1>1, CoreAssumption, FakeStep DEF InFake, Fake!IP
  <2>2. CircleInv'
    BY <1>1, CoreAssumption, CircleStep DEF InFake, Fake!IP, FakeInv
  <2>3. UNCHANGED names /\ UNCHANGED group /\ UNCHANGED check /\ UNCHANGED fetch
    BY <1>1 DEF InFake
  <2> QED
    BY <2>1, <2>2, <2>3, NameRest, GroupRest, CheckRest, FetchRest
<1>2. CASE InNames(Names!Next)
  <2>1. NameInv'
    BY <1>2, CoreAssumption, NameStep DEF InNames, Names!Record, Names!Flight
  <2>2. UNCHANGED fake /\ UNCHANGED group /\ UNCHANGED check /\ UNCHANGED fetch
    BY <1>2 DEF InNames
  <2> QED
    BY <2>1, <2>2, FakeRest, CircleRest, GroupRest, CheckRest, FetchRest
<1>3. CASE InGroup(Group!Next)
  <2>1. GroupInv'
    BY <1>3, CoreAssumption, GroupStep DEF InGroup
  <2>2. UNCHANGED fake /\ UNCHANGED names /\ UNCHANGED check /\ UNCHANGED fetch
    BY <1>3 DEF InGroup
  <2> QED
    BY <2>1, <2>2, FakeRest, CircleRest, NameRest, CheckRest, FetchRest
<1>4. CASE InCheck(Check!Next)
  <2>1. CheckInv'
    BY <1>4, CoreAssumption, CheckStep DEF InCheck
  <2>2. UNCHANGED fake /\ UNCHANGED names /\ UNCHANGED group /\ UNCHANGED fetch
    BY <1>4 DEF InCheck
  <2> QED
    BY <2>1, <2>2, FakeRest, CircleRest, NameRest, GroupRest, FetchRest
<1>5. CASE InFetch(Fetch!Next)
  <2>1. FetchInv'
    BY <1>5, CoreAssumption, FetchStep DEF InFetch
  <2>2. UNCHANGED fake /\ UNCHANGED names /\ UNCHANGED group /\ UNCHANGED check
    BY <1>5 DEF InFetch
  <2> QED
    BY <2>1, <2>2, FakeRest, CircleRest, NameRest, GroupRest, CheckRest
<1>6. CASE UNCHANGED vars
  BY <1>6, FakeRest, CircleRest, NameRest, GroupRest, CheckRest, FetchRest DEF vars
<1> QED
  BY <1>1, <1>2, <1>3, <1>4, <1>5, <1>6 DEF Next

THEOREM CoreInvariant == FairSpec => []CoreInv
<1>1. Init => CoreInv
  BY CoreInitial
<1>2. CoreInv /\ [Next]_vars => CoreInv'
  BY CoreStep
<1> QED
  BY <1>1, <1>2, PTL DEF FairSpec

\* Every part keeps its types: no address outside the range is handed out, no node counts as tested
\* that the provider no longer has, and nothing is cached that no server ever held.
THEOREM TypeCorrect == FairSpec => []TypeOK
<1>1. FakeTypes /\ HistoryTypes => Fake!TypeOK
  BY DEF FakeTypes, HistoryTypes, Fake!TypeOK
<1>2. CoreInv => TypeOK
  BY <1>1 DEF CoreInv, FakeInv, CircleInv, NameInv, GroupInv, CheckInv, FetchInv, TypeOK
<1> QED
  BY <1>2, CoreInvariant, PTL

\* Whatever configurations are parsed, applied, dropped or lost in a crash, a host's fake address
\* is filed under that host, as long as no two lookups, and no lookup and flush, overlapped.
THEOREM FakeAddressesLeadBack == FairSpec => []AnswersLeadBack
<1>1. CoreInv => AnswersLeadBack
  BY DEF CoreInv, FakeInv, AnswersLeadBack
<1> QED
  BY <1>1, CoreInvariant, PTL

\* For a range of any size: an address is taken from its host only when all are in use, and then it
\* is the one handed out longest ago, whatever was parsed, applied or lost in a crash before, unless
\* lookups ran during a reload or a pool was dropped that may have emptied the bucket.
THEOREM OldestFirst == FairSpec => OldestIsReused
<1>1. CoreInv => [\A ip \in Fake!IP :
                    /\ \E c \in Client : Fake!DelByIP(c)
                    /\ hostOf[ip] # None /\ hostOf'[ip] = None /\ ~mixed
                    => \A other \in Fake!IP \ {ip} : <<ip, other>> \in before]_Fake!vars
  BY CoreAssumption, CircleReuse DEF CoreInv, FakeInv, Fake!IP
<1> QED
  BY <1>1, CoreInvariant, PTL DEF OldestIsReused, Fake!OldestIsReused

\* However queries, background fetches and retries share exchanges or give up on them, nobody is
\* answered with an older record than anybody before.
THEOREM AnswersOnlyGetNewer == FairSpec => []AnswersNeverGoBack
<1>1. NameInv => AnswersNeverGoBack
  BY DEF NameInv, FlightInv, EntryInv, AnswersNeverGoBack, Names!AnswersNeverGoBack
<1>2. CoreInv => AnswersNeverGoBack
  BY <1>1 DEF CoreInv
<1> QED
  BY <1>2, CoreInvariant, PTL

\* However many dialers refresh the cache and updates replace the list, a list that is filed under
\* the provider's version is the provider's list, so that it is never stale for good.
THEOREM ListUnderItsVersion == FairSpec => []CacheIsCurrent
<1>1. CoreInv => CacheIsCurrent
  BY DEF CoreInv, GroupInv, CacheIsCurrent
<1> QED
  BY <1>1, CoreInvariant, PTL

\* Between two selections no answer is kept that was chosen without the one in force.
THEOREM ChoiceSawSelection == FairSpec => []SelectionIsKnown
<1>1. CoreInv => SelectionIsKnown
  BY DEF CoreInv, GroupInv, SelectionIsKnown
<1> QED
  BY <1>1, CoreInvariant, PTL

\* Nobody waits for a call that has ended, in spite of resets, retries and queries that give up: a
\* dialer waits for one that is at work, a goroutine of the resolver for an exchange that runs.
THEOREM NobodyWaitsInVain == FairSpec => [](WaitInv /\ CallersInv)
<1>1. CoreInv => WaitInv /\ CallersInv
  BY DEF CoreInv, GroupInv, NameInv
<1> QED
  BY <1>1, CoreInvariant, PTL

\* What a provider shows is what its file holds, or the last write broke off, unless a former
\* fetcher wrote the file or an import was under way when the content was shown.
THEOREM ShownIsInFile == FairSpec => []FileKeepsShown
<1>1. CoreInv => FileKeepsShown
  BY DEF CoreInv, FetchInv, FileKeepsShown
<1> QED
  BY <1>1, CoreInvariant, PTL

\* An update that reports no change shows the content that the server confirmed, for any number
\* of updaters.
THEOREM NoChangeIsTrue == FairSpec => ConfirmedIsShown
<1>1. CoreInv => [\A u \in Fetch!Updater :
                    Fetch!At(u, "load") /\ update'[u] = Fetch!Idle /\ loaded' /\ hash = update[u].hash
                      => shown = update[u].had]_Fetch!vars
  BY DEF CoreInv, FetchInv, HashInv, Fetch!At
<1> QED
  BY <1>1, CoreInvariant, PTL DEF ConfirmedIsShown, Fetch!ConfirmedIsShown
=============================================================================
