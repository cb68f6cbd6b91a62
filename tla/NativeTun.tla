------------------------------ MODULE NativeTun ------------------------------
(***************************************************************************)
(* The life of a TUN device and of the Java callback that protects its     *)
(* sockets: startTun and stopTun under rTunLock, the dialers of the core   *)
(* that reach the callback through the context in native/app/tun.go, and   *)
(* the weighted semaphore of each remoteTun that keeps the two apart.      *)
(***************************************************************************)
EXTENDS Naturals, Sequences, FiniteSets

CONSTANTS
  Control,  \* the threads that call startTun and stopTun
  Dialer,   \* the goroutines that open sockets
  Remote,   \* the remoteTun values, one per startTun
  Limit,    \* the size of the semaphore (4 in the code)
  Nobody    \* no thread, no remoteTun

ASSUME LimitAssumption == Limit \in Nat \ {0}

ASSUME NamesAssumption ==
  /\ Control \cap Dialer = {}
  /\ Nobody \notin Control \cup Dialer \cup Remote

VARIABLES
  mutex,     \* who holds rTunLock
  rTun,      \* the installed remoteTun
  context,   \* the remoteTun behind markSocketImpl and querySocketUidImpl
  callback,  \* the global reference each remoteTun was given
  closed,    \* the closed field of each remoteTun
  holders,   \* per remoteTun, the threads that have permits of its semaphore
  line,      \* per remoteTun, the threads that wait for permits, first come first
  pc,
  fresh,     \* the new remoteTun of a control thread in startTun; Nobody in stopTun
  at         \* the remoteTun a thread works on

global == <<mutex, rTun, context>>
remotes == <<callback, closed, holders, line>>
threads == <<pc, fresh, at>>
vars == <<global, remotes, threads>>

Thread == Control \cup Dialer

TypeOK ==
  /\ mutex \in Control \cup {Nobody}
  /\ rTun \in Remote \cup {Nobody}
  /\ context \in Remote \cup {Nobody}
  /\ callback \in [Remote -> {"none", "live", "deleted"}]
  /\ closed \in [Remote -> BOOLEAN]
  /\ holders \in [Remote -> SUBSET Thread]
  /\ line \in [Remote -> Seq(Thread)]
  /\ pc \in [Thread -> {"idle", "lock", "acquire", "wait", "drop", "delete", "leave",
                        "install", "open", "call"}]
  /\ fresh \in [Control -> Remote \cup {Nobody}]
  /\ at \in [Thread -> Remote \cup {Nobody}]
  /\ \A t \in Thread : at[t] = Nobody => pc[t] \in {"idle", "lock"}

Init ==
  /\ mutex = Nobody /\ rTun = Nobody /\ context = Nobody
  /\ callback = [r \in Remote |-> "none"]
  /\ closed = [r \in Remote |-> FALSE]
  /\ holders = [r \in Remote |-> {}]
  /\ line = [r \in Remote |-> <<>>]
  /\ pc = [t \in Thread |-> "idle"]
  /\ fresh = [c \in Control |-> Nobody]
  /\ at = [t \in Thread |-> Nobody]

Goto(t, label) == pc' = [pc EXCEPT ![t] = label]

(***************************************************************************)
(* semaphore.Weighted: a dialer takes one permit, a closer all of them     *)
(***************************************************************************)

FreePermits(hs) == IF hs \cap Control # {} THEN 0 ELSE Limit - Cardinality(hs)

(* The first n of the waiting threads q fit beside the holders hs *)
Fits(q, hs, n) ==
  \/ n = 0
  \/ (\A i \in 1 .. n : q[i] \in Dialer) /\ n <= FreePermits(hs)
  \/ n = 1 /\ q[1] \in Control /\ hs = {}

(* notifyWaiters admits the waiting threads in order, until one does not fit; Acquire, which    *)
(* succeeds at once only when nobody waits, is the same for a queue of one.                     *)
Admit(r, q, hs) ==
  \E n \in 0 .. Len(q) :
    /\ Fits(q, hs, n)
    /\ \A m \in 0 .. Len(q) : Fits(q, hs, m) => m <= n
    /\ holders' = [holders EXCEPT ![r] = hs \cup {q[i] : i \in 1 .. n}]
    /\ line' = [line EXCEPT ![r] = SubSeq(q, n + 1, Len(q))]

Acquire(t) ==
  /\ pc[t] = "acquire"
  /\ Goto(t, "wait")
  /\ Admit(at[t], Append(line[at[t]], t), holders[at[t]])
  /\ UNCHANGED <<global, callback, closed, fresh, at>>

Admitted(t) == pc[t] = "wait" /\ t \in holders[at[t]]

Release(t) == Admit(at[t], line[at[t]], holders[at[t]] \ {t})

(***************************************************************************)
(* Dialers: MarkSocket and QuerySocketUid                                  *)
(***************************************************************************)

(* The hook of the dialer reads the installed function; with none installed it does nothing *)
Hook(d) ==
  /\ pc[d] = "idle"
  /\ context # Nobody
  /\ at' = [at EXCEPT ![d] = context]
  /\ Goto(d, "acquire")
  /\ UNCHANGED <<global, remotes, fresh>>

(* Mutant: the closed field is not looked at *)
EnterCallUnchecked(d) ==
  /\ Admitted(d)
  /\ Goto(d, "call")
  /\ UNCHANGED <<global, remotes, fresh, at>>

(* The remoteTun is still open: call Java *)
EnterCall(d) ==
  /\ Admitted(d)
  /\ ~closed[at[d]]
  /\ Goto(d, "call")
  /\ UNCHANGED <<global, remotes, fresh, at>>

(* Mutant: the early return comes before the deferred release *)
TurnAwayWithPermit(d) ==
  /\ Admitted(d)
  /\ closed[at[d]]
  /\ Goto(d, "idle")
  /\ at' = [at EXCEPT ![d] = Nobody]
  /\ UNCHANGED <<global, remotes, fresh>>

(* The remoteTun has been closed meanwhile: give the permit back *)
TurnAway(d) ==
  /\ Admitted(d)
  /\ closed[at[d]]
  /\ Release(d)
  /\ Goto(d, "idle")
  /\ at' = [at EXCEPT ![d] = Nobody]
  /\ UNCHANGED <<global, callback, closed, fresh>>

ReturnFromCall(d) ==
  /\ pc[d] = "call"
  /\ Release(d)
  /\ Goto(d, "idle")
  /\ at' = [at EXCEPT ![d] = Nobody]
  /\ UNCHANGED <<global, callback, closed, fresh>>

(***************************************************************************)
(* startTun and stopTun                                                    *)
(***************************************************************************)

(* nativeStartTun makes the global reference before it calls startTun *)
CallStart(c, r) ==
  /\ pc[c] = "idle" /\ callback[r] = "none"
  /\ callback' = [callback EXCEPT ![r] = "live"]
  /\ fresh' = [fresh EXCEPT ![c] = r]
  /\ Goto(c, "lock")
  /\ UNCHANGED <<global, closed, holders, line, at>>

CallStop(c) ==
  /\ pc[c] = "idle"
  /\ Goto(c, "lock")
  /\ UNCHANGED <<global, remotes, fresh, at>>

Return(c) ==
  /\ mutex' = Nobody
  /\ Goto(c, "idle")
  /\ fresh' = [fresh EXCEPT ![c] = Nobody]
  /\ at' = [at EXCEPT ![c] = Nobody]

(* Mutant: rTun is not compared with nil *)
LockToCloseNil(c) ==
  /\ pc[c] = "lock" /\ mutex = Nobody
  /\ mutex' = c
  /\ at' = [at EXCEPT ![c] = rTun]
  /\ Goto(c, "acquire")
  /\ UNCHANGED <<rTun, context, remotes, fresh>>

(* With a device up, both begin by closing it *)
LockToClose(c) ==
  /\ pc[c] = "lock" /\ mutex = Nobody /\ rTun # Nobody
  /\ mutex' = c
  /\ at' = [at EXCEPT ![c] = rTun]
  /\ Goto(c, "acquire")
  /\ UNCHANGED <<rTun, context, remotes, fresh>>

LockToInstall(c) ==
  /\ pc[c] = "lock" /\ mutex = Nobody /\ rTun = Nobody /\ fresh[c] # Nobody
  /\ mutex' = c
  /\ at' = [at EXCEPT ![c] = fresh[c]]
  /\ Goto(c, "install")
  /\ UNCHANGED <<rTun, context, remotes, fresh>>

NothingToStop(c) ==
  /\ pc[c] = "lock" /\ mutex = Nobody /\ rTun = Nobody /\ fresh[c] = Nobody
  /\ Goto(c, "idle")
  /\ UNCHANGED <<global, remotes, fresh, at>>

(* close, with every permit: closed is set and the device is closed ... *)
MarkClosed(c) ==
  /\ c \in Control /\ Admitted(c)
  /\ closed' = [closed EXCEPT ![at[c]] = TRUE]
  /\ Goto(c, "drop")
  /\ UNCHANGED <<global, callback, holders, line, fresh, at>>

(* ... ApplyTunContext(nil, nil) ... *)
DropContext(c) ==
  /\ pc[c] = "drop"
  /\ context' = Nobody
  /\ Goto(c, "delete")
  /\ UNCHANGED <<mutex, rTun, remotes, fresh, at>>

(* ... release_object(callback) ... *)
DeleteCallback(c) ==
  /\ pc[c] = "delete"
  /\ callback' = [callback EXCEPT ![at[c]] = "deleted"]
  /\ Goto(c, "leave")
  /\ UNCHANGED <<global, closed, holders, line, fresh, at>>

(* ... and the permits are given back. startTun goes on to its own device if it has just closed  *)
(* the old one; stopTun, and a startTun that could not open its device, return.                  *)
LeaveToInstall(c) ==
  /\ pc[c] = "leave" /\ fresh[c] \notin {Nobody, at[c]}
  /\ Release(c)
  /\ rTun' = Nobody
  /\ at' = [at EXCEPT ![c] = fresh[c]]
  /\ Goto(c, "install")
  /\ UNCHANGED <<mutex, context, callback, closed, fresh>>

LeaveAndReturn(c) ==
  /\ pc[c] = "leave" /\ fresh[c] \in {Nobody, at[c]}
  /\ Release(c)
  /\ rTun' = Nobody
  /\ Return(c)
  /\ UNCHANGED <<context, callback, closed>>

(* ApplyTunContext with the new callback, before the device is open *)
Install(c) ==
  /\ pc[c] = "install"
  /\ context' = fresh[c]
  /\ Goto(c, "open")
  /\ UNCHANGED <<mutex, rTun, remotes, fresh, at>>

(* tun.Start succeeds *)
Opened(c) ==
  /\ pc[c] = "open"
  /\ rTun' = fresh[c]
  /\ Return(c)
  /\ UNCHANGED <<context, remotes>>

(* Mutant: tun.Start fails and startTun only returns *)
OpenFailedReturns(c) ==
  /\ pc[c] = "open"
  /\ Return(c)
  /\ UNCHANGED <<rTun, context, remotes>>

(* tun.Start fails: the new remoteTun is closed like an old one *)
OpenFailed(c) ==
  /\ pc[c] = "open"
  /\ Goto(c, "acquire")
  /\ UNCHANGED <<global, remotes, fresh, at>>

DialerStep(d) == Acquire(d) \/ EnterCall(d) \/ TurnAway(d) \/ ReturnFromCall(d)

ControlStep(c) ==
  \/ LockToClose(c) \/ LockToInstall(c) \/ NothingToStop(c)
  \/ Acquire(c) \/ MarkClosed(c) \/ DropContext(c) \/ DeleteCallback(c)
  \/ LeaveToInstall(c) \/ LeaveAndReturn(c)
  \/ Install(c) \/ Opened(c) \/ OpenFailed(c)

Next ==
  \/ \E d \in Dialer : Hook(d) \/ DialerStep(d)
  \/ \E c \in Control :
       \/ ControlStep(c)
       \/ CallStop(c)
       \/ \E r \in Remote : CallStart(c, r)

Spec == Init /\ [][Next]_vars

(* Threads that are in the middle of something are scheduled, Java returns from its callbacks,   *)
(* and a Go mutex hands over to a waiter that starves. Nobody has to open a socket or a device.  *)
FairSpec ==
  /\ Spec
  /\ \A d \in Dialer : WF_vars(DialerStep(d))
  /\ \A c \in Control : SF_vars(ControlStep(c))

(***************************************************************************)
(* Properties                                                              *)
(***************************************************************************)

(* The threads inside a Java call through each callback *)
Callers == [r \in Remote |-> {d \in Dialer : pc[d] = "call" /\ at[d] = r}]

References == INSTANCE GlobalRef WITH Ref <- Remote, User <- Dialer, ref <- callback, calls <- Callers

(* However startTun, stopTun and dialers with a stale function value interleave, each callback   *)
(* is used only while its global reference is live, and the reference is deleted once.           *)
UsesReferences == References!Spec

(* Between two calls of startTun and stopTun, the dialers reach the callback of the device that  *)
(* is installed and of no other, and every other callback that was handed over is deleted: none  *)
(* leaks, not even when a device could not be opened.                                            *)
NothingLeaks ==
  mutex = Nobody =>
    /\ context = rTun
    /\ \A r \in Remote :
         callback[r] = "live" => r = rTun \/ \E c \in Control : fresh[c] = r /\ pc[c] = "lock"

(* A closer waits for every permit while dialers keep coming: the queue of the semaphore lets it *)
(* through, and nobody who waits behind it waits for ever.                                       *)
EveryCallReturns ==
  /\ \A c \in Control : pc[c] = "lock" ~> pc[c] = "idle"
  /\ \A d \in Dialer : pc[d] = "acquire" ~> pc[d] = "idle"
=============================================================================
