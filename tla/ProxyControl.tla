---------------------------- MODULE ProxyControl ----------------------------
(***************************************************************************)
(* The on/off switch of the TV proxy: the coroutines that ProxyService     *)
(* launches for the intents START, STOP and IMPORT, the steps of           *)
(* ProxyManager they run, the native goroutines they wait for, the owner   *)
(* of TCP port 7890, the keys of Settings.Global that route the whole TV   *)
(* through that port, and what survives the death of the app's process.    *)
(*                                                                         *)
(* One step of a coroutine is what it does between two points where        *)
(* another thread can see or change the state it uses.                     *)
(***************************************************************************)
EXTENDS Naturals

CONSTANTS
  Task,     \* the coroutines (and their goroutines) that may be in flight at once
  Command,  \* the intents that arrive
  NKeys,    \* how many keys setSystemProxy writes, in order (5 in the code)
  Working   \* the profiles that load, by the listener their configuration puts on 7890

Kind == {"START", "STOP", "IMPORT"}

ASSUME CommandAssumption == Command \subseteq Kind

ASSUME NKeysAssumption == NKeys \in Nat \ {0}

ASSUME WorkingAssumption == Working \subseteq {"http", "mixed", "plain"}

Key == 1 .. NKeys

VARIABLES
  svc,        \* the service: "none", "up", or "stopping" (stopSelf called, onDestroy due)
  kind,       \* the intent each coroutine serves
  pc,         \* where each coroutine is
  idx,        \* the key a coroutine writes or clears next
  cancelled,  \* the coroutine's service instance was destroyed
  stage,      \* where the goroutine that a coroutine started is
  want,       \* the profile that goroutine has read
  keys,       \* the keys of Settings.Global that hold a value
  httpStarted,
  owner,      \* who listens on port 7890
  profile,    \* what is on disk under profile.yaml
  granted,    \* WRITE_SECURE_SETTINGS has been granted over adb
  answer,     \* the last of "on", "off", "failed" that updateStatus announced
  solo,       \* auxiliary: the last START or STOP has no other one beside it ("running"), ended
              \* without ever having had one ("yes"), or neither ("no")
  dirty,      \* auxiliary: a key was written since the coroutine began its second clear
  wanted      \* auxiliary: the last START or STOP that arrived was a START

control  == <<svc, kind, pc, idx, cancelled>>
native   == <<stage, want, profile>>
route    == <<keys, httpStarted, owner, granted, answer>>
history  == <<solo, dirty, wanted>>
vars     == <<control, native, route, history>>

Profile  == Working \cup {"absent", "broken"}
Clearing == {"clear2", "finish"}

TypeOK ==
  /\ svc \in {"none", "up", "stopping"}
  /\ kind \in [Task -> Command \cup {"none"}]
  /\ pc \in [Task -> {"idle", "queued", "await", "leave", "release", "bind", "flag", "write",
                      "report", "clear1", "readFlag", "stopHttp", "unflag", "clear2", "finish"}]
  /\ idx \in [Task -> Key]
  /\ cancelled \in [Task -> BOOLEAN]
  /\ stage \in [Task -> {"none", "read", "http", "mixed", "open", "copy", "verify", "ok", "err"}]
  /\ want \in [Task -> Working \cup {"none"}]
  /\ keys \in SUBSET Key
  /\ httpStarted \in BOOLEAN
  /\ owner \in {"free", "native", "http", "mixed", "foreign"}
  /\ profile \in Profile
  /\ granted \in BOOLEAN
  /\ answer \in {"none", "on", "off", "failed"}
  /\ solo \in {"no", "running", "yes"}
  /\ dirty \in [Task -> BOOLEAN]
  /\ wanted \in BOOLEAN

(* The app's process has just been created. An earlier life of it may have left the settings   *)
(* written and a profile on disk, and another app may hold the port.                           *)
Init ==
  /\ svc = "none"
  /\ kind = [t \in Task |-> "none"]
  /\ pc = [t \in Task |-> "idle"]
  /\ idx = [t \in Task |-> 1]
  /\ cancelled = [t \in Task |-> FALSE]
  /\ stage = [t \in Task |-> "none"]
  /\ want = [t \in Task |-> "none"]
  /\ keys = {}
  /\ httpStarted = FALSE
  /\ owner \in {"free", "foreign"}
  /\ profile \in Profile
  /\ granted \in BOOLEAN
  /\ answer = "none"
  /\ solo = "no"
  /\ dirty = [t \in Task |-> FALSE]
  /\ wanted = FALSE

(* No command is in flight, no goroutine of one is left, and the service is up or gone for good *)
Quiet ==
  /\ \A t \in Task : pc[t] = "idle" /\ stage[t] = "none"
  /\ svc # "stopping"

(* t is turning the proxy on or off *)
Switching(t) == kind[t] \in {"START", "STOP"}

Goto(t, label) == pc' = [pc EXCEPT ![t] = label]

(* The coroutine is over *)
End(t) ==
  /\ Goto(t, "idle")
  /\ kind' = [kind EXCEPT ![t] = "none"]
  /\ cancelled' = [cancelled EXCEPT ![t] = FALSE]

SwitchEnds == solo' = IF solo = "running" THEN "yes" ELSE solo

Release7890(who) == IF owner = who THEN "free" ELSE owner

(***************************************************************************)
(* The service's main thread                                               *)
(***************************************************************************)

(* onStartCommand for START and STOP, and for IMPORT when a subscription address is stored:     *)
(* the service is created if it is not there and a coroutine is launched in its scope.          *)
OnStartCommand(t, k) ==
  /\ pc[t] = "idle" /\ stage[t] = "none"
  /\ svc' = IF svc = "none" THEN "up" ELSE svc
  /\ kind' = [kind EXCEPT ![t] = k]
  /\ Goto(t, "queued")
  /\ solo' = IF k = "IMPORT" THEN solo
             ELSE IF \E u \in Task : Switching(u) THEN "no" ELSE "running"
  /\ wanted' = IF k = "IMPORT" THEN wanted ELSE k = "START"
  /\ UNCHANGED <<idx, cancelled, native, route, dirty>>

(* IMPORT with no subscription address: the service leaves at once unless the proxy is running *)
ImportWithoutUrl ==
  /\ "IMPORT" \in Command
  /\ svc' = IF httpStarted THEN (IF svc = "none" THEN "up" ELSE svc) ELSE "stopping"
  /\ UNCHANGED <<kind, pc, idx, cancelled, native, route, history>>

(* onDestroy: job.cancel() reaches every coroutine of this service that has not ended          *)
OnDestroy ==
  /\ svc = "stopping"
  /\ svc' = "none"
  /\ cancelled' = [t \in Task |-> pc[t] # "idle"]
  /\ UNCHANGED <<kind, pc, idx, native, route, history>>

(* stopSelf() stops the service whatever else it is doing, but only the instance that calls it *)
StopSelf(t) == svc' = IF cancelled[t] THEN svc ELSE "stopping"

(***************************************************************************)
(* The coroutines: from the launch to the answer of the native side        *)
(***************************************************************************)

(* A coroutine cancelled before its first step never runs *)
NeverRun(t) ==
  /\ pc[t] = "queued" /\ cancelled[t]
  /\ End(t)
  /\ solo' = IF Switching(t) THEN "no" ELSE solo
  /\ UNCHANGED <<svc, idx, native, route, dirty, wanted>>

(* START with a profile on disk: Clash.load starts a goroutine, await suspends *)
BeginLoad(t) ==
  /\ pc[t] = "queued" /\ ~cancelled[t] /\ kind[t] = "START"
  /\ profile # "absent"
  /\ Goto(t, "await")
  /\ stage' = [stage EXCEPT ![t] = "read"]
  /\ UNCHANGED <<svc, kind, idx, cancelled, want, profile, route, history>>

(* IMPORT: Clash.fetchAndValid starts a goroutine, await suspends *)
BeginFetch(t) ==
  /\ pc[t] = "queued" /\ ~cancelled[t] /\ kind[t] = "IMPORT"
  /\ Goto(t, "await")
  /\ stage' = [stage EXCEPT ![t] = "open"]
  /\ UNCHANGED <<svc, kind, idx, cancelled, want, profile, route, history>>

(* STOP, or START with no profile on disk: straight to ProxyManager.stop *)
BeginStop(t) ==
  /\ pc[t] = "queued" /\ ~cancelled[t]
  /\ \/ kind[t] = "STOP"
     \/ kind[t] = "START" /\ profile = "absent"
  /\ Goto(t, "clear1")
  /\ idx' = [idx EXCEPT ![t] = 1]
  /\ UNCHANGED <<svc, kind, cancelled, native, route, history>>

(* START resumes with the loaded configuration. A result that was there before await was       *)
(* called is taken even if the job has been cancelled since.                                   *)
LoadedOk(t) ==
  /\ pc[t] = "await" /\ kind[t] = "START" /\ stage[t] = "ok"
  /\ Goto(t, "release")
  /\ stage' = [stage EXCEPT ![t] = "none"]
  /\ UNCHANGED <<svc, kind, idx, cancelled, want, profile, route, history>>

(* START resumes with an error of the loader or with its cancellation: into the catch block.   *)
(* The goroutine itself cannot be cancelled and goes on.                                       *)
LoadFailed(t) ==
  /\ pc[t] = "await" /\ kind[t] = "START"
  /\ stage[t] = "err" \/ cancelled[t]
  /\ Goto(t, "clear1")
  /\ idx' = [idx EXCEPT ![t] = 1]
  /\ stage' = [stage EXCEPT ![t] = IF @ \in {"ok", "err"} THEN "none" ELSE @]
  /\ UNCHANGED <<svc, kind, cancelled, want, profile, route, history>>

(* IMPORT resumes, with success, error or cancellation, and asks isRunning() *)
FetchAnswered(t) ==
  /\ pc[t] = "await" /\ kind[t] = "IMPORT"
  /\ stage[t] \in {"ok", "err"} \/ cancelled[t]
  /\ stage' = [stage EXCEPT ![t] = IF @ \in {"ok", "err"} THEN "none" ELSE @]
  /\ \/ httpStarted /\ End(t)
     \/ ~httpStarted /\ Goto(t, "leave") /\ UNCHANGED <<kind, cancelled>>
  /\ UNCHANGED <<svc, idx, want, profile, route, history>>

(* ... and stops the service if the proxy was not running when it asked *)
ImportLeaves(t) ==
  /\ pc[t] = "leave"
  /\ StopSelf(t)
  /\ End(t)
  /\ UNCHANGED <<idx, native, route, history>>

(***************************************************************************)
(* The coroutines: ProxyManager.start after the load                       *)
(***************************************************************************)

NativeLockFree == \A t \in Task : pc[t] # "bind"

(* startHttp takes the native lock and closes the listener it may already have *)
CloseOld(t) ==
  /\ pc[t] = "release" /\ NativeLockFree
  /\ owner' = Release7890("native")
  /\ Goto(t, "bind")
  /\ UNCHANGED <<svc, kind, idx, cancelled, native, keys, httpStarted, granted, answer, history>>

(* The bind succeeds: Go returns the address it listens on, and ProxyManager takes every       *)
(* non-null result of startHttp for an error message.                                          *)
BindOk(t) ==
  /\ pc[t] = "bind" /\ owner = "free"
  /\ owner' = "native"
  /\ Goto(t, "clear1")
  /\ idx' = [idx EXCEPT ![t] = 1]
  /\ UNCHANGED <<svc, kind, cancelled, native, keys, httpStarted, granted, answer, history>>

(* The bind fails, the port is taken: Go returns nil, and ProxyManager goes on *)
BindFails(t) ==
  /\ pc[t] = "bind" /\ owner # "free"
  /\ Goto(t, "flag")
  /\ UNCHANGED <<svc, kind, idx, cancelled, native, route, history>>

SetFlag(t) ==
  /\ pc[t] = "flag"
  /\ httpStarted' = TRUE
  /\ Goto(t, "write")
  /\ idx' = [idx EXCEPT ![t] = 1]
  /\ UNCHANGED <<svc, kind, cancelled, native, keys, owner, granted, answer, history>>

(* Mutant: setSystemProxy counts one key too far *)
WriteKeyOverrun(t) ==
  /\ pc[t] = "write" /\ granted
  /\ keys' = keys \cup {idx[t]}
  /\ Goto(t, IF idx[t] = NKeys THEN "report" ELSE "write")
  /\ idx' = [idx EXCEPT ![t] = @ + 1]
  /\ dirty' = [u \in Task |-> dirty[u] \/ pc[u] \in Clearing]
  /\ UNCHANGED <<svc, kind, cancelled, native, httpStarted, owner, granted, answer, solo, wanted>>

(* setSystemProxy writes its keys one call after the other *)
WriteKey(t) ==
  /\ pc[t] = "write" /\ granted
  /\ keys' = keys \cup {idx[t]}
  /\ Goto(t, IF idx[t] = NKeys THEN "report" ELSE "write")
  /\ idx' = [idx EXCEPT ![t] = IF @ = NKeys THEN 1 ELSE @ + 1]
  /\ dirty' = [u \in Task |-> dirty[u] \/ pc[u] \in Clearing]
  /\ UNCHANGED <<svc, kind, cancelled, native, httpStarted, owner, granted, answer, solo, wanted>>

(* Without the permission the first putString throws a SecurityException *)
WriteDenied(t) ==
  /\ pc[t] = "write" /\ ~granted
  /\ Goto(t, "clear1")
  /\ idx' = [idx EXCEPT ![t] = 1]
  /\ UNCHANGED <<svc, kind, cancelled, native, route, history>>

(* The status "on"; the selected node is then restored, which touches none of this state *)
ReportOn(t) ==
  /\ pc[t] = "report"
  /\ answer' = "on"
  /\ End(t)
  /\ SwitchEnds
  /\ UNCHANGED <<svc, idx, native, keys, httpStarted, owner, granted, dirty, wanted>>

(***************************************************************************)
(* The coroutines: ProxyManager.stop                                       *)
(***************************************************************************)

(* clearSystemProxy: one putString(null) per key, given up at the first refusal *)
ClearKey(t, here, next) ==
  /\ pc[t] = here
  /\ keys' = IF granted THEN keys \ {idx[t]} ELSE keys
  /\ LET last == idx[t] = NKeys \/ ~granted
     IN  /\ Goto(t, IF last THEN next ELSE here)
         /\ idx' = [idx EXCEPT ![t] = IF last THEN 1 ELSE @ + 1]
  /\ UNCHANGED <<svc, kind, cancelled, native, httpStarted, owner, granted, answer, history>>

ClearFirst(t)  == ClearKey(t, "clear1", "readFlag")
ClearSecond(t) == ClearKey(t, "clear2", "finish")

(* Mutant: stop() clears the settings once, as they were cleared a moment ago *)
ReadFlagAndFinish(t) ==
  /\ pc[t] = "readFlag"
  /\ Goto(t, IF httpStarted THEN "stopHttp" ELSE "finish")
  /\ dirty' = [dirty EXCEPT ![t] = FALSE]
  /\ UNCHANGED <<svc, kind, idx, cancelled, native, route, solo, wanted>>

(* if (httpStarted) of stop() *)
ReadFlag(t) ==
  /\ pc[t] = "readFlag"
  /\ Goto(t, IF httpStarted THEN "stopHttp" ELSE "clear2")
  /\ dirty' = [dirty EXCEPT ![t] = FALSE]
  /\ UNCHANGED <<svc, kind, idx, cancelled, native, route, solo, wanted>>

StopHttp(t) ==
  /\ pc[t] = "stopHttp" /\ NativeLockFree
  /\ owner' = Release7890("native")
  /\ Goto(t, "unflag")
  /\ UNCHANGED <<svc, kind, idx, cancelled, native, keys, httpStarted, granted, answer, history>>

(* Mutant: the flag survives the listener *)
KeepFlag(t) ==
  /\ pc[t] = "unflag"
  /\ Goto(t, "clear2")
  /\ UNCHANGED <<svc, kind, idx, cancelled, native, route, history>>

ResetFlag(t) ==
  /\ pc[t] = "unflag"
  /\ httpStarted' = FALSE
  /\ Goto(t, "clear2")
  /\ UNCHANGED <<svc, kind, idx, cancelled, native, keys, owner, granted, answer, history>>

(* STOP announces "off", a failed START "failed"; both stop the service *)
Finish(t) ==
  /\ pc[t] = "finish"
  /\ answer' = IF kind[t] = "STOP" THEN "off" ELSE "failed"
  /\ StopSelf(t)
  /\ End(t)
  /\ SwitchEnds
  /\ UNCHANGED <<idx, native, keys, httpStarted, owner, granted, dirty, wanted>>

(***************************************************************************)
(* The native goroutines                                                   *)
(***************************************************************************)

(* Mutant: an error completes nothing *)
CompleteOnSuccess(t, result) ==
  stage' = [stage EXCEPT ![t] = IF pc[t] = "await" /\ result = "ok" THEN "ok" ELSE "none"]

(* A goroutine completes the deferred it was given; nobody may be waiting for it any more *)
Complete(t, result) == stage' = [stage EXCEPT ![t] = IF pc[t] = "await" THEN result ELSE "none"]

(* config.Load reads and parses what is on disk at this moment *)
LoadRead(t) ==
  /\ stage[t] = "read"
  /\ IF profile \in Working
     THEN /\ stage' = [stage EXCEPT ![t] = "http"]
          /\ want' = [want EXCEPT ![t] = profile]
     ELSE Complete(t, "err") /\ UNCHANGED want
  /\ UNCHANGED <<control, profile, route, history>>

(* A listener of the configuration is kept, closed, or opened if the port is free *)
ReCreate(t, listener) ==
  owner' = IF want[t] = listener
           THEN IF owner = "free" THEN listener ELSE owner
           ELSE Release7890(listener)

(* executor.ApplyConfig, under its mutex: ReCreateHTTP ... *)
ApplyHttp(t) ==
  /\ stage[t] = "http"
  /\ \A u \in Task : stage[u] # "mixed"
  /\ ReCreate(t, "http")
  /\ stage' = [stage EXCEPT ![t] = "mixed"]
  /\ UNCHANGED <<control, want, profile, keys, httpStarted, granted, answer, history>>

(* ... then ReCreateMixed; a bind that fails is only logged, the load succeeds *)
ApplyMixed(t) ==
  /\ stage[t] = "mixed"
  /\ ReCreate(t, "mixed")
  /\ Complete(t, "ok")
  /\ want' = [want EXCEPT ![t] = "none"]
  /\ UNCHANGED <<control, profile, keys, httpStarted, granted, answer, history>>

(* fetch: the address cannot be opened, or the old file is truncated and the copy begins *)
FetchOpen(t) ==
  /\ stage[t] = "open"
  /\ \/ Complete(t, "err") /\ UNCHANGED profile
     \/ stage' = [stage EXCEPT ![t] = "copy"] /\ profile' = "broken"
  /\ UNCHANGED <<control, want, route, history>>

(* The copy has written a part, which may already be a profile by itself, or it ends: with any   *)
(* content, or with an error that removes the file.                                             *)
FetchCopy(t) ==
  /\ stage[t] = "copy"
  /\ \/ UNCHANGED stage /\ profile' \in Working \cup {"broken"}
     \/ Complete(t, "err") /\ profile' = "broken"
     \/ stage' = [stage EXCEPT ![t] = "verify"] /\ profile' \in Working \cup {"broken"}
  /\ UNCHANGED <<control, want, route, history>>

(* FetchAndValid parses the file as it is now *)
FetchVerify(t) ==
  /\ stage[t] = "verify"
  /\ Complete(t, IF profile = "broken" THEN "err" ELSE "ok")
  /\ UNCHANGED <<control, want, profile, route, history>>

(***************************************************************************)
(* The environment                                                         *)
(***************************************************************************)

(* Another app takes port 7890 or gives it back *)
ForeignApp ==
  /\ \/ owner = "free" /\ owner' = "foreign"
     \/ owner = "foreign" /\ owner' = "free"
  /\ UNCHANGED <<control, native, keys, httpStarted, granted, answer, history>>

(* adb shell pm grant, with the app running *)
Grant ==
  /\ ~granted
  /\ granted' = TRUE
  /\ solo' = "no"
  /\ dirty' = [t \in Task |-> dirty[t] \/ pc[t] \in Clearing]
  /\ UNCHANGED <<control, native, keys, httpStarted, owner, answer, wanted>>

(* The process is killed, the permission is revoked (which kills it), or the TV restarts. The   *)
(* settings and the disk survive; START_NOT_STICKY brings nothing back by itself.               *)
ProcessDeath ==
  /\ svc' = "none"
  /\ pc' = [t \in Task |-> "idle"]
  /\ idx' = [t \in Task |-> 1]
  /\ cancelled' = [t \in Task |-> FALSE]
  /\ kind' = [t \in Task |-> "none"]
  /\ stage' = [t \in Task |-> "none"]
  /\ want' = [t \in Task |-> "none"]
  /\ httpStarted' = FALSE
  /\ owner' \in IF owner = "foreign" THEN {"free", "foreign"} ELSE {"free"}
  /\ granted' \in BOOLEAN
  /\ answer' = "none"
  /\ solo' = "no"
  /\ dirty' = [t \in Task |-> FALSE]
  /\ wanted' = FALSE
  /\ UNCHANGED <<profile, keys>>

Coroutine(t) ==
  \/ NeverRun(t) \/ BeginLoad(t) \/ BeginFetch(t) \/ BeginStop(t)
  \/ LoadedOk(t) \/ LoadFailed(t) \/ FetchAnswered(t) \/ ImportLeaves(t)
  \/ CloseOld(t) \/ BindOk(t) \/ BindFails(t) \/ SetFlag(t)
  \/ WriteKey(t) \/ WriteDenied(t) \/ ReportOn(t)
  \/ ClearFirst(t) \/ ReadFlag(t) \/ StopHttp(t) \/ ResetFlag(t) \/ ClearSecond(t) \/ Finish(t)

Goroutine(t) ==
  \/ LoadRead(t) \/ ApplyHttp(t) \/ ApplyMixed(t)
  \/ FetchOpen(t) \/ FetchCopy(t) \/ FetchVerify(t)

Next ==
  \/ \E t \in Task, k \in Command : OnStartCommand(t, k)
  \/ ImportWithoutUrl
  \/ OnDestroy
  \/ \E t \in Task : Coroutine(t) \/ Goroutine(t)
  \/ ForeignApp \/ Grant \/ ProcessDeath

Spec == Init /\ [][Next]_vars

(* Every coroutine's thread and every goroutine is scheduled, and Go's mutexes hand over to a    *)
(* waiter that starves: a command that can go on again and again goes on.                        *)
Fairness == \A t \in Task : SF_vars(Coroutine(t) \/ Goroutine(t))

FairSpec == Spec /\ Fairness

(***************************************************************************)
(* Properties                                                              *)
(***************************************************************************)

(* A START or STOP that no other START or STOP overlapped leaves flag and settings as it        *)
(* announced them, whatever it started from: settings inherited from a dead process, a torn      *)
(* write, a leaked listener; whatever failed on the way; and however many imports ran beside it, *)
(* even one that stops the service and so cancels it. "on": isRunning() and every key written.   *)
(* "off" or "failed": not running, and no key left, if the app may write the settings at all.    *)
SoloSettles ==
  solo = "yes" =>
    /\ answer = "on" => httpStarted /\ keys = Key
    /\ answer \in {"off", "failed"} => ~httpStarted /\ (granted => keys = {})

(* stop() clears the settings twice. With commands overlapping in any way, what was written      *)
(* before the second pass began is gone when it ends; only a key written during that pass stays. *)
SecondPassClears ==
  \A t \in Task : pc[t] = "finish" /\ granted /\ ~dirty[t] => keys = {}

(* The native mutexes and the abandoned goroutines of cancelled coroutines never keep a command  *)
(* from ending: every coroutine that was launched comes to its end.                              *)
EveryCommandEnds == \A t \in Task : pc[t] # "idle" ~> pc[t] = "idle"

(* The safety net of ProxyManager.start: "the proxy never points at a port nobody listens on".   *)
(* When the last switch ended undisturbed with "on" and nothing is in flight, one of the app's    *)
(* own listeners is behind the port the settings name.                                            *)
ListenerBehindProxy ==
  Quiet /\ solo = "yes" /\ answer = "on" => owner \in {"native", "http", "mixed"}

(* The foreground service keeps the core resident while the proxy is on. When the user's last     *)
(* word was START, nothing is in flight and the settings route the TV through a proxy announced   *)
(* as on, the service is up: a STOP that came before that START stops itself and not its          *)
(* successor.                                                                                     *)
ServiceBehindProxy ==
  Quiet /\ wanted /\ answer = "on" /\ keys = Key => svc = "up"
=============================================================================
