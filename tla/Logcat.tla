------------------------------- MODULE Logcat -------------------------------
(***************************************************************************)
(* The log of the native core: writers that hand each event over to the    *)
(* goroutine of an Observable, that goroutine, which copies the event into *)
(* the bounded buffer of every subscription under a mutex, the console     *)
(* that main subscribes at start, and the subscriptions of subscribeLogcat,*)
(* which call Java and leave when Java throws.                             *)
(***************************************************************************)
EXTENDS Naturals, Sequences

CONSTANTS
  Writer,   \* threads that log
  Reader,   \* the goroutines of subscribeLogcat, one per call
  Console,  \* the subscription of init in native/log.go
  Buffer,   \* the capacity of a subscription (200 in the code)
  MaxLog    \* bound: how many events the writers log

ASSUME BufferAssumption == Buffer \in Nat \ {0}

ASSUME BoundAssumption == MaxLog \in Nat

ASSUME NamesAssumption == Console \notin Reader /\ Writer \cap (Reader \cup {Console}) = {}

Sub == Reader \cup {Console}

VARIABLES
  sending,  \* the writers and readers that are blocked in logCh <- event
  logged,   \* how many events the writers have begun to log
  proc,     \* the goroutine of the Observable: "receive", "lock", or "emit", holding the mutex
  item,     \* the number of the event it received last
  todo,     \* the subscriptions it has still to copy that event to
  subs,     \* the subscriptions of the Observable
  buf,      \* the numbers of the events in the channel of each
  msg,      \* the number of the event each took from its channel last
  pc,       \* where each reader is
  callback  \* the global reference of each reader

observable == <<proc, item, todo>>
writers    == <<sending, logged>>
readers    == <<subs, buf, msg, pc, callback>>
vars       == <<observable, writers, readers>>

TypeOK ==
  /\ sending \in SUBSET (Writer \cup Reader)
  /\ logged \in 0 .. MaxLog
  /\ proc \in {"receive", "lock", "emit"}
  /\ item \in Nat
  /\ todo \in SUBSET Sub
  /\ subs \in SUBSET Sub
  /\ buf \in [Sub -> Seq(Nat)]
  /\ \A s \in Sub : Len(buf[s]) <= Buffer
  /\ msg \in [Sub -> Nat]
  /\ pc \in [Reader -> {"none", "subscribe", "range", "call", "release", "log", "leave", "done"}]
  /\ callback \in [Reader -> {"none", "live", "deleted"}]

Init ==
  /\ sending = {} /\ logged = 0
  /\ proc = "receive" /\ item = 0 /\ todo = {}
  /\ subs = {Console}
  /\ buf = [s \in Sub |-> <<>>]
  /\ msg = [s \in Sub |-> 0]
  /\ pc = [r \in Reader |-> "none"]
  /\ callback = [r \in Reader |-> "none"]

Goto(r, label) == pc' = [pc EXCEPT ![r] = label]

(* The mutex of the Observable is held across steps by its own goroutine only *)
MuxFree == proc # "emit"

(***************************************************************************)
(* Writers                                                                 *)
(***************************************************************************)

(* Infoln, Warnln, Errorln, Debugln *)
Log(w) ==
  /\ w \notin sending /\ logged < MaxLog
  /\ sending' = sending \cup {w}
  /\ logged' = logged + 1
  /\ UNCHANGED <<observable, readers>>

(* nativeSubscribeLogcat makes the reference, starts the goroutine and logs the level itself *)
SubscribeLogcat(w, r) ==
  /\ w \notin sending /\ pc[r] = "none"
  /\ callback' = [callback EXCEPT ![r] = "live"]
  /\ Goto(r, "subscribe")
  /\ sending' = sending \cup {w}
  /\ UNCHANGED <<observable, logged, subs, buf, msg>>

(***************************************************************************)
(* The goroutine of the Observable                                         *)
(***************************************************************************)

(* It takes the next event; logCh has no buffer, so only now does the writer go on *)
Receive(s) ==
  /\ proc = "receive" /\ s \in sending
  /\ proc' = "lock"
  /\ item' = item + 1
  /\ sending' = sending \ {s}
  /\ IF s \in Reader THEN Goto(s, "leave") ELSE UNCHANGED pc
  /\ UNCHANGED <<logged, todo, subs, buf, msg, callback>>

Lock ==
  /\ proc = "lock"
  /\ proc' = "emit"
  /\ todo' = subs
  /\ UNCHANGED <<item, writers, readers>>

(* Mutant: an event for a full subscription is dropped *)
EmitOrDrop(s) ==
  /\ proc = "emit" /\ s \in todo
  /\ buf' = IF Len(buf[s]) < Buffer THEN [buf EXCEPT ![s] = Append(@, item)] ELSE buf
  /\ todo' = todo \ {s}
  /\ UNCHANGED <<proc, item, writers, subs, msg, pc, callback>>

(* Mutant: the buffer grows without end *)
EmitUnbounded(s) ==
  /\ proc = "emit" /\ s \in todo
  /\ buf' = [buf EXCEPT ![s] = Append(@, item)]
  /\ todo' = todo \ {s}
  /\ UNCHANGED <<proc, item, writers, subs, msg, pc, callback>>

(* sub.Emit, which waits for room in the channel; the order of the subscriptions is that of a map *)
Emit(s) ==
  /\ proc = "emit" /\ s \in todo
  /\ Len(buf[s]) < Buffer
  /\ buf' = [buf EXCEPT ![s] = Append(@, item)]
  /\ todo' = todo \ {s}
  /\ UNCHANGED <<proc, item, writers, subs, msg, pc, callback>>

Unlock ==
  /\ proc = "emit" /\ todo = {}
  /\ proc' = "receive"
  /\ UNCHANGED <<item, todo, writers, readers>>

(***************************************************************************)
(* The subscriptions                                                       *)
(***************************************************************************)

Take(s) ==
  /\ buf[s] # <<>>
  /\ msg' = [msg EXCEPT ![s] = Head(buf[s])]
  /\ buf' = [buf EXCEPT ![s] = Tail(@)]

PrintToConsole ==
  /\ Take(Console)
  /\ UNCHANGED <<observable, writers, subs, pc, callback>>

(* The next event it sees is the one after the last that was copied *)
Subscribe(r) ==
  /\ pc[r] = "subscribe" /\ MuxFree
  /\ subs' = subs \cup {r}
  /\ msg' = [msg EXCEPT ![r] = IF proc = "lock" THEN item - 1 ELSE item]
  /\ Goto(r, "range")
  /\ UNCHANGED <<observable, writers, buf, callback>>

(* Mutant: an event below the level ends the goroutine, and nothing is deferred *)
TakeNextOrReturn(r) ==
  /\ pc[r] = "range"
  /\ Take(r)
  /\ \/ Goto(r, "done")
     \/ Goto(r, "call")
  /\ UNCHANGED <<observable, writers, subs, callback>>

(* An event below the level is passed over, any other goes to Java *)
TakeNext(r) ==
  /\ pc[r] = "range"
  /\ Take(r)
  /\ \/ UNCHANGED pc
     \/ Goto(r, "call")
  /\ UNCHANGED <<observable, writers, subs, callback>>

Received(r) ==
  /\ pc[r] = "call"
  /\ \/ Goto(r, "range")
     \/ Goto(r, "release")
  /\ UNCHANGED <<observable, writers, subs, buf, msg, callback>>

(* Mutant: no break after the reference is released *)
ReleaseAndGoOn(r) ==
  /\ pc[r] = "release"
  /\ callback' = [callback EXCEPT ![r] = "deleted"]
  /\ Goto(r, "range")
  /\ UNCHANGED <<observable, writers, subs, buf, msg>>

(* Java threw: the reference is released, and a last event is logged from inside the loop *)
ReleaseCallback(r) ==
  /\ pc[r] = "release"
  /\ callback' = [callback EXCEPT ![r] = "deleted"]
  /\ Goto(r, "log")
  /\ sending' = sending \cup {r}
  /\ UNCHANGED <<observable, logged, subs, buf, msg>>

(* Mutant: the mutex is not taken *)
UnSubscribeUnlocked(r) ==
  /\ pc[r] = "leave"
  /\ subs' = subs \ {r}
  /\ buf' = [buf EXCEPT ![r] = <<>>]
  /\ Goto(r, "done")
  /\ UNCHANGED <<observable, writers, msg, callback>>

(* The deferred UnSubscribe: the subscription is deleted and its channel closed *)
UnSubscribe(r) ==
  /\ pc[r] = "leave" /\ MuxFree
  /\ subs' = subs \ {r}
  /\ buf' = [buf EXCEPT ![r] = <<>>]
  /\ Goto(r, "done")
  /\ UNCHANGED <<observable, writers, msg, callback>>

ReaderStep(r) == Subscribe(r) \/ TakeNext(r) \/ Received(r) \/ ReleaseCallback(r) \/ UnSubscribe(r)

Process == Lock \/ (\E s \in Sub : Emit(s)) \/ Unlock

Next ==
  \/ \E w \in Writer : Log(w) \/ \E r \in Reader : SubscribeLogcat(w, r)
  \/ \E s \in Writer \cup Reader : Receive(s)
  \/ Process
  \/ PrintToConsole
  \/ \E r \in Reader : ReaderStep(r)

Spec == Init /\ [][Next]_vars

(* Every goroutine is scheduled and Java returns from received; those that wait for the channel   *)
(* or the mutex are served in turn, as both keep their waiters in order.                          *)
FairSpec ==
  /\ Spec
  /\ WF_vars(Process)
  /\ WF_vars(PrintToConsole)
  /\ \A s \in Writer \cup Reader : SF_vars(Receive(s))
  /\ \A r \in Reader : SF_vars(ReaderStep(r))

(***************************************************************************)
(* Properties                                                              *)
(***************************************************************************)

Callers == [r \in Reader |-> IF pc[r] = "call" THEN {r} ELSE {}]

References == INSTANCE GlobalRef WITH Ref <- Reader, User <- Reader, ref <- callback, calls <- Callers

(* However slow or broken a subscriber is, Java is called through its reference only while that  *)
(* is live, and the reference is deleted once.                                                   *)
UsesReferences == References!Spec

(* No subscription misses, repeats or reorders an event: what lies in its channel are the events *)
(* from the one after its last to the one that was copied last.                                  *)
EveryEventOnce ==
  \A s \in subs :
    LET copied == IF proc = "lock" \/ s \in todo THEN item - 1 ELSE item
    IN  buf[s] = [i \in 1 .. copied - msg[s] |-> msg[s] + i]

(* A subscription that ends while an event is being copied is never sent to after its channel    *)
(* was closed, which would panic.                                                                *)
NeverSendsOnClosed == todo \subseteq subs

(* As long as nobody leaves, a slow subscriber slows the writers down and never stops them *)
Staying == \A r \in Reader : pc[r] \notin {"release", "log", "leave"}

LogReturns == []Staying => \A w \in Writer : w \in sending ~> w \notin sending

(* observable_test.go: after UnSubscribe, the channel of the subscription is closed *)
UnSubscribeCloses == \A r \in Reader : pc[r] \in {"log", "leave"} ~> pc[r] = "done"
=============================================================================
