---------------------------- MODULE LogcatProofs ----------------------------
(***************************************************************************)
(* Proofs about Logcat, for any number of writers, subscribers and events  *)
(* and any capacity of the channels: the type invariant, that every        *)
(* subscription sees every event once and in order, that nobody sends on a *)
(* closed channel, and that every callback is used as GlobalRef allows.    *)
(*                                                                         *)
(* The inductive invariant says what each label of a reader means for its  *)
(* subscription and its reference (ReaderInv), what the goroutine of the   *)
(* Observable has left to do (CopyInv), and where the numbers of the       *)
(* events in a channel begin and end (OnceInv).                            *)
(***************************************************************************)
EXTENDS Logcat, SequenceTheorems, TLAPS

Subscribed == {"range", "call", "release", "log", "leave"}

\* A reader is subscribed from Subscribe to UnSubscribe, has its reference until it releases it,
\* and is among the senders for its last event.
ReaderInv ==
  /\ Console \in subs
  /\ \A r \in Reader :
       /\ r \in subs <=> pc[r] \in Subscribed
       /\ r \in sending => pc[r] = "log"
       /\ callback[r] = CASE pc[r] = "none" -> "none"
                          [] pc[r] \in {"subscribe", "range", "call", "release"} -> "live"
                          [] OTHER -> "deleted"

\* The goroutine copies to subscriptions only while it holds the mutex.
CopyInv ==
  /\ todo \subseteq subs
  /\ proc # "emit" => todo = {}
  /\ proc # "receive" => item > 0

\* The event that was copied last to a subscription.
Copied(s) == IF proc = "lock" \/ s \in todo THEN item - 1 ELSE item

\* The channel of a subscription holds the numbers between the event it took and that one.
OnceInv ==
  /\ \A s \in Sub \ subs : buf[s] = <<>>
  /\ \A s \in subs : /\ msg[s] + Len(buf[s]) = Copied(s)
                     /\ \A i \in 1 .. Len(buf[s]) : buf[s][i] = msg[s] + i

LogInv == TypeOK /\ ReaderInv /\ CopyInv /\ OnceInv

LEMMA LogInit == Init => LogInv
<1> SUFFICES ASSUME Init PROVE LogInv
  OBVIOUS
<1>1. <<>> \in Seq(Nat) /\ Len(<<>>) = 0
  BY EmptySeq
<1>2. TypeOK
  <2>1. logged \in 0 .. MaxLog
    BY BoundAssumption DEF Init
  <2> QED
    BY <1>1, <2>1, BufferAssumption DEF Init, TypeOK, Sub
<1>3. ReaderInv /\ CopyInv /\ OnceInv
  BY <1>1, NamesAssumption DEF Init, ReaderInv, CopyInv, OnceInv, Copied, Subscribed, Sub
<1> QED
  BY <1>2, <1>3 DEF LogInv

\* What a step leaves alone of a channel.
LEMMA TakeTypes ==
  ASSUME TypeOK, NEW s \in Sub, Take(s)
  PROVE  /\ buf' \in [Sub -> Seq(Nat)] /\ msg' \in [Sub -> Nat]
         /\ \A z \in Sub : Len(buf'[z]) <= Buffer
<1>1. buf[s] \in Seq(Nat) /\ buf[s] # <<>> /\ Len(buf[s]) \in Nat /\ Len(buf[s]) <= Buffer
  BY LenProperties DEF TypeOK, Take
<1>2. Head(buf[s]) \in Nat /\ Tail(buf[s]) \in Seq(Nat) /\ Len(Tail(buf[s])) = Len(buf[s]) - 1
  BY <1>1, HeadTailProperties
<1>3. buf' = [buf EXCEPT ![s] = Tail(buf[s])] /\ msg' = [msg EXCEPT ![s] = Head(buf[s])]
  BY DEF Take, TypeOK
<1>4. Len(Tail(buf[s])) <= Buffer
  BY <1>1, <1>2, BufferAssumption
<1> QED
  BY <1>2, <1>3, <1>4 DEF TypeOK

LEMMA LogTypes ==
  ASSUME TypeOK, CopyInv, Next
  PROVE  TypeOK'
<1> USE DEF TypeOK
<1>1. ASSUME NEW w \in Writer, Log(w) PROVE TypeOK'
  BY <1>1, BoundAssumption DEF Log, observable, readers
<1>2. ASSUME NEW w \in Writer, NEW r \in Reader, SubscribeLogcat(w, r) PROVE TypeOK'
  BY <1>2 DEF SubscribeLogcat, Goto, observable
<1>3. ASSUME NEW s \in Writer \cup Reader, Receive(s) PROVE TypeOK'
  BY <1>3 DEF Receive, Goto
<1>4. CASE Lock \/ Unlock
  BY <1>4 DEF Lock, Unlock, writers, readers
<1>5. ASSUME NEW s \in Sub, Emit(s) PROVE TypeOK'
  <2>1. buf[s] \in Seq(Nat) /\ Len(buf[s]) < Buffer /\ Len(buf[s]) \in Nat
    BY <1>5, LenProperties DEF Emit
  <2>2. Append(buf[s], item) \in Seq(Nat) /\ Len(Append(buf[s], item)) = Len(buf[s]) + 1
    BY <2>1, AppendProperties
  <2>3. Len(Append(buf[s], item)) <= Buffer
    BY <2>1, <2>2, BufferAssumption
  <2>4. buf' = [buf EXCEPT ![s] = Append(buf[s], item)]
    BY <1>5 DEF Emit
  <2>5. buf' \in [Sub -> Seq(Nat)] /\ \A z \in Sub : Len(buf'[z]) <= Buffer
    BY <2>2, <2>3, <2>4
  <2> QED
    BY <1>5, <2>5 DEF Emit, writers
<1>6. CASE PrintToConsole
  <2>1. Console \in Sub
    BY DEF Sub
  <2> QED
    BY <1>6, <2>1, TakeTypes DEF PrintToConsole, observable, writers
<1>7. ASSUME NEW r \in Reader, ReaderStep(r) PROVE TypeOK'
  <2>1. r \in Sub /\ <<>> \in Seq(Nat) /\ Len(<<>>) = 0
    BY EmptySeq DEF Sub
  <2>2. CASE Subscribe(r)
    <3>1. (IF proc = "lock" THEN item - 1 ELSE item) \in Nat
      BY DEF CopyInv
    <3> QED
      BY <2>1, <2>2, <3>1 DEF Subscribe, Goto, observable, writers
  <2>3. CASE TakeNext(r)
    BY <2>1, <2>3, TakeTypes DEF TakeNext, Goto, observable, writers
  <2>4. CASE Received(r)
    BY <2>4 DEF Received, Goto, observable, writers
  <2>5. CASE ReleaseCallback(r)
    BY <2>5 DEF ReleaseCallback, Goto, observable
  <2>6. CASE UnSubscribe(r)
    BY <2>1, <2>6, BufferAssumption DEF UnSubscribe, Goto, observable, writers
  <2> QED
    BY <1>7, <2>2, <2>3, <2>4, <2>5, <2>6 DEF ReaderStep
<1> QED
  BY <1>1, <1>2, <1>3, <1>4, <1>5, <1>6, <1>7 DEF Next, Process

LEMMA LogReaders ==
  ASSUME TypeOK, ReaderInv, Next
  PROVE  ReaderInv'
<1> USE DEF TypeOK, ReaderInv, Subscribed
<1>1. ASSUME NEW w \in Writer, Log(w) PROVE ReaderInv'
  BY <1>1, NamesAssumption DEF Log, observable, readers
<1>2. ASSUME NEW w \in Writer, NEW r \in Reader, SubscribeLogcat(w, r) PROVE ReaderInv'
  BY <1>2, NamesAssumption DEF SubscribeLogcat, Goto, observable
<1>3. ASSUME NEW s \in Writer \cup Reader, Receive(s) PROVE ReaderInv'
  BY <1>3 DEF Receive, Goto
<1>4. CASE Process
  BY <1>4 DEF Process, Lock, Unlock, Emit, writers, readers
<1>5. CASE PrintToConsole
  BY <1>5 DEF PrintToConsole, Take, observable, writers
<1>6. ASSUME NEW r \in Reader, Subscribe(r) \/ TakeNext(r) \/ Received(r) PROVE ReaderInv'
  <2>1. CASE Subscribe(r)
    BY <2>1 DEF Subscribe, Goto, observable, writers
  <2>2. CASE TakeNext(r) \/ Received(r)
    <3>1. /\ pc[r] \in {"range", "call"} /\ UNCHANGED <<subs, sending, callback>>
          /\ UNCHANGED pc \/ \E l \in {"range", "call", "release"} : Goto(r, l)
      BY <2>2 DEF TakeNext, Received, writers
    <3> QED
      BY <3>1 DEF Goto
  <2> QED
    BY <1>6, <2>1, <2>2
<1>7. ASSUME NEW r \in Reader, ReleaseCallback(r) PROVE ReaderInv'
  BY <1>7 DEF ReleaseCallback, Goto, observable
<1>8. ASSUME NEW r \in Reader, UnSubscribe(r) PROVE ReaderInv'
  BY <1>8, NamesAssumption DEF UnSubscribe, Goto, observable, writers
<1> QED
  BY <1>1, <1>2, <1>3, <1>4, <1>5, <1>6, <1>7, <1>8 DEF Next, ReaderStep

LEMMA LogCopies ==
  ASSUME TypeOK, ReaderInv, CopyInv, Next
  PROVE  CopyInv'
<1> USE DEF TypeOK, CopyInv
<1>1. CASE \E w \in Writer : Log(w) \/ \E r \in Reader : SubscribeLogcat(w, r)
  BY <1>1 DEF Log, SubscribeLogcat, observable, readers
<1>2. ASSUME NEW s \in Writer \cup Reader, Receive(s) PROVE CopyInv'
  BY <1>2 DEF Receive
<1>3. CASE Lock
  BY <1>3 DEF Lock, writers, readers
<1>4. CASE Unlock
  BY <1>4 DEF Unlock, writers, readers
<1>5. ASSUME NEW s \in Sub, Emit(s) PROVE CopyInv'
  BY <1>5 DEF Emit, writers
<1>6. CASE PrintToConsole
  BY <1>6 DEF PrintToConsole, observable, writers
<1>7. ASSUME NEW r \in Reader, TakeNext(r) \/ Received(r) \/ ReleaseCallback(r) PROVE CopyInv'
  BY <1>7 DEF TakeNext, Received, ReleaseCallback, observable, writers
<1>8. ASSUME NEW r \in Reader, Subscribe(r) \/ UnSubscribe(r) PROVE CopyInv'
  BY <1>8 DEF Subscribe, UnSubscribe, MuxFree, observable, writers
<1> QED
  BY <1>1, <1>2, <1>3, <1>4, <1>5, <1>6, <1>7, <1>8 DEF Next, Process, ReaderStep

\* Taking the first event of a channel moves the number of the last taken one up.
LEMMA TakeKeepsOrder ==
  ASSUME TypeOK, OnceInv, NEW s \in subs, Take(s), UNCHANGED <<observable, subs>>
  PROVE  OnceInv'
<1> USE DEF TypeOK
<1>1. s \in Sub /\ buf[s] \in Seq(Nat) /\ buf[s] # <<>> /\ Len(buf[s]) \in Nat /\ Len(buf[s]) > 0
  BY LenProperties, EmptySeq DEF Take
<1> DEFINE b == buf[s]
           t == Tail(b)
<1>2. /\ t \in Seq(Nat) /\ Len(t) = Len(b) - 1 /\ Head(b) = b[1]
      /\ \A i \in 1 .. Len(t) : t[i] = b[i + 1]
  BY <1>1, HeadTailProperties
<1>3. buf' = [buf EXCEPT ![s] = t] /\ msg' = [msg EXCEPT ![s] = Head(b)]
  BY DEF Take
<1>4. UNCHANGED <<proc, item, todo>>
  BY DEF observable
<1>5. msg[s] + Len(b) = Copied(s) /\ \A i \in 1 .. Len(b) : b[i] = msg[s] + i
  BY DEF OnceInv
<1>6. Len(b) \in Nat /\ Len(b) > 0 /\ msg[s] \in Nat
  BY <1>1
<1>7. buf'[s] = t /\ msg'[s] = Head(b)
  BY <1>1, <1>3
<1> HIDE DEF b, t
<1>8. Head(b) = msg[s] + 1
  BY <1>2, <1>5, <1>6
<1>9. Head(b) + Len(t) = Copied(s)
  BY <1>2, <1>5, <1>6, <1>8
<1>10. \A i \in 1 .. Len(t) : t[i] = Head(b) + i
  BY <1>2, <1>5, <1>6, <1>8
<1>11. \A z \in Sub \ {s} : buf'[z] = buf[z] /\ msg'[z] = msg[z]
  BY <1>3
<1>12. subs' = subs /\ subs \subseteq Sub
  OBVIOUS
<1>13. ASSUME NEW z \in subs
       PROVE  /\ msg'[z] + Len(buf'[z]) = Copied(z)
              /\ \A i \in 1 .. Len(buf'[z]) : buf'[z][i] = msg'[z] + i
  <2>1. CASE z = s
    BY <1>7, <1>9, <1>10, <2>1
  <2>2. CASE z # s
    BY <1>11, <1>12, <2>2 DEF OnceInv
  <2> QED
    BY <2>1, <2>2
<1>14. \A z \in Sub \ subs : buf'[z] = <<>>
  BY <1>11 DEF OnceInv
<1> QED
  BY <1>4, <1>12, <1>13, <1>14 DEF OnceInv, Copied

LEMMA LogOnce ==
  ASSUME TypeOK, ReaderInv, CopyInv, OnceInv, Next
  PROVE  OnceInv'
<1> USE DEF TypeOK
<1>1. CASE \E w \in Writer : Log(w) \/ \E r \in Reader : SubscribeLogcat(w, r)
  <2>1. UNCHANGED <<proc, item, todo, subs, buf, msg>>
    BY <1>1 DEF Log, SubscribeLogcat, observable, readers
  <2> QED
    BY <2>1 DEF OnceInv, Copied
<1>2. ASSUME NEW s \in Writer \cup Reader, Receive(s) PROVE OnceInv'
  <2>1. \A z \in Sub : Copied(z)' = Copied(z)
    BY <1>2 DEF Receive, Copied, CopyInv
  <2>2. UNCHANGED <<subs, buf, msg>>
    BY <1>2 DEF Receive
  <2> QED
    BY <2>1, <2>2 DEF OnceInv
<1>3. CASE Lock \/ Unlock
  <2>1. \A z \in subs : Copied(z)' = Copied(z)
    BY <1>3 DEF Lock, Unlock, Copied, CopyInv
  <2>2. UNCHANGED <<subs, buf, msg>>
    BY <1>3 DEF Lock, Unlock, readers
  <2> QED
    BY <2>1, <2>2 DEF OnceInv
<1>4. ASSUME NEW s \in Sub, Emit(s) PROVE OnceInv'
  <2>1. s \in todo /\ s \in subs /\ proc = "emit" /\ proc' = proc /\ item' = item /\ item \in Nat
    BY <1>4 DEF Emit, CopyInv
  <2>2. UNCHANGED <<subs, msg>> /\ todo' = todo \ {s}
    BY <1>4 DEF Emit
  <2> DEFINE b == buf[s]
             a == Append(b, item)
  <2>3. b \in Seq(Nat) /\ Len(b) \in Nat /\ msg[s] \in Nat
    BY LenProperties
  <2>4. /\ Len(a) = Len(b) + 1 /\ a[Len(b) + 1] = item
        /\ \A i \in 1 .. Len(b) : a[i] = b[i]
    BY <2>1, <2>3, AppendProperties
  <2>5. buf' = [buf EXCEPT ![s] = a]
    BY <1>4 DEF Emit
  <2>6. buf'[s] = a /\ \A z \in Sub \ {s} : buf'[z] = buf[z]
    BY <2>5
  <2>7. msg[s] + Len(b) = item - 1 /\ \A i \in 1 .. Len(b) : b[i] = msg[s] + i
    BY <2>1 DEF OnceInv, Copied
  <2> HIDE DEF a, b
  <2>9. msg[s] + Len(a) = item
    BY <2>1, <2>3, <2>4, <2>7
  <2>10. ASSUME NEW i \in 1 .. Len(a) PROVE a[i] = msg[s] + i
    <3>1. CASE i = Len(b) + 1
      <4> DEFINE l == Len(b)
                 m == msg[s]
      <4>1. item \in Nat /\ l \in Nat /\ m \in Nat /\ m + l = item - 1 /\ i = l + 1
        BY <2>1, <2>3, <2>7, <3>1
      <4> HIDE DEF l, m
      <4>2. item = m + i
        BY <4>1
      <4>3. item = msg[s] + i
        BY <4>2 DEF m
      <4> QED
        BY <2>4, <3>1, <4>3
    <3>2. CASE i # Len(b) + 1
      <4>1. i \in 1 .. Len(b)
        BY <2>3, <2>4, <3>2
      <4> QED
        BY <2>4, <2>7, <4>1
    <3> QED
      BY <3>1, <3>2
  <2>11. ASSUME NEW z \in subs
         PROVE  /\ msg'[z] + Len(buf'[z]) = IF z \in todo' THEN item - 1 ELSE item
                /\ \A i \in 1 .. Len(buf'[z]) : buf'[z][i] = msg'[z] + i
    <3>1. CASE z = s
      BY <2>2, <2>6, <2>9, <2>10, <3>1
    <3>2. CASE z # s
      <4>1. z \in Sub \ {s} /\ (z \in todo' <=> z \in todo)
        BY <2>2, <3>2
      <4> QED
        BY <2>1, <2>2, <2>6, <4>1 DEF OnceInv, Copied
    <3> QED
      BY <3>1, <3>2
  <2>12. \A z \in Sub \ subs : buf'[z] = <<>>
    BY <2>1, <2>6 DEF OnceInv
  <2> QED
    BY <2>1, <2>2, <2>11, <2>12 DEF OnceInv, Copied
<1>5. CASE PrintToConsole
  <2>1. Console \in subs /\ Take(Console) /\ UNCHANGED <<observable, subs>>
    BY <1>5 DEF PrintToConsole, ReaderInv
  <2> QED
    BY <2>1, TakeKeepsOrder
<1>6. ASSUME NEW r \in Reader, TakeNext(r) PROVE OnceInv'
  <2>1. r \in subs /\ Take(r) /\ UNCHANGED <<observable, subs>>
    BY <1>6 DEF TakeNext, ReaderInv, Subscribed
  <2> QED
    BY <2>1, TakeKeepsOrder
<1>7. ASSUME NEW r \in Reader, Received(r) \/ ReleaseCallback(r) PROVE OnceInv'
  <2>1. UNCHANGED <<proc, item, todo, subs, buf, msg>>
    BY <1>7 DEF Received, ReleaseCallback, observable
  <2> QED
    BY <2>1 DEF OnceInv, Copied
<1>8. ASSUME NEW r \in Reader, Subscribe(r) PROVE OnceInv'
  <2>1. r \in Sub /\ r \notin subs /\ buf[r] = <<>> /\ Len(<<>>) = 0
    BY <1>8, EmptySeq DEF Subscribe, ReaderInv, Subscribed, OnceInv, Sub
  <2>2. proc # "emit" /\ todo = {} /\ UNCHANGED <<proc, item, todo, buf>>
    BY <1>8 DEF Subscribe, MuxFree, CopyInv, observable
  <2>3. /\ subs' = subs \cup {r}
        /\ msg' = [msg EXCEPT ![r] = IF proc = "lock" THEN item - 1 ELSE item]
    BY <1>8 DEF Subscribe
  <2>5. Copied(r) = msg'[r] /\ Copied(r) \in Nat
    BY <2>1, <2>2, <2>3 DEF Copied, CopyInv
  <2>6. msg'[r] + Len(buf'[r]) = Copied(r) /\ \A i \in 1 .. Len(buf'[r]) : buf'[r][i] = msg'[r] + i
    BY <2>1, <2>2, <2>5
  <2>7. \A z \in subs : msg'[z] = msg[z] /\ buf'[z] = buf[z]
    BY <2>1, <2>2, <2>3
  <2>8. ASSUME NEW z \in subs'
        PROVE  /\ msg'[z] + Len(buf'[z]) = Copied(z)
               /\ \A i \in 1 .. Len(buf'[z]) : buf'[z][i] = msg'[z] + i
    <3>1. CASE z = r
      BY <2>6, <3>1
    <3>2. CASE z # r
      BY <2>3, <2>7, <3>2 DEF OnceInv
    <3> QED
      BY <3>1, <3>2
  <2>9. \A z \in Sub \ subs' : buf'[z] = <<>>
    BY <2>2, <2>3 DEF OnceInv
  <2> QED
    BY <2>2, <2>8, <2>9 DEF OnceInv, Copied
<1>9. ASSUME NEW r \in Reader, UnSubscribe(r) PROVE OnceInv'
  <2>1. /\ subs' = subs \ {r} /\ buf' = [buf EXCEPT ![r] = <<>>]
        /\ UNCHANGED <<proc, item, todo, msg>>
    BY <1>9 DEF UnSubscribe, observable
  <2>2. r \in Sub /\ buf'[r] = <<>> /\ \A z \in Sub \ {r} : buf'[z] = buf[z]
    BY <2>1 DEF Sub
  <2>3. \A z \in Sub : Copied(z)' = Copied(z)
    BY <2>1 DEF Copied
  <2> QED
    BY <2>1, <2>2, <2>3 DEF OnceInv
<1> QED
  BY <1>1, <1>2, <1>3, <1>4, <1>5, <1>6, <1>7, <1>8, <1>9 DEF Next, Process, ReaderStep

LEMMA LogStep == LogInv /\ [Next]_vars => LogInv'
<1> SUFFICES ASSUME LogInv, [Next]_vars PROVE LogInv'
  OBVIOUS
<1>1. CASE Next
  BY <1>1, LogTypes, LogReaders, LogCopies, LogOnce DEF LogInv
<1>2. CASE UNCHANGED vars
  BY <1>2 DEF vars, observable, writers, readers, LogInv, TypeOK, ReaderInv, CopyInv, OnceInv, Copied
<1> QED
  BY <1>1, <1>2

LEMMA LogAlways == Spec => []LogInv
BY LogInit, LogStep, PTL DEF Spec

(* The variables of the log keep their types, and no channel holds more events than it has room  *)
(* for.                                                                                          *)
THEOREM ChannelsAreBounded == Spec => []TypeOK
<1>1. LogInv => TypeOK
  BY DEF LogInv
<1> QED
  BY <1>1, LogAlways, PTL

(* Nobody leaves the subscriptions while the goroutine of the Observable still has to send to    *)
(* them: they would have to take the mutex that it holds.                                        *)
THEOREM ClosedIsNotSentTo == Spec => []NeverSendsOnClosed
<1>1. LogInv => NeverSendsOnClosed
  BY DEF LogInv, CopyInv, NeverSendsOnClosed
<1> QED
  BY <1>1, LogAlways, PTL

(* The channel of every subscription holds the events between its last and the copied one, each  *)
(* once and in order.                                                                            *)
THEOREM SubscriptionsSeeAll == Spec => []EveryEventOnce
<1>1. LogInv => EveryEventOnce
  <2> SUFFICES ASSUME LogInv, NEW s \in subs
               PROVE  buf[s] = [i \in 1 .. Copied(s) - msg[s] |-> msg[s] + i]
    BY DEF EveryEventOnce, Copied
  <2> DEFINE b == buf[s]
             n == Copied(s) - msg[s]
  <2>1. b \in Seq(Nat) /\ msg[s] \in Nat
    BY DEF LogInv, TypeOK
  <2>2. Len(b) \in Nat /\ b = [i \in 1 .. Len(b) |-> b[i]]
    BY <2>1, LenProperties
  <2>3. msg[s] + Len(b) = Copied(s) /\ \A i \in 1 .. Len(b) : b[i] = msg[s] + i
    BY DEF LogInv, OnceInv
  <2>4. n = Len(b)
    BY <2>1, <2>2, <2>3
  <2> HIDE DEF n
  <2>5. b = [i \in 1 .. n |-> msg[s] + i]
    BY <2>2, <2>3, <2>4
  <2> QED
    BY <2>5 DEF n
<1> QED
  BY <1>1, LogAlways, PTL

\* A reader is in a call exactly at its label "call", and its reference is then live.
LEMMA ReferenceStep ==
  ASSUME LogInv, [Next]_vars
  PROVE  [References!Next]_<<callback, Callers>>
<1> USE DEF LogInv, TypeOK
<1>1. CASE \/ \E w \in Writer : Log(w)
           \/ Process \/ PrintToConsole \/ UNCHANGED vars
  <2>1. UNCHANGED <<callback, pc>>
    BY <1>1 DEF Log, Process, Lock, Emit, Unlock, PrintToConsole, vars, readers
  <2> QED
    BY <2>1 DEF Callers
<1>2. ASSUME NEW s \in Writer \cup Reader, Receive(s) PROVE UNCHANGED <<callback, Callers>>
  <2>1. CASE s \in Reader
    <3>1. pc[s] = "log" /\ pc' = [pc EXCEPT ![s] = "leave"] /\ callback' = callback
      BY <1>2, <2>1 DEF Receive, Goto, ReaderInv
    <3> QED
      BY <2>1, <3>1 DEF Callers
  <2>2. CASE s \notin Reader
    BY <1>2, <2>2 DEF Receive, Callers
  <2> QED
    BY <2>1, <2>2
<1>3. ASSUME NEW w \in Writer, NEW r \in Reader, SubscribeLogcat(w, r) PROVE References!New(r)
  <2>1. callback[r] = "none" /\ callback' = [callback EXCEPT ![r] = "live"]
    BY <1>3 DEF SubscribeLogcat, ReaderInv
  <2>2. Callers' = Callers
    BY <1>3 DEF SubscribeLogcat, Goto, Callers
  <2> QED
    BY <2>1, <2>2 DEF References!New
<1>4. ASSUME NEW r \in Reader, TakeNext(r)
      PROVE  References!Enter(r, r) \/ UNCHANGED <<callback, Callers>>
  <2>1. pc[r] = "range" /\ callback' = callback /\ callback[r] = "live"
    BY <1>4 DEF TakeNext, ReaderInv
  <2>2. CASE UNCHANGED pc
    BY <2>1, <2>2 DEF Callers
  <2>3. CASE Goto(r, "call")
    <3>1. Callers[r] = {} /\ Callers' = [Callers EXCEPT ![r] = @ \cup {r}]
      BY <2>1, <2>3 DEF Goto, Callers
    <3> QED
      BY <2>1, <3>1 DEF References!Enter
  <2> QED
    BY <1>4, <2>2, <2>3 DEF TakeNext
<1>5. ASSUME NEW r \in Reader, Received(r) PROVE References!Exit(r, r)
  <2>1. pc[r] = "call" /\ callback' = callback
    BY <1>5 DEF Received
  <2>2. Callers[r] = {r} /\ Callers' = [Callers EXCEPT ![r] = @ \ {r}]
    BY <1>5, <2>1 DEF Received, Goto, Callers
  <2> QED
    BY <2>1, <2>2 DEF References!Exit
<1>6. ASSUME NEW r \in Reader, ReleaseCallback(r) PROVE References!Delete(r)
  <2>1. callback[r] = "live" /\ callback' = [callback EXCEPT ![r] = "deleted"]
    BY <1>6 DEF ReleaseCallback, ReaderInv
  <2>2. Callers[r] = {} /\ Callers' = Callers
    BY <1>6 DEF ReleaseCallback, Goto, Callers
  <2> QED
    BY <2>1, <2>2 DEF References!Delete
<1>7. ASSUME NEW r \in Reader, Subscribe(r) \/ UnSubscribe(r) PROVE UNCHANGED <<callback, Callers>>
  BY <1>7 DEF Subscribe, UnSubscribe, Goto, Callers
<1> QED
  BY <1>1, <1>2, <1>3, <1>4, <1>5, <1>6, <1>7 DEF Next, ReaderStep, References!Next

(* Every callback of a subscriber is a reference that GlobalRef allows: called only while it is   *)
(* live, and deleted once, when the reader has left the call.                                     *)
THEOREM CallbacksAreReferences == Spec => UsesReferences
<1>1. Init => References!Init
  BY DEF Init, References!Init, Callers
<1>2. LogInv /\ [Next]_vars => [References!Next]_<<callback, Callers>>
  BY ReferenceStep
<1> QED
  BY <1>1, <1>2, LogAlways, PTL DEF Spec, UsesReferences, References!Spec
=============================================================================
