-------------------------- MODULE NativeTunProofs --------------------------
(***************************************************************************)
(* Proofs about NativeTun, for any number of threads and devices and any   *)
(* size of the semaphore: the type invariant, NothingLeaks, and that every *)
(* callback is used as GlobalRef allows.                                   *)
(***************************************************************************)
EXTENDS NativeTun, SequenceTheorems, TLAPS

Inside  == {"drop", "delete", "leave", "call"}
Closing == {"acquire", "wait", "drop", "delete", "leave"}
Opening == {"install", "open"}

(* Who waits for permits of r, each once, and who has them; a closer has them all *)
QueueOf(r) ==
  /\ \A i \in 1 .. Len(line[r]) :
       /\ pc[line[r][i]] = "wait" /\ at[line[r][i]] = r /\ line[r][i] \notin holders[r]
       /\ \A j \in 1 .. Len(line[r]) : line[r][i] = line[r][j] => i = j
  /\ \A t \in holders[r] : at[t] = r /\ pc[t] \in Inside \cup {"wait"}
  /\ \A c \in Control : c \in holders[r] => holders[r] = {c}

(* ... and whoever is past the semaphore has permits *)
QueueInv ==
  /\ \A r \in Remote : QueueOf(r)
  /\ \A t \in Thread : pc[t] \in Inside => t \in holders[at[t]]

(* The labels of each kind of thread; rTunLock is held from lock to return *)
PlaceInv ==
  /\ \A d \in Dialer : pc[d] \in {"idle", "acquire", "wait", "call"}
  /\ \A c \in Control :
       /\ pc[c] # "call"
       /\ pc[c] \in {"idle", "lock"} <=> mutex # c
       /\ pc[c] = "idle" => fresh[c] = Nobody
       /\ pc[c] \in {"idle", "lock"} => at[c] = Nobody

Usable(r) == callback[r] = "live" /\ ~closed[r]

(* What a control thread inside startTun or stopTun works on *)
OwnInv ==
  \A c \in Control :
    /\ pc[c] \in Closing => at[c] = rTun \/ (rTun = Nobody /\ at[c] = fresh[c])
    /\ pc[c] \in Opening => rTun = Nobody /\ at[c] = fresh[c] /\ Usable(at[c])
    /\ pc[c] \in {"acquire", "wait"} => Usable(at[c])
    /\ pc[c] \in {"drop", "delete"} => callback[at[c]] = "live" /\ closed[at[c]]
    /\ pc[c] = "leave" => callback[at[c]] = "deleted"
    /\ pc[c] \in {"acquire", "wait", "drop", "open"} => context = at[c]
    /\ pc[c] \in {"delete", "leave", "install"} => context = Nobody

(* A remoteTun that a control thread brings along belongs to that thread alone *)
FreshInv ==
  \A c \in Control : fresh[c] # Nobody =>
    /\ fresh[c] # rTun
    /\ callback[fresh[c]] # "none"
    /\ at[c] # fresh[c] => Usable(fresh[c])
    /\ \A b \in Control : fresh[b] = fresh[c] => b = c

(* The lives of the callbacks, and where each live one can be reached from *)
LifeInv ==
  /\ \A r \in Remote :
       /\ callback[r] = "none" => ~closed[r]
       /\ callback[r] = "deleted" => closed[r]
       /\ callback[r] = "live" => r = rTun \/ \E c \in Control : fresh[c] = r
  /\ rTun # Nobody => callback[rTun] # "none"
  /\ mutex = Nobody => context = rTun /\ (rTun # Nobody => Usable(rTun))
  /\ \A d \in Dialer : at[d] # Nobody => callback[at[d]] # "none"
  /\ \A d \in Dialer : pc[d] = "call" => ~closed[at[d]]

IInv == TypeOK /\ QueueInv /\ PlaceInv /\ OwnInv /\ FreshInv /\ LifeInv

-----------------------------------------------------------------------------
(* The threads that Admit lets in are the first of the queue; a closer comes in alone *)
LEMMA FitsAlone ==
  ASSUME NEW q \in Seq(Thread), NEW hs \in SUBSET Thread, NEW n \in 0 .. Len(q), Fits(q, hs, n),
         \A c \in Control : c \in hs => hs = {c}
  PROVE  LET in == hs \cup {q[i] : i \in 1 .. n}
         IN  \A c \in Control : c \in in => in = {c}
<1>1. CASE n = 0
  BY <1>1
<1>2. CASE (\A i \in 1 .. n : q[i] \in Dialer) /\ n <= FreePermits(hs)
  <2>1. CASE hs \cap Control # {}
    BY <1>2, <2>1 DEF FreePermits
  <2>2. CASE hs \cap Control = {}
    BY <1>2, <2>2, NamesAssumption
  <2> QED BY <2>1, <2>2
<1>3. CASE n = 1 /\ q[1] \in Control /\ hs = {}
  BY <1>3
<1> QED BY <1>1, <1>2, <1>3 DEF Fits

(* What is left of a queue *)
LEMMA Rest ==
  ASSUME NEW q \in Seq(Thread), NEW n \in 0 .. Len(q)
  PROVE  LET rest == SubSeq(q, n + 1, Len(q))
         IN  /\ rest \in Seq(Thread)
             /\ Len(rest) = Len(q) - n
             /\ \A i \in 1 .. Len(rest) : rest[i] = q[i + n]
<1>1. Len(q) \in Nat /\ \A i \in n + 1 .. Len(q) : q[i] \in Thread
  BY ElementOfSeq, LenProperties
<1> DEFINE rest == SubSeq(q, n + 1, Len(q))
<1>2. /\ rest \in Seq(Thread)
      /\ Len(rest) = IF n + 1 <= Len(q) THEN Len(q) - (n + 1) + 1 ELSE 0
      /\ \A i \in 1 .. Len(q) - (n + 1) + 1 : rest[i] = q[n + 1 + i - 1]
  BY <1>1, SubSeqProperties
<1> HIDE DEF rest
<1>3. Len(rest) = Len(q) - n
  BY <1>1, <1>2
<1>4. ASSUME NEW i \in 1 .. Len(rest) PROVE rest[i] = q[i + n]
  <2>1. i \in 1 .. Len(q) - (n + 1) + 1 /\ n + 1 + i - 1 = i + n
    BY <1>1, <1>3
  <2> QED BY <1>2, <2>1
<1> QED BY <1>2, <1>3, <1>4 DEF rest

(* Admit keeps the queue of its remoteTun in order, provided that the threads in q wait for r    *)
(* and those in hs have their permits after the step.                                            *)
LEMMA AdmitKeeps ==
  ASSUME TypeOK, NEW r \in Remote, NEW q \in Seq(Thread), NEW hs \in SUBSET Thread, Admit(r, q, hs),
         \A i \in 1 .. Len(q) : pc'[q[i]] = "wait" /\ at'[q[i]] = r /\ q[i] \notin hs,
         \A i, j \in 1 .. Len(q) : q[i] = q[j] => i = j,
         \A t \in hs : at'[t] = r /\ pc'[t] \in Inside \cup {"wait"},
         \A c \in Control : c \in hs => hs = {c}
  PROVE  /\ holders' \in [Remote -> SUBSET Thread]
         /\ line' \in [Remote -> Seq(Thread)]
         /\ \A s \in Remote \ {r} : holders'[s] = holders[s] /\ line'[s] = line[s]
         /\ hs \subseteq holders'[r]
         /\ QueueOf(r)'
<1>1. PICK n \in 0 .. Len(q) :
        /\ Fits(q, hs, n)
        /\ holders' = [holders EXCEPT ![r] = hs \cup {q[i] : i \in 1 .. n}]
        /\ line' = [line EXCEPT ![r] = SubSeq(q, n + 1, Len(q))]
  BY DEF Admit
<1> DEFINE in == hs \cup {q[i] : i \in 1 .. n}
           rest == SubSeq(q, n + 1, Len(q))
<1>2. Len(q) \in Nat /\ \A i \in 1 .. Len(q) : q[i] \in Thread
  BY ElementOfSeq, LenProperties
<1>3. in \in SUBSET Thread
  BY <1>2
<1>4. /\ rest \in Seq(Thread)
      /\ Len(rest) = Len(q) - n
      /\ \A i \in 1 .. Len(rest) : rest[i] = q[i + n]
  BY Rest
<1>5. \A c \in Control : c \in in => in = {c}
  BY <1>1, FitsAlone
<1>6. \A t \in in : at'[t] = r /\ pc'[t] \in Inside \cup {"wait"}
  BY <1>2
<1>7. \A i \in 1 .. Len(rest) :
        /\ pc'[rest[i]] = "wait" /\ at'[rest[i]] = r /\ rest[i] \notin in
        /\ \A j \in 1 .. Len(rest) : rest[i] = rest[j] => i = j
  <2> SUFFICES ASSUME NEW i \in 1 .. Len(rest)
               PROVE  /\ pc'[rest[i]] = "wait" /\ at'[rest[i]] = r /\ rest[i] \notin in
                      /\ \A j \in 1 .. Len(rest) : rest[i] = rest[j] => i = j
    OBVIOUS
  <2>1. rest[i] = q[i + n] /\ i + n \in 1 .. Len(q) /\ \A j \in 1 .. n : j \in 1 .. Len(q) /\ j # i + n
    BY <1>2, <1>4
  <2>2. rest[i] \notin in
    BY <2>1
  <2>3. ASSUME NEW j \in 1 .. Len(rest), rest[i] = rest[j] PROVE i = j
    <3>1. rest[j] = q[j + n] /\ j + n \in 1 .. Len(q)
      BY <1>2, <1>4
    <3>2. i + n = j + n
      BY <2>1, <2>3, <3>1
    <3> QED BY <3>2, <1>2, <1>4
  <2> QED BY <2>1, <2>2, <2>3
<1>8. holders' = [holders EXCEPT ![r] = in] /\ line' = [line EXCEPT ![r] = rest]
  BY <1>1
<1> HIDE DEF in, rest
<1>9. holders'[r] = in /\ line'[r] = rest
  BY <1>8 DEF TypeOK
<1>10. QueueOf(r)'
  BY <1>5, <1>6, <1>7, <1>9 DEF QueueOf
<1>11. hs \subseteq in
  BY DEF in
<1> QED BY <1>3, <1>4, <1>8, <1>9, <1>10, <1>11 DEF TypeOK

(* Queueing up, for a thread that is in no queue *)
LEMMA AcquireKeeps ==
  ASSUME TypeOK, QueueInv, NEW t \in Thread, Acquire(t)
  PROVE  /\ holders' \in [Remote -> SUBSET Thread]
         /\ line' \in [Remote -> Seq(Thread)]
         /\ QueueInv'
<1>0. PICK r \in Remote, q \in Seq(Thread) : r = at[t] /\ q = Append(line[r], t)
  BY NamesAssumption, AppendProperties DEF Acquire, TypeOK
<1>1. /\ pc[t] = "acquire" /\ pc' = [pc EXCEPT ![t] = "wait"] /\ at' = at
      /\ Admit(r, q, holders[r])
  BY <1>0 DEF Acquire, Goto
<1>2. r \in Remote /\ line[r] \in Seq(Thread) /\ holders[r] \in SUBSET Thread
  BY <1>1, NamesAssumption DEF TypeOK
<1>3. /\ q \in Seq(Thread) /\ Len(line[r]) \in Nat /\ Len(q) = Len(line[r]) + 1
      /\ \A i \in 1 .. Len(line[r]) : q[i] = line[r][i] /\ line[r][i] \in Thread
      /\ q[Len(line[r]) + 1] = t
  BY <1>0, <1>2, AppendProperties, LenProperties, ElementOfSeq
<1>4. \A s \in Remote : QueueOf(s)
  BY DEF QueueInv
<1>5. /\ \A s \in Remote : t \notin holders[s]
      /\ \A s \in Remote : \A i \in 1 .. Len(line[s]) : line[s][i] # t
  BY <1>1, <1>4 DEF QueueOf, Inside
<1>6. \A i \in 1 .. Len(q) : pc'[q[i]] = "wait" /\ at'[q[i]] = r /\ q[i] \notin holders[r]
  <2> SUFFICES ASSUME NEW i \in 1 .. Len(q)
               PROVE  pc'[q[i]] = "wait" /\ at'[q[i]] = r /\ q[i] \notin holders[r]
    OBVIOUS
  <2>1. CASE i = Len(line[r]) + 1
    BY <1>0, <1>1, <1>2, <1>3, <1>5, <2>1 DEF TypeOK
  <2>2. CASE i \in 1 .. Len(line[r])
    BY <1>1, <1>2, <1>3, <1>4, <1>5, <2>2 DEF TypeOK, QueueOf
  <2> QED BY <1>3, <2>1, <2>2
<1>7. \A i, j \in 1 .. Len(q) : q[i] = q[j] => i = j
  <2> SUFFICES ASSUME NEW i \in 1 .. Len(q), NEW j \in 1 .. Len(q), q[i] = q[j] PROVE i = j
    OBVIOUS
  <2>1. CASE i = Len(line[r]) + 1 \/ j = Len(line[r]) + 1
    BY <1>2, <1>3, <1>5, <2>1
  <2>2. CASE i \in 1 .. Len(line[r]) /\ j \in 1 .. Len(line[r])
    BY <1>2, <1>3, <1>4, <2>2 DEF QueueOf
  <2> QED BY <1>3, <2>1, <2>2
<1>8. \A u \in holders[r] : at'[u] = r /\ pc'[u] \in Inside \cup {"wait"}
  BY <1>1, <1>2, <1>4, <1>5 DEF TypeOK, QueueOf
<1>9. \A c \in Control : c \in holders[r] => holders[r] = {c}
  BY <1>2, <1>4 DEF QueueOf
<1>10. /\ holders' \in [Remote -> SUBSET Thread]
       /\ line' \in [Remote -> Seq(Thread)]
       /\ \A s \in Remote \ {r} : holders'[s] = holders[s] /\ line'[s] = line[s]
       /\ holders[r] \subseteq holders'[r]
       /\ QueueOf(r)'
  BY <1>1, <1>2, <1>3, <1>6, <1>7, <1>8, <1>9, AdmitKeeps
<1>11. ASSUME NEW s \in Remote, s # r PROVE QueueOf(s)'
  BY <1>1, <1>4, <1>5, <1>10, <1>11, ElementOfSeq DEF QueueOf, TypeOK
<1>12. ASSUME NEW u \in Thread, pc'[u] \in Inside PROVE u \in holders'[at'[u]]
  <2>1. u # t /\ pc[u] \in Inside
    BY <1>1, <1>12 DEF TypeOK, Inside
  <2>2. u \in holders[at[u]] /\ at[u] \in Remote
    BY <2>1, NamesAssumption DEF QueueInv, TypeOK, Inside
  <2>3. holders[at[u]] \subseteq holders'[at[u]]
    BY <1>10, <2>2
  <2> QED BY <1>1, <2>2, <2>3
<1> QED BY <1>10, <1>11, <1>12 DEF QueueInv

(* Giving permits back, for a thread that goes on to idle or install *)
LEMMA ReleaseKeeps ==
  ASSUME TypeOK, QueueInv, NEW t \in Thread, Release(t),
         pc[t] \in Inside \cup {"wait"}, t \in holders[at[t]],
         pc'[t] \notin Inside \cup {"wait"},
         \A u \in Thread \ {t} : pc'[u] = pc[u] /\ at'[u] = at[u]
  PROVE  /\ holders' \in [Remote -> SUBSET Thread]
         /\ line' \in [Remote -> Seq(Thread)]
         /\ QueueInv'
<1>1. PICK s \in Remote, q \in Seq(Thread), hs \in SUBSET Thread :
        s = at[t] /\ q = line[s] /\ hs = holders[s] \ {t}
  BY NamesAssumption DEF TypeOK, Inside
<1>2. Admit(s, q, hs)
  BY <1>1 DEF Release
<1>3. \A u \in Remote : QueueOf(u)
  BY DEF QueueInv
<1>4. pc'[t] \notin Inside \cup {"wait"} /\ \A u \in Thread \ {t} : pc'[u] = pc[u] /\ at'[u] = at[u]
  OBVIOUS
<1>5. /\ \A u \in Remote \ {s} : t \notin holders[u]
      /\ \A u \in Remote : \A i \in 1 .. Len(line[u]) : line[u][i] # t /\ line[u][i] \in Thread
  <2>1. \A u \in Remote \ {s} : t \notin holders[u]
    BY <1>1, <1>3 DEF QueueOf
  <2>2. ASSUME NEW u \in Remote, NEW i \in 1 .. Len(line[u]) PROVE line[u][i] # t /\ line[u][i] \in Thread
    BY <1>1, <1>3, ElementOfSeq DEF QueueOf, TypeOK
  <2> QED BY <2>1, <2>2
<1>6. \A i \in 1 .. Len(q) : pc'[q[i]] = "wait" /\ at'[q[i]] = s /\ q[i] \notin hs
  BY <1>1, <1>3, <1>4, <1>5 DEF QueueOf
<1>7. \A i, j \in 1 .. Len(q) : q[i] = q[j] => i = j
  BY <1>1, <1>3 DEF QueueOf
<1>8. \A u \in hs : at'[u] = s /\ pc'[u] \in Inside \cup {"wait"}
  BY <1>1, <1>3, <1>4 DEF QueueOf
<1>9. \A c \in Control : c \in hs => hs = {c}
  BY <1>1, <1>3 DEF QueueOf
<1>10. /\ holders' \in [Remote -> SUBSET Thread]
       /\ line' \in [Remote -> Seq(Thread)]
       /\ \A u \in Remote \ {s} : holders'[u] = holders[u] /\ line'[u] = line[u]
       /\ hs \subseteq holders'[s]
       /\ QueueOf(s)'
  BY <1>2, <1>6, <1>7, <1>8, <1>9, AdmitKeeps
<1>11. ASSUME NEW u \in Remote, u # s PROVE QueueOf(u)'
  <2>1. \A v \in holders[u] : v \in Thread \ {t}
    BY <1>5, <1>11 DEF TypeOK
  <2>2. holders'[u] = holders[u] /\ line'[u] = line[u]
    BY <1>10, <1>11
  <2>3. \A i \in 1 .. Len(line[u]) :
          /\ pc'[line[u][i]] = "wait" /\ at'[line[u][i]] = u /\ line[u][i] \notin holders[u]
          /\ \A j \in 1 .. Len(line[u]) : line[u][i] = line[u][j] => i = j
    BY <1>3, <1>4, <1>5 DEF QueueOf
  <2>4. \A v \in holders[u] : at'[v] = u /\ pc'[v] \in Inside \cup {"wait"}
    BY <1>3, <1>4, <2>1 DEF QueueOf
  <2>5. \A c \in Control : c \in holders[u] => holders[u] = {c}
    BY <1>3 DEF QueueOf
  <2> QED BY <2>2, <2>3, <2>4, <2>5 DEF QueueOf
<1>12. ASSUME NEW u \in Thread, pc'[u] \in Inside PROVE u \in holders'[at'[u]]
  <2>1. u # t /\ pc[u] \in Inside
    BY <1>4, <1>12 DEF Inside
  <2>2. u \in holders[at[u]] /\ at[u] \in Remote
    BY <2>1, NamesAssumption DEF QueueInv, TypeOK, Inside
  <2>3. u \in holders'[at[u]]
    BY <1>1, <1>10, <2>1, <2>2
  <2> QED BY <1>4, <2>1, <2>3
<1> QED BY <1>10, <1>11, <1>12 DEF QueueInv

(* A thread moves on outside the semaphore, or inside it with its permits *)
LEMMA QueueStays ==
  ASSUME TypeOK, QueueInv, holders' = holders, line' = line,
         NEW t \in Thread, \A u \in Thread \ {t} : pc'[u] = pc[u] /\ at'[u] = at[u],
         \/ pc[t] \notin Inside \cup {"wait"} /\ pc'[t] \notin Inside
         \/ /\ pc[t] \in Inside \cup {"wait"} /\ pc'[t] \in Inside
            /\ t \in holders[at[t]] /\ at'[t] = at[t]
  PROVE  QueueInv'
<1>1. \A s \in Remote : QueueOf(s)
  BY DEF QueueInv
<1>2. \A u \in Thread \ {t} : pc'[u] = pc[u] /\ at'[u] = at[u]
  OBVIOUS
<1>3. ASSUME NEW s \in Remote PROVE QueueOf(s)'
  <2>1. \A i \in 1 .. Len(line[s]) : line[s][i] \in Thread /\ line[s][i] # t
    <3> SUFFICES ASSUME NEW i \in 1 .. Len(line[s]) PROVE line[s][i] \in Thread /\ line[s][i] # t
      OBVIOUS
    <3>1. line[s][i] \in Thread
      BY ElementOfSeq DEF TypeOK
    <3>2. pc[line[s][i]] = "wait" /\ at[line[s][i]] = s /\ line[s][i] \notin holders[s]
      BY <1>1 DEF QueueOf
    <3> QED BY <3>1, <3>2
  <2>2. \A u \in holders[s] : u \in Thread /\ at'[u] = s /\ pc'[u] \in Inside \cup {"wait"}
    <3> SUFFICES ASSUME NEW u \in holders[s]
                 PROVE  u \in Thread /\ at'[u] = s /\ pc'[u] \in Inside \cup {"wait"}
      OBVIOUS
    <3>1. u \in Thread
      BY DEF TypeOK
    <3>2. at[u] = s /\ pc[u] \in Inside \cup {"wait"}
      BY <1>1 DEF QueueOf
    <3>3. CASE u = t
      BY <3>2, <3>3
    <3>4. CASE u # t
      BY <1>2, <3>1, <3>2, <3>4
    <3> QED BY <3>1, <3>3, <3>4
  <2>3. \A i \in 1 .. Len(line[s]) :
          /\ pc'[line[s][i]] = "wait" /\ at'[line[s][i]] = s /\ line[s][i] \notin holders[s]
          /\ \A j \in 1 .. Len(line[s]) : line[s][i] = line[s][j] => i = j
    BY <1>1, <1>2, <2>1 DEF QueueOf
  <2> QED BY <1>1, <2>2, <2>3 DEF QueueOf
<1>4. ASSUME NEW u \in Thread, pc'[u] \in Inside PROVE u \in holders[at'[u]]
  BY <1>2, <1>4 DEF QueueInv
<1> QED BY <1>3, <1>4 DEF QueueInv

(* Every step keeps the order of the semaphores *)
LEMMA QueueStep == TypeOK /\ QueueInv /\ PlaceInv /\ [Next]_vars => QueueInv'
<1> SUFFICES ASSUME TypeOK, QueueInv, PlaceInv, [Next]_vars PROVE QueueInv'
  OBVIOUS
<1> USE DEF global, remotes, threads
<1>0. Dialer \subseteq Thread /\ Control \subseteq Thread
  BY DEF Thread
<1>1. ASSUME NEW d \in Dialer, Hook(d) PROVE QueueInv'
  BY <1>0, <1>1, QueueStays DEF Hook, Goto, TypeOK, Inside
<1>2. ASSUME NEW t \in Thread, Acquire(t) PROVE QueueInv'
  BY <1>2, AcquireKeeps
<1>3. ASSUME NEW d \in Dialer, EnterCall(d) PROVE QueueInv'
  BY <1>0, <1>3, QueueStays DEF EnterCall, Admitted, Goto, Inside, TypeOK
<1>4. ASSUME NEW d \in Dialer, TurnAway(d) PROVE QueueInv'
  BY <1>0, <1>4, ReleaseKeeps DEF TurnAway, Admitted, Goto, Inside, TypeOK
<1>5. ASSUME NEW d \in Dialer, ReturnFromCall(d) PROVE QueueInv'
  BY <1>0, <1>5, ReleaseKeeps DEF ReturnFromCall, Goto, Inside, QueueInv, TypeOK
<1>6. ASSUME NEW c \in Control, NEW r \in Remote, CallStart(c, r) PROVE QueueInv'
  BY <1>0, <1>6, QueueStays DEF CallStart, Goto, Inside, TypeOK
<1>7. ASSUME NEW c \in Control, CallStop(c) PROVE QueueInv'
  BY <1>0, <1>7, QueueStays DEF CallStop, Goto, Inside, TypeOK
<1>8. ASSUME NEW c \in Control, LockToClose(c) PROVE QueueInv'
  BY <1>0, <1>8, QueueStays DEF LockToClose, Goto, TypeOK, Inside
<1>9. ASSUME NEW c \in Control, LockToInstall(c) PROVE QueueInv'
  BY <1>0, <1>9, QueueStays DEF LockToInstall, Goto, TypeOK, Inside
<1>10. ASSUME NEW c \in Control, NothingToStop(c) PROVE QueueInv'
  BY <1>0, <1>10, QueueStays DEF NothingToStop, Goto, Inside, TypeOK
<1>11. ASSUME NEW c \in Control, MarkClosed(c) PROVE QueueInv'
  BY <1>0, <1>11, QueueStays DEF MarkClosed, Admitted, Goto, Inside, TypeOK
<1>12. ASSUME NEW c \in Control, DropContext(c) PROVE QueueInv'
  BY <1>0, <1>12, QueueStays DEF DropContext, Goto, Inside, QueueInv, TypeOK
<1>13. ASSUME NEW c \in Control, DeleteCallback(c) PROVE QueueInv'
  BY <1>0, <1>13, QueueStays DEF DeleteCallback, Goto, Inside, QueueInv, TypeOK
<1>14. ASSUME NEW c \in Control, LeaveToInstall(c) PROVE QueueInv'
  BY <1>0, <1>14, ReleaseKeeps DEF LeaveToInstall, Goto, TypeOK, Inside, QueueInv
<1>15. ASSUME NEW c \in Control, LeaveAndReturn(c) PROVE QueueInv'
  BY <1>0, <1>15, ReleaseKeeps DEF LeaveAndReturn, Return, Goto, Inside, QueueInv, TypeOK
<1>16. ASSUME NEW c \in Control, Install(c) PROVE QueueInv'
  BY <1>0, <1>16, QueueStays DEF Install, Goto, Inside, TypeOK
<1>17. ASSUME NEW c \in Control, Opened(c) PROVE QueueInv'
  BY <1>0, <1>17, QueueStays DEF Opened, Return, Goto, Inside, TypeOK
<1>18. ASSUME NEW c \in Control, OpenFailed(c) PROVE QueueInv'
  BY <1>0, <1>18, QueueStays DEF OpenFailed, Goto, Inside, TypeOK
<1>19. CASE UNCHANGED vars
  BY <1>19 DEF vars, QueueInv, QueueOf
<1> QED
  BY <1>0, <1>1, <1>2, <1>3, <1>4, <1>5, <1>6, <1>7, <1>8, <1>9, <1>10, <1>11, <1>12, <1>13, <1>14,
     <1>15, <1>16, <1>17, <1>18, <1>19 DEF Next, DialerStep, ControlStep

(* Every step keeps the types *)
LEMMA TypeStep == TypeOK /\ QueueInv /\ [Next]_vars => TypeOK'
<1> SUFFICES ASSUME TypeOK, QueueInv, [Next]_vars PROVE TypeOK'
  OBVIOUS
<1> USE NamesAssumption DEF TypeOK, global, remotes, threads
<1>0. Dialer \subseteq Thread /\ Control \subseteq Thread
  BY DEF Thread
<1>1. ASSUME NEW d \in Dialer, Hook(d) PROVE TypeOK'
  BY <1>0, <1>1 DEF Hook, Goto
<1>2. ASSUME NEW t \in Thread, Acquire(t) PROVE TypeOK'
  <2>1. holders' \in [Remote -> SUBSET Thread] /\ line' \in [Remote -> Seq(Thread)]
    BY <1>2, AcquireKeeps
  <2> QED BY <1>2, <2>1 DEF Acquire, Goto
<1>3. ASSUME NEW d \in Dialer, EnterCall(d) PROVE TypeOK'
  BY <1>0, <1>3 DEF EnterCall, Admitted, Goto
<1>4. ASSUME NEW d \in Dialer, TurnAway(d) PROVE TypeOK'
  <2>1. holders' \in [Remote -> SUBSET Thread] /\ line' \in [Remote -> Seq(Thread)]
    BY <1>0, <1>4, ReleaseKeeps DEF TurnAway, Admitted, Goto, Inside
  <2> QED BY <1>0, <1>4, <2>1 DEF TurnAway, Goto
<1>5. ASSUME NEW d \in Dialer, ReturnFromCall(d) PROVE TypeOK'
  <2>1. holders' \in [Remote -> SUBSET Thread] /\ line' \in [Remote -> Seq(Thread)]
    BY <1>0, <1>5, ReleaseKeeps DEF ReturnFromCall, Goto, Inside, QueueInv
  <2> QED BY <1>0, <1>5, <2>1 DEF ReturnFromCall, Goto
<1>6. ASSUME NEW c \in Control, NEW r \in Remote, CallStart(c, r) PROVE TypeOK'
  BY <1>0, <1>6 DEF CallStart, Goto
<1>7. ASSUME NEW c \in Control, CallStop(c) PROVE TypeOK'
  BY <1>0, <1>7 DEF CallStop, Goto
<1>8. ASSUME NEW c \in Control, LockToClose(c) PROVE TypeOK'
  BY <1>0, <1>8 DEF LockToClose, Goto
<1>9. ASSUME NEW c \in Control, LockToInstall(c) PROVE TypeOK'
  BY <1>0, <1>9 DEF LockToInstall, Goto
<1>10. ASSUME NEW c \in Control, NothingToStop(c) PROVE TypeOK'
  BY <1>0, <1>10 DEF NothingToStop, Goto
<1>11. ASSUME NEW c \in Control, MarkClosed(c) PROVE TypeOK'
  BY <1>0, <1>11 DEF MarkClosed, Admitted, Goto
<1>12. ASSUME NEW c \in Control, DropContext(c) PROVE TypeOK'
  BY <1>0, <1>12 DEF DropContext, Goto
<1>13. ASSUME NEW c \in Control, DeleteCallback(c) PROVE TypeOK'
  BY <1>0, <1>13 DEF DeleteCallback, Goto
<1>14. ASSUME NEW c \in Control, LeaveToInstall(c) PROVE TypeOK'
  <2>1. holders' \in [Remote -> SUBSET Thread] /\ line' \in [Remote -> Seq(Thread)]
    BY <1>0, <1>14, ReleaseKeeps DEF LeaveToInstall, Goto, Inside, QueueInv
  <2> QED BY <1>0, <1>14, <2>1 DEF LeaveToInstall, Goto
<1>15. ASSUME NEW c \in Control, LeaveAndReturn(c) PROVE TypeOK'
  <2>1. holders' \in [Remote -> SUBSET Thread] /\ line' \in [Remote -> Seq(Thread)]
    BY <1>0, <1>15, ReleaseKeeps DEF LeaveAndReturn, Return, Goto, Inside, QueueInv
  <2> QED BY <1>0, <1>15, <2>1 DEF LeaveAndReturn, Return, Goto
<1>16. ASSUME NEW c \in Control, Install(c) PROVE TypeOK'
  BY <1>0, <1>16 DEF Install, Goto
<1>17. ASSUME NEW c \in Control, Opened(c) PROVE TypeOK'
  BY <1>0, <1>17 DEF Opened, Return, Goto
<1>18. ASSUME NEW c \in Control, OpenFailed(c) PROVE TypeOK'
  BY <1>0, <1>18 DEF OpenFailed, Goto
<1>19. CASE UNCHANGED vars
  BY <1>19 DEF vars
<1> QED
  BY <1>0, <1>1, <1>2, <1>3, <1>4, <1>5, <1>6, <1>7, <1>8, <1>9, <1>10, <1>11, <1>12, <1>13, <1>14,
     <1>15, <1>16, <1>17, <1>18, <1>19 DEF Next, DialerStep, ControlStep

(* Every step keeps threads at their labels and the lock with its holder *)
LEMMA PlaceStep == IInv /\ [Next]_vars => PlaceInv'
<1> SUFFICES ASSUME IInv, [Next]_vars PROVE PlaceInv'
  OBVIOUS
<1> USE NamesAssumption DEF IInv, TypeOK, PlaceInv, global, remotes, threads
<1>0. Dialer \subseteq Thread /\ Control \subseteq Thread
  BY DEF Thread
<1>1. ASSUME NEW d \in Dialer, Hook(d) PROVE PlaceInv'
  BY <1>0, <1>1 DEF Hook, Goto
<1>2. ASSUME NEW t \in Thread, Acquire(t) PROVE PlaceInv'
  BY <1>0, <1>2 DEF Acquire, Goto
<1>3. ASSUME NEW d \in Dialer, EnterCall(d) PROVE PlaceInv'
  BY <1>0, <1>3 DEF EnterCall, Admitted, Goto
<1>4. ASSUME NEW d \in Dialer, TurnAway(d) PROVE PlaceInv'
  BY <1>0, <1>4 DEF TurnAway, Admitted, Goto
<1>5. ASSUME NEW d \in Dialer, ReturnFromCall(d) PROVE PlaceInv'
  BY <1>0, <1>5 DEF ReturnFromCall, Goto
<1>6. ASSUME NEW c \in Control, NEW r \in Remote, CallStart(c, r) PROVE PlaceInv'
  BY <1>0, <1>6 DEF CallStart, Goto
<1>7. ASSUME NEW c \in Control, CallStop(c) PROVE PlaceInv'
  BY <1>0, <1>7 DEF CallStop, Goto
<1>8. ASSUME NEW c \in Control, LockToClose(c) PROVE PlaceInv'
  BY <1>0, <1>8 DEF LockToClose, Goto
<1>9. ASSUME NEW c \in Control, LockToInstall(c) PROVE PlaceInv'
  BY <1>0, <1>9 DEF LockToInstall, Goto
<1>10. ASSUME NEW c \in Control, NothingToStop(c) PROVE PlaceInv'
  BY <1>0, <1>10 DEF NothingToStop, Goto
<1>11. ASSUME NEW c \in Control, MarkClosed(c) PROVE PlaceInv'
  BY <1>0, <1>11 DEF MarkClosed, Admitted, Goto
<1>12. ASSUME NEW c \in Control, DropContext(c) PROVE PlaceInv'
  BY <1>0, <1>12 DEF DropContext, Goto
<1>13. ASSUME NEW c \in Control, DeleteCallback(c) PROVE PlaceInv'
  BY <1>0, <1>13 DEF DeleteCallback, Goto
<1>14. ASSUME NEW c \in Control, LeaveToInstall(c) PROVE PlaceInv'
  BY <1>0, <1>14 DEF LeaveToInstall, Goto
<1>15. ASSUME NEW c \in Control, LeaveAndReturn(c) PROVE PlaceInv'
  BY <1>0, <1>15 DEF LeaveAndReturn, Return, Goto
<1>16. ASSUME NEW c \in Control, Install(c) PROVE PlaceInv'
  BY <1>0, <1>16 DEF Install, Goto
<1>17. ASSUME NEW c \in Control, Opened(c) PROVE PlaceInv'
  BY <1>0, <1>17 DEF Opened, Return, Goto
<1>18. ASSUME NEW c \in Control, OpenFailed(c) PROVE PlaceInv'
  BY <1>0, <1>18 DEF OpenFailed, Goto
<1>19. CASE UNCHANGED vars
  BY <1>19 DEF vars
<1> QED
  BY <1>0, <1>1, <1>2, <1>3, <1>4, <1>5, <1>6, <1>7, <1>8, <1>9, <1>10, <1>11, <1>12, <1>13, <1>14,
     <1>15, <1>16, <1>17, <1>18, <1>19 DEF Next, DialerStep, ControlStep

(* Every step keeps what a control thread knows of the remoteTun it works on *)
LEMMA OwnStep == IInv /\ [Next]_vars => OwnInv'
<1> SUFFICES ASSUME IInv, [Next]_vars PROVE OwnInv'
  OBVIOUS
<1> USE NamesAssumption DEF IInv, TypeOK, PlaceInv, OwnInv, FreshInv, LifeInv, Closing, Opening, Usable, global, remotes, threads
<1>0. Dialer \subseteq Thread /\ Control \subseteq Thread
  BY DEF Thread
<1>1. ASSUME NEW d \in Dialer, Hook(d) PROVE OwnInv'
  BY <1>0, <1>1 DEF Hook, Goto
<1>2. ASSUME NEW t \in Thread, Acquire(t) PROVE OwnInv'
  BY <1>0, <1>2 DEF Acquire, Goto
<1>3. ASSUME NEW d \in Dialer, EnterCall(d) PROVE OwnInv'
  BY <1>0, <1>3 DEF EnterCall, Admitted, Goto
<1>4. ASSUME NEW d \in Dialer, TurnAway(d) PROVE OwnInv'
  BY <1>0, <1>4 DEF TurnAway, Admitted, Goto
<1>5. ASSUME NEW d \in Dialer, ReturnFromCall(d) PROVE OwnInv'
  BY <1>0, <1>5 DEF ReturnFromCall, Goto
<1>6. ASSUME NEW c \in Control, NEW r \in Remote, CallStart(c, r) PROVE OwnInv'
  BY <1>0, <1>6 DEF CallStart, Goto
<1>7. ASSUME NEW c \in Control, CallStop(c) PROVE OwnInv'
  BY <1>0, <1>7 DEF CallStop, Goto
<1>8. ASSUME NEW c \in Control, LockToClose(c) PROVE OwnInv'
  BY <1>0, <1>8 DEF LockToClose, Goto
<1>9. ASSUME NEW c \in Control, LockToInstall(c) PROVE OwnInv'
  BY <1>0, <1>9 DEF LockToInstall, Goto
<1>10. ASSUME NEW c \in Control, NothingToStop(c) PROVE OwnInv'
  BY <1>0, <1>10 DEF NothingToStop, Goto
<1>11. ASSUME NEW c \in Control, MarkClosed(c) PROVE OwnInv'
  BY <1>0, <1>11 DEF MarkClosed, Admitted, Goto
<1>12. ASSUME NEW c \in Control, DropContext(c) PROVE OwnInv'
  BY <1>0, <1>12 DEF DropContext, Goto
<1>13. ASSUME NEW c \in Control, DeleteCallback(c) PROVE OwnInv'
  BY <1>0, <1>13 DEF DeleteCallback, Goto
<1>14. ASSUME NEW c \in Control, LeaveToInstall(c) PROVE OwnInv'
  BY <1>0, <1>14 DEF LeaveToInstall, Goto
<1>15. ASSUME NEW c \in Control, LeaveAndReturn(c) PROVE OwnInv'
  BY <1>0, <1>15 DEF LeaveAndReturn, Return, Goto
<1>16. ASSUME NEW c \in Control, Install(c) PROVE OwnInv'
  BY <1>0, <1>16 DEF Install, Goto
<1>17. ASSUME NEW c \in Control, Opened(c) PROVE OwnInv'
  BY <1>0, <1>17 DEF Opened, Return, Goto
<1>18. ASSUME NEW c \in Control, OpenFailed(c) PROVE OwnInv'
  BY <1>0, <1>18 DEF OpenFailed, Goto
<1>19. CASE UNCHANGED vars
  BY <1>19 DEF vars
<1> QED
  BY <1>0, <1>1, <1>2, <1>3, <1>4, <1>5, <1>6, <1>7, <1>8, <1>9, <1>10, <1>11, <1>12, <1>13, <1>14,
     <1>15, <1>16, <1>17, <1>18, <1>19 DEF Next, DialerStep, ControlStep

(* Every step keeps a new remoteTun with its thread *)
LEMMA FreshStep == IInv /\ [Next]_vars => FreshInv'
<1> SUFFICES ASSUME IInv, [Next]_vars PROVE FreshInv'
  OBVIOUS
<1> USE NamesAssumption DEF IInv, TypeOK, PlaceInv, OwnInv, FreshInv, LifeInv, Closing, Opening, Usable, global, remotes, threads
<1>0. Dialer \subseteq Thread /\ Control \subseteq Thread
  BY DEF Thread
<1>1. ASSUME NEW d \in Dialer, Hook(d) PROVE FreshInv'
  BY <1>0, <1>1 DEF Hook, Goto
<1>2. ASSUME NEW t \in Thread, Acquire(t) PROVE FreshInv'
  BY <1>0, <1>2 DEF Acquire, Goto
<1>3. ASSUME NEW d \in Dialer, EnterCall(d) PROVE FreshInv'
  BY <1>0, <1>3 DEF EnterCall, Admitted, Goto
<1>4. ASSUME NEW d \in Dialer, TurnAway(d) PROVE FreshInv'
  BY <1>0, <1>4 DEF TurnAway, Admitted, Goto
<1>5. ASSUME NEW d \in Dialer, ReturnFromCall(d) PROVE FreshInv'
  BY <1>0, <1>5 DEF ReturnFromCall, Goto
<1>6. ASSUME NEW c \in Control, NEW r \in Remote, CallStart(c, r) PROVE FreshInv'
  BY <1>0, <1>6 DEF CallStart, Goto
<1>7. ASSUME NEW c \in Control, CallStop(c) PROVE FreshInv'
  BY <1>0, <1>7 DEF CallStop, Goto
<1>8. ASSUME NEW c \in Control, LockToClose(c) PROVE FreshInv'
  BY <1>0, <1>8 DEF LockToClose, Goto
<1>9. ASSUME NEW c \in Control, LockToInstall(c) PROVE FreshInv'
  BY <1>0, <1>9 DEF LockToInstall, Goto
<1>10. ASSUME NEW c \in Control, NothingToStop(c) PROVE FreshInv'
  BY <1>0, <1>10 DEF NothingToStop, Goto
<1>11. ASSUME NEW c \in Control, MarkClosed(c) PROVE FreshInv'
  BY <1>0, <1>11 DEF MarkClosed, Admitted, Goto
<1>12. ASSUME NEW c \in Control, DropContext(c) PROVE FreshInv'
  BY <1>0, <1>12 DEF DropContext, Goto
<1>13. ASSUME NEW c \in Control, DeleteCallback(c) PROVE FreshInv'
  BY <1>0, <1>13 DEF DeleteCallback, Goto
<1>14. ASSUME NEW c \in Control, LeaveToInstall(c) PROVE FreshInv'
  BY <1>0, <1>14 DEF LeaveToInstall, Goto
<1>15. ASSUME NEW c \in Control, LeaveAndReturn(c) PROVE FreshInv'
  BY <1>0, <1>15 DEF LeaveAndReturn, Return, Goto
<1>16. ASSUME NEW c \in Control, Install(c) PROVE FreshInv'
  BY <1>0, <1>16 DEF Install, Goto
<1>17. ASSUME NEW c \in Control, Opened(c) PROVE FreshInv'
  BY <1>0, <1>17 DEF Opened, Return, Goto
<1>18. ASSUME NEW c \in Control, OpenFailed(c) PROVE FreshInv'
  BY <1>0, <1>18 DEF OpenFailed, Goto
<1>19. CASE UNCHANGED vars
  BY <1>19 DEF vars
<1> QED
  BY <1>0, <1>1, <1>2, <1>3, <1>4, <1>5, <1>6, <1>7, <1>8, <1>9, <1>10, <1>11, <1>12, <1>13, <1>14,
     <1>15, <1>16, <1>17, <1>18, <1>19 DEF Next, DialerStep, ControlStep

(* Every step keeps the lives of the callbacks *)
LEMMA LifeStep == IInv /\ [Next]_vars => LifeInv'
<1> SUFFICES ASSUME IInv, [Next]_vars PROVE LifeInv'
  OBVIOUS
<1> USE NamesAssumption DEF IInv, TypeOK, PlaceInv, OwnInv, FreshInv, LifeInv, Closing, Opening, Usable, global, remotes, threads
<1>0. Dialer \subseteq Thread /\ Control \subseteq Thread
  BY DEF Thread
<1>1. ASSUME NEW d \in Dialer, Hook(d) PROVE LifeInv'
  <2>1. CASE mutex = Nobody
    BY <1>0, <1>1, <2>1 DEF Hook, Goto
  <2>2. CASE mutex # Nobody
    <3>1. PICK c \in Control : mutex = c
      BY <2>2
    <3>2. pc[c] \in Closing \cup Opening
      BY <1>0, <3>1
    <3>3. context = at[c] /\ callback[at[c]] # "none"
      BY <1>1, <3>2 DEF Hook
    <3> QED BY <1>0, <1>1, <3>3 DEF Hook, Goto
  <2> QED BY <2>1, <2>2
<1>2. ASSUME NEW t \in Thread, Acquire(t) PROVE LifeInv'
  BY <1>0, <1>2 DEF Acquire, Goto
<1>3. ASSUME NEW d \in Dialer, EnterCall(d) PROVE LifeInv'
  BY <1>0, <1>3 DEF EnterCall, Admitted, Goto
<1>4. ASSUME NEW d \in Dialer, TurnAway(d) PROVE LifeInv'
  BY <1>0, <1>4 DEF TurnAway, Admitted, Goto
<1>5. ASSUME NEW d \in Dialer, ReturnFromCall(d) PROVE LifeInv'
  BY <1>0, <1>5 DEF ReturnFromCall, Goto
<1>6. ASSUME NEW c \in Control, NEW r \in Remote, CallStart(c, r) PROVE LifeInv'
  BY <1>0, <1>6 DEF CallStart, Goto
<1>7. ASSUME NEW c \in Control, CallStop(c) PROVE LifeInv'
  BY <1>0, <1>7 DEF CallStop, Goto
<1>8. ASSUME NEW c \in Control, LockToClose(c) PROVE LifeInv'
  BY <1>0, <1>8 DEF LockToClose, Goto
<1>9. ASSUME NEW c \in Control, LockToInstall(c) PROVE LifeInv'
  BY <1>0, <1>9 DEF LockToInstall, Goto
<1>10. ASSUME NEW c \in Control, NothingToStop(c) PROVE LifeInv'
  BY <1>0, <1>10 DEF NothingToStop, Goto
<1>11. ASSUME NEW c \in Control, MarkClosed(c) PROVE LifeInv'
  <2>1. pc[c] = "wait" /\ c \in holders[at[c]] /\ at[c] \in Remote
    BY <1>0, <1>11 DEF MarkClosed, Admitted
  <2>2. holders[at[c]] = {c}
    BY <2>1 DEF QueueInv, QueueOf
  <2>3. \A d \in Dialer : pc[d] = "call" => at[d] # at[c]
    BY <1>0, <2>1, <2>2 DEF QueueInv, Inside
  <2>4. mutex = c /\ Usable(at[c])
    BY <2>1
  <2> QED BY <1>0, <1>11, <2>1, <2>3, <2>4 DEF MarkClosed, Goto
<1>12. ASSUME NEW c \in Control, DropContext(c) PROVE LifeInv'
  BY <1>0, <1>12 DEF DropContext, Goto
<1>13. ASSUME NEW c \in Control, DeleteCallback(c) PROVE LifeInv'
  BY <1>0, <1>13 DEF DeleteCallback, Goto
<1>14. ASSUME NEW c \in Control, LeaveToInstall(c) PROVE LifeInv'
  <2>1. /\ mutex = c /\ context = Nobody /\ callback[at[c]] = "deleted" /\ at[c] \in Remote
        /\ at[c] = rTun \/ (rTun = Nobody /\ at[c] = fresh[c])
    BY <1>0, <1>14 DEF LeaveToInstall
  <2>2. ASSUME NEW r \in Remote, callback'[r] = "live" PROVE \E b \in Control : fresh'[b] = r
    <3>1. callback[r] = "live" /\ r # rTun /\ r # at[c]
      BY <1>14, <2>1, <2>2 DEF LeaveToInstall
    <3>2. PICK b \in Control : fresh[b] = r
      BY <3>1
    <3> QED BY <1>14, <2>1, <3>1, <3>2 DEF LeaveToInstall
  <2> QED BY <1>0, <1>14, <2>1, <2>2 DEF LeaveToInstall, Goto
<1>15. ASSUME NEW c \in Control, LeaveAndReturn(c) PROVE LifeInv'
  <2>1. /\ mutex = c /\ context = Nobody /\ callback[at[c]] = "deleted" /\ at[c] \in Remote
        /\ at[c] = rTun \/ (rTun = Nobody /\ at[c] = fresh[c])
    BY <1>0, <1>15 DEF LeaveAndReturn
  <2>2. ASSUME NEW r \in Remote, callback'[r] = "live" PROVE \E b \in Control : fresh'[b] = r
    <3>1. callback[r] = "live" /\ r # rTun /\ r # at[c]
      BY <1>15, <2>1, <2>2 DEF LeaveAndReturn
    <3>2. PICK b \in Control : fresh[b] = r
      BY <3>1
    <3> QED BY <1>15, <2>1, <3>1, <3>2 DEF LeaveAndReturn, Return
  <2> QED BY <1>0, <1>15, <2>1, <2>2 DEF LeaveAndReturn, Return, Goto
<1>16. ASSUME NEW c \in Control, Install(c) PROVE LifeInv'
  BY <1>0, <1>16 DEF Install, Goto
<1>17. ASSUME NEW c \in Control, Opened(c) PROVE LifeInv'
  BY <1>0, <1>17 DEF Opened, Return, Goto
<1>18. ASSUME NEW c \in Control, OpenFailed(c) PROVE LifeInv'
  BY <1>0, <1>18 DEF OpenFailed, Goto
<1>19. CASE UNCHANGED vars
  BY <1>19 DEF vars
<1> QED
  BY <1>0, <1>1, <1>2, <1>3, <1>4, <1>5, <1>6, <1>7, <1>8, <1>9, <1>10, <1>11, <1>12, <1>13, <1>14,
     <1>15, <1>16, <1>17, <1>18, <1>19 DEF Next, DialerStep, ControlStep

LEMMA Invariance == Spec => []IInv
<1>1. Init => IInv
  <2> SUFFICES ASSUME Init PROVE IInv
    OBVIOUS
  <2>1. TypeOK
    BY EmptySeq DEF Init, TypeOK
  <2>2. QueueInv
    BY DEF Init, QueueInv, QueueOf, Inside
  <2>3. PlaceInv
    BY NamesAssumption DEF Init, PlaceInv, Thread
  <2>4. OwnInv /\ FreshInv
    BY DEF Init, OwnInv, FreshInv, Thread, Closing, Opening
  <2>5. LifeInv
    BY DEF Init, LifeInv, Thread
  <2> QED BY <2>1, <2>2, <2>3, <2>4, <2>5 DEF IInv
<1>2. IInv /\ [Next]_vars => IInv'
  <2> SUFFICES ASSUME IInv, [Next]_vars PROVE IInv'
    OBVIOUS
  <2>1. TypeOK' /\ QueueInv'
    BY TypeStep, QueueStep DEF IInv
  <2>2. PlaceInv' /\ OwnInv' /\ FreshInv' /\ LifeInv'
    BY PlaceStep, OwnStep, FreshStep, LifeStep
  <2> QED BY <2>1, <2>2 DEF IInv
<1> QED BY <1>1, <1>2, PTL DEF Spec

-----------------------------------------------------------------------------
(* Every value stays within its type, and nobody goes on with a remoteTun that is nil *)
THEOREM TypeCorrect == Spec => []TypeOK
<1>1. IInv => TypeOK
  BY DEF IInv
<1> QED BY <1>1, Invariance, PTL

(* Whenever rTunLock is free, the context leads to the installed device, and every other callback *)
(* that startTun was given has been released.                                                      *)
THEOREM NoLeak == Spec => []NothingLeaks
<1>1. IInv => NothingLeaks
  <2> SUFFICES ASSUME IInv, mutex = Nobody
               PROVE  /\ context = rTun
                      /\ \A r \in Remote : callback[r] = "live" =>
                           r = rTun \/ \E c \in Control : fresh[c] = r /\ pc[c] = "lock"
    BY DEF NothingLeaks
  <2>1. \A c \in Control : pc[c] \in {"idle", "lock"} /\ (pc[c] = "idle" => fresh[c] = Nobody)
    BY NamesAssumption DEF IInv, PlaceInv
  <2> QED BY <2>1, NamesAssumption DEF IInv, LifeInv
<1> QED BY <1>1, Invariance, PTL

(* The calls stay what they are when the thread that moves neither enters nor leaves one *)
LEMMA CallersStay ==
  ASSUME TypeOK, NEW t \in Thread, pc[t] # "call", pc'[t] # "call",
         \A u \in Thread \ {t} : pc'[u] = pc[u] /\ at'[u] = at[u]
  PROVE  Callers' = Callers
<1>1. Dialer \subseteq Thread
  BY DEF Thread
<1>2. ASSUME NEW r \in Remote
      PROVE  {d \in Dialer : pc'[d] = "call" /\ at'[d] = r} = {d \in Dialer : pc[d] = "call" /\ at[d] = r}
  BY <1>1
<1> QED BY <1>2 DEF Callers

(* A step of NativeTun is a step of GlobalRef or leaves its variables alone *)
LEMMA ReferenceStep ==
  ASSUME IInv, [Next]_vars
  PROVE  [References!Next]_<<callback, Callers>>
<1> USE DEF global, remotes, threads
<1>0. TypeOK /\ Dialer \subseteq Thread /\ Control \subseteq Thread
  BY DEF Thread, IInv
<1>1. \A c \in Control : pc[c] # "call"
  BY DEF IInv, PlaceInv
<1>2. ASSUME NEW d \in Dialer, Hook(d) PROVE UNCHANGED <<callback, Callers>>
  BY <1>0, <1>2, CallersStay DEF Hook, Goto, TypeOK
<1>3. ASSUME NEW t \in Thread, Acquire(t) PROVE UNCHANGED <<callback, Callers>>
  BY <1>0, <1>3, CallersStay DEF Acquire, Goto, TypeOK
<1>4. ASSUME NEW d \in Dialer, EnterCall(d) PROVE \E r \in Remote : References!Enter(d, r)
  <2>1. PICK r \in Remote : r = at[d]
    BY <1>0, <1>4, NamesAssumption DEF EnterCall, Admitted, TypeOK
  <2>2. callback[r] = "live" /\ callback' = callback
    BY <1>0, <1>4, <2>1, NamesAssumption DEF EnterCall, IInv, LifeInv, TypeOK
  <2>3. d \notin Callers[r]
    BY <1>4, <2>1 DEF Callers, EnterCall, Admitted
  <2>4. Callers' = [Callers EXCEPT ![r] = @ \cup {d}]
    <3>1. ASSUME NEW s \in Remote
          PROVE  Callers'[s] = [Callers EXCEPT ![r] = @ \cup {d}][s]
      BY <1>0, <1>4, <2>1 DEF Callers, EnterCall, Admitted, Goto, TypeOK
    <3> QED BY <3>1 DEF Callers
  <2> QED BY <2>2, <2>3, <2>4 DEF References!Enter
<1>5. ASSUME NEW d \in Dialer, TurnAway(d) PROVE UNCHANGED <<callback, Callers>>
  BY <1>0, <1>5, CallersStay DEF TurnAway, Admitted, Goto, TypeOK
<1>6. ASSUME NEW d \in Dialer, ReturnFromCall(d) PROVE \E r \in Remote : References!Exit(d, r)
  <2>1. PICK r \in Remote : r = at[d]
    BY <1>0, <1>6, NamesAssumption DEF ReturnFromCall, TypeOK
  <2>2. d \in Callers[r]
    BY <1>6, <2>1 DEF Callers, ReturnFromCall
  <2>3. Callers' = [Callers EXCEPT ![r] = @ \ {d}]
    <3>1. ASSUME NEW s \in Remote
          PROVE  Callers'[s] = [Callers EXCEPT ![r] = @ \ {d}][s]
      BY <1>0, <1>6, <2>1 DEF Callers, ReturnFromCall, Goto, TypeOK
    <3> QED BY <3>1 DEF Callers
  <2> QED BY <1>6, <2>2, <2>3 DEF References!Exit, ReturnFromCall
<1>7. ASSUME NEW c \in Control, NEW r \in Remote, CallStart(c, r) PROVE References!New(r)
  BY <1>0, <1>7, CallersStay DEF CallStart, Goto, TypeOK, References!New
<1>8. ASSUME NEW c \in Control, DeleteCallback(c) PROVE \E r \in Remote : References!Delete(r)
  <2>1. PICK r \in Remote : r = at[c]
    BY <1>0, <1>8, NamesAssumption DEF DeleteCallback, TypeOK
  <2>2. holders[r] = {c}
    BY <1>0, <1>8, <2>1 DEF DeleteCallback, IInv, QueueInv, QueueOf, Inside
  <2>3. Callers[r] = {}
    BY <1>0, <1>1, <2>1, <2>2 DEF Callers, IInv, QueueInv, Inside
  <2>4. callback[r] = "live"
    BY <1>8, <2>1 DEF DeleteCallback, IInv, OwnInv
  <2>5. Callers' = Callers
    BY <1>0, <1>8, CallersStay DEF DeleteCallback, Goto, TypeOK
  <2> QED BY <1>8, <2>1, <2>3, <2>4, <2>5 DEF DeleteCallback, References!Delete
<1>9. ASSUME NEW c \in Control,
             \/ CallStop(c) \/ LockToClose(c) \/ LockToInstall(c) \/ NothingToStop(c) \/ MarkClosed(c)
             \/ DropContext(c) \/ LeaveToInstall(c) \/ LeaveAndReturn(c) \/ Install(c) \/ Opened(c)
             \/ OpenFailed(c)
      PROVE  UNCHANGED <<callback, Callers>>
  <2>1. callback' = callback
    BY <1>9 DEF CallStop, LockToClose, LockToInstall, NothingToStop, MarkClosed, DropContext,
                LeaveToInstall, LeaveAndReturn, Install, Opened, OpenFailed
  <2>2. \A u \in Thread \ {c} : pc'[u] = pc[u] /\ at'[u] = at[u]
    BY <1>0, <1>9 DEF CallStop, LockToClose, LockToInstall, NothingToStop, MarkClosed, DropContext,
                LeaveToInstall, LeaveAndReturn, Install, Opened, OpenFailed, Return, Goto, TypeOK
  <2>3. pc'[c] # "call"
    BY <1>0, <1>9 DEF CallStop, LockToClose, LockToInstall, NothingToStop, MarkClosed, DropContext,
                LeaveToInstall, LeaveAndReturn, Install, Opened, OpenFailed, Return, Goto, TypeOK
  <2> QED BY <1>0, <1>1, <2>1, <2>2, <2>3, CallersStay
<1>10. CASE UNCHANGED vars
  BY <1>10 DEF vars, Callers
<1> QED
  BY <1>0, <1>2, <1>3, <1>4, <1>5, <1>6, <1>7, <1>8, <1>9, <1>10
  DEF Next, DialerStep, ControlStep, References!Next

(* The callback of a device is made before it is used, used only while it is live, and deleted   *)
(* once, when no thread is in a call through it.                                                  *)
THEOREM CallbacksAreReferences == Spec => UsesReferences
<1>1. Init => References!Init
  BY DEF Init, References!Init, Callers, Thread
<1>2. IInv /\ [Next]_vars => [References!Next]_<<callback, Callers>>
  BY ReferenceStep
<1> QED BY <1>1, <1>2, Invariance, PTL DEF Spec, UsesReferences, References!Spec

=============================================================================
