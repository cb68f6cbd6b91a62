------------------------- MODULE ProxyControlProofs -------------------------
(***************************************************************************)
(* Proofs about ProxyControl, for any number of commands in flight and any *)
(* number of keys: the type invariant, SecondPassClears and SoloSettles.   *)
(***************************************************************************)
EXTENDS ProxyControl, TLAPS

(* A coroutine is idle exactly when it serves no intent, and an import is never at a label of    *)
(* ProxyManager.start or stop, nor a switch at the label where an import leaves. Between the two     *)
(* passes of stop the next key is the first.                                                     *)
PlaceInv ==
  \A t \in Task :
    /\ pc[t] = "idle" <=> kind[t] = "none"
    /\ kind[t] = "IMPORT" => pc[t] \in {"queued", "await", "leave"}
    /\ kind[t] \in {"START", "STOP"} => pc[t] # "leave"
    /\ pc[t] \in {"readFlag", "stopHttp", "unflag"} => idx[t] = 1

(* How far a second pass has come that nobody has disturbed *)
PassInv ==
  \A t \in Task : granted /\ ~dirty[t] =>
    /\ pc[t] = "clear2" => keys \cap 1 .. (idx[t] - 1) = {}
    /\ pc[t] = "finish" => keys = {}

(* How far a switch has come that runs alone *)
Progress(t) ==
  /\ pc[t] \in {"write", "report"} => httpStarted
  /\ pc[t] = "write" => 1 .. (idx[t] - 1) \subseteq keys
  /\ pc[t] = "report" => keys = Key
  /\ pc[t] \in {"clear2", "finish"} => ~httpStarted
  /\ pc[t] = "clear2" /\ granted => keys \cap 1 .. (idx[t] - 1) = {}
  /\ pc[t] = "finish" /\ granted => keys = {}

(* A switch that runs alone is the only one, and one that ended alone left no other behind *)
SoloInv ==
  /\ solo = "running" =>
       \A t, u \in Task : Switching(t) /\ Switching(u) => t = u
  /\ solo = "running" => \A t \in Task : Switching(t) => Progress(t)
  /\ solo = "yes" => \A t \in Task : ~Switching(t)

IInv == TypeOK /\ PlaceInv /\ PassInv /\ SoloInv /\ SoloSettles

-----------------------------------------------------------------------------
(* The key after a key, round to the first one, is a key *)
LEMMA NextKey ==
  ASSUME NEW i \in Key
  PROVE  /\ 1 \in Key
         /\ i # NKeys => i + 1 \in Key
  BY NKeysAssumption DEF Key

(* Every step keeps the types *)
LEMMA TypeStep == TypeOK /\ [Next]_vars => TypeOK'
<1> SUFFICES ASSUME TypeOK, [Next]_vars PROVE TypeOK'
  OBVIOUS
<1> USE NKeysAssumption, WorkingAssumption, CommandAssumption DEF TypeOK, Key, Kind, Profile
<1>1. ASSUME NEW t \in Task, NEW k \in Command, OnStartCommand(t, k) PROVE TypeOK'
  BY <1>1 DEF OnStartCommand, Goto, Switching, native, route
<1>2. CASE ImportWithoutUrl
  BY <1>2 DEF ImportWithoutUrl, native, route, history
<1>3. CASE OnDestroy
  BY <1>3 DEF OnDestroy, native, route, history
<1>4. ASSUME NEW t \in Task, NeverRun(t) PROVE TypeOK'
  BY <1>4 DEF NeverRun, End, Goto, native, route, Switching
<1>5. ASSUME NEW t \in Task, BeginLoad(t) PROVE TypeOK'
  BY <1>5 DEF BeginLoad, Goto, route, history
<1>6. ASSUME NEW t \in Task, BeginFetch(t) PROVE TypeOK'
  BY <1>6 DEF BeginFetch, Goto, route, history
<1>7. ASSUME NEW t \in Task, BeginStop(t) PROVE TypeOK'
  BY <1>7 DEF BeginStop, Goto, native, route, history
<1>8. ASSUME NEW t \in Task, LoadedOk(t) PROVE TypeOK'
  BY <1>8 DEF LoadedOk, Goto, route, history
<1>9. ASSUME NEW t \in Task, LoadFailed(t) PROVE TypeOK'
  BY <1>9 DEF LoadFailed, Goto, route, history
<1>10. ASSUME NEW t \in Task, FetchAnswered(t) PROVE TypeOK'
  <2>1. /\ kind' \in [Task -> Command \cup {"none"}]
        /\ cancelled' \in [Task -> BOOLEAN]
    BY <1>10 DEF FetchAnswered, End
  <2>2. pc' \in [Task -> {"idle", "queued", "await", "leave", "release", "bind", "flag", "write",
                          "report", "clear1", "readFlag", "stopHttp", "unflag", "clear2", "finish"}]
    BY <1>10 DEF FetchAnswered, End, Goto
  <2>3. stage' \in [Task -> {"none", "read", "http", "mixed", "open", "copy", "verify", "ok", "err"}]
    BY <1>10 DEF FetchAnswered
  <2> QED
    BY <1>10, <2>1, <2>2, <2>3 DEF FetchAnswered, route, history
<1>11. ASSUME NEW t \in Task, ImportLeaves(t) PROVE TypeOK'
  BY <1>11 DEF ImportLeaves, End, StopSelf, Goto, native, route, history
<1>12. ASSUME NEW t \in Task, CloseOld(t) PROVE TypeOK'
  BY <1>12 DEF CloseOld, Release7890, Goto, native, history
<1>13. ASSUME NEW t \in Task, BindOk(t) PROVE TypeOK'
  BY <1>13 DEF BindOk, Goto, native, history
<1>14. ASSUME NEW t \in Task, BindFails(t) PROVE TypeOK'
  BY <1>14 DEF BindFails, Goto, native, route, history
<1>15. ASSUME NEW t \in Task, SetFlag(t) PROVE TypeOK'
  BY <1>15 DEF SetFlag, Goto, native, history
<1>16. ASSUME NEW t \in Task, WriteKey(t) PROVE TypeOK'
  <2>1. idx[t] \in Key /\ 1 \in Key /\ (idx[t] # NKeys => idx[t] + 1 \in Key)
    BY NextKey DEF Key
  <2>2. idx' \in [Task -> Key]
    BY <1>16, <2>1 DEF WriteKey
  <2>3. dirty' \in [Task -> BOOLEAN]
    BY <1>16, Zenon DEF WriteKey
  <2>4. pc' \in [Task -> {"idle", "queued", "await", "leave", "release", "bind", "flag", "write",
                          "report", "clear1", "readFlag", "stopHttp", "unflag", "clear2", "finish"}]
    BY <1>16 DEF WriteKey, Goto
  <2>5. keys' \in SUBSET Key
    <3>1. keys' = keys \cup {idx[t]}
      BY <1>16, Zenon DEF WriteKey
    <3> QED
      BY <2>1, <3>1
  <2> QED
    BY <1>16, <2>2, <2>3, <2>4, <2>5 DEF WriteKey, native
<1>17. ASSUME NEW t \in Task, WriteDenied(t) PROVE TypeOK'
  BY <1>17 DEF WriteDenied, Goto, native, route, history
<1>18. ASSUME NEW t \in Task, ReportOn(t) PROVE TypeOK'
  BY <1>18 DEF ReportOn, End, SwitchEnds, Goto, native
<1>19. ASSUME NEW t \in Task, ClearFirst(t) PROVE TypeOK'
  <2>1. idx[t] \in Key /\ 1 \in Key /\ (idx[t] # NKeys => idx[t] + 1 \in Key)
    BY NextKey DEF Key
  <2>2. idx' \in [Task -> Key]
    BY <1>19, <2>1 DEF ClearFirst, ClearKey
  <2>3. pc' \in [Task -> {"idle", "queued", "await", "leave", "release", "bind", "flag", "write",
                          "report", "clear1", "readFlag", "stopHttp", "unflag", "clear2", "finish"}]
    BY <1>19 DEF ClearFirst, ClearKey, Goto
  <2>4. keys' \in SUBSET Key
    BY <1>19 DEF ClearFirst, ClearKey
  <2>5. UNCHANGED <<svc, kind, cancelled, native, httpStarted, owner, granted, answer, history>>
    BY <1>19, Zenon DEF ClearFirst, ClearKey
  <2> QED
    BY <2>2, <2>3, <2>4, <2>5 DEF native, history
<1>20. ASSUME NEW t \in Task, ReadFlag(t) PROVE TypeOK'
  BY <1>20 DEF ReadFlag, Goto, native, route
<1>21. ASSUME NEW t \in Task, StopHttp(t) PROVE TypeOK'
  BY <1>21 DEF StopHttp, Release7890, Goto, native, history
<1>22. ASSUME NEW t \in Task, ResetFlag(t) PROVE TypeOK'
  <2>1. pc' \in [Task -> {"idle", "queued", "await", "leave", "release", "bind", "flag", "write",
                          "report", "clear1", "readFlag", "stopHttp", "unflag", "clear2", "finish"}]
    BY <1>22 DEF ResetFlag, Goto
  <2>2. /\ httpStarted' \in BOOLEAN
        /\ UNCHANGED <<svc, kind, idx, cancelled, native, keys, owner, granted, answer, history>>
    BY <1>22, Zenon DEF ResetFlag
  <2> QED
    BY <2>1, <2>2 DEF native, history
<1>23. ASSUME NEW t \in Task, ClearSecond(t) PROVE TypeOK'
  <2>1. idx[t] \in Key /\ 1 \in Key /\ (idx[t] # NKeys => idx[t] + 1 \in Key)
    BY NextKey DEF Key
  <2>2. idx' \in [Task -> Key]
    BY <1>23, <2>1 DEF ClearSecond, ClearKey
  <2>3. pc' \in [Task -> {"idle", "queued", "await", "leave", "release", "bind", "flag", "write",
                          "report", "clear1", "readFlag", "stopHttp", "unflag", "clear2", "finish"}]
    BY <1>23 DEF ClearSecond, ClearKey, Goto
  <2>4. keys' \in SUBSET Key
    BY <1>23 DEF ClearSecond, ClearKey
  <2>5. UNCHANGED <<svc, kind, cancelled, native, httpStarted, owner, granted, answer, history>>
    BY <1>23, Zenon DEF ClearSecond, ClearKey
  <2> QED
    BY <2>2, <2>3, <2>4, <2>5 DEF native, history
<1>24. ASSUME NEW t \in Task, Finish(t) PROVE TypeOK'
  BY <1>24 DEF Finish, End, StopSelf, SwitchEnds, Goto, native
<1>25. ASSUME NEW t \in Task, LoadRead(t) PROVE TypeOK'
  BY <1>25 DEF LoadRead, Complete, route, control, history
<1>26. ASSUME NEW t \in Task, ApplyHttp(t) PROVE TypeOK'
  BY <1>26 DEF ApplyHttp, ReCreate, Release7890, control, history
<1>27. ASSUME NEW t \in Task, ApplyMixed(t) PROVE TypeOK'
  BY <1>27 DEF ApplyMixed, ReCreate, Release7890, Complete, control, history
<1>28. ASSUME NEW t \in Task, FetchOpen(t) PROVE TypeOK'
  BY <1>28 DEF FetchOpen, Complete, route, control, history
<1>29. ASSUME NEW t \in Task, FetchCopy(t) PROVE TypeOK'
  BY <1>29 DEF FetchCopy, Complete, route, control, history
<1>30. ASSUME NEW t \in Task, FetchVerify(t) PROVE TypeOK'
  BY <1>30 DEF FetchVerify, Complete, route, control, history
<1>31. CASE ForeignApp
  BY <1>31 DEF ForeignApp, control, native, history
<1>32. CASE Grant
  BY <1>32 DEF Grant, control, native
<1>33. CASE ProcessDeath
  <2>1. idx' \in [Task -> Key]
    BY <1>33, 1 \in Key DEF ProcessDeath
  <2>2. owner' \in {"free", "native", "http", "mixed", "foreign"}
    BY <1>33 DEF ProcessDeath
  <2> QED
    BY <1>33, <2>1, <2>2 DEF ProcessDeath
<1>34. CASE UNCHANGED vars
  BY <1>34 DEF vars, control, native, route, history
<1> QED
  BY <1>1, <1>2, <1>3, <1>4, <1>5, <1>6, <1>7, <1>8, <1>9, <1>10, <1>11, <1>12, <1>13, <1>14,
     <1>15, <1>16, <1>17, <1>18, <1>19, <1>20, <1>21, <1>22, <1>23, <1>24, <1>25, <1>26, <1>27,
     <1>28, <1>29, <1>30, <1>31, <1>32, <1>33, <1>34
  DEF Next, Coroutine, Goroutine

(* Every step keeps coroutines at the labels of their intents *)
LEMMA PlaceStep == TypeOK /\ PlaceInv /\ [Next]_vars => PlaceInv'
<1> SUFFICES ASSUME TypeOK /\ PlaceInv, [Next]_vars PROVE PlaceInv'
  OBVIOUS
<1> USE CommandAssumption DEF TypeOK, PlaceInv, Kind, Key
<1>1. ASSUME NEW t \in Task, NEW k \in Command, OnStartCommand(t, k) PROVE PlaceInv'
  BY <1>1 DEF OnStartCommand, Goto, Switching, native, route
<1>2. CASE ImportWithoutUrl
  BY <1>2 DEF ImportWithoutUrl, native, route, history
<1>3. CASE OnDestroy
  BY <1>3 DEF OnDestroy, native, route, history
<1>4. ASSUME NEW t \in Task, NeverRun(t) PROVE PlaceInv'
  BY <1>4 DEF NeverRun, End, Goto, native, route, Switching
<1>5. ASSUME NEW t \in Task, BeginLoad(t) PROVE PlaceInv'
  BY <1>5 DEF BeginLoad, Goto, route, history
<1>6. ASSUME NEW t \in Task, BeginFetch(t) PROVE PlaceInv'
  BY <1>6 DEF BeginFetch, Goto, route, history
<1>7. ASSUME NEW t \in Task, BeginStop(t) PROVE PlaceInv'
  BY <1>7 DEF BeginStop, Goto, native, route, history
<1>8. ASSUME NEW t \in Task, LoadedOk(t) PROVE PlaceInv'
  BY <1>8 DEF LoadedOk, Goto, route, history
<1>9. ASSUME NEW t \in Task, LoadFailed(t) PROVE PlaceInv'
  BY <1>9 DEF LoadFailed, Goto, route, history
<1>10. ASSUME NEW t \in Task, FetchAnswered(t) PROVE PlaceInv'
  BY <1>10 DEF FetchAnswered, End, Goto, route, history
<1>11. ASSUME NEW t \in Task, ImportLeaves(t) PROVE PlaceInv'
  BY <1>11 DEF ImportLeaves, End, StopSelf, Goto, native, route, history
<1>12. ASSUME NEW t \in Task, CloseOld(t) PROVE PlaceInv'
  BY <1>12 DEF CloseOld, Release7890, Goto, native, history
<1>13. ASSUME NEW t \in Task, BindOk(t) PROVE PlaceInv'
  BY <1>13 DEF BindOk, Goto, native, history
<1>14. ASSUME NEW t \in Task, BindFails(t) PROVE PlaceInv'
  BY <1>14 DEF BindFails, Goto, native, route, history
<1>15. ASSUME NEW t \in Task, SetFlag(t) PROVE PlaceInv'
  BY <1>15 DEF SetFlag, Goto, native, history
<1>16. ASSUME NEW t \in Task, WriteKey(t) PROVE PlaceInv'
  BY <1>16 DEF WriteKey, Goto, native
<1>17. ASSUME NEW t \in Task, WriteDenied(t) PROVE PlaceInv'
  BY <1>17 DEF WriteDenied, Goto, native, route, history
<1>18. ASSUME NEW t \in Task, ReportOn(t) PROVE PlaceInv'
  BY <1>18 DEF ReportOn, End, SwitchEnds, Goto, native
<1>19. ASSUME NEW t \in Task, ClearFirst(t) PROVE PlaceInv'
  BY <1>19 DEF ClearFirst, ClearKey, Goto, native, history
<1>20. ASSUME NEW t \in Task, ReadFlag(t) PROVE PlaceInv'
  BY <1>20 DEF ReadFlag, Goto, native, route
<1>21. ASSUME NEW t \in Task, StopHttp(t) PROVE PlaceInv'
  BY <1>21 DEF StopHttp, Release7890, Goto, native, history
<1>22. ASSUME NEW t \in Task, ResetFlag(t) PROVE PlaceInv'
  BY <1>22 DEF ResetFlag, Goto, native, history
<1>23. ASSUME NEW t \in Task, ClearSecond(t) PROVE PlaceInv'
  BY <1>23 DEF ClearSecond, ClearKey, Goto, native, history
<1>24. ASSUME NEW t \in Task, Finish(t) PROVE PlaceInv'
  BY <1>24 DEF Finish, End, StopSelf, SwitchEnds, Goto, native
<1>25. ASSUME NEW t \in Task, LoadRead(t) PROVE PlaceInv'
  BY <1>25 DEF LoadRead, Complete, route, control, history
<1>26. ASSUME NEW t \in Task, ApplyHttp(t) PROVE PlaceInv'
  BY <1>26 DEF ApplyHttp, ReCreate, Release7890, control, history
<1>27. ASSUME NEW t \in Task, ApplyMixed(t) PROVE PlaceInv'
  BY <1>27 DEF ApplyMixed, ReCreate, Release7890, Complete, control, history
<1>28. ASSUME NEW t \in Task, FetchOpen(t) PROVE PlaceInv'
  BY <1>28 DEF FetchOpen, Complete, route, control, history
<1>29. ASSUME NEW t \in Task, FetchCopy(t) PROVE PlaceInv'
  BY <1>29 DEF FetchCopy, Complete, route, control, history
<1>30. ASSUME NEW t \in Task, FetchVerify(t) PROVE PlaceInv'
  BY <1>30 DEF FetchVerify, Complete, route, control, history
<1>31. CASE ForeignApp
  BY <1>31 DEF ForeignApp, control, native, history
<1>32. CASE Grant
  BY <1>32 DEF Grant, control, native
<1>33. CASE ProcessDeath
  BY <1>33 DEF ProcessDeath, Clearing
<1>34. CASE UNCHANGED vars
  BY <1>34 DEF vars, control, native, route, history
<1> QED
  BY <1>1, <1>2, <1>3, <1>4, <1>5, <1>6, <1>7, <1>8, <1>9, <1>10, <1>11, <1>12, <1>13, <1>14,
     <1>15, <1>16, <1>17, <1>18, <1>19, <1>20, <1>21, <1>22, <1>23, <1>24, <1>25, <1>26, <1>27,
     <1>28, <1>29, <1>30, <1>31, <1>32, <1>33, <1>34
  DEF Next, Coroutine, Goroutine

(* Every step keeps what an undisturbed second pass has cleared *)
LEMMA PassStep == TypeOK /\ PlaceInv /\ PassInv /\ [Next]_vars => PassInv'
<1> SUFFICES ASSUME TypeOK /\ PlaceInv /\ PassInv, [Next]_vars PROVE PassInv'
  OBVIOUS
<1> USE NKeysAssumption DEF TypeOK, PlaceInv, PassInv, Clearing, Key
<1>1. ASSUME NEW t \in Task, NEW k \in Command, OnStartCommand(t, k) PROVE PassInv'
  BY <1>1 DEF OnStartCommand, Goto, Switching, native, route
<1>2. CASE ImportWithoutUrl
  BY <1>2 DEF ImportWithoutUrl, native, route, history
<1>3. CASE OnDestroy
  BY <1>3 DEF OnDestroy, native, route, history
<1>4. ASSUME NEW t \in Task, NeverRun(t) PROVE PassInv'
  BY <1>4 DEF NeverRun, End, Goto, native, route, Switching
<1>5. ASSUME NEW t \in Task, BeginLoad(t) PROVE PassInv'
  BY <1>5 DEF BeginLoad, Goto, route, history
<1>6. ASSUME NEW t \in Task, BeginFetch(t) PROVE PassInv'
  BY <1>6 DEF BeginFetch, Goto, route, history
<1>7. ASSUME NEW t \in Task, BeginStop(t) PROVE PassInv'
  BY <1>7 DEF BeginStop, Goto, native, route, history
<1>8. ASSUME NEW t \in Task, LoadedOk(t) PROVE PassInv'
  BY <1>8 DEF LoadedOk, Goto, route, history
<1>9. ASSUME NEW t \in Task, LoadFailed(t) PROVE PassInv'
  BY <1>9 DEF LoadFailed, Goto, route, history
<1>10. ASSUME NEW t \in Task, FetchAnswered(t) PROVE PassInv'
  BY <1>10 DEF FetchAnswered, End, Goto, route, history
<1>11. ASSUME NEW t \in Task, ImportLeaves(t) PROVE PassInv'
  BY <1>11 DEF ImportLeaves, End, StopSelf, Goto, native, route, history
<1>12. ASSUME NEW t \in Task, CloseOld(t) PROVE PassInv'
  BY <1>12 DEF CloseOld, Release7890, Goto, native, history
<1>13. ASSUME NEW t \in Task, BindOk(t) PROVE PassInv'
  BY <1>13 DEF BindOk, Goto, native, history
<1>14. ASSUME NEW t \in Task, BindFails(t) PROVE PassInv'
  BY <1>14 DEF BindFails, Goto, native, route, history
<1>15. ASSUME NEW t \in Task, SetFlag(t) PROVE PassInv'
  BY <1>15 DEF SetFlag, Goto, native, history
<1>16. ASSUME NEW t \in Task, WriteKey(t) PROVE PassInv'
  BY <1>16 DEF WriteKey, Goto, native
<1>17. ASSUME NEW t \in Task, WriteDenied(t) PROVE PassInv'
  BY <1>17 DEF WriteDenied, Goto, native, route, history
<1>18. ASSUME NEW t \in Task, ReportOn(t) PROVE PassInv'
  BY <1>18 DEF ReportOn, End, SwitchEnds, Goto, native
<1>19. ASSUME NEW t \in Task, ClearFirst(t) PROVE PassInv'
  BY <1>19 DEF ClearFirst, ClearKey, Goto, native, history
<1>20. ASSUME NEW t \in Task, ReadFlag(t) PROVE PassInv'
  BY <1>20 DEF ReadFlag, Goto, native, route
<1>21. ASSUME NEW t \in Task, StopHttp(t) PROVE PassInv'
  BY <1>21 DEF StopHttp, Release7890, Goto, native, history
<1>22. ASSUME NEW t \in Task, ResetFlag(t) PROVE PassInv'
  BY <1>22 DEF ResetFlag, Goto, native, history
<1>23. ASSUME NEW t \in Task, ClearSecond(t) PROVE PassInv'
  <2> SUFFICES ASSUME NEW u \in Task, granted, ~dirty[u]
               PROVE  /\ pc'[u] = "clear2" => keys' \cap 1 .. (idx'[u] - 1) = {}
                      /\ pc'[u] = "finish" => keys' = {}
    BY <1>23 DEF ClearSecond, ClearKey, history
  <2>1. keys' = keys \ {idx[t]} /\ idx[t] \in 1 .. NKeys /\ keys \subseteq 1 .. NKeys
    BY <1>23 DEF ClearSecond, ClearKey
  <2>2. CASE u # t
    BY <1>23, <2>1, <2>2 DEF ClearSecond, ClearKey, Goto
  <2>3. CASE u = t /\ idx[t] = NKeys
    BY <1>23, <2>1, <2>3 DEF ClearSecond, ClearKey, Goto
  <2>4. CASE u = t /\ idx[t] # NKeys
    <3>1. idx'[t] = idx[t] + 1 /\ pc'[t] = "clear2"
      BY <1>23, <2>1, <2>4 DEF ClearSecond, ClearKey, Goto
    <3> QED
      BY <1>23, <2>1, <2>4, <3>1 DEF ClearSecond, ClearKey
  <2> QED
    BY <2>2, <2>3, <2>4
<1>24. ASSUME NEW t \in Task, Finish(t) PROVE PassInv'
  BY <1>24 DEF Finish, End, StopSelf, SwitchEnds, Goto, native
<1>25. ASSUME NEW t \in Task, LoadRead(t) PROVE PassInv'
  BY <1>25 DEF LoadRead, Complete, route, control, history
<1>26. ASSUME NEW t \in Task, ApplyHttp(t) PROVE PassInv'
  BY <1>26 DEF ApplyHttp, ReCreate, Release7890, control, history
<1>27. ASSUME NEW t \in Task, ApplyMixed(t) PROVE PassInv'
  BY <1>27 DEF ApplyMixed, ReCreate, Release7890, Complete, control, history
<1>28. ASSUME NEW t \in Task, FetchOpen(t) PROVE PassInv'
  BY <1>28 DEF FetchOpen, Complete, route, control, history
<1>29. ASSUME NEW t \in Task, FetchCopy(t) PROVE PassInv'
  BY <1>29 DEF FetchCopy, Complete, route, control, history
<1>30. ASSUME NEW t \in Task, FetchVerify(t) PROVE PassInv'
  BY <1>30 DEF FetchVerify, Complete, route, control, history
<1>31. CASE ForeignApp
  BY <1>31 DEF ForeignApp, control, native, history
<1>32. CASE Grant
  BY <1>32 DEF Grant, control, native
<1>33. CASE ProcessDeath
  BY <1>33 DEF ProcessDeath, Clearing
<1>34. CASE UNCHANGED vars
  BY <1>34 DEF vars, control, native, route, history
<1> QED
  BY <1>1, <1>2, <1>3, <1>4, <1>5, <1>6, <1>7, <1>8, <1>9, <1>10, <1>11, <1>12, <1>13, <1>14,
     <1>15, <1>16, <1>17, <1>18, <1>19, <1>20, <1>21, <1>22, <1>23, <1>24, <1>25, <1>26, <1>27,
     <1>28, <1>29, <1>30, <1>31, <1>32, <1>33, <1>34
  DEF Next, Coroutine, Goroutine

(* Every step keeps what is known of a switch that runs alone, and what it has settled *)
LEMMA SoloStep ==
  TypeOK /\ PlaceInv /\ SoloInv /\ SoloSettles /\ [Next]_vars => SoloInv' /\ SoloSettles'
<1> SUFFICES ASSUME TypeOK, PlaceInv, SoloInv, SoloSettles, [Next]_vars
             PROVE  SoloInv' /\ SoloSettles'
  OBVIOUS
<1>0. ASSUME NEW t \in Task, pc[t] \notin {"idle", "queued", "await", "leave"} PROVE Switching(t)
  BY <1>0, CommandAssumption DEF TypeOK, PlaceInv, Switching, Kind
<1> USE NKeysAssumption, CommandAssumption
    DEF TypeOK, PlaceInv, SoloInv, SoloSettles, Progress, Switching, Key, Kind
<1>1. ASSUME NEW t \in Task, NEW k \in Command, OnStartCommand(t, k) PROVE SoloInv' /\ SoloSettles'
  BY <1>1 DEF OnStartCommand, Goto, native, route
<1>2. CASE ImportWithoutUrl
  BY <1>2 DEF ImportWithoutUrl, native, route, history
<1>3. CASE OnDestroy
  BY <1>3 DEF OnDestroy, native, route, history
<1>4. ASSUME NEW t \in Task, NeverRun(t) PROVE SoloInv' /\ SoloSettles'
  BY <1>4 DEF NeverRun, End, Goto, route
<1>5. ASSUME NEW t \in Task, BeginLoad(t) PROVE SoloInv' /\ SoloSettles'
  BY <1>5 DEF BeginLoad, Goto, route, history
<1>6. ASSUME NEW t \in Task, BeginFetch(t) PROVE SoloInv' /\ SoloSettles'
  BY <1>6 DEF BeginFetch, Goto, route, history
<1>7. ASSUME NEW t \in Task, BeginStop(t) PROVE SoloInv' /\ SoloSettles'
  BY <1>7 DEF BeginStop, Goto, route, history
<1>8. ASSUME NEW t \in Task, LoadedOk(t) PROVE SoloInv' /\ SoloSettles'
  BY <1>8 DEF LoadedOk, Goto, route, history
<1>9. ASSUME NEW t \in Task, LoadFailed(t) PROVE SoloInv' /\ SoloSettles'
  BY <1>9 DEF LoadFailed, Goto, route, history
<1>10. ASSUME NEW t \in Task, FetchAnswered(t) PROVE SoloInv' /\ SoloSettles'
  <2>1. UNCHANGED <<idx, keys, httpStarted, granted, answer, solo>>
    BY <1>10 DEF FetchAnswered, route, history
  <2>2. ASSUME NEW u \in Task, Switching(u)' PROVE Switching(u) /\ pc'[u] = pc[u]
    BY <1>10, <2>2 DEF FetchAnswered, End, Goto
  <2> QED
    BY <2>1, <2>2
<1>11. ASSUME NEW t \in Task, ImportLeaves(t) PROVE SoloInv' /\ SoloSettles'
  BY <1>11 DEF ImportLeaves, End, Goto, route, history
<1>12. ASSUME NEW t \in Task, CloseOld(t) PROVE SoloInv' /\ SoloSettles'
  BY <1>12 DEF CloseOld, Goto, history
<1>13. ASSUME NEW t \in Task, BindOk(t) PROVE SoloInv' /\ SoloSettles'
  BY <1>13 DEF BindOk, Goto, history
<1>14. ASSUME NEW t \in Task, BindFails(t) PROVE SoloInv' /\ SoloSettles'
  BY <1>14 DEF BindFails, Goto, route, history
<1>15. ASSUME NEW t \in Task, SetFlag(t) PROVE SoloInv' /\ SoloSettles'
  <2>1. Switching(t)
    <3>1. pc[t] \notin {"idle", "queued", "await", "leave"}
      BY <1>15, Zenon DEF SetFlag
    <3> QED
      BY <1>0, <3>1, Zenon
  <2>2. solo # "yes" /\ solo' = solo /\ kind' = kind
    BY <1>15, <2>1 DEF SetFlag, history
  <2>3. SoloSettles'
    BY <2>2
  <2>4. ASSUME solo = "running" PROVE Progress(t)'
    BY <1>15 DEF SetFlag, Goto
  <2>5. ASSUME solo = "running", NEW u \in Task, Switching(u)' PROVE Progress(u)'
    <3>1. u = t
      BY <2>1, <2>2, <2>5
    <3> QED
      BY <2>4, <2>5, <3>1
  <2> QED
    BY <2>2, <2>3, <2>5
<1>16. ASSUME NEW t \in Task, WriteKey(t) PROVE SoloInv' /\ SoloSettles'
  <2>1. Switching(t)
    <3>1. pc[t] \notin {"idle", "queued", "await", "leave"}
      BY <1>16, Zenon DEF WriteKey
    <3> QED
      BY <1>0, <3>1, Zenon
  <2>2. solo # "yes" /\ solo' = solo /\ kind' = kind
    BY <1>16, <2>1 DEF WriteKey, history
  <2>3. SoloSettles'
    BY <2>2
  <2>4. ASSUME solo = "running" PROVE Progress(t)'
    <3>1. httpStarted' /\ keys' = keys \cup {idx[t]} /\ 1 .. (idx[t] - 1) \subseteq keys
      BY <1>16, <2>1, <2>4 DEF WriteKey
    <3>2. idx[t] \in 1 .. NKeys /\ keys \subseteq 1 .. NKeys
      OBVIOUS
    <3>3. CASE idx[t] = NKeys
      <4>1. pc'[t] = "report"
        BY <1>16, <3>3 DEF WriteKey, Goto
      <4>2. \A k \in 1 .. NKeys : k = NKeys \/ k \in 1 .. (NKeys - 1)
        OBVIOUS
      <4>3. keys' = 1 .. NKeys
        BY <3>1, <3>2, <3>3, <4>2
      <4> QED
        BY <3>1, <4>1, <4>3
    <3>4. CASE idx[t] # NKeys
      <4>1. pc'[t] = "write" /\ idx'[t] = idx[t] + 1
        BY <1>16, <3>4 DEF WriteKey, Goto
      <4> QED
        BY <3>1, <3>2, <4>1
    <3> QED
      BY <3>3, <3>4
  <2>5. ASSUME solo = "running", NEW u \in Task, Switching(u)' PROVE Progress(u)'
    <3>1. u = t
      BY <2>1, <2>2, <2>5
    <3> QED
      BY <2>4, <2>5, <3>1
  <2> QED
    BY <2>2, <2>3, <2>5
<1>17. ASSUME NEW t \in Task, WriteDenied(t) PROVE SoloInv' /\ SoloSettles'
  BY <1>17 DEF WriteDenied, Goto, route, history
<1>18. ASSUME NEW t \in Task, ReportOn(t) PROVE SoloInv' /\ SoloSettles'
  BY <1>18 DEF ReportOn, End, SwitchEnds, Goto
<1>19. ASSUME NEW t \in Task, ClearFirst(t) PROVE SoloInv' /\ SoloSettles'
  <2>1. Switching(t) /\ UNCHANGED <<kind, solo, httpStarted, granted, answer>>
    BY <1>0, <1>19 DEF ClearFirst, ClearKey, history
  <2>2. pc'[t] \in {"clear1", "readFlag"}
    BY <1>19 DEF ClearFirst, ClearKey, Goto
  <2>3. ASSUME solo = "running", NEW u \in Task, Switching(u)' PROVE Progress(u)'
    <3>1. u = t
      BY <2>1, <2>3
    <3> QED
      BY <2>2, <3>1
  <2> QED
    BY <2>1, <2>3
<1>20. ASSUME NEW t \in Task, ReadFlag(t) PROVE SoloInv' /\ SoloSettles'
  BY <1>20 DEF ReadFlag, Goto, route
<1>21. ASSUME NEW t \in Task, StopHttp(t) PROVE SoloInv' /\ SoloSettles'
  BY <1>21 DEF StopHttp, Goto, history
<1>22. ASSUME NEW t \in Task, ResetFlag(t) PROVE SoloInv' /\ SoloSettles'
  <2>1. Switching(t)
    <3>1. pc[t] \notin {"idle", "queued", "await", "leave"}
      BY <1>22, Zenon DEF ResetFlag
    <3> QED
      BY <1>0, <3>1, Zenon
  <2>2. solo # "yes" /\ solo' = solo /\ kind' = kind
    BY <1>22, <2>1 DEF ResetFlag, history
  <2>3. SoloSettles'
    BY <2>2
  <2>4. ASSUME solo = "running" PROVE Progress(t)'
    <3>1. idx[t] = 1 /\ pc'[t] = "clear2" /\ ~httpStarted' /\ idx' = idx /\ keys' = keys
      BY <1>22 DEF ResetFlag, Goto
    <3> QED
      BY <3>1
  <2>5. ASSUME solo = "running", NEW u \in Task, Switching(u)' PROVE Progress(u)'
    <3>1. u = t
      BY <2>1, <2>2, <2>5
    <3> QED
      BY <2>4, <2>5, <3>1
  <2> QED
    BY <2>2, <2>3, <2>5
<1>23. ASSUME NEW t \in Task, ClearSecond(t) PROVE SoloInv' /\ SoloSettles'
  <2>1. Switching(t)
    <3>1. pc[t] \notin {"idle", "queued", "await", "leave"}
      BY <1>23, Zenon DEF ClearSecond, ClearKey
    <3> QED
      BY <1>0, <3>1, Zenon
  <2>2. solo # "yes" /\ solo' = solo /\ kind' = kind
    BY <1>23, <2>1 DEF ClearSecond, ClearKey, history
  <2>3. SoloSettles'
    BY <2>2
  <2>4. ASSUME solo = "running" PROVE Progress(t)'
    <3>1. ~httpStarted' /\ granted' = granted /\ idx[t] \in 1 .. NKeys /\ keys \subseteq 1 .. NKeys
      BY <1>23, <2>1, <2>4 DEF ClearSecond, ClearKey
    <3>2. CASE ~granted
      BY <1>23, <3>1, <3>2 DEF ClearSecond, ClearKey, Goto
    <3>3. CASE granted
      <4>1. keys' = keys \ {idx[t]} /\ keys \cap 1 .. (idx[t] - 1) = {}
        BY <1>23, <2>1, <2>4, <3>3 DEF ClearSecond, ClearKey
      <4>2. CASE idx[t] = NKeys
        <5>1. pc'[t] = "finish"
          BY <1>23, <4>2 DEF ClearSecond, ClearKey, Goto
        <5> QED
          BY <3>1, <4>1, <4>2, <5>1
      <4>3. CASE idx[t] # NKeys
        <5>1. pc'[t] = "clear2" /\ idx'[t] = idx[t] + 1
          BY <1>23, <3>3, <4>3 DEF ClearSecond, ClearKey, Goto
        <5> QED
          BY <3>1, <4>1, <5>1
      <4> QED
        BY <4>2, <4>3
    <3> QED
      BY <3>2, <3>3
  <2>5. ASSUME solo = "running", NEW u \in Task, Switching(u)' PROVE Progress(u)'
    <3>1. u = t
      BY <2>1, <2>2, <2>5
    <3> QED
      BY <2>4, <2>5, <3>1
  <2> QED
    BY <2>2, <2>3, <2>5
<1>24. ASSUME NEW t \in Task, Finish(t) PROVE SoloInv' /\ SoloSettles'
  BY <1>24 DEF Finish, End, SwitchEnds, Goto
<1>25. ASSUME NEW t \in Task, LoadRead(t) PROVE SoloInv' /\ SoloSettles'
  BY <1>25 DEF LoadRead, route, control, history
<1>26. ASSUME NEW t \in Task, ApplyHttp(t) PROVE SoloInv' /\ SoloSettles'
  BY <1>26 DEF ApplyHttp, control, history
<1>27. ASSUME NEW t \in Task, ApplyMixed(t) PROVE SoloInv' /\ SoloSettles'
  BY <1>27 DEF ApplyMixed, control, history
<1>28. ASSUME NEW t \in Task, FetchOpen(t) PROVE SoloInv' /\ SoloSettles'
  BY <1>28 DEF FetchOpen, route, control, history
<1>29. ASSUME NEW t \in Task, FetchCopy(t) PROVE SoloInv' /\ SoloSettles'
  BY <1>29 DEF FetchCopy, route, control, history
<1>30. ASSUME NEW t \in Task, FetchVerify(t) PROVE SoloInv' /\ SoloSettles'
  BY <1>30 DEF FetchVerify, route, control, history
<1>31. CASE ForeignApp
  BY <1>31 DEF ForeignApp, control, native, history
<1>32. CASE Grant
  BY <1>32 DEF Grant, control, native
<1>33. CASE ProcessDeath
  BY <1>33 DEF ProcessDeath
<1>34. CASE UNCHANGED vars
  BY <1>34 DEF vars, control, native, route, history
<1> QED
  BY <1>1, <1>2, <1>3, <1>4, <1>5, <1>6, <1>7, <1>8, <1>9, <1>10, <1>11, <1>12, <1>13, <1>14,
     <1>15, <1>16, <1>17, <1>18, <1>19, <1>20, <1>21, <1>22, <1>23, <1>24, <1>25, <1>26, <1>27,
     <1>28, <1>29, <1>30, <1>31, <1>32, <1>33, <1>34
  DEF Next, Coroutine, Goroutine

-----------------------------------------------------------------------------

(* IInv holds in every reachable state *)
LEMMA Invariance == Spec => []IInv
<1>1. ASSUME Init PROVE IInv
  <2>1. TypeOK
    <3>1. 1 \in Key
      BY NKeysAssumption DEF Key
    <3> QED
      BY <1>1, <3>1 DEF Init, TypeOK, Profile
  <2>2. PlaceInv /\ PassInv
    BY <1>1 DEF Init, PlaceInv, PassInv
  <2>3. SoloInv /\ SoloSettles
    BY <1>1 DEF Init, SoloInv, SoloSettles
  <2> QED
    BY <2>1, <2>2, <2>3 DEF IInv
<1>2. IInv /\ [Next]_vars => IInv'
  BY TypeStep, PlaceStep, PassStep, SoloStep DEF IInv
<1> QED
  BY <1>1, <1>2, PTL DEF Spec

(* The variables of the control module keep their types, whatever the number of commands in     *)
(* flight and of keys.                                                                           *)
THEOREM TypeCorrect == Spec => []TypeOK
<1>1. IInv => TypeOK
  BY DEF IInv
<1> QED
  BY <1>1, Invariance, PTL

(* ProxyManager.stop: however many commands overlap, the second pass of clearSystemProxy ends    *)
(* with no key left of those written before it began.                                            *)
THEOREM SecondPassTheorem == Spec => []SecondPassClears
<1>1. IInv => SecondPassClears
  BY DEF IInv, PassInv, SecondPassClears
<1> QED
  BY <1>1, Invariance, PTL

(* A START or STOP that no other START or STOP overlapped leaves isRunning() and the settings    *)
(* as it announced them, from whatever state it began and however many imports ran beside it.    *)
THEOREM SoloTheorem == Spec => []SoloSettles
<1>1. IInv => SoloSettles
  BY DEF IInv
<1> QED
  BY <1>1, Invariance, PTL
=============================================================================
