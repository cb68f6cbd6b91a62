------------------------- MODULE NodeSelectionProofs -------------------------
(***************************************************************************)
(* A proof about NodeSelection, for any profiles, any number of STARTs and *)
(* of connections: no connection keeps running over a proxy that a         *)
(* selector on its way no longer selects.                                  *)
(*                                                                         *)
(* The inductive invariant speaks of connections that are still dialling   *)
(* too: what a selector sent them to is what it selects, or it was "late". *)
(* It asks nothing of the names that a thread has to query, which are the  *)
(* subject of NodeChoiceProofs.                                            *)
(***************************************************************************)
EXTENDS NodeSelection, SequenceTheorems, TLAPS

Labels == {"idle", "loaded", "names", "query", "patch", "close", "parents", "cascade", "patchParent",
           "switched"}

CoreTypes ==
  /\ selected \in [Group -> Node \cup Group \cup {None}]
  /\ pc \in [Thread -> Labels]
  /\ patch = [t \in Thread |-> patch[t]]
  /\ life \in [Conn -> {"none", "dialling", "open"}]
  /\ at \in [Conn -> Node \cup Group \cup {None}]
  /\ hop \in [Conn -> [Group -> Node \cup Group \cup {None}]]
  /\ profile = Default \/ profile \in Profile
  /\ members \in profile.lists

\* Someone is about to close the connections that run over a group.
Closing(g) == \E t \in Thread : pc[t] = "close" /\ patch[t].group = g

\* A dial only comes to groups and nodes of its configuration.
Known == \A c \in Conn : life[c] # "none" /\ c \notin old => at[c] \in Node \cup ToSet(profile.order)

\* A connection that does not exist leaves no trace for the next one.
Fresh == \A c \in Conn : life[c] = "none" => \A g \in Group : hop[c][g] = None

\* Every connection of this configuration goes where the selectors say, while it is dialled and after.
Current ==
  \A c \in Conn : life[c] # "none" /\ c \notin old =>
    \A g \in profile.selector \cap Group : hop[c][g] # None /\ <<c, g>> \notin late =>
      hop[c][g] = Now(g) \/ (life[c] = "open" /\ Closing(g))

NodeInv == CoreTypes /\ Known /\ Fresh /\ Current

LEMMA ProfileTypes ==
  ASSUME CoreTypes
  PROVE  /\ profile.selector \subseteq Group
         /\ \A g : Exists(g) => /\ g \in Group /\ Members(g) # <<>>
                                /\ Members(g) \in Seq(Node \cup Group)
                                /\ ToSet(Members(g)) \subseteq Node \cup ToSet(profile.order)
         /\ ToSet(profile.order) \subseteq Group
         /\ profile # Default => profile.root \in ToSet(profile.order)
<1>1. CASE profile = Default
  <2>1. profile.order = <<>> /\ profile.selector = {}
    BY <1>1 DEF Default
  <2>2. ToSet(profile.order) = {}
    BY <2>1 DEF ToSet
  <2> QED
    BY <1>1, <2>1, <2>2 DEF Exists
<1>2. CASE profile \in Profile
  <2>1. profile \in Configuration
    BY <1>2, ProfileAssumption
  <2>2. /\ profile.selector \subseteq Group /\ profile.order \in Seq(Group)
        /\ members \in [Group -> Seq(Node \cup Group)]
    BY <2>1 DEF Configuration, CoreTypes
  <2>3. ToSet(profile.order) \subseteq Group
    BY <2>2 DEF ToSet
  <2>4. /\ profile.root \in ToSet(profile.order)
        /\ \A g \in ToSet(profile.order) :
             members[g] # <<>> /\ ToSet(members[g]) \subseteq Node \cup ToSet(profile.order)
    BY <1>2, ProfileAssumption DEF CoreTypes
  <2> QED
    BY <2>2, <2>3, <2>4 DEF Exists, Members
<1> QED
  BY <1>1, <1>2 DEF CoreTypes

\* A group that exists goes by its members.
LEMMA GoesByMembers ==
  ASSUME CoreTypes, NEW g, Exists(g), NEW p \in GoesBy(g)
  PROVE  p \in ToSet(Members(g))
<1>1. Members(g) # <<>> /\ Members(g) \in Seq(Node \cup Group)
  BY ProfileTypes
<1>2. Head(Members(g)) = Members(g)[1] /\ 1 \in DOMAIN Members(g)
  <2> DEFINE s == Members(g)
  <2>1. s \in Seq(Node \cup Group) /\ s # <<>>
    BY <1>1
  <2> HIDE DEF s
  <2>2. Head(s) = s[1] /\ Len(s) \in Nat /\ Len(s) > 0 /\ DOMAIN s = 1 .. Len(s)
    BY <2>1, LenProperties, EmptySeq
  <2> QED
    BY <2>2 DEF s
<1>3. Now(g) \in ToSet(Members(g))
  BY <1>2 DEF Now, ToSet
<1> QED
  BY <1>3 DEF GoesBy

LEMMA NodeInit == Init => NodeInv
<1> SUFFICES ASSUME Init PROVE NodeInv
  OBVIOUS
<1>1. CoreTypes
  BY DEF Init, CoreTypes, Labels, Default
<1>2. Fresh /\ Current /\ Known
  BY DEF Init, Fresh, Current, Known
<1> QED
  BY <1>1, <1>2 DEF NodeInv

\* A connection that is forgotten leaves nothing behind, and the others are not touched.
LEMMA Forgotten ==
  ASSUME NodeInv, NEW cs \in SUBSET Conn, Forget(cs), UNCHANGED core,
         pc' \in [Thread -> Labels], patch' = patch,
         \A g \in Group : Closing(g) =>
            Closing(g)' \/ \A c \in Conn \ cs : life[c] = "open" => hop[c][g] = None
  PROVE  NodeInv'
<1> USE DEF NodeInv
<1>1. /\ life' = [c \in Conn |-> IF c \in cs THEN "none" ELSE life[c]]
      /\ at' = [c \in Conn |-> IF c \in cs THEN None ELSE at[c]]
      /\ hop' = [c \in Conn |-> IF c \in cs THEN [g \in Group |-> None] ELSE hop[c]]
      /\ old' = old \ cs /\ late' = late \ (cs \X Group)
  BY DEF Forget
<1>2. profile' = profile /\ members' = members /\ selected' = selected
  BY DEF core
<1>3. CoreTypes' /\ Known'
  BY <1>1, <1>2 DEF CoreTypes, Known
<1>4. Fresh'
  BY <1>1 DEF Fresh, CoreTypes
<1>5. ASSUME NEW c \in Conn, life'[c] # "none", c \notin old',
             NEW g \in profile.selector \cap Group, hop'[c][g] # None, <<c, g>> \notin late'
      PROVE  hop'[c][g] = Now(g) \/ (life'[c] = "open" /\ Closing(g)')
  <2>1. c \notin cs /\ life'[c] = life[c] /\ hop'[c] = hop[c] /\ c \notin old /\ <<c, g>> \notin late
    BY <1>1, <1>5
  <2>2. hop[c][g] = Now(g) \/ (life[c] = "open" /\ Closing(g))
    BY <1>5, <2>1 DEF Current
  <2> QED
    BY <1>5, <2>1, <2>2
<1>6. \A g : Now(g)' = Now(g)
  BY <1>2 DEF Now, Members, Exists
<1>7. Current'
  BY <1>2, <1>5, <1>6 DEF Current
<1> QED
  BY <1>3, <1>4, <1>7

\* A patch makes late what was passing the group, and is about to close what runs over it.
LEMMA Patched ==
  ASSUME NodeInv, NEW t \in Thread, NEW g, NEW n, Exists(g), SetTo(g, n), Goto(t, "close"),
         pc[t] # "close", patch' = patch, patch[t].group = g, UNCHANGED <<profile, members, life, at, hop, old>>
  PROVE  NodeInv'
<1> USE DEF NodeInv
<1>1. /\ selected' = IF n \in ToSet(Members(g)) THEN [selected EXCEPT ![g] = n] ELSE selected
      /\ late' = late \cup {p \in Conn \X {g} : life[p[1]] = "dialling" /\ hop[p[1]][g] # None}
  BY DEF SetTo
<1>2. pc' = [pc EXCEPT ![t] = "close"]
  BY DEF Goto
<1>3. CoreTypes'
  <2>1. pc' \in [Thread -> Labels]
    BY <1>2 DEF CoreTypes, Labels
  <2>2. g \in Group => (n \in ToSet(Members(g)) => n \in Node \cup Group)
    BY ProfileTypes
  <2>3. selected' \in [Group -> Node \cup Group \cup {None}]
    BY <1>1, <2>2 DEF CoreTypes
  <2> QED
    BY <2>1, <2>3 DEF CoreTypes
<1>4. Fresh' /\ Known'
  BY DEF Fresh, Known
<1>5. \A h \in Group \ {g} : Now(h)' = Now(h)
  BY <1>1 DEF Now, Members, Exists, CoreTypes
<1>6. \A h : Closing(h) => Closing(h)'
  BY <1>2 DEF Closing, CoreTypes
<1>7. Closing(g)'
  BY <1>2 DEF Closing, CoreTypes
<1>8. ASSUME NEW c \in Conn, life[c] # "none", c \notin old,
             NEW h \in profile.selector \cap Group, hop[c][h] # None, <<c, h>> \notin late'
      PROVE  hop[c][h] = Now(h)' \/ (life[c] = "open" /\ Closing(h)')
  <2>1. <<c, h>> \notin late
    BY <1>1, <1>8
  <2>2. hop[c][h] = Now(h) \/ (life[c] = "open" /\ Closing(h))
    BY <1>8, <2>1 DEF Current
  <2>3. CASE h # g
    BY <1>5, <1>6, <2>2, <2>3
  <2>4. CASE h = g
    <3>1. <<c, h>> \in Conn \X {g} /\ <<c, h>>[1] = c
      BY <2>4
    <3>2. ~(life[c] = "dialling" /\ hop[c][g] # None)
      BY <1>1, <1>8, <3>1
    <3>3. life[c] = "open"
      BY <1>8, <2>4, <3>2 DEF CoreTypes
    <3> QED
      BY <1>7, <2>4, <3>3
  <2> QED
    BY <2>3, <2>4
<1>9. Current'
  BY <1>8 DEF Current
<1> QED
  BY <1>3, <1>4, <1>9

\* A step that leaves the core and the connections alone, and no thread that is about to close.
LEMMA Untouched ==
  ASSUME NodeInv, UNCHANGED <<core, conns>>, pc' \in [Thread -> Labels],
         patch' = [t \in Thread |-> patch'[t]],
         \A t \in Thread : pc[t] = "close" => pc'[t] = "close" /\ patch'[t] = patch[t]
  PROVE  NodeInv'
<1> USE DEF NodeInv
<1>1. UNCHANGED <<profile, members, selected, life, at, hop, old, late>>
  BY DEF core, conns
<1>2. \A g : Closing(g) => Closing(g)'
  BY DEF Closing
<1>3. \A g : Now(g)' = Now(g)
  BY <1>1 DEF Now, Members, Exists
<1>4. CoreTypes' /\ Fresh' /\ Known'
  BY <1>1 DEF CoreTypes, Fresh, Known
<1>5. Current'
  BY <1>1, <1>2, <1>3 DEF Current
<1> QED
  BY <1>4, <1>5

LEMMA NodeStep == NodeInv /\ [Next]_vars => NodeInv'
<1> SUFFICES ASSUME NodeInv, [Next]_vars PROVE NodeInv'
  OBVIOUS
<1> USE DEF NodeInv
<1>1. ASSUME NEW c \in Conn, Dial(c) PROVE NodeInv'
  <2>1. /\ life[c] = "none" /\ life' = [life EXCEPT ![c] = "dialling"]
        /\ at' = [at EXCEPT ![c] = profile.root]
        /\ UNCHANGED <<profile, members, selected, pc, patch, hop, old, late>> /\ profile # Default
    BY <1>1 DEF Dial, core, threads
  <2>2. profile.root \in Group /\ profile.root \in ToSet(profile.order)
    BY <2>1, ProfileTypes
  <2>3. CoreTypes' /\ Fresh' /\ Known'
    BY <2>1, <2>2 DEF CoreTypes, Fresh, Known
  <2>4. \A g : Now(g)' = Now(g) /\ (Closing(g)' <=> Closing(g))
    BY <2>1 DEF Now, Members, Exists, Closing
  <2>5. Current'
    BY <2>1, <2>4 DEF Current, Fresh, CoreTypes
  <2> QED
    BY <2>3, <2>5
<1>2. ASSUME NEW c \in Conn, DialThroughGroup(c) PROVE NodeInv'
  <2>1. /\ life[c] = "dialling" /\ at[c] \in Group
        /\ UNCHANGED <<profile, members, selected, pc, patch, life, old, late>>
    BY <1>2 DEF DialThroughGroup, core, threads
  <2> DEFINE g == at[c]
  <2>2. PICK p \in IF c \in old THEN Node ELSE GoesBy(g) :
          /\ hop' = [hop EXCEPT ![c][g] = p]
          /\ at' = [at EXCEPT ![c] = p]
    BY <1>2 DEF DialThroughGroup
  <2>3. c \notin old => Exists(g) /\ p \in ToSet(Members(g))
    BY <2>1, <2>2, GoesByMembers, NamesAssumption DEF Known, Exists
  <2>4. p \in Node \cup Group /\ (c \notin old => p \in Node \cup ToSet(profile.order))
    BY <2>2, <2>3, ProfileTypes
  <2>5. CoreTypes' /\ Known'
    BY <2>1, <2>2, <2>4 DEF CoreTypes, Known
  <2>6. Fresh'
    BY <2>1, <2>2 DEF Fresh, CoreTypes
  <2>7. \A h : Now(h)' = Now(h) /\ (Closing(h)' <=> Closing(h))
    BY <2>1 DEF Now, Members, Exists, Closing
  <2>8. ASSUME NEW d \in Conn, life[d] # "none", d \notin old,
               NEW h \in profile.selector \cap Group, hop'[d][h] # None, <<d, h>> \notin late
        PROVE  hop'[d][h] = Now(h) \/ (life[d] = "open" /\ Closing(h))
    <3>1. CASE d = c /\ h = g
      <4>1. hop'[d][h] = p
        BY <2>1, <2>2, <3>1 DEF CoreTypes
      <4>2. p = Now(h)
        BY <2>2, <2>8, <3>1 DEF GoesBy
      <4> QED
        BY <4>1, <4>2
    <3>2. CASE ~(d = c /\ h = g)
      <4>1. hop'[d][h] = hop[d][h]
        BY <2>1, <2>2, <3>2 DEF CoreTypes
      <4> QED
        BY <2>8, <4>1 DEF Current
    <3> QED
      BY <3>1, <3>2
  <2>9. Current'
    BY <2>1, <2>7, <2>8 DEF Current
  <2> QED
    BY <2>5, <2>6, <2>9
<1>3. ASSUME NEW c \in Conn, Join(c) PROVE NodeInv'
  <2>1. /\ life[c] = "dialling" /\ life' = [life EXCEPT ![c] = "open"]
        /\ UNCHANGED <<profile, members, selected, pc, patch, at, hop, old, late>>
    BY <1>3 DEF Join, core, threads
  <2>2. CoreTypes' /\ Fresh' /\ Known'
    BY <2>1 DEF CoreTypes, Fresh, Known
  <2>3. \A g : Now(g)' = Now(g) /\ (Closing(g)' <=> Closing(g))
    BY <2>1 DEF Now, Members, Exists, Closing
  <2>4. Current'
    BY <2>1, <2>3 DEF Current, CoreTypes
  <2> QED
    BY <2>2, <2>4
<1>4. ASSUME NEW c \in Conn, Disconnect(c) PROVE NodeInv'
  <2>1. Forget({c}) /\ UNCHANGED core /\ UNCHANGED <<pc, patch>>
    BY <1>4 DEF Disconnect, threads
  <2>2. pc' \in [Thread -> Labels] /\ \A g : Closing(g) => Closing(g)'
    BY <2>1 DEF CoreTypes, Closing
  <2> QED
    BY <2>1, <2>2, Forgotten
<1>5. ASSUME NEW t \in Thread, CloseConnByGroup(t) PROVE NodeInv'
  <2> DEFINE cs == {c \in Conn : life[c] = "open" /\ hop[c][patch[t].group] # None}
  <2>1. /\ Forget(cs) /\ UNCHANGED core /\ patch' = patch
        /\ \E l \in {"parents", "cascade"} : Goto(t, l)
    BY <1>5 DEF CloseConnByGroup
  <2>2. pc' \in [Thread -> Labels] /\ \A u \in Thread \ {t} : pc'[u] = pc[u]
    BY <2>1 DEF Goto, CoreTypes, Labels
  <2>3. \A g : Closing(g) => Closing(g)' \/ g = patch[t].group
    BY <2>1, <2>2 DEF Closing
  <2> QED
    BY <2>1, <2>2, <2>3, Forgotten
<1>6. ASSUME NEW t \in Thread, Patch(t) PROVE NodeInv'
  <2>1. /\ pc[t] = "patch" /\ Exists(patch[t].group) /\ SetTo(patch[t].group, patch[t].name)
        /\ Goto(t, "close") /\ UNCHANGED <<patch, profile, members, life, at, hop, old>>
    BY <1>6 DEF Patch, CanSelect
  <2> QED
    BY <2>1, Patched
<1>7. ASSUME NEW t \in Thread, PatchParent(t) PROVE NodeInv'
  <2>1. pc[t] = "patchParent" /\ UNCHANGED <<patch, profile, members, life, at, hop, old>>
    BY <1>7 DEF PatchParent
  <2>2. CASE CanSelect(patch[t].group)
    <3>1. Exists(patch[t].group) /\ SetTo(patch[t].group, patch[t].name) /\ Goto(t, "close")
      BY <1>7, <2>2 DEF PatchParent, CanSelect
    <3> QED
      BY <2>1, <2>2, <3>1, Patched
  <2>3. CASE ~CanSelect(patch[t].group)
    <3>1. UNCHANGED <<selected, late>> /\ Goto(t, "cascade")
      BY <1>7, <2>3 DEF PatchParent
    <3>2. pc' \in [Thread -> Labels] /\ \A u \in Thread : pc[u] = "close" => pc'[u] = "close"
      BY <2>1, <3>1 DEF Goto, CoreTypes, Labels
    <3>3. patch' = [u \in Thread |-> patch'[u]]
      BY <2>1 DEF CoreTypes
    <3> QED
      BY <2>1, <3>1, <3>2, <3>3, Untouched DEF core, conns
  <2> QED
    BY <2>2, <2>3
<1>8. ASSUME NEW t \in Starter, Load(t) PROVE NodeInv'
  <2>1. /\ profile' \in Profile /\ members' \in profile'.lists /\ selected' = profile'.default
        /\ old' = {c \in Conn : life[c] # "none"} /\ Goto(t, "loaded")
        /\ UNCHANGED <<patch, life, at, hop, late>>
    BY <1>8 DEF Load
  <2>2. pc' \in [Thread -> Labels]
    BY <2>1 DEF Goto, CoreTypes, Labels
  <2>3. selected' \in [Group -> Node \cup Group \cup {None}]
    BY <2>1, ProfileAssumption DEF Configuration
  <2>4. CoreTypes' /\ Fresh' /\ Known'
    BY <2>1, <2>2, <2>3 DEF CoreTypes, Fresh, Known
  <2>5. Current'
    BY <2>1 DEF Current
  <2> QED
    BY <2>4, <2>5
<1>9. ASSUME NEW t \in Thread, NEW l \in Labels \ {"close"}, pc[t] # "close", Goto(t, l) \/ UNCHANGED pc,
             UNCHANGED <<core, conns>>,
             UNCHANGED patch \/ \E m : patch' = [patch EXCEPT ![t] = m]
      PROVE  NodeInv'
  <2>1. pc' \in [Thread -> Labels]
    BY <1>9 DEF Goto, CoreTypes
  <2>2. patch = [u \in Thread |-> patch[u]]
    BY DEF CoreTypes
  <2>3. patch' = [u \in Thread |-> patch'[u]] /\ \A u \in Thread \ {t} : patch'[u] = patch[u]
    <3>1. CASE UNCHANGED patch
      BY <2>2, <3>1
    <3>2. ASSUME NEW m, patch' = [patch EXCEPT ![t] = m]
          PROVE  patch' = [u \in Thread |-> patch'[u]] /\ \A u \in Thread \ {t} : patch'[u] = patch[u]
      BY <2>2, <3>2
    <3> QED
      BY <1>9, <3>1, <3>2
  <2>4. \A u \in Thread : pc[u] = "close" => pc'[u] = "close" /\ patch'[u] = patch[u]
    BY <1>9, <2>3 DEF Goto, CoreTypes
  <2> QED
    BY <1>9, <2>1, <2>3, <2>4, Untouched
<1>10. Main \in Thread /\ Starter \subseteq Thread
  BY DEF Thread
<1>11. ASSUME NEW t \in Thread, NEW g, NEW n, pc[t] # "close", BeginSelect(t, g, n), UNCHANGED <<core, conns>>
       PROVE  NodeInv'
  <2>1. Goto(t, "patch") /\ patch' = [patch EXCEPT ![t] = [group |-> g, name |-> n]] /\ "patch" \in Labels
    BY <1>11 DEF BeginSelect, Labels
  <2> QED
    BY <1>9, <1>11, <2>1
<1>12. ASSUME NEW t \in Thread,
              QueryNames(t) \/ QueryGroup(t) \/ PatchUnknown(t) \/ QueryParents(t) \/ QueryParent(t)
       PROVE  NodeInv'
  <2>1. PICK l \in Labels \ {"close"} : Goto(t, l) \/ UNCHANGED pc
    BY <1>12 DEF QueryNames, QueryGroup, PatchUnknown, QueryParents, QueryParent, Labels
  <2>2. pc[t] # "close" /\ UNCHANGED <<core, conns>>
    BY <1>12 DEF QueryNames, QueryGroup, PatchUnknown, QueryParents, QueryParent, core, conns
  <2>3. UNCHANGED patch \/ \E m : patch' = [patch EXCEPT ![t] = m]
    BY <1>12 DEF QueryNames, QueryGroup, PatchUnknown, Through, QueryParents, QueryParent
  <2> QED
    BY <1>9, <2>1, <2>2, <2>3
<1>13. ASSUME NEW t \in Starter, NothingToRestore(t) \/ Restore(t) \/ NoGroup(t) \/ Restored(t)
       PROVE  NodeInv'
  <2>1. PICK l \in Labels \ {"close"} : Goto(t, l)
    BY <1>13 DEF NothingToRestore, Restore, NoGroup, Restored, Labels
  <2>2. pc[t] # "close" /\ UNCHANGED <<core, conns>>
    BY <1>13 DEF NothingToRestore, Restore, NoGroup, Listed, Restored, Switched
  <2>3. UNCHANGED patch \/ \E m : patch' = [patch EXCEPT ![t] = m]
    BY <1>13 DEF NothingToRestore, Restore, NoGroup, Restored, Through
  <2> QED
    BY <1>9, <1>10, <2>1, <2>2, <2>3
<1>14. CASE Refresh \/ Show \/ SaveNode
  <2>1. PICK l \in Labels \ {"close"} : Goto(Main, l)
    BY <1>14 DEF Refresh, Show, SaveNode, Labels
  <2>2. pc[Main] # "close" /\ UNCHANGED <<core, conns>>
    BY <1>14 DEF Refresh, Show, Listed, SaveNode, Switched
  <2>3. UNCHANGED patch \/ \E m : patch' = [patch EXCEPT ![Main] = m]
    BY <1>14 DEF Refresh, Show, SaveNode, Through
  <2> QED
    BY <1>9, <1>10, <2>1, <2>2, <2>3
<1>15. ASSUME NEW n \in Node, Click(n) PROVE NodeInv'
  BY <1>10, <1>11, <1>15 DEF Click
<1>16. ASSUME NEW t \in Starter, SelectSaved(t) PROVE NodeInv'
  BY <1>10, <1>11, <1>16 DEF SelectSaved, Listed
<1>17. CASE UNCHANGED vars
  <2>1. UNCHANGED <<core, conns>> /\ UNCHANGED <<pc, patch>>
    BY <1>17 DEF vars, threads
  <2>2. pc' \in [Thread -> Labels] /\ patch' = [t \in Thread |-> patch'[t]]
    BY <2>1 DEF CoreTypes
  <2> QED
    BY <2>1, <2>2, Untouched
<1>18. CASE UpdateProvider
  <2>1. /\ members' \in profile.lists
        /\ late' = late \cup {p \in Conn \X profile.selector : hop[p[1]][p[2]] # None /\ Now(p[2])' # Now(p[2])}
        /\ UNCHANGED <<profile, selected, pc, patch, life, at, hop, old>>
    BY <1>18 DEF UpdateProvider, threads
  <2>2. CoreTypes' /\ Fresh' /\ Known'
    BY <2>1 DEF CoreTypes, Fresh, Known
  <2>3. \A g : Closing(g)' <=> Closing(g)
    BY <2>1 DEF Closing
  <2>4. ASSUME NEW c \in Conn, life[c] # "none", c \notin old,
               NEW g \in profile.selector \cap Group, hop[c][g] # None, <<c, g>> \notin late'
        PROVE  hop[c][g] = Now(g)' \/ (life[c] = "open" /\ Closing(g))
    <3>1. <<c, g>> \in Conn \X profile.selector /\ <<c, g>>[1] = c /\ <<c, g>>[2] = g
      OBVIOUS
    <3>2. Now(g)' = Now(g) /\ <<c, g>> \notin late
      BY <2>1, <2>4, <3>1
    <3> QED
      BY <2>4, <3>2 DEF Current
  <2>5. Current'
    BY <2>1, <2>3, <2>4 DEF Current
  <2> QED
    BY <2>2, <2>5
<1> QED
  BY <1>1, <1>2, <1>3, <1>4, <1>5, <1>6, <1>7, <1>8, <1>12, <1>13, <1>14, <1>15, <1>16, <1>17,
     <1>18
  DEF Next, ThreadStep

(* Whoever switches what beside whom, and whatever is loaded or updated meanwhile, no connection    *)
(* stays open over a proxy that a selector on its way has turned away from, but where its dial was  *)
(* just passing that selector, or where it was an update that moved the selector.                   *)
THEOREM ConnectionsFollowSelectors == Spec => []NoStaleConnection
<1>1. NodeInv => NoStaleConnection
  <2> SUFFICES ASSUME NodeInv, NEW c \in Conn, life[c] = "open", c \notin old,
                      NEW g \in profile.selector, hop[c][g] # None, <<c, g>> \notin late
               PROVE  hop[c][g] = Now(g) \/ Closing(g)
    BY DEF NoStaleConnection, Closing
  <2>1. g \in profile.selector \cap Group
    BY ProfileTypes DEF NodeInv
  <2> QED
    BY <2>1 DEF NodeInv, Current
<1>2. Spec => []NodeInv
  BY NodeInit, NodeStep, PTL DEF Spec
<1> QED
  BY <1>1, <1>2, PTL
=============================================================================
