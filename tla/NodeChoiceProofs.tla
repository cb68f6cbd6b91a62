-------------------------- MODULE NodeChoiceProofs --------------------------
(***************************************************************************)
(* Proofs about listNodes and selectNode of NodeSelection, for any         *)
(* profiles and any number of STARTs: the list is that of the best group,  *)
(* a switch takes, and the threads' variables keep their types.            *)
(*                                                                         *)
(* A calm thread has still to query the end of the list of names that the  *)
(* core has now; what it holds about the part it has passed over is true   *)
(* of the configuration; and while it switches, no other thread does.  The *)
(* list itself is the filter it is meant to be (InOrderLists), which rests *)
(* on the least-number principle, as a fact about sets of numbers.         *)
(***************************************************************************)
EXTENDS NodeSelectionProofs, FiniteSetTheorems, WellFoundedInduction

-----------------------------------------------------------------------------
(* The lists of names that the core answers with *)

\* A set of natural numbers that is not empty has a least element.
LEMMA LeastNatural ==
  ASSUME NEW T \in SUBSET Nat, T # {}
  PROVE  \E m \in T : \A n \in T : m <= n
<1> DEFINE R == {ss \in Nat \X Nat : ss[1] < ss[2]}
<1>1. IsWellFoundedOn(R, Nat)
  BY NatLessThanWellFounded DEF OpToRel
<1>2. PICK m \in T : \A n \in T : <<n, m>> \notin R
  BY <1>1, WFMin
<1>3. ASSUME NEW n \in T, n < m PROVE FALSE
  <2>1. <<n, m>> \in R
    BY <1>3
  <2> QED
    BY <1>2, <2>1
<1> QED
  BY <1>3

\* What InOrder gives: the k-th position in S is the one up to which there are k of them.
LEMMA Enumerated ==
  ASSUME NEW n \in Nat, NEW places \in SUBSET (1 .. n), NEW k \in 1 .. Cardinality(places)
  PROVE  \E i \in places : Cardinality(places \cap 1 .. i) = k
<1> DEFINE count(i) == Cardinality(places \cap 1 .. i)
<1>1. \A i \in Nat : IsFiniteSet(places \cap 1 .. i) /\ count(i) \in Nat
  <2> SUFFICES ASSUME NEW i \in Nat PROVE IsFiniteSet(places \cap 1 .. i) /\ count(i) \in Nat
    OBVIOUS
  <2>1. IsFiniteSet(1 .. i)
    BY FS_Interval
  <2> QED
    BY <2>1, FS_Subset, FS_CardinalityType
<1>2. count(0) = 0
  <2>1. places \cap 1 .. 0 = {}
    OBVIOUS
  <2> QED
    BY <2>1, FS_EmptySet
<1>3. count(n) = Cardinality(places)
  <2>1. places \cap 1 .. n = places
    OBVIOUS
  <2> QED
    BY <2>1
<1>4. ASSUME NEW i \in Nat
      PROVE  count(i + 1) = IF i + 1 \in places THEN count(i) + 1 ELSE count(i)
  <2>1. CASE i + 1 \in places
    <3>1. places \cap 1 .. (i + 1) = (places \cap 1 .. i) \cup {i + 1} /\ i + 1 \notin places \cap 1 .. i
      BY <2>1
    <3> QED
      BY <1>1, <2>1, <3>1, FS_AddElement
  <2>2. CASE i + 1 \notin places
    <3>1. places \cap 1 .. (i + 1) = places \cap 1 .. i
      BY <2>2
    <3> QED
      BY <2>2, <3>1
  <2> QED
    BY <2>1, <2>2
<1> DEFINE T == {i \in Nat : count(i) >= k}
<1>5. count(n) \in Nat /\ k \in Nat /\ k >= 1 /\ count(n) >= k
  BY <1>1, <1>3
<1> HIDE DEF count
<1>6. PICK m \in T : \A i \in T : m <= i
  <2>1. n \in T
    BY <1>5
  <2> HIDE DEF T
  <2>2. T \in SUBSET Nat
    BY DEF T
  <2> QED
    BY <2>1, <2>2, LeastNatural
<1>7. m \in Nat /\ m # 0 /\ count(m) >= k
  BY <1>2, <1>5, <1>6
<1>8. m - 1 \in Nat /\ m - 1 \notin T
  BY <1>6, <1>7
<1>9. count(m - 1) < k /\ count(m - 1) \in Nat /\ count(m) \in Nat
  <2>1. count(m - 1) \in Nat /\ count(m) \in Nat
    BY <1>1, <1>7, <1>8 DEF count
  <2>2. ~(count(m - 1) >= k)
    BY <1>8
  <2> QED
    BY <1>5, <2>1, <2>2
<1>10. count(m) = IF m \in places THEN count(m - 1) + 1 ELSE count(m - 1)
  BY <1>4, <1>7, <1>8
<1>11. m \in places /\ count(m) = k
  BY <1>5, <1>7, <1>9, <1>10
<1> QED
  BY <1>11 DEF count

\* A function on 1 .. n is a sequence of length n.
LEMMA SeqOfFunction ==
  ASSUME NEW G, NEW n \in Nat, NEW f \in [1 .. n -> G]
  PROVE  f \in Seq(G) /\ Len(f) = n
<1>1. f \in UNION {[1 .. m -> G] : m \in Nat}
  OBVIOUS
<1>2. f \in Seq(G)
  BY <1>1, SeqDef, Zenon
<1>3. DOMAIN f = 1 .. n /\ DOMAIN f = 1 .. Len(f) /\ Len(f) \in Nat
  BY <1>2, LenProperties
<1> QED
  BY <1>2, <1>3

\* InOrder lists what of a sequence is in S, all of it, and in the order of the sequence.
LEMMA InOrderLists ==
  ASSUME NEW G, NEW s \in Seq(G), NEW S
  PROVE  /\ InOrder(s, S) \in Seq(G)
         /\ ToSet(InOrder(s, S)) = ToSet(s) \cap S
         /\ \A k, l \in 1 .. Len(InOrder(s, S)) : k < l =>
              \E i, j \in 1 .. Len(s) : i < j /\ InOrder(s, S)[k] = s[i] /\ InOrder(s, S)[l] = s[j]
<1> DEFINE places == {i \in DOMAIN s : s[i] \in S}
           many == Cardinality(places)
           place(k) == CHOOSE i \in places : Cardinality(places \cap 1 .. i) = k
           all == InOrder(s, S)
<1>1. /\ Len(s) \in Nat /\ DOMAIN s = 1 .. Len(s) /\ \A i \in DOMAIN s : s[i] \in G
  BY LenProperties, ElementOfSeq
<1>2. places \in SUBSET (1 .. Len(s)) /\ IsFiniteSet(places) /\ many \in Nat
  <2>1. places \in SUBSET (1 .. Len(s)) /\ IsFiniteSet(1 .. Len(s))
    BY <1>1, FS_Interval
  <2> QED
    BY <2>1, FS_Subset, FS_CardinalityType
<1>3. \A k \in 1 .. many : place(k) \in places /\ Cardinality(places \cap 1 .. place(k)) = k
  <2> SUFFICES ASSUME NEW k \in 1 .. many
               PROVE  place(k) \in places /\ Cardinality(places \cap 1 .. place(k)) = k
    OBVIOUS
  <2>1. \E i \in places : Cardinality(places \cap 1 .. i) = k
    BY <1>1, <1>2, Enumerated
  <2> QED
    BY <2>1
<1>4. all = [k \in 1 .. many |-> s[place(k)]]
  BY DEF InOrder
<1> HIDE DEF place
<1>5. all \in Seq(G) /\ Len(all) = many /\ DOMAIN all = 1 .. many
  <2>1. all \in [1 .. many -> G]
    BY <1>1, <1>2, <1>3, <1>4
  <2> QED
    BY <1>2, <2>1, SeqOfFunction
<1> HIDE DEF all
<1>6. \A i, j \in places : i < j =>
        /\ Cardinality(places \cap 1 .. i) \in Nat /\ Cardinality(places \cap 1 .. j) \in Nat
        /\ Cardinality(places \cap 1 .. i) < Cardinality(places \cap 1 .. j)
  <2> SUFFICES ASSUME NEW i \in places, NEW j \in places, i < j
               PROVE  /\ Cardinality(places \cap 1 .. i) \in Nat /\ Cardinality(places \cap 1 .. j) \in Nat
                      /\ Cardinality(places \cap 1 .. i) < Cardinality(places \cap 1 .. j)
    OBVIOUS
  <2> DEFINE low == places \cap 1 .. i
             high == places \cap 1 .. j
  <2>1. low \in SUBSET high /\ high \in SUBSET places /\ j \in high /\ j \notin low
    BY <1>2
  <2> HIDE DEF low, high, places
  <2>2. IsFiniteSet(high) /\ IsFiniteSet(low)
    BY <1>2, <2>1, FS_Subset
  <2>3. Cardinality(low) <= Cardinality(high) /\ Cardinality(low) # Cardinality(high)
    BY <2>1, <2>2, FS_Subset
  <2>4. Cardinality(low) \in Nat /\ Cardinality(high) \in Nat
    BY <2>2, FS_CardinalityType
  <2> QED
    BY <2>3, <2>4 DEF low, high
<1>7. ToSet(all) = ToSet(s) \cap S
  <2>1. ASSUME NEW g \in ToSet(all) PROVE g \in ToSet(s) \cap S
    <3>1. PICK k \in 1 .. many : g = s[place(k)]
      BY <1>4, <1>5 DEF ToSet
    <3> QED
      BY <1>3, <3>1 DEF ToSet
  <2>2. ASSUME NEW g \in ToSet(s) \cap S PROVE g \in ToSet(all)
    <3>1. PICK i \in places : g = s[i]
      BY DEF ToSet
    <3> DEFINE k == Cardinality(places \cap 1 .. i)
    <3>2. k \in 1 .. many
      <4>1. i \in places \cap 1 .. i
        BY <1>2
      <4>2. IsFiniteSet(places \cap 1 .. i) /\ k <= many /\ k \in Nat
        BY <1>2, FS_Subset, FS_CardinalityType
      <4>3. k # 0
        BY <4>1, <4>2, FS_EmptySet
      <4> QED
        BY <1>2, <4>2, <4>3
    <3>3. place(k) = i
      <4>1. place(k) \in places /\ Cardinality(places \cap 1 .. place(k)) = k
        BY <1>3, <3>2
      <4>2. place(k) \in Int /\ i \in Int
        BY <1>2, <4>1
      <4> HIDE DEF k, places
      <4>3. i \in places /\ place(k) \in places /\ Cardinality(places \cap 1 .. i) = k
        BY <4>1 DEF k
      <4>4. ~(place(k) < i)
        <5> SUFFICES ASSUME place(k) < i PROVE FALSE
          OBVIOUS
        <5>1. k \in Nat /\ k < k
          BY <1>6, <4>1, <4>3
        <5> QED
          BY <5>1
      <4>5. ~(i < place(k))
        <5> SUFFICES ASSUME i < place(k) PROVE FALSE
          OBVIOUS
        <5>1. k \in Nat /\ k < k
          BY <1>6, <4>1, <4>3
        <5> QED
          BY <5>1
      <4> QED
        BY <4>2, <4>4, <4>5
    <3>4. all[k] = g
      BY <1>4, <3>1, <3>2, <3>3
    <3> QED
      BY <1>5, <3>2, <3>4 DEF ToSet
  <2> QED
    BY <2>1, <2>2
<1>8. ASSUME NEW k \in 1 .. many, NEW l \in 1 .. many, k < l
      PROVE  \E i, j \in 1 .. Len(s) : i < j /\ all[k] = s[i] /\ all[l] = s[j]
  <2>1. /\ place(k) \in places /\ Cardinality(places \cap 1 .. place(k)) = k
        /\ place(l) \in places /\ Cardinality(places \cap 1 .. place(l)) = l
    BY <1>3
  <2>2. place(k) # place(l)
    <3> SUFFICES ASSUME place(k) = place(l) PROVE FALSE
      OBVIOUS
    <3> HIDE DEF places
    <3>1. k = l
      BY <2>1
    <3> QED
      BY <1>8, <3>1
  <2>4. ~(place(l) < place(k))
    <3> SUFFICES ASSUME place(l) < place(k) PROVE FALSE
      OBVIOUS
    <3> HIDE DEF places
    <3>1. l < k
      BY <1>6, <2>1
    <3> QED
      BY <1>8, <3>1
  <2>3. place(k) \in 1 .. Len(s) /\ place(l) \in 1 .. Len(s) /\ place(k) < place(l)
    BY <1>1, <1>2, <2>1, <2>2, <2>4
  <2> QED
    BY <1>4, <2>3
<1> QED
  BY <1>5, <1>7, <1>8 DEF all

-----------------------------------------------------------------------------
(* What the threads know, whatever the others do *)

SwitchLabels == {"patch", "close", "parents", "cascade", "patchParent"}

\* What the threads know has its type, and what a thread does about a switch is what its label says.
ThreadTypes ==
  /\ saved \in Node \cup {None}
  /\ shown \in [group : Group \cup {None}, nodes : SUBSET Node]
  /\ node \in [Thread -> Node \cup {None}]
  /\ names \in [Thread -> Seq(Group)]
  /\ best \in [Thread -> [group : Group \cup {None}, nodes : SUBSET Node, score : Nat]]
  /\ patch \in [Thread -> {Unpatched} \cup [group : Group, name : Node \cup Group]]
  /\ old \in SUBSET Conn /\ late \in SUBSET (Conn \X Group)
  /\ calm \in SUBSET Thread
  /\ restored \in BOOLEAN

Knowing ==
  /\ shown.nodes # {} => shown.group # None
  /\ \A t \in Thread :
       /\ best[t].nodes # {} => best[t].group # None
       /\ patch[t] # Unpatched <=> pc[t] \in SwitchLabels
       /\ pc[t] \in SwitchLabels => best[t].group # None
       /\ t \in Starter /\ pc[t] \notin {"idle", "loaded"} => node[t] # None

ThreadInv == CoreTypes /\ ThreadTypes /\ Knowing

\* A thread has still to query the last names of the list, as many as are left.
Left(t) ==
  /\ Len(names[t]) <= Len(SelectableNames)
  /\ \A j \in 1 .. Len(names[t]) :
       names[t][j] = SelectableNames[Len(SelectableNames) - Len(names[t]) + j]

Passed(t) == 1 .. Len(SelectableNames) - Len(names[t])

\* The i-th group is the first one with the most nodes of those before the k-th, and that.
FirstBest(i, k) ==
  \A j \in 1 .. k :
    IF j < i THEN NodeCount(SelectableNames[j]) < NodeCount(SelectableNames[i])
             ELSE NodeCount(SelectableNames[j]) <= NodeCount(SelectableNames[i])

Found(g) == [group |-> g, nodes |-> RealNodes(g), score |-> NodeCount(g) + 1]

IsParent(p, g) == p # g /\ g \in ToSet(Members(p))

Cascading(t) ==
  \/ pc[t] \in {"cascade", "patchParent"}
  \/ pc[t] = "close" /\ patch[t].group # best[t].group

\* The names of the selectable groups are groups that exist.
LEMMA NameTypes ==
  ASSUME CoreTypes
  PROVE  /\ SelectableNames \in Seq(Group)
         /\ Len(SelectableNames) \in Nat
         /\ \A i \in 1 .. Len(SelectableNames) :
              SelectableNames[i] \in Group /\ Exists(SelectableNames[i])
         /\ ToSet(SelectableNames) \subseteq profile.selectAble
         /\ ToSet(SelectableNames) = {SelectableNames[i] : i \in 1 .. Len(SelectableNames)}
<1>1. profile.order \in Seq(Group)
  <2>1. CASE profile = Default
    <3>1. profile.order = <<>>
      BY <2>1 DEF Default
    <3> QED
      BY <3>1, EmptySeq
  <2>2. CASE profile \in Profile
    BY <2>2, ProfileAssumption DEF Configuration
  <2> QED
    BY <2>1, <2>2 DEF CoreTypes
<1>2. /\ SelectableNames \in Seq(Group)
      /\ ToSet(SelectableNames) = ToSet(profile.order) \cap (profile.selector \ profile.hidden)
  BY <1>1, InOrderLists DEF SelectableNames
<1>3. /\ Len(SelectableNames) \in Nat /\ DOMAIN SelectableNames = 1 .. Len(SelectableNames)
      /\ \A i \in 1 .. Len(SelectableNames) : SelectableNames[i] \in Group
  BY <1>2, LenProperties, ElementOfSeq
<1>4. ToSet(SelectableNames) = {SelectableNames[i] : i \in 1 .. Len(SelectableNames)}
  BY <1>3 DEF ToSet
<1>5. profile.selector \subseteq profile.selectAble
  <2>1. CASE profile = Default
    BY <2>1 DEF Default
  <2>2. CASE profile \in Profile
    BY <2>2, ProfileAssumption
  <2> QED
    BY <2>1, <2>2 DEF CoreTypes
<1> QED
  BY <1>2, <1>3, <1>4, <1>5 DEF Exists

LEMMA CountTypes ==
  ASSUME CoreTypes, NEW g
  PROVE  NodeCount(g) \in Nat
<1>1. Members(g) \in Seq(Node \cup Group)
  <2>1. CASE Exists(g)
    BY <2>1, ProfileTypes
  <2>2. CASE ~Exists(g)
    BY <2>2, EmptySeq DEF Members
  <2> QED
    BY <2>1, <2>2
<1>2. Len(Members(g)) \in Nat /\ DOMAIN Members(g) = 1 .. Len(Members(g))
  BY <1>1, LenProperties
<1>3. IsFiniteSet(DOMAIN Members(g))
  BY <1>2, FS_Interval
<1> QED
  BY <1>3, FS_Subset, FS_CardinalityType DEF NodeCount

\* A thread that is through knows nothing.
LEMMA NothingTypes ==
  /\ Nothing \in [group : Group \cup {None}, nodes : SUBSET Node, score : Nat]
  /\ Nothing.nodes = {} /\ Nothing.group = None
BY DEF Nothing

LEMMA ThroughTypes ==
  ASSUME ThreadTypes, NEW t \in Thread, Through(t)
  PROVE  /\ node' \in [Thread -> Node \cup {None}]
         /\ best' \in [Thread -> [group : Group \cup {None}, nodes : SUBSET Node, score : Nat]]
         /\ patch' \in [Thread -> {Unpatched} \cup [group : Group, name : Node \cup Group]]
BY NothingTypes DEF ThreadTypes, Through

LEMMA KnowingInit == Init => ThreadTypes /\ Knowing
<1> SUFFICES ASSUME Init PROVE ThreadTypes /\ Knowing
  OBVIOUS
<1>1. <<>> \in Seq(Group)
  BY EmptySeq
<1>2. ThreadTypes
  BY <1>1 DEF Init, ThreadTypes, Nothing
<1>3. Knowing
  BY DEF Init, Knowing, Nothing, SwitchLabels
<1> QED
  BY <1>2, <1>3

\* A selection that begins knows its group and its node.
LEMMA KnowingSelect ==
  ASSUME CoreTypes, ThreadTypes, Knowing, NEW t \in Thread, NEW g \in Group, NEW n \in Node,
         BeginSelect(t, g, n), node'[t] # None, UNCHANGED <<app, names, conns, restored>>,
         UNCHANGED node \/ node' = [node EXCEPT ![t] = n]
  PROVE  ThreadTypes' /\ Knowing'
<1>1. /\ patch' = [patch EXCEPT ![t] = [group |-> g, name |-> n]]
      /\ best' = [best EXCEPT ![t] = [group |-> g, nodes |-> {}, score |-> 0]]
      /\ pc' = [pc EXCEPT ![t] = "patch"]
      /\ UNCHANGED <<saved, shown, names, old, late, restored>>
  <2>1. [Nothing EXCEPT !.group = g] = [group |-> g, nodes |-> {}, score |-> 0]
    BY DEF Nothing
  <2> QED
    BY <2>1 DEF BeginSelect, Goto, app, conns
<1>2. calm' \in SUBSET Thread
  BY DEF BeginSelect, ThreadTypes
<1>3. ThreadTypes'
  BY <1>1, <1>2 DEF ThreadTypes
<1>4. None \notin Group /\ [group |-> g, name |-> n] # Unpatched
  BY NamesAssumption DEF Unpatched
<1>5. Knowing'
  BY <1>1, <1>4 DEF Knowing, CoreTypes, ThreadTypes, SwitchLabels
<1> QED
  BY <1>3, <1>5

LEMMA KnowingStep == CoreTypes /\ ThreadTypes /\ Knowing /\ [Next]_vars => ThreadTypes' /\ Knowing'
<1> SUFFICES ASSUME CoreTypes, ThreadTypes, Knowing, [Next]_vars PROVE ThreadTypes' /\ Knowing'
  OBVIOUS
<1>1. Main \in Thread /\ Starter \subseteq Thread /\ Main \notin Starter
  BY NamesAssumption DEF Thread
<1>2. ASSUME NEW c \in Conn, Dial(c) \/ DialThroughGroup(c) \/ Join(c) \/ Disconnect(c)
      PROVE  ThreadTypes' /\ Knowing'
  <2>1. UNCHANGED <<saved, shown, pc, node, names, best, patch, calm, restored>>
    BY <1>2 DEF Dial, DialThroughGroup, Join, Disconnect, app, threads
  <2>2. old' \in SUBSET Conn /\ late' \in SUBSET (Conn \X Group)
    BY <1>2 DEF Dial, DialThroughGroup, Join, Disconnect, Forget, ThreadTypes
  <2> QED
    BY <2>1, <2>2 DEF ThreadTypes, Knowing
<1>3. ASSUME NEW t \in Starter, Load(t) PROVE ThreadTypes' /\ Knowing'
  <2>1. ThreadTypes'
    BY <1>3 DEF Load, ThreadTypes, app
  <2>2. Knowing'
    BY <1>1, <1>3 DEF Load, Goto, Knowing, CoreTypes, SwitchLabels, app
  <2> QED
    BY <2>1, <2>2
<1>4. ASSUME NEW t \in Starter, NothingToRestore(t) \/ Restore(t) PROVE ThreadTypes' /\ Knowing'
  <2>1. ThreadTypes'
    BY <1>1, <1>4 DEF NothingToRestore, Restore, ThreadTypes, app, conns
  <2>2. Knowing'
    <3>1. CASE NothingToRestore(t)
      BY <1>1, <3>1 DEF NothingToRestore, Goto, Knowing, CoreTypes, SwitchLabels, app
    <3>2. CASE Restore(t)
      BY <1>1, <3>2 DEF Restore, Goto, Knowing, CoreTypes, ThreadTypes, SwitchLabels, app
    <3> QED
      BY <1>4, <3>1, <3>2
  <2> QED
    BY <2>1, <2>2
<1>5. ASSUME NEW t \in Starter, NoGroup(t) \/ Restored(t) PROVE ThreadTypes' /\ Knowing'
  <2>1. ThreadTypes'
    <3>1. /\ Through(t) /\ UNCHANGED <<app, names, conns>>
          /\ calm' = calm \ {t} /\ restored' \in {restored, TRUE}
      BY <1>5 DEF NoGroup, Restored
    <3>2. UNCHANGED <<saved, shown, names, old, late>>
      BY <3>1 DEF app, conns
    <3> QED
      BY <1>1, <3>1, <3>2, ThroughTypes DEF ThreadTypes
  <2>2. CASE NoGroup(t)
    BY <1>1, <2>1, <2>2, NothingTypes DEF NoGroup, Through, Listed, Goto, Knowing, CoreTypes, SwitchLabels, app
  <2>3. CASE Restored(t)
    BY <1>1, <2>1, <2>3, NothingTypes DEF Restored, Through, Switched, Goto, Knowing, CoreTypes, ThreadTypes, SwitchLabels, app
  <2> QED
    BY <1>5, <2>1, <2>2, <2>3
<1>6. ASSUME NEW t \in Starter, SelectSaved(t) PROVE ThreadTypes' /\ Knowing'
  <2>1. best[t].group \in Group /\ node[t] \in Node /\ node[t] # None
    BY <1>1, <1>6 DEF SelectSaved, Listed, ThreadTypes, Knowing
  <2> QED
    BY <1>1, <1>6, <2>1, KnowingSelect DEF SelectSaved
<1>7. ASSUME NEW n \in Node, Click(n) PROVE ThreadTypes' /\ Knowing'
  <2>1. shown.group \in Group
    BY <1>7 DEF Click, ThreadTypes, Knowing
  <2>2. node' = [node EXCEPT ![Main] = n] /\ node'[Main] # None
    BY <1>1, <1>7, NamesAssumption DEF Click, ThreadTypes
  <2> QED
    BY <1>1, <1>7, <2>1, <2>2, KnowingSelect DEF Click
<1>8. CASE Refresh \/ Show \/ SaveNode
  <2>1. ThreadTypes'
    <3>1. CASE Refresh
      BY <3>1 DEF Refresh, ThreadTypes, app, conns
    <3>2. CASE Show
      BY <1>1, <3>2, ThroughTypes DEF Show, ThreadTypes, conns
    <3>3. CASE SaveNode
      BY <1>1, <3>3, ThroughTypes DEF SaveNode, ThreadTypes, conns
    <3> QED
      BY <1>8, <3>1, <3>2, <3>3
  <2>2. CASE Refresh
    BY <1>1, <2>1, <2>2 DEF Refresh, Goto, Knowing, CoreTypes, SwitchLabels, app
  <2>3. CASE Show
    <3>1. /\ shown' = [group |-> best[Main].group, nodes |-> best[Main].nodes]
          /\ pc[Main] = "query" /\ pc' = [pc EXCEPT ![Main] = "idle"]
          /\ Through(Main)
      BY <2>3 DEF Show, Listed, Goto
    <3>2. shown'.group = best[Main].group /\ shown'.nodes = best[Main].nodes
      BY <3>1
    <3> QED
      BY <1>1, <2>1, <3>1, <3>2, NothingTypes DEF Through, Knowing, CoreTypes, ThreadTypes, SwitchLabels
  <2>4. CASE SaveNode
    BY <1>1, <2>1, <2>4, NothingTypes DEF SaveNode, Through, Switched, Goto, Knowing, CoreTypes, ThreadTypes, SwitchLabels
  <2> QED
    BY <1>8, <2>1, <2>2, <2>3, <2>4
<1>9. ASSUME NEW t \in Thread, QueryNames(t) PROVE ThreadTypes' /\ Knowing'
  <2>1. ThreadTypes'
    BY <1>9, NameTypes DEF QueryNames, ThreadTypes, Nothing, app, conns
  <2>2. Knowing'
    BY <1>9 DEF QueryNames, Goto, Knowing, CoreTypes, ThreadTypes, Nothing, SwitchLabels, app
  <2> QED
    BY <2>1, <2>2
<1>10. ASSUME NEW t \in Thread, names[t] # <<>>
       PROVE  Head(names[t]) \in Group /\ Tail(names[t]) \in Seq(Group)
  BY <1>10, HeadTailProperties DEF ThreadTypes
<1>11. ASSUME NEW t \in Thread, QueryGroup(t) PROVE ThreadTypes' /\ Knowing'
  <2> DEFINE g == Head(names[t])
  <2>1. g \in Group /\ Tail(names[t]) \in Seq(Group) /\ g # None
    BY <1>10, <1>11, NamesAssumption DEF QueryGroup
  <2>2. NodeCount(g) + 1 \in Nat /\ RealNodes(g) \in SUBSET Node
    BY CountTypes DEF RealNodes
  <2>3. /\ best' = best \/ best' = [best EXCEPT ![t] = [group |-> g, nodes |-> RealNodes(g),
                                                       score |-> NodeCount(g) + 1]]
        /\ names' = [names EXCEPT ![t] = Tail(names[t])]
        /\ UNCHANGED <<saved, shown, pc, node, patch, old, late, calm, restored>>
    BY <1>11 DEF QueryGroup, app, conns, ThreadTypes
  <2> HIDE DEF g
  <2> DEFINE b == [group |-> g, nodes |-> RealNodes(g), score |-> NodeCount(g) + 1]
  <2>4. /\ b \in [group : Group \cup {None}, nodes : SUBSET Node, score : Nat]
        /\ b.nodes # {} => b.group # None
    BY <2>1, <2>2
  <2> HIDE DEF b
  <2>5. /\ best' \in [Thread -> [group : Group \cup {None}, nodes : SUBSET Node, score : Nat]]
        /\ \A u \in Thread : best'[u].nodes # {} => best'[u].group # None
        /\ \A u \in Thread : pc[u] \in SwitchLabels => best'[u].group # None
    <3>1. CASE best' = best
      BY <3>1 DEF Knowing, ThreadTypes
    <3>2. CASE best' = [best EXCEPT ![t] = b]
      <4>1. b.group # None
        BY <2>1 DEF b
      <4> QED
        BY <2>4, <3>2, <4>1 DEF Knowing, ThreadTypes
    <3> QED
      BY <2>3, <3>1, <3>2 DEF b
  <2>6. ThreadTypes'
    BY <2>1, <2>3, <2>5 DEF ThreadTypes
  <2>7. Knowing'
    BY <2>3, <2>5 DEF Knowing
  <2> QED
    BY <2>6, <2>7
<1>12. ASSUME NEW t \in Thread, PatchUnknown(t) PROVE ThreadTypes' /\ Knowing'
  <2>1. ThreadTypes'
    BY <1>12, NothingTypes DEF PatchUnknown, Through, ThreadTypes, app, conns
  <2>2. Knowing'
    BY <1>12, NothingTypes DEF PatchUnknown, Through, Goto, Knowing, CoreTypes, ThreadTypes, SwitchLabels, app
  <2> QED
    BY <2>1, <2>2
<1>13. ASSUME NEW t \in Thread, Patch(t) \/ CloseConnByGroup(t) \/ PatchParent(t)
       PROVE  ThreadTypes' /\ Knowing'
  <2>1. UNCHANGED <<saved, shown, node, names, best, patch, calm, restored>>
    BY <1>13 DEF Patch, CloseConnByGroup, PatchParent, app
  <2>2. old' \in SUBSET Conn /\ late' \in SUBSET (Conn \X Group)
    <3>1. ASSUME NEW g, Exists(g), NEW n, SetTo(g, n) PROVE late' \in SUBSET (Conn \X Group)
      <4>1. g \in Group
        BY <3>1, ProfileTypes
      <4> QED
        BY <3>1, <4>1 DEF SetTo, ThreadTypes
    <3>2. CASE Patch(t)
      BY <3>1, <3>2 DEF Patch, CanSelect, ThreadTypes
    <3>3. CASE CloseConnByGroup(t)
      BY <3>3 DEF CloseConnByGroup, Forget, ThreadTypes
    <3>4. CASE PatchParent(t)
      BY <3>1, <3>4 DEF PatchParent, CanSelect, ThreadTypes
    <3> QED
      BY <1>13, <3>2, <3>3, <3>4
  <2>3. ThreadTypes'
    BY <2>1, <2>2 DEF ThreadTypes
  <2>4. \E l \in SwitchLabels : pc' = [pc EXCEPT ![t] = l]
    BY <1>13 DEF Patch, CloseConnByGroup, PatchParent, Goto, SwitchLabels
  <2>5. pc[t] \in SwitchLabels
    BY <1>13 DEF Patch, CloseConnByGroup, PatchParent, SwitchLabels
  <2>6. Knowing'
    BY <2>1, <2>4, <2>5 DEF Knowing, CoreTypes, SwitchLabels
  <2> QED
    BY <2>3, <2>6
<1>14. ASSUME NEW t \in Thread, QueryParents(t) PROVE ThreadTypes' /\ Knowing'
  <2>1. ThreadTypes'
    BY <1>14, NameTypes DEF QueryParents, ThreadTypes, app, conns
  <2>2. Knowing'
    BY <1>14 DEF QueryParents, Goto, Knowing, CoreTypes, SwitchLabels, app
  <2> QED
    BY <2>1, <2>2
<1>15. ASSUME NEW t \in Thread, QueryParent(t) PROVE ThreadTypes' /\ Knowing'
  <2> DEFINE p == Head(names[t])
  <2>1. p \in Group /\ Tail(names[t]) \in Seq(Group) /\ pc[t] = "cascade"
    BY <1>10, <1>15 DEF QueryParent
  <2>2. best[t].group \in Group
    BY <2>1 DEF Knowing, ThreadTypes, SwitchLabels
  <2>3. /\ names' = [names EXCEPT ![t] = Tail(names[t])]
        /\ \/ patch' = patch
           \/ patch' = [patch EXCEPT ![t] = [group |-> p, name |-> best[t].group]]
        /\ \E l \in {"patchParent", "cascade"} : pc' = [pc EXCEPT ![t] = l]
        /\ UNCHANGED <<saved, shown, node, best, old, late, calm, restored>>
    BY <1>15 DEF QueryParent, Goto, app, conns, ThreadTypes
  <2>4. ThreadTypes'
    <3>1. [group |-> p, name |-> best[t].group] \in [group : Group, name : Node \cup Group]
      BY <2>1, <2>2
    <3>2. patch' \in [Thread -> {Unpatched} \cup [group : Group, name : Node \cup Group]]
      BY <2>3, <3>1 DEF ThreadTypes
    <3>3. names' \in [Thread -> Seq(Group)]
      BY <2>1, <2>3 DEF ThreadTypes
    <3> QED
      BY <2>3, <3>2, <3>3 DEF ThreadTypes
  <2>5. [group |-> p, name |-> best[t].group] # Unpatched
    BY <2>1, NamesAssumption DEF Unpatched
  <2>6. Knowing'
    BY <2>1, <2>3, <2>5 DEF Knowing, CoreTypes, ThreadTypes, SwitchLabels
  <2> QED
    BY <2>4, <2>6
<1>16. CASE UpdateProvider
  <2>1. UNCHANGED <<saved, shown, pc, node, names, best, patch, old>>
    BY <1>16 DEF UpdateProvider, app, threads
  <2>2. late' \in SUBSET (Conn \X Group) /\ calm' = {} /\ restored' = FALSE
    BY <1>16, ProfileTypes DEF UpdateProvider, ThreadTypes
  <2> QED
    BY <2>1, <2>2 DEF ThreadTypes, Knowing
<1>17. CASE UNCHANGED vars
  <2>1. UNCHANGED <<saved, shown, pc, node, names, best, patch, old, late, calm, restored>>
    BY <1>17 DEF vars, app, threads, conns
  <2> QED
    BY <2>1 DEF ThreadTypes, Knowing
<1> QED
  BY <1>2, <1>3, <1>4, <1>5, <1>6, <1>7, <1>8, <1>9, <1>11, <1>12, <1>13, <1>14, <1>15, <1>16, <1>17
  DEF Next, ThreadStep

\* What is queried of the core is what it was, as long as nothing is loaded or updated.
LEMMA SameProfile ==
  ASSUME profile' = profile, members' = members
  PROVE  /\ SelectableNames' = SelectableNames
         /\ \A g : /\ Exists(g)' = Exists(g) /\ Members(g)' = Members(g)
                   /\ NodeCount(g)' = NodeCount(g) /\ RealNodes(g)' = RealNodes(g)
         /\ \A p, g : IsParent(p, g)' = IsParent(p, g)
<1>1. \A g : Exists(g)' = Exists(g) /\ Members(g)' = Members(g)
  BY DEF Exists, Members
<1>2. \A g : NodeCount(g)' = NodeCount(g) /\ RealNodes(g)' = RealNodes(g)
  BY <1>1 DEF NodeCount, RealNodes
<1>3. SelectableNames' = SelectableNames
  BY DEF SelectableNames
<1> QED
  BY <1>1, <1>2, <1>3 DEF IsParent

ThreadAction(t) ==
  \/ ThreadStep(t)
  \/ t = Main /\ (Refresh \/ Show \/ SaveNode \/ \E n \in Node : Click(n))
  \/ t \in Starter /\ (NothingToRestore(t) \/ Restore(t) \/ SelectSaved(t) \/ NoGroup(t) \/ Restored(t))

\* Only the thread that moves changes what it knows, and only it can become calm.
Moves(t) ==
  /\ profile' = profile /\ members' = members
  /\ calm' \subseteq calm \cup {t}
  /\ \A u \in Thread \ {t} :
       pc'[u] = pc[u] /\ node'[u] = node[u] /\ names'[u] = names[u] /\ best'[u] = best[u] /\ patch'[u] = patch[u]

LEMMA OneMoves ==
  ASSUME CoreTypes, ThreadTypes, NEW t \in Thread, ThreadAction(t)
  PROVE  Moves(t)
<1> USE DEF CoreTypes, ThreadTypes, core, app, conns, Goto
<1>1. CASE QueryNames(t) \/ QueryGroup(t)
  BY <1>1 DEF QueryNames, QueryGroup, Moves
<1>2. CASE PatchUnknown(t) \/ QueryParents(t) \/ QueryParent(t)
  BY <1>2 DEF PatchUnknown, Through, QueryParents, QueryParent, Moves
<1>3. CASE Patch(t) \/ CloseConnByGroup(t) \/ PatchParent(t)
  BY <1>3 DEF Patch, CloseConnByGroup, PatchParent, Moves
<1>4. CASE t = Main /\ (Refresh \/ Show \/ SaveNode)
  BY <1>4 DEF Refresh, Show, SaveNode, Through, Moves
<1>5. CASE NothingToRestore(t) \/ Restore(t) \/ NoGroup(t) \/ Restored(t)
  BY <1>5 DEF NothingToRestore, Restore, NoGroup, Restored, Through, Moves
<1>6. ASSUME NEW g, NEW n, BeginSelect(t, g, n), UNCHANGED <<core, names>>,
             \A u \in Thread \ {t} : node'[u] = node[u]
      PROVE  Moves(t)
  BY <1>6 DEF BeginSelect, Moves
<1>7. ASSUME t = Main, NEW n \in Node, Click(n) PROVE Moves(t)
  <2>1. BeginSelect(t, shown.group, n) /\ UNCHANGED <<core, names>>
    BY <1>7 DEF Click
  <2>2. \A u \in Thread \ {t} : node'[u] = node[u]
    BY <1>7 DEF Click
  <2> QED
    BY <1>6, <2>1, <2>2
<1>8. CASE SelectSaved(t)
  BY <1>6, <1>8 DEF SelectSaved
<1> QED
  BY <1>1, <1>2, <1>3, <1>4, <1>5, <1>7, <1>8 DEF ThreadAction, ThreadStep

\* A step is a load, an update, a step of a connection, or one of a thread.
LEMMA WhoSteps ==
  ASSUME [Next]_vars
  PROVE  \/ \E t \in Starter : Load(t)
         \/ UpdateProvider
         \/ UNCHANGED <<core, threads, calm>>
         \/ \E t \in Thread : ThreadAction(t)
<1>1. Main \in Thread /\ Starter \subseteq Thread
  BY DEF Thread
<1>2. ASSUME NEW c \in Conn, Dial(c) \/ DialThroughGroup(c) \/ Join(c) \/ Disconnect(c)
      PROVE  UNCHANGED <<core, threads, calm>>
  BY <1>2 DEF Dial, DialThroughGroup, Join, Disconnect
<1>3. CASE UNCHANGED vars
  BY <1>3 DEF vars
<1>4. CASE \E t \in Thread : ThreadStep(t)
  BY <1>4 DEF ThreadAction
<1>5. CASE Refresh \/ Show \/ SaveNode \/ \E n \in Node : Click(n)
  BY <1>1, <1>5 DEF ThreadAction
<1>6. ASSUME NEW t \in Starter, NothingToRestore(t) \/ Restore(t) \/ SelectSaved(t) \/ NoGroup(t) \/ Restored(t)
      PROVE  \E u \in Thread : ThreadAction(u)
  BY <1>1, <1>6 DEF ThreadAction
<1> QED
  BY <1>2, <1>3, <1>4, <1>5, <1>6 DEF Next

-----------------------------------------------------------------------------
(* listNodes *)

\* A list of names of which none, or one more, is passed over.
LEMMA LeftAll ==
  ASSUME CoreTypes, NEW t, names'[t] = SelectableNames, profile' = profile, members' = members
  PROVE  Left(t)' /\ Passed(t)' = {}
<1>1. SelectableNames' = SelectableNames /\ Len(SelectableNames) \in Nat
  BY SameProfile, NameTypes
<1>2. Left(t)'
  BY <1>1 DEF Left
<1>3. Passed(t)' = 1 .. 0
  BY <1>1 DEF Passed
<1> QED
  BY <1>2, <1>3

LEMMA OneLess ==
  ASSUME NEW a \in Nat, NEW b \in Nat, b # 0, b <= a
  PROVE  a - b \in Nat /\ (a - b) + 1 <= a /\ a - (b - 1) = (a - b) + 1 /\ b - 1 <= a
  OBVIOUS

LEMMA TailLeft ==
  ASSUME NEW all \in Seq(Group), NEW ns \in Seq(Group), ns # <<>>, Len(ns) <= Len(all),
         \A j \in 1 .. Len(ns) : ns[j] = all[Len(all) - Len(ns) + j]
  PROVE  LET n == Len(all) - Len(ns)
             tl == Tail(ns)
         IN  /\ n \in Nat /\ n + 1 <= Len(all) /\ Head(ns) = all[n + 1]
             /\ tl \in Seq(Group) /\ Len(tl) <= Len(all) /\ Len(all) - Len(tl) = n + 1
             /\ \A j \in 1 .. Len(tl) : tl[j] = all[Len(all) - Len(tl) + j]
<1> DEFINE n == Len(all) - Len(ns)
           tl == Tail(ns)
<1>1. /\ Len(ns) \in Nat /\ Len(ns) # 0 /\ Len(tl) = Len(ns) - 1 /\ Head(ns) = ns[1] /\ tl \in Seq(Group)
      /\ \A j \in 1 .. Len(tl) : tl[j] = ns[j + 1]
  BY HeadTailProperties, LenProperties, EmptySeq
<1>2. Len(all) \in Nat
  BY LenProperties
<1> HIDE DEF tl
<1>3. n \in Nat /\ n + 1 <= Len(all) /\ Len(all) - Len(tl) = n + 1 /\ Len(tl) <= Len(all)
  BY <1>1, <1>2, OneLess
<1>4. Head(ns) = all[n + 1]
  <2>1. 1 \in 1 .. Len(ns)
    BY <1>1
  <2> QED
    BY <1>1, <2>1
<1>5. ASSUME NEW j \in 1 .. Len(tl) PROVE tl[j] = all[Len(all) - Len(tl) + j]
  <2>1. j + 1 \in 1 .. Len(ns) /\ tl[j] = ns[j + 1] /\ Len(all) - Len(ns) + (j + 1) = Len(all) - Len(tl) + j
    BY <1>1, <1>2
  <2>2. ns[j + 1] = all[Len(all) - Len(ns) + (j + 1)]
    BY <2>1
  <2> QED
    BY <2>1, <2>2
<1> QED
  BY <1>1, <1>3, <1>4, <1>5 DEF tl

LEMMA LeftTail ==
  ASSUME CoreTypes, ThreadTypes, NEW t \in Thread, Left(t), names[t] # <<>>,
         names' = [names EXCEPT ![t] = Tail(@)], profile' = profile, members' = members,
         NEW n, n = Len(SelectableNames) - Len(names[t])
  PROVE  /\ Left(t)' /\ n \in Nat /\ n + 1 <= Len(SelectableNames)
         /\ Head(names[t]) = SelectableNames[n + 1]
         /\ Passed(t) = 1 .. n /\ Passed(t)' = 1 .. (n + 1)
         /\ Len(SelectableNames)' - Len(names'[t]) = n + 1
<1>1. SelectableNames' = SelectableNames /\ SelectableNames \in Seq(Group)
  BY SameProfile, NameTypes
<1>2. names[t] \in Seq(Group) /\ names'[t] = Tail(names[t])
  BY DEF ThreadTypes
<1> DEFINE ns == names[t]
           tl == Tail(ns)
           all == SelectableNames
<1>3. /\ n \in Nat /\ n + 1 <= Len(all) /\ Head(ns) = all[n + 1]
      /\ Len(tl) <= Len(all) /\ Len(all) - Len(tl) = n + 1
      /\ \A j \in 1 .. Len(tl) : tl[j] = all[Len(all) - Len(tl) + j]
  BY <1>1, <1>2, TailLeft DEF Left
<1> HIDE DEF tl, all
<1>4. SelectableNames' = all /\ names'[t] = tl
  BY <1>1, <1>2 DEF tl, all
<1>5. Left(t)'
  BY <1>3, <1>4 DEF Left
<1>6. Passed(t)' = 1 .. (n + 1) /\ Len(SelectableNames)' - Len(names'[t]) = n + 1
  BY <1>3, <1>4 DEF Passed
<1> QED
  BY <1>3, <1>5, <1>6 DEF Passed, all

ListingOf(t) ==
  pc[t] = "query" =>
    /\ Left(t)
    /\ Passed(t) = {} => best[t] = Nothing
    /\ Passed(t) # {} => \E i \in Passed(t) :
                           /\ best[t] = Found(SelectableNames[i])
                           /\ FirstBest(i, Len(SelectableNames) - Len(names[t]))

LEMMA ListingKept ==
  ASSUME NEW t, ListingOf(t), profile' = profile, members' = members,
         pc'[t] = pc[t], names'[t] = names[t], best'[t] = best[t]
  PROVE  ListingOf(t)'
<1>1. SelectableNames' = SelectableNames /\ \A g : NodeCount(g)' = NodeCount(g) /\ RealNodes(g)' = RealNodes(g)
  BY SameProfile
<1>2. Left(t)' = Left(t) /\ Passed(t)' = Passed(t)
  BY <1>1 DEF Left, Passed
<1>3. \A i, k : FirstBest(i, k)' = FirstBest(i, k)
  BY <1>1 DEF FirstBest
<1>4. \A g : Found(g)' = Found(g)
  BY <1>1 DEF Found
<1> QED
  BY <1>1, <1>2, <1>3, <1>4 DEF ListingOf

LEMMA ListingStep ==
  ASSUME CoreTypes, ThreadTypes, \A t \in calm : ListingOf(t), [Next]_vars
  PROVE  \A t \in calm' : ListingOf(t)'
<1>1. ASSUME (\E t \in Starter : Load(t)) \/ UpdateProvider PROVE calm' = {}
  BY <1>1 DEF Load, UpdateProvider
<1>2. CASE UNCHANGED <<core, threads, calm>>
  <2>1. UNCHANGED <<profile, members, pc, names, best, calm>>
    BY <1>2 DEF core, threads
  <2> QED
    BY <2>1, ListingKept
<1>3. ASSUME NEW t \in Thread, QueryNames(t) PROVE ListingOf(t)'
  <2>1. /\ profile' = profile /\ members' = members /\ names'[t] = SelectableNames /\ best'[t] = Nothing
    BY <1>3 DEF QueryNames, core, ThreadTypes
  <2>2. Left(t)' /\ Passed(t)' = {}
    BY <2>1, LeftAll
  <2> QED
    BY <2>1, <2>2 DEF ListingOf
<1>4. ASSUME NEW t \in Thread, ListingOf(t), QueryGroup(t) PROVE ListingOf(t)'
  <2> DEFINE n == Len(SelectableNames) - Len(names[t])
             g == Head(names[t])
  <2>1. /\ pc[t] = "query" /\ names[t] # <<>> /\ names' = [names EXCEPT ![t] = Tail(@)]
        /\ profile' = profile /\ members' = members
        /\ best'[t] = IF NodeCount(g) + 1 > best[t].score THEN Found(g) ELSE best[t]
    BY <1>4 DEF QueryGroup, core, ThreadTypes, Found
  <2>2. Left(t)
    BY <1>4, <2>1 DEF ListingOf
  <2>3. /\ Left(t)' /\ n \in Nat /\ n + 1 <= Len(SelectableNames) /\ g = SelectableNames[n + 1]
        /\ Passed(t) = 1 .. n /\ Passed(t)' = 1 .. (n + 1)
        /\ Len(SelectableNames)' - Len(names'[t]) = n + 1
    BY <2>1, <2>2, LeftTail
  <2> HIDE DEF n
  <2>4. /\ SelectableNames' = SelectableNames
        /\ \A h : NodeCount(h) \in Nat /\ NodeCount(h)' = NodeCount(h) /\ Found(h)' = Found(h)
    BY <2>1, SameProfile, CountTypes DEF Found
  <2>5. \A i, k : FirstBest(i, k)' = FirstBest(i, k)
    BY <2>4 DEF FirstBest
  <2>6. \A h : Found(h).score = NodeCount(h) + 1
    BY DEF Found
  <2>7. \E i \in 1 .. (n + 1) : best'[t] = Found(SelectableNames[i]) /\ FirstBest(i, n + 1)
    <3>1. CASE n = 0
      <4>1. best[t] = Nothing
        <5>1. Passed(t) = {}
          BY <2>3, <3>1
        <5> QED
          BY <1>4, <2>1, <5>1 DEF ListingOf
      <4>2. NodeCount(g) + 1 > best[t].score
        BY <2>4, <4>1 DEF Nothing
      <4>3. best'[t] = Found(g) /\ g = SelectableNames[1]
        BY <2>1, <2>3, <3>1, <4>2
      <4>4. FirstBest(1, 1)
        <5> DEFINE c == NodeCount(SelectableNames[1])
        <5>1. c \in Nat
          BY <2>4
        <5> HIDE DEF c
        <5>2. \A j \in 1 .. 1 : j = 1 /\ ~(j < 1)
          OBVIOUS
        <5>3. c <= c
          BY <5>1
        <5> QED
          BY <5>2, <5>3 DEF FirstBest, c
      <4>5. 1 \in 1 .. (n + 1) /\ n + 1 = 1
        BY <3>1
      <4> QED
        BY <4>3, <4>4, <4>5
    <3>2. CASE n # 0
      <4>1. PICK i \in 1 .. n : best[t] = Found(SelectableNames[i]) /\ FirstBest(i, n)
        <5>1. 1 \in 1 .. n
          BY <2>3, <3>2
        <5>2. Passed(t) # {}
          BY <2>3, <5>1
        <5> QED
          BY <1>4, <2>1, <2>3, <5>2 DEF ListingOf, n
      <4> DEFINE c(j) == NodeCount(SelectableNames[j])
      <4>2. best[t].score = c(i) + 1 /\ \A j \in 1 .. (n + 1) : c(j) \in Nat
        BY <2>4, <2>6, <4>1
      <4>3. \A j \in 1 .. n : IF j < i THEN c(j) < c(i) ELSE c(j) <= c(i)
        BY <4>1 DEF FirstBest
      <4>4. best'[t] = IF c(n + 1) > c(i) THEN Found(SelectableNames[n + 1]) ELSE Found(SelectableNames[i])
        <5>1. best[t].score = c(i) + 1 /\ c(i) \in Nat /\ c(n + 1) \in Nat /\ NodeCount(g) = c(n + 1)
          BY <2>3, <4>2
        <5>2. NodeCount(g) + 1 > best[t].score <=> c(n + 1) > c(i)
          <6> HIDE DEF c
          <6> QED
            BY <5>1
        <5> QED
          BY <2>1, <2>3, <4>1, <5>2
      <4>5. CASE c(n + 1) > c(i)
        <5>1. \A j \in 1 .. (n + 1) : IF j < n + 1 THEN c(j) < c(n + 1) ELSE c(j) <= c(n + 1)
          <6> HIDE DEF c, n
          <6> SUFFICES ASSUME NEW j \in 1 .. (n + 1)
                       PROVE  IF j < n + 1 THEN c(j) < c(n + 1) ELSE c(j) <= c(n + 1)
            OBVIOUS
          <6>1. c(j) \in Nat /\ c(i) \in Nat /\ c(n + 1) \in Nat /\ i \in 1 .. n
            BY <2>3, <4>2
          <6>2. CASE j = n + 1
            BY <2>3, <6>1, <6>2
          <6>3. CASE j \in 1 .. n
            BY <2>3, <4>3, <4>5, <6>1, <6>3
          <6> QED
            BY <2>3, <6>2, <6>3
        <5>2. FirstBest(n + 1, n + 1)
          BY <5>1 DEF FirstBest
        <5>3. n + 1 \in 1 .. (n + 1)
          BY <2>3
        <5> QED
          BY <4>4, <4>5, <5>2, <5>3
      <4>6. CASE ~(c(n + 1) > c(i))
        <5>1. \A j \in 1 .. (n + 1) : IF j < i THEN c(j) < c(i) ELSE c(j) <= c(i)
          <6> HIDE DEF c, n
          <6> SUFFICES ASSUME NEW j \in 1 .. (n + 1)
                       PROVE  IF j < i THEN c(j) < c(i) ELSE c(j) <= c(i)
            OBVIOUS
          <6>1. c(i) \in Nat /\ c(n + 1) \in Nat /\ i \in 1 .. n
            BY <2>3, <4>2
          <6>2. CASE j = n + 1
            BY <2>3, <4>6, <6>1, <6>2
          <6>3. CASE j \in 1 .. n
            BY <4>3, <6>3
          <6> QED
            BY <2>3, <6>2, <6>3
        <5>2. FirstBest(i, n + 1)
          BY <5>1 DEF FirstBest
        <5>3. i \in 1 .. (n + 1)
          BY <2>3
        <5> QED
          BY <4>1, <4>4, <4>6, <5>2, <5>3
      <4> QED
        BY <4>5, <4>6
    <3> QED
      BY <3>1, <3>2
  <2>8. Passed(t)' # {}
    <3>1. 1 \in 1 .. (n + 1)
      BY <2>3
    <3> QED
      BY <2>3, <3>1
  <2>9. \E i \in Passed(t)' : best'[t] = Found(SelectableNames[i])'
                              /\ FirstBest(i, Len(SelectableNames) - Len(names[t]))'
    BY <2>3, <2>4, <2>5, <2>7
  <2> QED
    BY <2>3, <2>8, <2>9 DEF ListingOf
<1>5. ASSUME NEW t \in Thread, ThreadAction(t), NEW u \in calm', \A v \in calm : ListingOf(v)
      PROVE  ListingOf(u)'
  <2>1. Moves(t)
    BY <1>5, OneMoves
  <2>2. CASE u # t
    <3>1. u \in calm /\ u \in Thread
      BY <2>1, <2>2 DEF Moves, ThreadTypes
    <3> QED
      BY <1>5, <2>1, <2>2, <3>1, ListingKept DEF Moves
  <2>3. CASE u = t /\ QueryNames(t)
    BY <1>3, <2>3
  <2>4. CASE u = t /\ QueryGroup(t)
    <3>1. u \in calm
      BY <1>5, <2>4 DEF QueryGroup
    <3> QED
      BY <1>4, <1>5, <2>4, <3>1
  <2>5. CASE u = t /\ ~QueryNames(t) /\ ~QueryGroup(t)
    <3>1. pc'[t] # "query"
      BY <1>5, <2>5 DEF ThreadAction, ThreadStep, PatchUnknown, Patch, CloseConnByGroup, QueryParents, QueryParent,
         PatchParent, Refresh, Show, SaveNode, Click, BeginSelect, NothingToRestore, Restore, SelectSaved,
         NoGroup, Restored, Goto, CoreTypes
    <3> QED
      BY <2>5, <3>1 DEF ListingOf
  <2> QED
    BY <2>2, <2>3, <2>4, <2>5
<1> QED
  BY <1>1, <1>2, <1>5, WhoSteps

-----------------------------------------------------------------------------
(* selectNode *)

\* Every parent that was passed over points to the group, or is the one that is just patched.
Turned(t, g) ==
  \A i \in Passed(t) :
    IsParent(SelectableNames[i], g) =>
      \/ Now(SelectableNames[i]) = g
      \/ pc[t] = "patchParent" /\ patch[t].group = SelectableNames[i]

SwitchOf(t) ==
  pc[t] \in SwitchLabels =>
    /\ \A u \in Thread \ {t} : patch[u] = Unpatched
    /\ pc[t] = "patch" => patch[t] = [group |-> best[t].group, name |-> node[t]]
    /\ pc[t] # "patch" /\ node[t] \in RealNodes(best[t].group) => Now(best[t].group) = node[t]
    /\ Cascading(t) => Left(t) /\ Turned(t, best[t].group)
    /\ pc[t] = "patchParent" =>
         /\ patch[t].group \in ToSet(SelectableNames) /\ IsParent(patch[t].group, best[t].group)
         /\ patch[t].name = best[t].group

\* A switch does not notice what leaves the core and its thread alone.
LEMMA SwitchKept ==
  ASSUME NEW t, SwitchOf(t), profile' = profile, members' = members, selected' = selected,
         pc'[t] = pc[t], node'[t] = node[t], names'[t] = names[t], best'[t] = best[t], patch'[t] = patch[t],
         pc[t] \in SwitchLabels => \A u \in Thread \ {t} : patch'[u] = Unpatched
  PROVE  SwitchOf(t)'
<1>1. SelectableNames' = SelectableNames /\ \A g : Members(g)' = Members(g) /\ RealNodes(g)' = RealNodes(g)
  BY SameProfile
<1>2. /\ \A p, g : IsParent(p, g)' = IsParent(p, g)
      /\ Left(t)' = Left(t) /\ Passed(t)' = Passed(t) /\ Cascading(t)' = Cascading(t)
  BY <1>1, SameProfile DEF Left, Passed, Cascading
<1>3. \A g : Now(g)' = Now(g)
  BY <1>1 DEF Now
<1>4. \A g : Turned(t, g)' = Turned(t, g)
  BY <1>1, <1>2, <1>3 DEF Turned
<1> QED
  BY <1>1, <1>2, <1>3, <1>4 DEF SwitchOf

\* Setting a group to one of its members makes it point there, and no other group elsewhere.
LEMMA NowSet ==
  ASSUME CoreTypes, NEW g \in Group, NEW n \in ToSet(Members(g)), SetTo(g, n), profile' = profile, members' = members
  PROVE  Now(g)' = n /\ \A h : h # g => Now(h)' = Now(h)
<1>1. selected' = [selected EXCEPT ![g] = n] /\ \A h : Members(h)' = Members(h)
  BY SameProfile DEF SetTo
<1>2. selected'[g] = n
  BY <1>1 DEF CoreTypes
<1>3. Now(g)' = n
  BY <1>1, <1>2 DEF Now
<1>4. ASSUME NEW h, h # g PROVE Now(h)' = Now(h)
  <2>1. selected'[h] = selected[h]
    BY <1>1, <1>4 DEF CoreTypes
  <2> QED
    BY <1>1, <2>1 DEF Now
<1> QED
  BY <1>3, <1>4

LEMMA SwitchBegins ==
  ASSUME ThreadInv, NEW t \in Thread, NEW g \in Group, NEW n, BeginSelect(t, g, n), node'[t] = n, t \in calm'
  PROVE  SwitchOf(t)'
<1> USE DEF ThreadInv
<1>1. /\ patch' = [patch EXCEPT ![t] = [group |-> g, name |-> n]]
      /\ best' = [best EXCEPT ![t] = [Nothing EXCEPT !.group = g]]
      /\ pc' = [pc EXCEPT ![t] = "patch"]
  BY DEF BeginSelect, Goto
<1>2. pc'[t] = "patch" /\ best'[t].group = g /\ patch'[t] = [group |-> g, name |-> n]
  BY <1>1 DEF CoreTypes, ThreadTypes, Nothing
<1>3. \A u \in Thread \ {t} : patch'[u] = Unpatched
  <2>1. \A u \in Thread \ {t} : patch[u] = Unpatched
    BY DEF BeginSelect
  <2> QED
    BY <1>1, <2>1 DEF ThreadTypes
<1>4. ~Cascading(t)'
  BY <1>2 DEF Cascading
<1> QED
  BY <1>2, <1>3, <1>4 DEF SwitchOf

LEMMA SwitchPatches ==
  ASSUME ThreadInv, NEW t \in Thread, SwitchOf(t), Patch(t)
  PROVE  SwitchOf(t)'
<1> USE DEF ThreadInv
<1> DEFINE g == best[t].group
<1>1. /\ pc[t] = "patch" /\ Exists(patch[t].group) /\ SetTo(patch[t].group, patch[t].name)
      /\ pc' = [pc EXCEPT ![t] = "close"] /\ UNCHANGED <<profile, members, node, names, best, patch>>
  BY DEF Patch, CanSelect, Goto
<1>2. patch[t].group = g /\ patch[t].name = node[t] /\ \A u \in Thread \ {t} : patch[u] = Unpatched
  BY <1>1 DEF SwitchOf, SwitchLabels
<1>3. g \in Group /\ pc'[t] = "close"
  BY <1>1 DEF Knowing, SwitchLabels, ThreadTypes, CoreTypes
<1>4. ~Cascading(t)'
  BY <1>1, <1>2, <1>3 DEF Cascading
<1>5. node[t] \in RealNodes(g) => Now(g)' = node[t]
  BY <1>1, <1>2, <1>3, NowSet DEF RealNodes
<1>6. RealNodes(g)' = RealNodes(g) /\ best'[t].group = g
  BY <1>1, SameProfile
<1> QED
  BY <1>1, <1>2, <1>3, <1>4, <1>5, <1>6 DEF SwitchOf

LEMMA SwitchCloses ==
  ASSUME ThreadInv, NEW t \in Thread, SwitchOf(t), CloseConnByGroup(t)
  PROVE  SwitchOf(t)'
<1> USE DEF ThreadInv
<1>1. /\ pc[t] = "close" /\ UNCHANGED <<profile, members, selected, node, names, best, patch>>
      /\ pc' = [pc EXCEPT ![t] = IF patch[t].group = best[t].group THEN "parents" ELSE "cascade"]
  BY DEF CloseConnByGroup, Goto, core
<1>2. /\ SelectableNames' = SelectableNames
      /\ \A g : Members(g)' = Members(g) /\ RealNodes(g)' = RealNodes(g)
      /\ \A p, g : IsParent(p, g)' = IsParent(p, g)
  BY <1>1, SameProfile
<1>3. /\ \A g : Now(g)' = Now(g)
      /\ Left(t)' = Left(t) /\ Passed(t)' = Passed(t)
  BY <1>1, <1>2 DEF Now, Left, Passed
<1>4. pc'[t] = IF patch[t].group = best[t].group THEN "parents" ELSE "cascade"
  BY <1>1 DEF CoreTypes
<1>5. Cascading(t)' => Cascading(t)
  BY <1>1, <1>4 DEF Cascading
<1>6. \A g : Turned(t, g) => Turned(t, g)'
  BY <1>1, <1>2, <1>3 DEF Turned
<1> QED
  BY <1>1, <1>2, <1>3, <1>4, <1>5, <1>6 DEF SwitchOf, SwitchLabels

LEMMA SwitchListsParents ==
  ASSUME ThreadInv, NEW t \in Thread, SwitchOf(t), QueryParents(t)
  PROVE  SwitchOf(t)'
<1> USE DEF ThreadInv
<1>1. /\ pc[t] = "parents" /\ pc' = [pc EXCEPT ![t] = "cascade"]
      /\ names'[t] = SelectableNames /\ UNCHANGED <<profile, members, selected, node, best, patch>>
  BY DEF QueryParents, Goto, core, ThreadTypes
<1>2. \A g : RealNodes(g)' = RealNodes(g) /\ Now(g)' = Now(g)
  BY <1>1, SameProfile DEF Now
<1>3. Left(t)' /\ Passed(t)' = {}
  BY <1>1, LeftAll
<1>4. \A g : Turned(t, g)'
  BY <1>3 DEF Turned
<1>5. pc'[t] = "cascade"
  BY <1>1 DEF CoreTypes
<1> QED
  BY <1>1, <1>2, <1>3, <1>4, <1>5 DEF SwitchOf, SwitchLabels

LEMMA SwitchFindsParent ==
  ASSUME ThreadInv, NEW t \in Thread, SwitchOf(t), QueryParent(t)
  PROVE  SwitchOf(t)'
<1> USE DEF ThreadInv
<1> DEFINE g == best[t].group
           n == Len(SelectableNames) - Len(names[t])
           p == Head(names[t])
<1>1. /\ pc[t] = "cascade" /\ names[t] # <<>> /\ names' = [names EXCEPT ![t] = Tail(@)]
      /\ UNCHANGED <<profile, members, selected, node, best>>
      /\ pc' = [pc EXCEPT ![t] = IF IsParent(p, g) THEN "patchParent" ELSE "cascade"]
      /\ patch' = IF IsParent(p, g) THEN [patch EXCEPT ![t] = [group |-> p, name |-> g]] ELSE patch
  BY DEF QueryParent, Goto, core, IsParent
<1>2. Left(t) /\ Turned(t, g) /\ \A u \in Thread \ {t} : patch[u] = Unpatched
  BY <1>1 DEF SwitchOf, SwitchLabels, Cascading
<1>3. /\ Left(t)' /\ n \in Nat /\ n + 1 <= Len(SelectableNames) /\ p = SelectableNames[n + 1]
      /\ Passed(t) = 1 .. n /\ Passed(t)' = 1 .. (n + 1)
  BY <1>1, <1>2, LeftTail
<1>4. /\ SelectableNames' = SelectableNames
      /\ \A h : RealNodes(h)' = RealNodes(h) /\ Now(h)' = Now(h)
      /\ \A q, h : IsParent(q, h)' = IsParent(q, h)
  BY <1>1, SameProfile DEF Now
<1>5. p \in ToSet(SelectableNames)
  <2>1. n + 1 \in 1 .. Len(SelectableNames)
    BY <1>3, NameTypes
  <2> QED
    BY <1>3, <2>1, NameTypes
<1> HIDE DEF n, p
<1>6. pc'[t] = IF IsParent(p, g) THEN "patchParent" ELSE "cascade"
  BY <1>1 DEF CoreTypes
<1>7. /\ IsParent(p, g) => patch'[t] = [group |-> p, name |-> g]
      /\ \A u \in Thread \ {t} : patch'[u] = Unpatched
  BY <1>1, <1>2 DEF ThreadTypes
<1>8. Turned(t, g)'
  <2> SUFFICES ASSUME NEW i \in 1 .. (n + 1), IsParent(SelectableNames[i], g)
               PROVE  \/ Now(SelectableNames[i]) = g
                      \/ pc'[t] = "patchParent" /\ patch'[t].group = SelectableNames[i]
    BY <1>1, <1>3, <1>4 DEF Turned
  <2>1. CASE i = n + 1
    <3>1. IsParent(p, g) /\ SelectableNames[i] = p
      BY <1>3, <2>1
    <3> QED
      BY <1>6, <1>7, <3>1
  <2>2. CASE i # n + 1
    <3>1. i \in 1 .. n
      BY <1>3, <2>2
    <3> QED
      BY <1>1, <1>2, <1>3, <3>1 DEF Turned
  <2> QED
    BY <2>1, <2>2
<1>9. node[t] \in RealNodes(g) => Now(g) = node[t]
  BY <1>1 DEF SwitchOf, SwitchLabels
<1> QED
  BY <1>1, <1>3, <1>4, <1>5, <1>6, <1>7, <1>8, <1>9 DEF SwitchOf

LEMMA SwitchPatchesParent ==
  ASSUME ThreadInv, NEW t \in Thread, SwitchOf(t), PatchParent(t)
  PROVE  SwitchOf(t)'
<1> USE DEF ThreadInv
<1> DEFINE g == best[t].group
           p == patch[t].group
<1>1. /\ pc[t] = "patchParent" /\ UNCHANGED <<profile, members, node, names, best, patch>>
      /\ CanSelect(p) => SetTo(p, patch[t].name) /\ pc' = [pc EXCEPT ![t] = "close"]
  BY DEF PatchParent, Goto
<1>2. /\ p \in ToSet(SelectableNames) /\ IsParent(p, g) /\ patch[t].name = g
      /\ Left(t) /\ Turned(t, g) /\ \A u \in Thread \ {t} : patch[u] = Unpatched
      /\ node[t] \in RealNodes(g) => Now(g) = node[t]
  BY <1>1 DEF SwitchOf, SwitchLabels, Cascading
<1>3. Exists(p) /\ p \in Group /\ CanSelect(p)
  BY <1>2, NameTypes DEF CanSelect
<1>4. Now(p)' = g /\ \A h : h # p => Now(h)' = Now(h)
  BY <1>1, <1>2, <1>3, NowSet DEF IsParent
<1>5. /\ SelectableNames' = SelectableNames /\ \A h : RealNodes(h)' = RealNodes(h)
      /\ \A q, h : IsParent(q, h)' = IsParent(q, h)
      /\ Left(t)' /\ Passed(t)' = Passed(t)
  BY <1>1, <1>2, SameProfile DEF Left, Passed
<1>6. pc'[t] = "close"
  BY <1>1, <1>3 DEF CoreTypes
<1>7. Turned(t, g)'
  <2> SUFFICES ASSUME NEW i \in Passed(t), IsParent(SelectableNames[i], g)
               PROVE  Now(SelectableNames[i])' = g
    BY <1>1, <1>5 DEF Turned
  <2>1. Now(SelectableNames[i]) = g \/ SelectableNames[i] = p
    BY <1>2 DEF Turned
  <2> QED
    BY <1>1, <1>4, <1>5, <2>1
<1>8. g # p
  BY <1>2 DEF IsParent
<1> QED
  BY <1>1, <1>2, <1>4, <1>5, <1>6, <1>7, <1>8 DEF SwitchOf

LEMMA SwitchStep ==
  ASSUME ThreadInv, \A t \in calm : SwitchOf(t), [Next]_vars
  PROVE  \A t \in calm' : SwitchOf(t)'
<1> USE DEF ThreadInv
<1>1. ASSUME (\E t \in Starter : Load(t)) \/ UpdateProvider PROVE calm' = {}
  BY <1>1 DEF Load, UpdateProvider
<1>2. CASE UNCHANGED <<core, threads, calm>>
  <2>1. UNCHANGED <<profile, members, selected, pc, node, names, best, patch, calm>>
    BY <1>2 DEF core, threads
  <2>2. \A t : SwitchOf(t) /\ pc[t] \in SwitchLabels => \A u \in Thread \ {t} : patch'[u] = Unpatched
    BY <2>1 DEF SwitchOf
  <2> QED
    BY <2>1, <2>2, SwitchKept
<1>3. ASSUME NEW t \in Thread, ThreadAction(t), NEW u \in calm' \ {t}, \A v \in calm : SwitchOf(v)
      PROVE  SwitchOf(u)'
  <2>1. /\ Moves(t) /\ u \in calm /\ u \in Thread
        /\ pc'[u] = pc[u] /\ node'[u] = node[u] /\ names'[u] = names[u] /\ best'[u] = best[u]
        /\ patch'[u] = patch[u] /\ profile' = profile /\ members' = members
    BY <1>3, OneMoves DEF Moves, ThreadTypes
  <2>2. CASE pc[u] \notin SwitchLabels
    BY <2>1, <2>2 DEF SwitchOf
  <2>3. CASE pc[u] \in SwitchLabels
    <3>1. /\ patch[t] = Unpatched /\ pc[t] \notin SwitchLabels /\ patch[u] # Unpatched
          /\ \A v \in Thread \ {u} : patch[v] = Unpatched
      BY <1>3, <2>1, <2>3 DEF SwitchOf, Knowing
    <3>2. ASSUME NEW g, NEW n, BeginSelect(t, g, n) PROVE FALSE
      <4>1. u \in {v \in Thread \ {t} : patch[v] # Unpatched}
        BY <1>3, <2>1, <3>1
      <4> QED
        BY <1>3, <3>2, <4>1 DEF BeginSelect
    <3>3. UNCHANGED selected /\ patch'[t] = Unpatched
      BY <1>3, <3>1, <3>2 DEF ThreadAction, ThreadStep, QueryNames, QueryGroup, PatchUnknown, Patch, CloseConnByGroup,
         QueryParents, QueryParent, PatchParent, Refresh, Show, SaveNode, Click, NothingToRestore, Restore,
         SelectSaved, NoGroup, Restored, Through, core, SwitchLabels, ThreadTypes
    <3>4. \A v \in Thread \ {u} : patch'[v] = Unpatched
      BY <2>1, <3>1, <3>3 DEF Moves
    <3> QED
      BY <1>3, <2>1, <3>3, <3>4, SwitchKept
  <2> QED
    BY <2>2, <2>3
<1>4. ASSUME NEW t \in Thread, ThreadAction(t), t \in calm', \A v \in calm : SwitchOf(v)
      PROVE  SwitchOf(t)'
  <2>1. Main \in Thread /\ Starter \subseteq Thread
    BY DEF Thread
  <2>2. ASSUME NEW n \in Node, t = Main, Click(n) PROVE SwitchOf(t)'
    <3>1. shown.group \in Group /\ node'[t] = n /\ BeginSelect(t, shown.group, n)
      BY <2>2 DEF Click, ThreadTypes, Knowing
    <3> QED
      BY <1>4, <3>1, SwitchBegins
  <2>3. CASE SelectSaved(t)
    <3>1. best[t].group \in Group /\ node'[t] = node[t] /\ BeginSelect(t, best[t].group, node[t])
      BY <2>3 DEF SelectSaved, ThreadTypes
    <3> QED
      BY <1>4, <3>1, SwitchBegins
  <2>4. CASE Patch(t) \/ CloseConnByGroup(t) \/ QueryParents(t) \/ QueryParent(t) \/ PatchParent(t)
    <3>1. t \in calm
      BY <1>4, <2>4 DEF Patch, CloseConnByGroup, QueryParents, QueryParent, PatchParent
    <3> QED
      BY <1>4, <2>4, <3>1, SwitchPatches, SwitchCloses, SwitchListsParents, SwitchFindsParent, SwitchPatchesParent
  <2>5. ASSUME \/ QueryNames(t) \/ QueryGroup(t) \/ PatchUnknown(t) \/ (t = Main /\ (Refresh \/ Show \/ SaveNode))
               \/ NothingToRestore(t) \/ Restore(t) \/ NoGroup(t) \/ Restored(t)
        PROVE  SwitchOf(t)'
    <3>1. pc'[t] \notin SwitchLabels
      BY <2>5 DEF QueryNames, QueryGroup, PatchUnknown, Refresh, Show, SaveNode, NothingToRestore, Restore, NoGroup,
         Restored, Goto, CoreTypes, SwitchLabels
    <3> QED
      BY <3>1 DEF SwitchOf
  <2> QED
    BY <1>4, <2>2, <2>3, <2>4, <2>5 DEF ThreadAction, ThreadStep
<1> QED
  BY <1>1, <1>2, <1>3, <1>4, WhoSteps

-----------------------------------------------------------------------------
ChoiceInv ==
  ThreadInv /\ (\A t \in calm : ListingOf(t)) /\ (\A t \in calm : SwitchOf(t))

LEMMA ChoiceInvariant == Spec => []ChoiceInv
<1>1. Init => ChoiceInv
  <2> SUFFICES ASSUME Init PROVE ChoiceInv
    OBVIOUS
  <2>1. calm = {}
    BY DEF Init
  <2> QED
    BY <2>1, NodeInit, KnowingInit DEF ChoiceInv, ThreadInv, NodeInv
<1>2. NodeInv /\ NodeInv' /\ ChoiceInv /\ [Next]_vars => ChoiceInv'
  <2> SUFFICES ASSUME NodeInv', ChoiceInv, [Next]_vars PROVE ChoiceInv'
    OBVIOUS
  <2>1. ThreadInv'
    BY KnowingStep DEF ChoiceInv, ThreadInv, NodeInv
  <2>2. \A t \in calm' : ListingOf(t)'
    BY ListingStep DEF ChoiceInv, ThreadInv
  <2>3. \A t \in calm' : SwitchOf(t)'
    BY SwitchStep DEF ChoiceInv
  <2> QED
    BY <2>1, <2>2, <2>3 DEF ChoiceInv
<1>3. Spec => []NodeInv
  BY NodeInit, NodeStep, PTL DEF Spec
<1> QED
  BY <1>1, <1>2, <1>3, PTL DEF Spec

(* The variables have their types: no thread comes to patch a group it does not know, or to set a *)
(* name it does not have, whatever becomes of the configuration under its feet.                   *)
THEOREM TypeCorrect == Spec => []TypeOK
<1>1. ChoiceInv => TypeOK
  <2> SUFFICES ASSUME ChoiceInv PROVE TypeOK
    OBVIOUS
  <2> QED
    BY DEF ChoiceInv, ThreadInv, CoreTypes, ThreadTypes, TypeOK, Labels
<1> QED
  BY <1>1, ChoiceInvariant, PTL

(* listNodes answers with the first of the selectable groups that has the most real nodes, for any *)
(* configuration, although it asks for one group after the other while nodes are switched, unless  *)
(* a configuration was loaded or a provider updated meanwhile.                                     *)
THEOREM ListFindsBestGroup == Spec => []ListsBestGroup
<1>1. ChoiceInv => ListsBestGroup
  <2> SUFFICES ASSUME ChoiceInv, NEW t \in calm, Listed(t), SelectableNames # <<>>
               PROVE  \E i \in 1 .. Len(SelectableNames) :
                        /\ best[t].group = SelectableNames[i]
                        /\ best[t].nodes = RealNodes(best[t].group)
                        /\ \A j \in 1 .. Len(SelectableNames) :
                             LET more == NodeCount(SelectableNames[j]) - NodeCount(SelectableNames[i])
                             IN  IF j < i THEN more < 0 ELSE more <= 0
    BY DEF ListsBestGroup
  <2> DEFINE n == Len(SelectableNames)
  <2>1. CoreTypes /\ ListingOf(t) /\ pc[t] = "query" /\ Len(names[t]) = 0
    BY EmptySeq DEF ChoiceInv, ThreadInv, Listed
  <2>2. n \in Nat /\ n # 0 /\ Passed(t) = 1 .. n
    BY <2>1, NameTypes, EmptySeq DEF Passed
  <2>3. Passed(t) # {}
    <3>1. 1 \in 1 .. n
      BY <2>2
    <3> QED
      BY <2>2, <3>1
  <2>4. PICK i \in 1 .. n : best[t] = Found(SelectableNames[i]) /\ FirstBest(i, n - 0)
    BY <2>1, <2>2, <2>3 DEF ListingOf
  <2>5. best[t].group = SelectableNames[i] /\ best[t].nodes = RealNodes(best[t].group)
    BY <2>4 DEF Found
  <2>6. ASSUME NEW j \in 1 .. n
        PROVE  LET more == NodeCount(SelectableNames[j]) - NodeCount(SelectableNames[i])
               IN  IF j < i THEN more < 0 ELSE more <= 0
    <3> DEFINE a == NodeCount(SelectableNames[j])
               b == NodeCount(SelectableNames[i])
    <3>1. a \in Nat /\ b \in Nat
      BY <2>1, CountTypes
    <3>2. IF j < i THEN a < b ELSE a <= b
      BY <2>2, <2>4 DEF FirstBest
    <3> HIDE DEF a, b, n
    <3>3. IF j < i THEN a - b < 0 ELSE a - b <= 0
      BY <3>1, <3>2
    <3> QED
      BY <3>3 DEF a, b
  <2> QED
    BY <2>5, <2>6
<1> QED
  BY <1>1, ChoiceInvariant, PTL

(* A switch that no load, update or other switch disturbs leaves its group at the node, and every      *)
(* visible selector that lists the group at the group, for any configuration.                     *)
THEOREM SwitchesTake == Spec => []SwitchTakes
<1>1. ChoiceInv => SwitchTakes
  <2> SUFFICES ASSUME ChoiceInv, NEW t \in calm, Switched(t)
               PROVE  /\ node[t] \in RealNodes(best[t].group) => Now(best[t].group) = node[t]
                      /\ \A p \in Parents(best[t].group) : Now(p) = best[t].group
    BY DEF SwitchTakes
  <2> DEFINE g == best[t].group
  <2>1. CoreTypes /\ SwitchOf(t) /\ pc[t] = "cascade" /\ Len(names[t]) = 0
    BY EmptySeq DEF ChoiceInv, ThreadInv, Switched
  <2>2. Passed(t) = 1 .. Len(SelectableNames)
    BY <2>1, NameTypes DEF Passed
  <2>3. Turned(t, g) /\ (node[t] \in RealNodes(g) => Now(g) = node[t])
    BY <2>1 DEF SwitchOf, SwitchLabels, Cascading
  <2>4. ASSUME NEW p \in Parents(g) PROVE Now(p) = g
    <3>1. p \in ToSet(SelectableNames) /\ IsParent(p, g)
      BY DEF Parents, IsParent
    <3>2. PICK i \in 1 .. Len(SelectableNames) : p = SelectableNames[i]
      BY <2>1, <3>1, NameTypes
    <3> QED
      BY <2>1, <2>2, <2>3, <3>1, <3>2 DEF Turned
  <2> QED
    BY <2>3, <2>4
<1> QED
  BY <1>1, ChoiceInvariant, PTL
=============================================================================
