---------------------------- MODULE NodeSelection ----------------------------
(***************************************************************************)
(* Which node carries the traffic: listNodes and selectNode of             *)
(* ProxyManager, run by the main thread for a click and by the coroutine   *)
(* of a START that restores the saved node; PatchSelector of the core,     *)
(* which changes a selector and closes the connections that run over it;   *)
(* the update of a provider, which changes the members of groups and       *)
(* closes none; and the connections that are dialled meanwhile.            *)
(*                                                                         *)
(* One step of a thread is one call into the core, as another thread can   *)
(* load a configuration, update a provider or switch a node between two.   *)
(***************************************************************************)
EXTENDS Integers, FiniteSets, SequencesExt

CONSTANTS
  Node,     \* what is no group: DIRECT and REJECT count as nodes too
  Group,
  Profile,  \* the configurations a START may load
  Main,     \* the main thread
  Starter,  \* the coroutines of START
  Conn,     \* connections through the core
  None

(* What of a configuration matters here. The names of proxies are unique across nodes and groups. *)
(* order: the groups as GLOBAL lists them; lists: what their members may be, in order, which the *)
(* providers decide; selector, hidden: the groups of type select, and those marked hidden;       *)
(* selectAble: those that can be set, which load-balance groups cannot; default: default-selected *)
(* of each; root: where the rules send traffic to.                                               *)
Configuration ==
  [order : Seq(Group), lists : SUBSET [Group -> Seq(Node \cup Group)],
   selector : SUBSET Group, hidden : SUBSET Group, selectAble : SUBSET Group,
   default : [Group -> Node \cup Group \cup {None}], root : Group]

ASSUME ProfileAssumption ==
  \A p \in Profile :
    /\ p \in Configuration
    /\ IsInjective(p.order)
    /\ p.root \in ToSet(p.order)
    /\ p.selector \subseteq p.selectAble
    /\ p.lists # {}
    /\ \A m \in p.lists, g \in ToSet(p.order) :
         m[g] # <<>> /\ ToSet(m[g]) \subseteq Node \cup ToSet(p.order)

ASSUME NamesAssumption == Main \notin Starter /\ Node \cap Group = {} /\ None \notin Node \cup Group

VARIABLES
  profile,   \* the configuration in force
  members,   \* the proxies of each group as its providers have them; never none, as a group
             \* without any answers with a proxy that stands for them, which counts as a node
  selected,  \* the name each group was set to
  saved,     \* the node of SettingsStore
  shown,     \* the group and the nodes on the screen
  pc,
  node,      \* the node a thread is about to select
  names,     \* the group names a thread has still to query
  best,      \* the best group it has found so far, the nodes in it, and their number plus one
  patch,     \* the selector it patches, and the name it sets there
  life,      \* of each connection: "none", "dialling", "open"
  at,        \* the proxy a dial has come to
  hop,       \* what a connection was sent to by each group it runs over
  old,       \* auxiliary: the connections of a configuration that has been replaced
  late,      \* auxiliary: connections with a group that was patched while their dial was passing
             \* it, or that an update moved to another member after they had passed it
  calm,      \* auxiliary: the threads that nothing has disturbed since they began to list or select
  restored   \* auxiliary: the last START that loaded a configuration has restored the saved node

core    == <<profile, members, selected>>
app     == <<saved, shown>>
threads == <<pc, node, names, best, patch>>
conns   == <<life, at, hop, old, late>>
vars    == <<core, app, threads, conns, calm, restored>>

Thread == {Main} \cup Starter

(* The configuration of a core that has not loaded any *)
Default ==
  [order |-> <<>>, lists |-> {[g \in Group |-> <<>>]}, selector |-> {}, hidden |-> {},
   selectAble |-> {}, default |-> [g \in Group |-> None], root |-> None]

Nothing == [group |-> None, nodes |-> {}, score |-> 0]

Unpatched == [group |-> None, name |-> None]

TypeOK ==
  /\ profile \in Profile \cup {Default}
  /\ members \in profile.lists
  /\ selected \in [Group -> Node \cup Group \cup {None}]
  /\ saved \in Node \cup {None}
  /\ shown \in [group : Group \cup {None}, nodes : SUBSET Node]
  /\ pc \in [Thread -> {"idle", "loaded", "names", "query", "patch", "close", "parents",
                        "cascade", "patchParent", "switched"}]
  /\ node \in [Thread -> Node \cup {None}]
  /\ names \in [Thread -> Seq(Group)]
  /\ best \in [Thread -> [group : Group \cup {None}, nodes : SUBSET Node, score : Nat]]
  /\ patch \in [Thread -> {Unpatched} \cup [group : Group, name : Node \cup Group]]
  /\ life \in [Conn -> {"none", "dialling", "open"}]
  /\ at \in [Conn -> Node \cup Group \cup {None}]
  /\ hop \in [Conn -> [Group -> Node \cup Group \cup {None}]]
  /\ old \in SUBSET Conn /\ late \in SUBSET (Conn \X Group)
  /\ calm \in SUBSET Thread
  /\ restored \in BOOLEAN

Init ==
  /\ profile = Default
  /\ members = [g \in Group |-> <<>>]
  /\ selected = [g \in Group |-> None]
  /\ saved \in Node \cup {None}
  /\ shown = [group |-> None, nodes |-> {}]
  /\ pc = [t \in Thread |-> "idle"]
  /\ node = [t \in Thread |-> None]
  /\ names = [t \in Thread |-> <<>>]
  /\ best = [t \in Thread |-> Nothing]
  /\ patch = [t \in Thread |-> Unpatched]
  /\ life = [c \in Conn |-> "none"]
  /\ at = [c \in Conn |-> None]
  /\ hop = [c \in Conn |-> [g \in Group |-> None]]
  /\ old = {} /\ late = {} /\ calm = {}
  /\ restored = FALSE

Goto(t, label) == pc' = [pc EXCEPT ![t] = label]

(* selectNode, and whoever called it, is through with its group and its node *)
Through(t) ==
  /\ node' = [node EXCEPT ![t] = None]
  /\ best' = [best EXCEPT ![t] = Nothing]
  /\ patch' = [patch EXCEPT ![t] = Unpatched]

(***************************************************************************)
(* The core                                                                *)
(***************************************************************************)

Exists(g) == g \in ToSet(profile.order)

(* PatchSelector finds the group, and it is of a type that can be set *)
CanSelect(g) == Exists(g) /\ g \in profile.selectAble

Members(g) == IF Exists(g) THEN members[g] ELSE <<>>

(* The elements of s that are in S, in their order: the k-th is the one that makes their number k *)
InOrder(s, S) ==
  LET places == {i \in DOMAIN s : s[i] \in S}
  IN  [k \in 1 .. Cardinality(places) |-> s[CHOOSE i \in places : Cardinality(places \cap 1 .. i) = k]]

(* QueryProxyGroupNames(true) *)
SelectableNames == InOrder(profile.order, profile.selector \ profile.hidden)

RealNodes(g) == ToSet(Members(g)) \cap Node

NodeCount(g) == Cardinality({i \in DOMAIN Members(g) : Members(g)[i] \in Node})

(* selectedProxy: the first member if the name that was set is not, or no longer, one of them *)
Now(g) == IF selected[g] \in ToSet(Members(g)) THEN selected[g] ELSE Head(Members(g))

(* A group of another type goes by its measurements *)
GoesBy(g) == IF g \in profile.selector THEN {Now(g)} ELSE ToSet(Members(g))

(* Set refuses a name that is not a member *)
SetTo(g, name) ==
  /\ selected' = IF name \in ToSet(Members(g)) THEN [selected EXCEPT ![g] = name] ELSE selected
  /\ late' = late \cup {p \in Conn \X {g} : life[p[1]] = "dialling" /\ hop[p[1]][g] # None}

(* A provider has fetched another list, by its pull loop or for the user. Its groups have the    *)
(* new members from then on; no connection is closed, whatever its groups select now.            *)
UpdateProvider ==
  /\ members' \in profile.lists \ {members}
  /\ UNCHANGED <<profile, selected, app, threads, life, at, hop, old>>
  /\ late' = late \cup {p \in Conn \X profile.selector :
                        hop[p[1]][p[2]] # None /\ Now(p[2])' # Now(p[2])}
  /\ calm' = {}
  /\ restored' = FALSE

Dial(c) ==
  /\ life[c] = "none" /\ profile # Default
  /\ life' = [life EXCEPT ![c] = "dialling"]
  /\ at' = [at EXCEPT ![c] = profile.root]
  /\ UNCHANGED <<core, app, threads, hop, old, late, calm, restored>>

(* DialContext of a group asks the proxy it selects; one of a configuration that was replaced    *)
(* asks the groups of that one, which nobody can see any more: it may reach any node.            *)
DialThroughGroup(c) ==
  /\ life[c] = "dialling" /\ at[c] \in Group
  /\ \E p \in IF c \in old THEN Node ELSE GoesBy(at[c]) :
       /\ hop' = [hop EXCEPT ![c][at[c]] = p]
       /\ at' = [at EXCEPT ![c] = p]
  /\ UNCHANGED <<core, app, threads, life, old, late, calm, restored>>

(* The node answers, and the statistic manager learns of the connection *)
Join(c) ==
  /\ life[c] = "dialling" /\ at[c] \in Node
  /\ life' = [life EXCEPT ![c] = "open"]
  /\ UNCHANGED <<core, app, threads, at, hop, old, late, calm, restored>>

Forget(cs) ==
  /\ life' = [c \in Conn |-> IF c \in cs THEN "none" ELSE life[c]]
  /\ at' = [c \in Conn |-> IF c \in cs THEN None ELSE at[c]]
  /\ hop' = [c \in Conn |-> IF c \in cs THEN [g \in Group |-> None] ELSE hop[c]]
  /\ old' = old \ cs
  /\ late' = late \ (cs \X Group)

(* A peer closes it, or the node does not answer *)
Disconnect(c) ==
  /\ life[c] # "none"
  /\ Forget({c})
  /\ UNCHANGED <<core, app, threads, calm, restored>>

(***************************************************************************)
(* A START                                                                 *)
(***************************************************************************)

(* Its load replaces the configuration, with what its providers have by now. As selections are not *)
(* stored, every one is forgotten, and a group begins with its default.                          *)
Load(t) ==
  /\ t \in Starter /\ pc[t] = "idle"
  /\ profile' \in Profile
  /\ members' \in profile'.lists
  /\ selected' = profile'.default
  /\ old' = {c \in Conn : life[c] # "none"}
  /\ calm' = {}
  /\ restored' = FALSE
  /\ Goto(t, "loaded")
  /\ UNCHANGED <<app, node, names, best, patch, life, at, hop, late>>

(* The switch fails after the load, or nothing was ever selected *)
NothingToRestore(t) ==
  /\ pc[t] = "loaded"
  /\ Goto(t, "idle")
  /\ UNCHANGED <<core, app, node, names, best, patch, conns, calm, restored>>

(* getSelectedNode, then listNodes *)
Restore(t) ==
  /\ pc[t] = "loaded" /\ saved # None
  /\ node' = [node EXCEPT ![t] = saved]
  /\ Goto(t, "names")
  /\ UNCHANGED <<core, app, names, best, patch, conns, calm, restored>>

(***************************************************************************)
(* listNodes                                                               *)
(***************************************************************************)

(* The button that refreshes the list *)
Refresh ==
  /\ pc[Main] = "idle"
  /\ Goto(Main, "names")
  /\ UNCHANGED <<core, app, node, names, best, patch, conns, calm, restored>>

QueryNames(t) ==
  /\ pc[t] = "names"
  /\ names' = [names EXCEPT ![t] = SelectableNames]
  /\ best' = [best EXCEPT ![t] = Nothing]
  /\ calm' = calm \cup {t}
  /\ Goto(t, "query")
  /\ UNCHANGED <<core, app, node, patch, conns, restored>>

(* Mutant: of groups with as many nodes, the last one is kept *)
QueryGroupKeepLast(t) ==
  /\ pc[t] = "query" /\ names[t] # <<>>
  /\ LET g == Head(names[t])
         score == NodeCount(g) + 1
     IN  best' = IF score >= best[t].score
                 THEN [best EXCEPT ![t] = [group |-> g, nodes |-> RealNodes(g), score |-> score]]
                 ELSE best
  /\ names' = [names EXCEPT ![t] = Tail(@)]
  /\ UNCHANGED <<core, app, pc, node, patch, conns, calm, restored>>

(* A group that is gone by now answers with no members *)
QueryGroup(t) ==
  /\ pc[t] = "query" /\ names[t] # <<>>
  /\ LET g == Head(names[t])
         score == NodeCount(g) + 1
     IN  best' = IF score > best[t].score
                 THEN [best EXCEPT ![t] = [group |-> g, nodes |-> RealNodes(g), score |-> score]]
                 ELSE best
  /\ names' = [names EXCEPT ![t] = Tail(@)]
  /\ UNCHANGED <<core, app, pc, node, patch, conns, calm, restored>>

Listed(t) == pc[t] = "query" /\ names[t] = <<>>

(* refreshNodeList shows what was found; currentNode, asked afterwards, only marks one of them *)
Show ==
  /\ Listed(Main)
  /\ shown' = [group |-> best[Main].group, nodes |-> best[Main].nodes]
  /\ calm' = calm \ {Main}
  /\ Through(Main)
  /\ Goto(Main, "idle")
  /\ UNCHANGED <<core, saved, names, conns, restored>>

(***************************************************************************)
(* selectNode                                                              *)
(***************************************************************************)

(* It disturbs, and is disturbed by, a switch that is under way *)
BeginSelect(t, g, n) ==
  /\ patch' = [patch EXCEPT ![t] = [group |-> g, name |-> n]]
  /\ best' = [best EXCEPT ![t] = [Nothing EXCEPT !.group = g]]
  /\ Goto(t, "patch")
  /\ calm' = LET others == {u \in Thread \ {t} : patch[u] # Unpatched}
             IN  IF others = {} THEN calm \cup {t} ELSE calm \ (others \cup {t})

(* A click on a node of the list, which may be one of an earlier configuration *)
Click(n) ==
  /\ pc[Main] = "idle" /\ n \in shown.nodes
  /\ node' = [node EXCEPT ![Main] = n]
  /\ BeginSelect(Main, shown.group, n)
  /\ UNCHANGED <<core, app, names, conns, restored>>

(* Mutant: that there is no group is not noticed *)
SelectSavedUnchecked(t) ==
  /\ t \in Starter /\ Listed(t)
  /\ BeginSelect(t, best[t].group, node[t])
  /\ UNCHANGED <<core, app, node, names, conns, restored>>

(* A START goes on with the best group, whether or not the saved node is in it *)
SelectSaved(t) ==
  /\ t \in Starter /\ Listed(t) /\ best[t].group # None
  /\ BeginSelect(t, best[t].group, node[t])
  /\ UNCHANGED <<core, app, node, names, conns, restored>>

NoGroup(t) ==
  /\ t \in Starter /\ Listed(t) /\ best[t].group = None
  /\ Through(t)
  /\ Goto(t, "idle")
  /\ calm' = calm \ {t}
  /\ UNCHANGED <<core, app, names, conns, restored>>

(* PatchSelector does not know the group or cannot set it, and selectNode returns false *)
PatchUnknown(t) ==
  /\ pc[t] = "patch" /\ ~CanSelect(patch[t].group)
  /\ Through(t)
  /\ calm' = calm \ {t}
  /\ Goto(t, "idle")
  /\ UNCHANGED <<core, app, names, conns, restored>>

(* Mutant: the connections are left to end by themselves *)
PatchKeepingConnections(t) ==
  /\ pc[t] = "patch" /\ CanSelect(patch[t].group)
  /\ SetTo(patch[t].group, patch[t].name)
  /\ Goto(t, "parents")
  /\ UNCHANGED <<profile, members, app, node, names, best, patch, life, at, hop, old, calm, restored>>

(* PatchSelector succeeds, even if Set refused the name *)
Patch(t) ==
  /\ pc[t] = "patch" /\ CanSelect(patch[t].group)
  /\ SetTo(patch[t].group, patch[t].name)
  /\ Goto(t, "close")
  /\ UNCHANGED <<profile, members, app, node, names, best, patch, life, at, hop, old, calm, restored>>

(* closeConnByGroup; then the parents of the group are looked for, or the loop over them goes on *)
CloseConnByGroup(t) ==
  /\ pc[t] = "close"
  /\ Forget({c \in Conn : life[c] = "open" /\ hop[c][patch[t].group] # None})
  /\ Goto(t, IF patch[t].group = best[t].group THEN "parents" ELSE "cascade")
  /\ UNCHANGED <<core, app, node, names, best, patch, calm, restored>>

QueryParents(t) ==
  /\ pc[t] = "parents"
  /\ names' = [names EXCEPT ![t] = SelectableNames]
  /\ Goto(t, "cascade")
  /\ UNCHANGED <<core, app, node, best, patch, conns, calm, restored>>

(* Mutant: the loop is left at the first group that is no parent *)
QueryParentOnce(t) ==
  /\ pc[t] = "cascade" /\ names[t] # <<>>
  /\ LET parent == Head(names[t])
         isParent == parent # best[t].group /\ best[t].group \in ToSet(Members(parent))
     IN  /\ Goto(t, IF isParent THEN "patchParent" ELSE "cascade")
         /\ patch' = IF isParent
                     THEN [patch EXCEPT ![t] = [group |-> parent, name |-> best[t].group]]
                     ELSE patch
  /\ names' = [names EXCEPT ![t] = <<>>]
  /\ UNCHANGED <<core, app, node, best, conns, calm, restored>>

(* Any group but itself that lists the group is switched to it; the parents of those are not *)
QueryParent(t) ==
  /\ pc[t] = "cascade" /\ names[t] # <<>>
  /\ LET parent == Head(names[t])
         isParent == parent # best[t].group /\ best[t].group \in ToSet(Members(parent))
     IN  /\ Goto(t, IF isParent THEN "patchParent" ELSE "cascade")
         /\ patch' = IF isParent
                     THEN [patch EXCEPT ![t] = [group |-> parent, name |-> best[t].group]]
                     ELSE patch
  /\ names' = [names EXCEPT ![t] = Tail(@)]
  /\ UNCHANGED <<core, app, node, best, conns, calm, restored>>

PatchParent(t) ==
  /\ pc[t] = "patchParent"
  /\ IF CanSelect(patch[t].group)
     THEN SetTo(patch[t].group, patch[t].name) /\ Goto(t, "close")
     ELSE UNCHANGED <<selected, late>> /\ Goto(t, "cascade")
  /\ UNCHANGED <<profile, members, app, node, names, best, patch, life, at, hop, old, calm, restored>>

Switched(t) == pc[t] = "cascade" /\ names[t] = <<>>

(* The click saves the node and shows the list again *)
SaveNode ==
  /\ Switched(Main)
  /\ saved' = node[Main]
  /\ Through(Main)
  /\ Goto(Main, "names")
  /\ UNCHANGED <<core, shown, names, conns, calm, restored>>

Restored(t) ==
  /\ t \in Starter /\ Switched(t)
  /\ Through(t)
  /\ calm' = calm \ {t}
  /\ restored' = TRUE
  /\ Goto(t, "idle")
  /\ UNCHANGED <<core, app, names, conns>>

ThreadStep(t) ==
  \/ QueryNames(t) \/ QueryGroup(t)
  \/ PatchUnknown(t) \/ Patch(t) \/ CloseConnByGroup(t)
  \/ QueryParents(t) \/ QueryParent(t) \/ PatchParent(t)

Next ==
  \/ \E t \in Thread : ThreadStep(t)
  \/ UpdateProvider
  \/ Refresh \/ Show \/ SaveNode
  \/ \E n \in Node : Click(n)
  \/ \E t \in Starter :
       Load(t) \/ NothingToRestore(t) \/ Restore(t) \/ SelectSaved(t) \/ NoGroup(t) \/ Restored(t)
  \/ \E c \in Conn : Dial(c) \/ DialThroughGroup(c) \/ Join(c) \/ Disconnect(c)

Spec == Init /\ [][Next]_vars

(***************************************************************************)
(* Properties                                                              *)
(***************************************************************************)

(* Whoever switches what beside whom: a connection of this configuration runs, at every selector *)
(* on its way, over the proxy that is selected there, unless its dial was passing that selector   *)
(* when it was patched, or the patch is just about to close it, or the selector was moved by an   *)
(* update of its provider, which closes no connection.                                           *)
NoStaleConnection ==
  \A c \in Conn : life[c] = "open" /\ c \notin old =>
    \A g \in profile.selector : hop[c][g] # None /\ <<c, g>> \notin late =>
      \/ hop[c][g] = Now(g)
      \/ \E t \in Thread : pc[t] = "close" /\ patch[t].group = g

Parents(g) == {p \in ToSet(SelectableNames) : p # g /\ g \in ToSet(Members(p))}

(* When a switch that nothing disturbed is done, the group points to the node, if it has it, and *)
(* every visible selector that lists the group points to the group: traffic that comes through   *)
(* any of them reaches the node.                                                                 *)
SwitchTakes ==
  \A t \in calm : Switched(t) =>
    /\ node[t] \in RealNodes(best[t].group) => Now(best[t].group) = node[t]
    /\ \A p \in Parents(best[t].group) : Now(p) = best[t].group

(* listNodes returns the first of the selectable groups with the most real nodes, however its    *)
(* queries were interleaved with switches.                                                       *)
ListsBestGroup ==
  \A t \in calm : Listed(t) /\ SelectableNames # <<>> =>
    \E i \in 1 .. Len(SelectableNames) :
      /\ best[t].group = SelectableNames[i]
      /\ best[t].nodes = RealNodes(best[t].group)
      /\ \A j \in 1 .. Len(SelectableNames) :
           LET more == NodeCount(SelectableNames[j]) - NodeCount(SelectableNames[i])
           IN  IF j < i THEN more < 0 ELSE more <= 0

(* ProxyService: "restore the node selected last". When a START has restored it and no thread is  *)
(* busy, every selectable group that has the saved node, and alone the most nodes, points to it.  *)
RestoresLastChoice ==
  restored /\ saved # None /\ (\A t \in Thread : pc[t] = "idle") =>
    \A g \in ToSet(SelectableNames) :
      /\ saved \in RealNodes(g)
      /\ \A h \in ToSet(SelectableNames) \ {g} : NodeCount(h) < NodeCount(g)
      => Now(g) = saved
=============================================================================
