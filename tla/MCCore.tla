------------------------------- MODULE MCCore -------------------------------
(***************************************************************************)
(* Five parts of the core's process that share no state, checked side by   *)
(* side: the fake addresses, the resolver, a group that measures, the      *)
(* health check of a provider and its fetcher.  Initially one part is      *)
(* chosen, and the others rest, so that the states to check are the sum of *)
(* those of the parts.                                                     *)
(***************************************************************************)
EXTENDS Naturals

CONSTANTS
  Client, Host, Size,
  MaxRecord,
  Dialer, Node, MaxVersion,
  Object, MaxUpdate,
  Good, Bad, Loop, User, MaxChange, MaxCrash, Partial,
  None

ASSUME CoreAssumption ==
  /\ Size \in Nat \ {0} /\ None \notin Host /\ None \notin 1 .. Size
  /\ MaxRecord \in Nat /\ None \notin [version : 0 .. MaxRecord, kept : BOOLEAN]
  /\ None \notin [at : {"ask", "put", "end"}, shared : BOOLEAN,
                  answer : [version : 0 .. MaxRecord, kept : BOOLEAN] \cup {None}]
  /\ MaxVersion \in Nat /\ None \notin Dialer /\ MaxUpdate \in Nat
  /\ MaxChange \in Nat /\ MaxCrash \in Nat /\ None \notin Good \cup Bad
  /\ None # Partial

VARIABLES
  part,  \* the one that moves
  hostOf, ipOf, running, parsed, offset, cycle, query, before, overlapped, mixed,
  record, entry, flight, at, newest,
  proxies, version, cached, selected, setting, fastNode, call, result, dial,
  nodes, updates, lazy, touched, starting, checking, recent, tested,
  remote, changes, crashes, loaded, etag, file, hash, shown, update, aside, former, torn, raced

fake  == <<hostOf, ipOf, running, parsed, offset, cycle, query, before, overlapped, mixed>>
names == <<record, entry, flight, at, newest>>
group == <<proxies, version, cached, selected, setting, fastNode, call, result, dial>>
check == <<nodes, updates, lazy, touched, starting, checking, recent, tested>>
fetch == <<remote, changes, crashes, loaded, etag, file, hash, shown, update,
           aside, former, torn, raced>>
vars  == <<part, fake, names, group, check, fetch>>

Fake  == INSTANCE FakeIP
Names == INSTANCE Resolver WITH MaxChange <- MaxRecord
Group == INSTANCE UrlTest
Check == INSTANCE HealthCheck WITH proxies <- nodes, Node <- Object
Fetch == INSTANCE Fetcher WITH running <- loaded

InFake(A)  == part = "fake" /\ A /\ UNCHANGED <<part, names, group, check, fetch>>
InNames(A) == part = "names" /\ A /\ UNCHANGED <<part, fake, group, check, fetch>>
InGroup(A) == part = "group" /\ A /\ UNCHANGED <<part, fake, names, check, fetch>>
InCheck(A) == part = "check" /\ A /\ UNCHANGED <<part, fake, names, group, fetch>>
InFetch(A) == part = "fetch" /\ A /\ UNCHANGED <<part, fake, names, group, check>>

Init ==
  /\ part \in {"fake", "names", "group", "check", "fetch"}
  /\ Fake!Init /\ Names!Init /\ Group!Init /\ Check!Init /\ Fetch!Init
  /\ IF part = "fetch" THEN remote = CHOOSE content \in Good : TRUE ELSE remote \in Bad
  /\ part # "names" => record.kept
  /\ part # "group" => proxies = {}
  /\ part # "check" => nodes = {} /\ ~lazy

Next ==
  \/ InFake(Fake!Next) \/ InNames(Names!Next) \/ InGroup(Group!Next)
  \/ InCheck(Check!Next) \/ InFetch(Fetch!Next)

\* The fairness of the part that moves: a condition may be that of one part or of another.
Fairness ==
  /\ \A g \in Names!Goroutine : WF_vars(InNames(Names!Step(g)))
  /\ \A d \in Dialer : WF_vars(InGroup(Group!DialStep(d)))
  /\ \A u \in {Loop} \cup User : WF_vars(InFetch(Fetch!UpdateStep(u)))
  /\ WF_vars(InNames(Names!CallStep) \/ InCheck(Check!Checked \/ Check!Second)
             \/ InFetch(Fetch!Initial \/ Fetch!Update(Loop)))
  /\ WF_vars(InNames(Names!Expire))
  /\ SF_vars(InNames(Names!Answer) \/ InCheck(Check!Tick /\ ~recent)
             \/ InFetch(Fetch!HttpRequest(Loop)))
  /\ SF_vars(InNames(\E c \in Client : Names!Hit(c)) \/ InFetch(Fetch!LoadBuf(Loop)))
  /\ SF_vars(InFetch(Fetch!Write(Loop)))

FairSpec == Init /\ [][Next]_vars /\ Fairness

\* Bound: no further once neither property of the fake addresses says anything any more.
StillJudged == part = "fake" => ~overlapped \/ ~mixed

\* Bound: besides the pull loop either the user or another writer of the file is at work.
TwoAtOnce == aside = Fetch!Idle \/ \A u \in User : update[u] = Fetch!Idle

-----------------------------------------------------------------------------
\* The variables of every part have their types.
TypeOK == Fake!TypeOK /\ Names!TypeOK /\ Group!TypeOK /\ Check!TypeOK /\ Fetch!TypeOK

\* The fake address a host is answered with leads back to that host.
AnswersLeadBack == Fake!AnswersLeadBack

\* A fake address is taken from its host only when none is free, the oldest one first.
OldestIsReused == Fake!OldestIsReused

\* No query is answered with an older record than one before it.
AnswersNeverGoBack == Names!AnswersNeverGoBack

\* The cache of names ends up with the record of the servers, although it answers with old ones.
CatchesUp == Names!CatchesUp

\* A group's list that is filed under the version of the provider is the provider's list.
CacheIsCurrent == Group!CacheIsCurrent

\* No choice is kept that was made without knowing the node the user fixed.
SelectionIsKnown == Group!SelectionIsKnown

\* A dialer gets its node, also when the choice it waits for was reset.
DialersAnswered == Group!DialersAnswered

\* The nodes of a provider that is in use end up tested.
NodesTested == Check!NodesTested

\* An update that reports no change shows what the server had when it answered.
ConfirmedIsShown == Fetch!ConfirmedIsShown

\* What a provider shows is in its file, unless the last write did not end or others wrote too.
FileKeepsShown == Fetch!FileKeepsShown

\* A provider ends up with the server's content, unless that cannot be parsed.
Converges == Fetch!Converges
=============================================================================
