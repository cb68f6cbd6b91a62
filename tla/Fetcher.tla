------------------------------ MODULE Fetcher ------------------------------
(***************************************************************************)
(* A provider that is fetched over HTTP (component/resource): the pull     *)
(* loop and the user update the same fetcher at the same time.  The cache  *)
(* file remembers which content an entity tag stands for; the content is   *)
(* written to a file that is read first after a restart, and which a crash *)
(* or a full disk leaves written in part.                                  *)
(*                                                                         *)
(* Two others write that file and do not take the fetcher's mutex: an      *)
(* import of the profile fetches it when it is not there, and the fetcher  *)
(* of a configuration that was replaced goes on until it is collected.     *)
(*                                                                         *)
(* A content stands for its own hash and its own entity tag.  Intervals    *)
(* and the backoff are left to the moments at which an update begins, and  *)
(* there is no bundled file.  An answer without a content whose hash is no *)
(* longer the one at hand counts as no change in the code (a comment there *)
(* says that it should not happen); here that update just ends.            *)
(***************************************************************************)
EXTENDS Naturals

CONSTANTS
  Good, Bad,   \* contents that can be parsed and contents that cannot
  Loop, User,  \* the pull loop and the user's updates
  MaxChange,   \* bound: changes of the content on the server
  MaxCrash,    \* bound: crashes and reloads
  None,        \* no content, no hash
  Partial      \* a content of which only a part was written

Content == Good \cup Bad
Updater == {Loop} \cup User

VARIABLES
  remote, changes,  \* the content on the server
  crashes, running,
  etag,             \* the cache file: the hash of the content with the entity tag that was kept
  file,
  hash, shown,      \* the fetcher: its hash, and what onUpdate was called with last
  update,           \* what each updater is doing
  aside,            \* what the other writer is doing: an import or a former fetcher (bound: one)
  former,           \* the fetcher of a replaced configuration still runs
  torn,             \* the file was open for two writers at once, and still is for one
  raced             \* the file is not only the fetcher's since shown was set (auxiliary)

server == <<remote, changes>>
disk   == <<etag, file>>
memory == <<running, hash, shown>>
second == <<aside, former, torn, raced>>
vars   == <<server, crashes, disk, memory, update, second>>

Idle == [at |-> "idle"]

TypeOK ==
  /\ remote \in Content /\ changes \in 0 .. MaxChange
  /\ crashes \in 0 .. MaxCrash /\ running \in BOOLEAN
  /\ etag \in Content \cup {None} /\ file \in Content \cup {None, Partial}
  /\ hash \in Good \cup {None, Partial} /\ shown \in Good \cup {None, Partial}
  /\ update \in [Updater ->
       {Idle} \cup [at : {"read"}, old : Good \cup {None, Partial}]
       \cup [at : {"sent"}, old : Good \cup {None, Partial}, tag : Content \cup {None}]
       \cup [at : {"body"}, buf : Content] \cup [at : {"write"}, buf : Good]
       \cup [at : {"load"}, buf : Content \cup {None}, hash : Content, had : Content]]
  /\ aside \in {Idle} \cup [at : {"ask", "body", "load", "copy"}, who : {"import", "former"},
                            buf : Content \cup {None}]
  /\ former \in BOOLEAN /\ torn \in BOOLEAN /\ raced \in BOOLEAN

-----------------------------------------------------------------------------
(* Update: vehicle.Read, then loadBuf.                                     *)

At(u, step) == update[u].at = step

Go(u, state) == update' = [update EXCEPT ![u] = state]

\* The hash is read without the mutex.
Update(u) ==
  /\ running /\ update[u] = Idle
  /\ Go(u, [at |-> "read", old |-> hash])
  /\ UNCHANGED <<server, crashes, disk, memory, second>>

(* Mutant: the tag is sent whatever content it stands for *)
ReadAnyTag(u) ==
  /\ At(u, "read")
  /\ LET old == update[u].old
     IN  Go(u, [at |-> "sent", old |-> old, tag |-> IF old # None THEN etag ELSE None])
  /\ UNCHANGED <<server, crashes, disk, memory, second>>

\* The request asks for another content only when the tag stands for the one at hand.
Read(u) ==
  /\ At(u, "read")
  /\ LET old == update[u].old
     IN  Go(u, [at |-> "sent", old |-> old, tag |-> IF old = etag THEN etag ELSE None])
  /\ UNCHANGED <<server, crashes, disk, memory, second>>

\* The server answers that the content is the one of the tag, or sends its content.
HttpRequest(u) ==
  /\ At(u, "sent")
  /\ IF update[u].tag = remote
     THEN Go(u, [at |-> "load", buf |-> None, hash |-> update[u].old, had |-> remote])
     ELSE Go(u, [at |-> "body", buf |-> remote])
  /\ UNCHANGED <<server, crashes, disk, memory, second>>

\* There is no answer, or it is a failure, or it breaks off.
Fails(u) ==
  /\ At(u, "sent") /\ Go(u, Idle)
  /\ UNCHANGED <<server, crashes, disk, memory, second>>

SetETagWithHash(u) ==
  /\ At(u, "body") /\ etag' = update[u].buf
  /\ LET buf == update[u].buf
     IN  Go(u, [at |-> "load", buf |-> buf, hash |-> buf, had |-> buf])
  /\ UNCHANGED <<server, crashes, file, memory, second>>

\* loadBuf holds its mutex while the file is written.
Locked == \E u \in Updater : At(u, "write")

Copying   == aside.at = "copy"
Importing == aside # Idle /\ aside.who = "import"

\* The hash is known already, the content is not there, or it cannot be parsed.
NothingToLoad(u) ==
  hash = update[u].hash \/ update[u].buf \notin Good

LoadBuf(u) ==
  /\ At(u, "load") /\ ~Locked
  /\ IF NothingToLoad(u) THEN Go(u, Idle) /\ UNCHANGED <<file, torn>>
     ELSE /\ Go(u, [at |-> "write", buf |-> update[u].buf])
          /\ file' = Partial /\ torn' = Copying
  /\ UNCHANGED <<server, crashes, etag, memory, aside, former, raced>>

\* What the file may hold when a writer of buf closes it: two writers that had it open at once
\* leave the content of either or pieces of both, and a file that was removed is gone.
Closed(buf) ==
  IF ~torn THEN {buf} ELSE IF file = None THEN {None} ELSE {file, buf, Partial}

\* The file is there: the content is the one that counts from now on.
Write(u) ==
  /\ At(u, "write") /\ Go(u, Idle)
  /\ file' \in Closed(update[u].buf) /\ torn' = (torn /\ Copying)
  /\ hash' = update[u].buf /\ shown' = update[u].buf
  /\ raced' = (torn \/ Importing)
  /\ UNCHANGED <<server, crashes, etag, running, aside, former>>

(* Mutant: the hash of a content that was not written is kept *)
WriteFailsHashed(u) ==
  /\ At(u, "write") /\ Go(u, Idle)
  /\ file' \in Closed(Partial) /\ torn' = (torn /\ Copying)
  /\ hash' = update[u].buf
  /\ UNCHANGED <<server, crashes, etag, running, shown, aside, former, raced>>

WriteFails(u) ==
  /\ At(u, "write") /\ Go(u, Idle)
  /\ file' \in Closed(Partial) /\ torn' = (torn /\ Copying)
  /\ UNCHANGED <<server, crashes, etag, memory, aside, former, raced>>

-----------------------------------------------------------------------------
(* The other writers: fetch and writeFile of FetchAndValid, and Update of  *)
(* a fetcher whose configuration was replaced.                             *)

Another(step, who, buf) == [at |-> step, who |-> who, buf |-> buf]

(* Mutant: the import fetches the file whether or not it is there *)
ImportAnyway ==
  /\ aside = Idle
  /\ aside' = Another("ask", "import", None)
  /\ UNCHANGED <<server, crashes, disk, memory, update, former, torn, raced>>

\* FetchAndValid: only a file that is not there is fetched.
Import ==
  /\ aside = Idle /\ file = None
  /\ aside' = Another("ask", "import", None)
  /\ UNCHANGED <<server, crashes, disk, memory, update, former, torn, raced>>

\* The answer comes, and the file is truncated or created: whatever the server sends is taken,
\* also with a status that says it failed.
ImportAnswered ==
  /\ aside.at = "ask"
  /\ \E buf \in {remote} \cup Bad : aside' = Another("copy", "import", buf)
  /\ file' = Partial /\ torn' = Locked
  /\ UNCHANGED <<server, crashes, etag, memory, update, former, raced>>

\* A former fetcher, until the finalizer of its provider closes it, is sent another content than
\* its own; it keeps the tag and writes the file if it does not know the content yet.
FormerUpdate ==
  /\ former /\ aside = Idle
  /\ aside' = Another("body", "former", remote)
  /\ UNCHANGED <<server, crashes, disk, memory, update, former, torn, raced>>

FormerETag ==
  /\ aside.at = "body"
  /\ etag' = aside.buf /\ aside' = [aside EXCEPT !.at = "load"]
  /\ UNCHANGED <<server, crashes, file, memory, update, former, torn, raced>>

\* The request fails, or the former fetcher knows the content or cannot parse it.
AsideEnds ==
  /\ aside.at \in {"ask", "body", "load"} /\ aside' = Idle
  /\ UNCHANGED <<server, crashes, disk, memory, update, former, torn, raced>>

FormerWrites ==
  /\ aside.at = "load" /\ aside.buf \in Good
  /\ aside' = [aside EXCEPT !.at = "copy"]
  /\ file' = Partial /\ torn' = Locked /\ raced' = (shown # None)
  /\ UNCHANGED <<server, crashes, etag, memory, update, former>>

\* An import that cannot write all of it removes the file, a fetcher leaves it.
AsideWrites ==
  /\ Copying /\ aside' = Idle /\ torn' = (torn /\ Locked)
  /\ file' \in Closed(aside.buf) \cup IF Importing THEN {None} ELSE Closed(Partial)
  /\ UNCHANGED <<server, crashes, etag, memory, update, former, raced>>

AsideStep ==
  \/ Import \/ ImportAnswered \/ FormerUpdate \/ FormerETag
  \/ FormerWrites \/ AsideEnds \/ AsideWrites

-----------------------------------------------------------------------------
\* Initial: the file, if it is there and can be parsed; one written in part can or cannot be.
Initial ==
  /\ ~running /\ running' = TRUE
  /\ \/ file \in Good \cup {Partial} /\ hash' = file /\ shown' = file
     \/ file \notin Good /\ UNCHANGED <<hash, shown>>
  /\ raced' = (Copying \/ Importing)
  /\ UNCHANGED <<server, crashes, disk, update, aside, former, torn>>

\* What the updates in progress still do to the file once their fetcher is a former one.
Left ==
  {Another("copy", "former", update[u].buf) : u \in {v \in Updater : At(v, "write")}}
  \cup {Another(update[u].at, "former", update[u].buf) :
           u \in {v \in Updater : update[v].at \in {"body", "load"} /\ update[v].buf # None}}

\* Another configuration with this provider is applied.  Bound: one update of the former goes on,
\* the one that writes if there is one.
Reload ==
  /\ running /\ running' = FALSE
  /\ crashes < MaxCrash /\ crashes' = crashes + 1
  /\ hash' = None /\ shown' = None /\ former' = TRUE
  /\ update' = [u \in Updater |-> Idle]
  /\ IF Locked THEN aside = Idle /\ aside' \in {left \in Left : left.at = "copy"}
     ELSE aside' \in IF aside = Idle THEN Left \cup {Idle} ELSE {aside}
  /\ raced' = FALSE /\ UNCHANGED <<server, disk, torn>>

Crash ==
  /\ running \/ aside # Idle
  /\ running' = FALSE
  /\ crashes < MaxCrash /\ crashes' = crashes + 1
  /\ hash' = None /\ shown' = None
  /\ update' = [u \in Updater |-> Idle]
  /\ aside' = Idle /\ former' = FALSE /\ torn' = FALSE /\ raced' = FALSE
  /\ UNCHANGED <<server, disk>>

Publish(new) ==
  /\ new # remote /\ changes < MaxChange /\ changes' = changes + 1
  /\ remote' = new
  /\ UNCHANGED <<crashes, disk, memory, update, second>>

-----------------------------------------------------------------------------
Init ==
  /\ remote \in Content /\ changes = 0 /\ crashes = 0
  /\ etag = None /\ file = None
  /\ running = FALSE /\ hash = None /\ shown = None
  /\ update = [u \in Updater |-> Idle]
  /\ aside = Idle /\ former = FALSE /\ torn = FALSE /\ raced = FALSE

UpdateStep(u) ==
  \/ Read(u) \/ HttpRequest(u) \/ Fails(u) \/ SetETagWithHash(u)
  \/ LoadBuf(u) \/ Write(u) \/ WriteFails(u)

Next ==
  \/ \E u \in Updater : Update(u) \/ UpdateStep(u)
  \/ Initial \/ Reload \/ Crash \/ AsideStep
  \/ \E new \in Content : Publish(new)

Spec == Init /\ [][Next]_vars

\* The timer of the pull loop fires, a request ends, the mutex is a fair one, and now and then
\* the server answers the loop and the disk takes what the loop writes.
Fairness ==
  /\ WF_vars(Initial \/ Update(Loop))
  /\ \A u \in Updater : WF_vars(UpdateStep(u))
  /\ SF_vars(HttpRequest(Loop)) /\ SF_vars(LoadBuf(Loop)) /\ SF_vars(Write(Loop))

FairSpec == Spec /\ Fairness

-----------------------------------------------------------------------------
(* Properties.                                                             *)

\* An update that finds its hash known, so that the provider counts as up to date, shows what the
\* server had when it answered, whoever else updated or crashed meanwhile.
ConfirmedIsShown ==
  [][\A u \in Updater :
       At(u, "load") /\ update'[u] = Idle /\ running' /\ hash = update[u].hash
         => shown = update[u].had]_vars

\* What is shown is in the file, for the next start without the server, unless the last write
\* did not end, a former configuration's fetcher wrote, or an import had found no file before.
FileKeepsShown == shown # None /\ ~raced => file \in {shown, Partial}

\* The provider ends up with the content of the server, unless it cannot be parsed, whatever
\* crashes, fails or overtakes.
Converges == <>[](shown = remote \/ remote \in Bad)
=============================================================================
