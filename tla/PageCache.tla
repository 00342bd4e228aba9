----------------------------- MODULE PageCache -----------------------------
(***************************************************************************)
(* The cache of public pages: the middleware of internal/cache/page.go,    *)
(* the Redis store of internal/cache/redis.go, and the writers of          *)
(* internal/adminapi, which commit a change of public content to MySQL and *)
(* then call InvalidatePublic.                                             *)
(*                                                                         *)
(* One request target is modelled; every target has its own pages under    *)
(* the one shared version key, and they do not interact.  A rendered page  *)
(* is identified by the content it was rendered from, and contents are     *)
(* numbered in the order they were committed.                              *)
(***************************************************************************)
EXTENDS Integers

CONSTANTS
  Reader,       \* concurrent anonymous requests
  Writer,       \* concurrent admin requests that change public content
  InitialKey,   \* the version key at first: a version, or 0 when there is none
  Faults,       \* which of "lost", "error", "flush" may happen
  MaxContent,   \* bound: number of changes committed
  MaxVersion    \* bound: the version key is not incremented past it

ASSUME ConstantsAssumption ==
  /\ InitialKey \in 0 .. MaxVersion
  /\ Faults \subseteq {"lost", "error", "flush"}
  /\ MaxContent \in Nat /\ MaxVersion \in Nat \ {0}

NoPage == -1
Missing == 0    \* the version key does not exist, or a request has no version

Version == 1 .. MaxVersion
Content == 0 .. MaxContent
Page == Content \cup {NoPage}

VARIABLES
  content,    \* public content committed in MySQL
  key,        \* Redis: the version key
  pages,      \* Redis: the page of each version
  reader,     \* the requests
  writer,     \* the admin requests
  announced,  \* history: the content when the version key last went up
  missed      \* history: whether the version key was ever missing

vars == <<content, key, pages, reader, writer, announced, missed>>

(* floor is the value of announced when the request read the version.      *)
Request == [step : {"idle", "version", "initialize", "get", "render", "set", "done"},
            version : Version \cup {Missing}, page : Page, floor : Content]

Idle == [step |-> "idle", version |-> Missing, page |-> NoPage, floor |-> 0]

TypeOK ==
  /\ content \in Content
  /\ key \in Version \cup {Missing}
  /\ pages \in [Version -> Page]
  /\ reader \in [Reader -> Request]
  /\ \A r \in Reader :
       /\ reader[r].step \in {"get", "set"} => reader[r].version # Missing
       /\ reader[r].step \in {"set", "done"} => reader[r].page # NoPage
  /\ writer \in [Writer -> {"idle", "committed"}]
  /\ announced \in Content
  /\ missed \in BOOLEAN

Init ==
  /\ content = 0
  /\ key = InitialKey
  /\ pages = [v \in Version |-> NoPage]
  /\ reader = [r \in Reader |-> Idle]
  /\ writer = [w \in Writer |-> "idle"]
  /\ announced = 0
  /\ missed = (InitialKey = Missing)

----------------------------------------------------------------------------
(* Middleware, one step per Redis command and one for the render.          *)

Redis == <<key, pages>>
Admin == <<content, writer, announced, missed>>

At(r, step) == reader[r].step = step

Start(r) ==
  /\ At(r, "idle")
  /\ reader' = [reader EXCEPT ![r] = [Idle EXCEPT !.step = "version",
                                                  !.floor = announced]]
  /\ UNCHANGED <<Redis, Admin>>

(* CurrentVersion: GET of the version key.                                 *)
ReadVersion(r) ==
  /\ At(r, "version")
  /\ reader' = [reader EXCEPT ![r].step = IF key = Missing THEN "initialize" ELSE "get",
                              ![r].version = key]
  /\ UNCHANGED <<Redis, Admin>>

(* CurrentVersion on a missing key: SET to "1", whatever it is by now.     *)
InitializeVersion(r) ==
  /\ At(r, "initialize")
  /\ key' = 1
  /\ reader' = [reader EXCEPT ![r].step = "get", ![r].version = 1]
  /\ UNCHANGED <<pages, Admin>>

(* CurrentVersion fails: the page is rendered and will not be stored.      *)
VersionFails(r) ==
  /\ "error" \in Faults
  /\ At(r, "version") \/ At(r, "initialize")
  /\ reader' = [reader EXCEPT ![r].step = "render", ![r].version = Missing]
  /\ UNCHANGED <<Redis, Admin>>

Hit(r) ==
  /\ At(r, "get")
  /\ pages[reader[r].version] # NoPage
  /\ reader' = [reader EXCEPT ![r].step = "done", ![r].page = pages[reader[r].version]]
  /\ UNCHANGED <<Redis, Admin>>

(* No page, or Redis does not answer.                                      *)
Miss(r) ==
  /\ At(r, "get")
  /\ pages[reader[r].version] = NoPage \/ "error" \in Faults
  /\ reader' = [reader EXCEPT ![r].step = "render"]
  /\ UNCHANGED <<Redis, Admin>>

(* A wrong Render: the page is stored even when there is no version.       *)
RenderStored(r) ==
  /\ At(r, "render")
  /\ reader' = [reader EXCEPT ![r].step = "set", ![r].page = content]
  /\ UNCHANGED <<Redis, Admin>>

(* The handler renders from MySQL and the page is answered.                *)
Render(r) ==
  /\ At(r, "render")
  /\ reader' = [reader EXCEPT ![r].step = IF reader[r].version = Missing THEN "done" ELSE "set",
                              ![r].page = content]
  /\ UNCHANGED <<Redis, Admin>>

(* A wrong Store: under the version of the moment, not the one read first. *)
StoreUnderNewVersion(r) ==
  /\ At(r, "set")
  /\ pages' = [pages EXCEPT ![key] = reader[r].page]
  /\ reader' = [reader EXCEPT ![r].step = "done"]
  /\ UNCHANGED <<key, Admin>>

Store(r) ==
  /\ At(r, "set")
  /\ \/ pages' = [pages EXCEPT ![reader[r].version] = reader[r].page]
     \/ "error" \in Faults /\ UNCHANGED pages
  /\ reader' = [reader EXCEPT ![r].step = "done"]
  /\ UNCHANGED <<key, Admin>>

Leave(r) ==
  /\ At(r, "done")
  /\ reader' = [reader EXCEPT ![r] = Idle]
  /\ UNCHANGED <<Redis, Admin>>

----------------------------------------------------------------------------
(* The admin handlers.                                                     *)

Commit(w) ==
  /\ writer[w] = "idle"
  /\ content < MaxContent
  /\ content' = content + 1
  /\ writer' = [writer EXCEPT ![w] = "committed"]
  /\ UNCHANGED <<Redis, reader, announced, missed>>

(* A wrong Invalidate: the version key stays.                              *)
InvalidateNothing(w) ==
  /\ writer[w] = "committed"
  /\ announced' = content
  /\ writer' = [writer EXCEPT ![w] = "idle"]
  /\ UNCHANGED <<Redis, content, reader, missed>>

(* INCR of the version key; a missing key counts as 0.                     *)
Invalidate(w) ==
  /\ writer[w] = "committed"
  /\ key < MaxVersion
  /\ key' = key + 1
  /\ announced' = content
  /\ writer' = [writer EXCEPT ![w] = "idle"]
  /\ UNCHANGED <<pages, content, reader, missed>>

(* The invalidation never happens: the process stops, the request is       *)
(* cancelled, Redis fails (it is only logged), or the read after the       *)
(* commit fails and the handler answers with an error instead.             *)
LoseInvalidation(w) ==
  /\ "lost" \in Faults
  /\ writer[w] = "committed"
  /\ writer' = [writer EXCEPT ![w] = "idle"]
  /\ UNCHANGED <<Redis, content, reader, announced, missed>>

----------------------------------------------------------------------------
(* Redis on its own.                                                       *)

(* A wrong Expire: the pages of the version in force have no TTL.          *)
ExpireOld(v) ==
  /\ pages[v] # NoPage /\ v # key
  /\ pages' = [pages EXCEPT ![v] = NoPage]
  /\ UNCHANGED <<key, reader, Admin>>

(* The TTL of a page runs out.                                             *)
Expire(v) ==
  /\ pages[v] # NoPage
  /\ pages' = [pages EXCEPT ![v] = NoPage]
  /\ UNCHANGED <<key, reader, Admin>>

(* Redis comes back empty.                                                 *)
Flush ==
  /\ "flush" \in Faults
  /\ key' = Missing
  /\ pages' = [v \in Version |-> NoPage]
  /\ missed' = TRUE
  /\ UNCHANGED <<reader, content, writer, announced>>

Read(r) ==
  \/ ReadVersion(r) \/ InitializeVersion(r) \/ VersionFails(r) \/ Hit(r)
  \/ Miss(r) \/ Render(r) \/ Store(r) \/ Leave(r)

Next ==
  \/ \E r \in Reader : Start(r) \/ Read(r)
  \/ \E w \in Writer : Commit(w) \/ Invalidate(w) \/ LoseInvalidation(w)
  \/ \E v \in Version : Expire(v)
  \/ Flush

Spec == Init /\ [][Next]_vars

(* A request that has begun goes on to its end (every Redis call and query *)
(* has a timeout) and a page expires after its TTL.  Nothing obliges       *)
(* anyone to begin a request or to change content.                         *)
FairSpec ==
  /\ Spec
  /\ \A r \in Reader : WF_vars(Read(r))
  /\ \A v \in Version : WF_vars(Expire(v))

----------------------------------------------------------------------------
(* A page stored under the version in force was rendered from content no   *)
(* older than the last invalidation: "a concurrent invalidation can never  *)
(* make a newly rendered old page visible under the new version"           *)
(* (internal/cache/page.go).                                               *)
CurrentPageNotOlder ==
  key # Missing /\ pages[key] # NoPage => pages[key] >= announced

(* A request that begins after an invalidation is never answered with      *)
(* content older than that invalidation.                                   *)
AnswerNotOlder ==
  \A r \in Reader : At(r, "done") => reader[r].page >= reader[r].floor

(* Both hold as long as the version key has never been missing, although   *)
(* renders that began before an invalidation still store their pages, and  *)
(* invalidations and Redis commands are lost.                              *)
KeptPageNotOlder == ~ missed => CurrentPageNotOlder
KeptAnswerNotOlder == ~ missed => AnswerNotOlder

(* Whatever is lost (invalidations, Redis commands, all of Redis), once    *)
(* content no longer changes the cache ends up holding only the current    *)
(* content and stays so: the TTL bounds every staleness.                   *)
EventuallyFresh ==
  <>[](\A v \in Version : pages[v] \in {NoPage, content})
=============================================================================
