---------------------------- MODULE ProjectOrder ----------------------------
(***************************************************************************)
(* Projects and their public order: internal/project (service and          *)
(* SQLRepository), the project handlers of internal/adminapi and the two   *)
(* admin screens that call them, ProjectsView (the list) and               *)
(* ProjectEditorView (one project).                                        *)
(*                                                                         *)
(* Publish, Hide and Reorder each run in one MySQL transaction that locks  *)
(* the single row of project_order_state first, so they are atomic here.   *)
(* Saving a project is not a transaction: it reads the row, checks, asks   *)
(* GitHub, and only then writes, so it is several steps.  Neither is the   *)
(* list of groups: its public part and its order version are two queries.  *)
(*                                                                         *)
(* A project's name, link and image are one content.  Of a content it      *)
(* matters whether it is a name alone, which is all a new project has, and *)
(* whether its link is confirmed; a form without even a name is empty.     *)
(***************************************************************************)
EXTENDS Integers, FiniteSets

CONSTANTS
  Project,       \* project ids
  Client,        \* open admin tabs, each with at most one request in flight
  Content,       \* what a project may hold: a name, perhaps link and image
  NameOnly,      \* those of them without link and image
  Verified,      \* those whose link the GitHub check accepts
  NoContent,     \* not even a name: a form that was never filled, no row
  MaxVersion,    \* bound: no project is changed past this version,
  MaxOrder       \* bound: nor the order past this one

ASSUME ConstantsAssumption ==
  /\ IsFiniteSet(Project)
  /\ NameOnly \subseteq Content /\ Verified \subseteq Content
  /\ NoContent \notin Content
  /\ MaxVersion \in Nat /\ MaxOrder \in Nat

VARIABLES
  rows,          \* table projects
  orderVersion,  \* project_order_state.version
  client         \* what each tab shows and waits for

vars == <<rows, orderVersion, client>>

(* What a row or a form may hold.                                          *)
Form == Content \cup {NoContent}

(* sort is 0 for NULL; a project that was never created is "absent".       *)
(* Exactly the public projects have a place (chk_projects_visibility_fields). *)
Row ==
  [status : {"absent", "hidden"}, sort : {0}, version : Nat, content : Form]
    \cup
  [status : {"public"}, sort : Nat \ {0}, version : Nat, content : Form]

(* What a tab holds.  waits: reads still to be answered.  saving: "insert" *)
(* when the server has inserted a new project and not yet answered,        *)
(* "create" when the page is to save it again at once, "check" when the    *)
(* server has checked a save and not yet written it, "reread" when it has  *)
(* written it and not yet answered, "refresh" while the page reads again   *)
(* after a publish, a hide or a create.  content is what the page was last *)
(* given of the project, or sent to create it; draft is the content sent   *)
(* to be saved.  basis says where the version comes from: nowhere, as in a *)
(* blank form; the answer to a create, whose other fields the page does    *)
(* not take over; or the row that content is of.                           *)
(* list numbers the projects of the list screen; 0 is one it does not show. *)
Screen == [mode : {"closed", "list", "editor"},
           waits : SUBSET {"public", "project", "order"},
           saving : {"no", "insert", "create", "check", "reread", "refresh"},
           project : Project, version : Nat, orderVersion : Nat,
           content : Form, draft : Form,
           basis : {"blank", "create", "row"},
           list : [Project -> Nat]]

TypeOK ==
  /\ rows \in [Project -> Row]
  /\ orderVersion \in Nat
  /\ client \in [Client -> Screen]

----------------------------------------------------------------------------
Public == {p \in Project : rows[p].status = "public"}

(* Definitions said to be wrong stand for plausible mistakes in the one    *)
(* that follows; each shows that a property would notice.  A wrong Places: *)
(* numbered from zero.                                                     *)
PlacesFromZero(S) ==
  [p \in Project |-> IF p \in S
                     THEN Cardinality({q \in S : rows[q].sort < rows[p].sort})
                     ELSE 0]

(* The projects of S numbered from 1 by their sort_order, the others 0.    *)
Places(S) ==
  [p \in Project |-> IF p \in S
                     THEN Cardinality({q \in S : rows[q].sort <= rows[p].sort})
                     ELSE 0]

Placed(place) == {p \in Project : place[p] > 0}

(* setTemporaryOrder moves the placed projects, in that order, to          *)
(* n+1 .. 2n one statement at a time.  It gets through unless a project    *)
(* whose turn has not come still holds the value (UNIQUE KEY), or the      *)
(* project itself does (no row is changed).  setFinalOrder after it always *)
(* gets through, so compactProjectOrder is the test and the final places;  *)
(* module OrderRewrite runs the statements.                                *)
Rewritable(place) ==
  LET n == Cardinality(Placed(place)) IN
  \A p, q \in Placed(place) :
    place[q] >= place[p] => rows[q].sort # n + place[p]

Reposition(table, place) ==
  [p \in Project |-> [table[p] EXCEPT !.sort = place[p]]]

(* Wrong ones: a place is left free; before all others.                    *)
NextSortSkips == 2 + Cardinality(Public)
NextSortFirst == 1 - Cardinality(Public)

NextSort == IF Public = {} THEN 1
            ELSE 1 + CHOOSE m \in {rows[p].sort : p \in Public} :
                       \A p \in Public : rows[p].sort <= m

(* What an editor shows before, or without, a successful load.             *)
Blank(m, p) ==
  [mode |-> m, waits |-> {}, saving |-> "no", project |-> p, version |-> 1,
   orderVersion |-> 0, content |-> NoContent, draft |-> NoContent,
   basis |-> "blank", list |-> [q \in Project |-> 0]]

Shows(c, p) == client[c].mode = "editor" /\ client[c].project = p

Quiet(c) == client[c].waits = {} /\ client[c].saving = "no"

Reading(c) == client[c].saving \in {"no", "refresh"}

Init ==
  /\ rows = [p \in Project |-> [status |-> "absent", sort |-> 0,
                                version |-> 0, content |-> NoContent]]
  /\ orderVersion = 1
  /\ \E p \in Project : client = [c \in Client |-> Blank("closed", p)]

----------------------------------------------------------------------------
(* Loading a screen.                                                       *)

OpenList(c) ==
  /\ Quiet(c)
  /\ client' = [client EXCEPT ![c] =
       [Blank("list", client[c].project) EXCEPT !.waits = {"public", "order"}]]
  /\ UNCHANGED <<rows, orderVersion>>

OpenEditor(c, p) ==
  /\ Quiet(c)
  /\ rows[p].status # "absent"
  /\ client' = [client EXCEPT ![c] =
       [Blank("editor", p) EXCEPT !.waits = {"project", "order"}]]
  /\ UNCHANGED <<rows, orderVersion>>

(* ListAdminPublicProjects, the first query of ListProjectGroups.          *)
LoadPublic(c) ==
  /\ "public" \in client[c].waits
  /\ client' = [client EXCEPT ![c].waits = @ \ {"public"},
                              ![c].list = Places(Public)]
  /\ UNCHANGED <<rows, orderVersion>>

LoadProject(c) ==
  /\ "project" \in client[c].waits
  /\ client' = [client EXCEPT ![c].waits = @ \ {"project"},
                              ![c].version = rows[client[c].project].version,
                              ![c].content = rows[client[c].project].content,
                              ![c].basis = "row"]
  /\ UNCHANGED <<rows, orderVersion>>

(* GetProjectOrderState, the last query of ListProjectGroups.  An editor   *)
(* that opens reads it beside the project; one that refreshes, after.      *)
LoadOrder(c) ==
  /\ "order" \in client[c].waits /\ Reading(c)
  /\ "public" \notin client[c].waits
  /\ client[c].saving = "refresh" => "project" \notin client[c].waits
  /\ client' = [client EXCEPT ![c].waits = @ \ {"order"},
                              ![c].saving = "no",
                              ![c].orderVersion = orderVersion]
  /\ UNCHANGED <<rows, orderVersion>>

(* A read fails: a screen that opens shows its blank form, one that        *)
(* refreshes keeps what it has.                                            *)
LoadFails(c) ==
  /\ client[c].waits # {} /\ Reading(c)
  /\ client' = [client EXCEPT ![c] =
       IF @.saving = "refresh" THEN [@ EXCEPT !.waits = {}, !.saving = "no"]
                               ELSE Blank(@.mode, @.project)]
  /\ UNCHANGED <<rows, orderVersion>>

----------------------------------------------------------------------------
(* Creating and saving one project.                                        *)

(* The INSERT of CreateProject.                                            *)
Create(c, p) ==
  /\ Quiet(c)
  /\ rows[p].status = "absent"
  /\ \E name \in NameOnly :
       /\ rows' = [rows EXCEPT ![p] = [status |-> "hidden", sort |-> 0,
                                       version |-> 1, content |-> name]]
       /\ client' = [client EXCEPT ![c] =
            [Blank("editor", p) EXCEPT !.saving = "insert", !.content = name]]
  /\ UNCHANGED orderVersion

(* The GetProject after it answers.  A page that has a link or an image    *)
(* besides takes the version of the answer, updateVersionFromCreate, and   *)
(* saves its own fields next; another shows what was answered.  Last of    *)
(* all it reads the order version.                                         *)
AnswerCreate(c) ==
  LET row == rows[client[c].project] IN
  /\ client[c].saving = "insert"
  /\ \/ client' = [client EXCEPT ![c].saving = "create", ![c].waits = {"order"},
                                 ![c].version = row.version, ![c].basis = "create"]
     \/ client' = [client EXCEPT ![c].saving = "refresh", ![c].waits = {"order"},
                                 ![c].version = row.version, ![c].basis = "row",
                                 ![c].content = row.content]
  /\ UNCHANGED <<rows, orderVersion>>

(* That read fails, or the answer is lost: the page is still that of a new *)
(* project, although there is one.                                         *)
LoseCreateAnswer(c) ==
  /\ client[c].saving = "insert"
  /\ client' = [client EXCEPT ![c] = Blank("closed", client[c].project)]
  /\ UNCHANGED <<rows, orderVersion>>

(* Service.Update up to its UPDATE: the version and, for a project that    *)
(* was public when it was read, the repository are checked.                *)
BeginUpdate(c, content) ==
  LET row == rows[client[c].project] IN
  /\ \/ Quiet(c)
     \/ client[c].saving = "create" /\ content \notin NameOnly
  /\ client[c].mode = "editor"
  /\ row.version = client[c].version
  /\ row.status = "public" => content \in Verified
  /\ client' = [client EXCEPT ![c].saving = "check", ![c].draft = content]
  /\ UNCHANGED <<rows, orderVersion>>

(* A wrong WriteUpdate: WHERE id = ? alone.                                *)
WriteUnchecked(c) ==
  LET p == client[c].project IN
  /\ client[c].saving = "check"
  /\ rows[p].version < MaxVersion
  /\ rows' = [rows EXCEPT ![p].content = client[c].draft, ![p].version = @ + 1]
  /\ client' = [client EXCEPT ![c].saving = "reread"]
  /\ UNCHANGED orderVersion

(* UPDATE projects ... WHERE id = ? AND version = ?                        *)
WriteUpdate(c) ==
  LET p == client[c].project IN
  /\ client[c].saving = "check"
  /\ rows[p].version = client[c].version
  /\ rows[p].version < MaxVersion
  /\ rows' = [rows EXCEPT ![p].content = client[c].draft, ![p].version = @ + 1]
  /\ client' = [client EXCEPT ![c].saving = "reread"]
  /\ UNCHANGED orderVersion

(* The row changed since it was checked, or the database failed; or a new  *)
(* project does not get through the checks.  The form and its version stay *)
(* as they are, and nothing more is read.                                  *)
RejectUpdate(c) ==
  /\ client[c].saving \in {"create", "check"}
  /\ client' = [client EXCEPT ![c].saving = "no", ![c].waits = {}]
  /\ UNCHANGED <<rows, orderVersion>>

AfterUpdate(c) == IF client[c].waits = {} THEN "no" ELSE "refresh"

(* A wrong AnswerUpdate: the page keeps its form and takes the version.    *)
AdoptVersion(c) ==
  /\ client[c].saving = "reread"
  /\ client' = [client EXCEPT ![c].saving = AfterUpdate(c), ![c].basis = "row",
                              ![c].version = rows[client[c].project].version]
  /\ UNCHANGED <<rows, orderVersion>>

(* The GetProject after the UPDATE; the page shows whatever it returns.    *)
AnswerUpdate(c) ==
  LET row == rows[client[c].project] IN
  /\ client[c].saving = "reread"
  /\ client' = [client EXCEPT ![c].saving = AfterUpdate(c), ![c].version = row.version,
                              ![c].content = row.content, ![c].basis = "row"]
  /\ UNCHANGED <<rows, orderVersion>>

(* That read fails, or the answer is lost, though the save is committed.   *)
LoseUpdateAnswer(c) ==
  /\ client[c].saving = "reread"
  /\ client' = [client EXCEPT ![c].saving = "no", ![c].waits = {}]
  /\ UNCHANGED <<rows, orderVersion>>

----------------------------------------------------------------------------
(* The three transactions.  Each may commit without its answer arriving.   *)

Current(c) ==
  /\ client[c].orderVersion = orderVersion
  /\ orderVersion < MaxOrder

(* A wrong CurrentProject: the version the tab sends is not compared.      *)
AnyProjectVersion(c) ==
  /\ client[c].mode = "editor"
  /\ rows[client[c].project].version < MaxVersion

CurrentProject(c) ==
  LET row == rows[client[c].project] IN
  /\ client[c].mode = "editor"
  /\ row.version = client[c].version
  /\ row.version < MaxVersion

Publish(c, content) ==
  LET p == client[c].project IN
  /\ Quiet(c) /\ Current(c) /\ CurrentProject(c)
  /\ content \in Verified
  /\ rows[p].status = "hidden"
  /\ rows' = [rows EXCEPT ![p] = [status |-> "public", sort |-> NextSort,
                                  version |-> @.version + 1, content |-> content]]
  /\ orderVersion' = orderVersion + 1
  /\ \/ client' = [client EXCEPT ![c].version = @ + 1, ![c].content = content,
                                 ![c].basis = "row", ![c].waits = {"order"},
                                 ![c].saving = "refresh"]
     \/ UNCHANGED client

Hide(c) ==
  LET p      == client[c].project
      rest   == Public \ {p}
      hidden == [rows EXCEPT ![p].status = "hidden", ![p].version = @ + 1] IN
  /\ Quiet(c) /\ Current(c) /\ CurrentProject(c)
  /\ rows[p].status = "public"
  /\ Rewritable(Places(rest))
  /\ rows' = Reposition(hidden, Places(rest))
  /\ orderVersion' = orderVersion + 1
  /\ \/ client' = [client EXCEPT ![c].waits = {"project", "order"},
                                 ![c].saving = "refresh"]
     \/ UNCHANGED client

(* A wrong Reorder: the order version stays.                               *)
ReorderSilently(c, place) ==
  /\ Quiet(c) /\ Current(c) /\ client[c].mode = "list"
  /\ place # client[c].list
  /\ Placed(place) = Public
  /\ Rewritable(place)
  /\ rows' = Reposition(rows, place)
  /\ client' = [client EXCEPT ![c].list = place]
  /\ UNCHANGED orderVersion

(* place is the order the administrator arranged on the list screen.       *)
Reorder(c, place) ==
  /\ Quiet(c) /\ Current(c) /\ client[c].mode = "list"
  /\ place # client[c].list
  /\ Placed(place) = Public
  /\ Rewritable(place)
  /\ rows' = Reposition(rows, place)
  /\ orderVersion' = orderVersion + 1
  /\ \/ client' = [client EXCEPT ![c].orderVersion = @ + 1, ![c].list = place]
     \/ UNCHANGED client

Arrangements(c) ==
  LET S == Placed(client[c].list)
      n == Cardinality(S) IN
  {place \in [Project -> 0 .. n] :
     /\ Placed(place) = S
     /\ \A p, q \in S : place[p] = place[q] => p = q}

Next ==
  \E c \in Client :
    \/ OpenList(c) \/ LoadPublic(c) \/ LoadProject(c) \/ LoadOrder(c) \/ LoadFails(c)
    \/ \E p \in Project : OpenEditor(c, p) \/ Create(c, p)
    \/ AnswerCreate(c) \/ LoseCreateAnswer(c)
    \/ \E content \in Content : BeginUpdate(c, content) \/ Publish(c, content)
    \/ WriteUpdate(c) \/ RejectUpdate(c) \/ AnswerUpdate(c) \/ LoseUpdateAnswer(c)
    \/ Hide(c)
    \/ \E place \in Arrangements(c) : Reorder(c, place)

Spec == Init /\ [][Next]_vars

----------------------------------------------------------------------------
(* Properties.                                                             *)

(* The public projects hold exactly the places 1 .. n: compaction after a  *)
(* hide, appending and rewriting never leave a gap or a shared place.      *)
OrderIsDense ==
  /\ \A p \in Public : rows[p].sort \in 1 .. Cardinality(Public)
  /\ \A p, q \in Public : rows[p].sort = rows[q].sort => p = q

(* A public project always links to a repository GitHub has confirmed:     *)
(* saving reads the status, asks GitHub and writes in separate steps, and  *)
(* only the version keeps a project that became public in between safe.    *)
PublicLinkVerified ==
  \A p \in Public : rows[p].content \in Verified

(* A form never knows a version the row has not reached, and one that took *)
(* its version from a row shows, at the row's version, the row's content,  *)
(* however its reads, answers and refreshes interleaved with other tabs.   *)
ScreenTruthful ==
  \A c \in Client : \A p \in Project :
    Shows(c, p) =>
      /\ client[c].version <= rows[p].version
      /\ client[c].basis = "row" /\ client[c].version = rows[p].version =>
           client[c].content = rows[p].content

(* The step by which a tab replaces the content of its project.            *)
Replaces(c) ==
  \/ WriteUpdate(c)
  \/ \E content \in Content : Publish(c, content)

(* What an edit may overwrite unseen (ADR-0015 says nothing): a tab that   *)
(* replaces the content of a project was given that very content.  There   *)
(* are two exceptions.  A form that failed to load replaces at most the    *)
(* name a project was created with, before anyone saved it; and the page   *)
(* that created a project replaces what others saved before its answer.    *)
NoLostEdit ==
  [][\A c \in Client :
       Replaces(c) =>
         LET old == rows[client[c].project].content IN
         \/ client[c].content = old
         \/ client[c].basis = "blank" /\ old \in NameOnly
         \/ client[c].basis = "create"]_vars

(* The order version names the order: two equal versions seen by two tabs  *)
(* mean the same public list, whatever happened in between.                *)
OrderVersionNamesOrder ==
  [][orderVersion' = orderVersion =>
       /\ Public' = Public
       /\ \A p \in Public : rows'[p].sort = rows[p].sort]_vars

(* Publishing and hiding never rearrange the others, and a newly published *)
(* project comes last.  (A rearrangement keeps the set of public projects.)*)
OthersKeepPlace ==
  [][Public' # Public =>
       \A p, q \in Public' :
         rows'[p].sort < rows'[q].sort =>
           \/ p \in Public /\ q \in Public /\ rows[p].sort < rows[q].sort
           \/ q \notin Public]_vars

(* What the documents promise and the code does not; of the three, a run   *)
(* checks the last, and README tells how to see the others violated.       *)

(* A form whose load failed overwrites nothing (ADR-0015): its version 1   *)
(* is only a default, which is also the version of a new project.          *)
BlankReplacesNothing ==
  [][\A c \in Client :
       LET p == client[c].project IN
       client[c].basis = "blank" /\ Replaces(c) =>
         rows'[p].content = rows[p].content]_vars

(* The page that creates a project and then saves the rest of its form     *)
(* replaces only what it created, not what another tab has saved meanwhile *)
(* (ADR-0015).                                                             *)
CreatorReplacesOwn ==
  [][\A c \in Client :
       LET p == client[c].project IN
       client[c].basis = "create" /\ Replaces(c) =>
         \/ rows[p].content = client[c].content
         \/ rows'[p].content = rows[p].content]_vars

(* A tab that holds the current versions of a public project and of the    *)
(* order can hide it (the administrator can hide projects, and hiding      *)
(* takes effect at once): the compaction never stands in the way.          *)
CurrentHideSucceeds ==
  \A c \in Client :
    ( Quiet(c) /\ Current(c) /\ CurrentProject(c)
      /\ rows[client[c].project].status = "public" ) => ENABLED Hide(c)
=============================================================================
