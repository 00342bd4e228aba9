----------------------------- MODULE PublicSite -----------------------------
(***************************************************************************)
(* The public pages of internal/publicsite, as HTML and as JSON: what a    *)
(* request reads, statement by statement, while the administrator changes  *)
(* articles and projects.  Those changes are the whole operations Articles *)
(* and ProjectOrder are about; here each of them is one step.  Requests    *)
(* only read, so one visitor stands for any number of them.                *)
(***************************************************************************)
EXTENDS Renderer

CONSTANTS
  Article, Project,
  Document,         \* documents authors write
  ArticlesPerPage,  \* articlesPerPage
  HomeLimit,        \* articles, and projects, of the home page
  MaxPage,          \* bound: pages asked for
  MaxBorn           \* bound: moments of first publication

ASSUME SiteAssumption ==
  /\ ArticlesPerPage \in Nat \ {0} /\ HomeLimit \in Nat \ {0}
  /\ MaxPage \in Nat /\ MaxBorn \in Nat /\ IsFiniteSet(Article)

ASSUME DocumentAssumption == Document \subseteq Seq(Node)

VARIABLES
  article,    \* table articles, with the article_media rows of each
  project,    \* ids of the public projects, by their places
  request,    \* what the visitor asked for last
  walk        \* the visitor's way from the first page of the list onwards,
              \* until an article is withdrawn

vars == <<article, project, request, walk>>

(* born is first_published_at and stands for the public ULID given with    *)
(* it; 0 is NULL.                                                          *)
Unborn == [status |-> "draft", born |-> 0, doc |-> <<>>, refs |-> {}]

(* step is a statement to come, or how the request ended; quiet: nothing   *)
(* has changed since the request began.                                    *)
Asked(of, step, page) ==
  [of |-> of, step |-> step, page |-> page, total |-> 0, items |-> <<>>,
   projects |-> <<>>, toc |-> <<>>, hasNext |-> FALSE, quiet |-> TRUE]

NoWalk == [on |-> FALSE, seen |-> {}, kept |-> {}, torn |-> FALSE]

Init ==
  /\ article = [a \in Article |-> Unborn]
  /\ project = <<>>
  /\ request = Asked("nothing", "missing", 1)
  /\ walk = NoWalk

----------------------------------------------------------------------------
(* What the administrator does.  An answer already given is forgotten, but *)
(* for the link to the next page.                                          *)
Asking == request.step \in {"count", "list", "newest", "featured", "articleCount",
                            "projectCount", "projects", "detail"}

Disturbed ==
  request' = IF Asking THEN [request EXCEPT !.quiet = FALSE]
             ELSE [Asked(request.of, request.step, request.page) EXCEPT
                     !.quiet = FALSE, !.hasNext = request.hasNext]

Assets(doc) == {MediaReferences(doc)[i].asset : i \in DOMAIN MediaReferences(doc)}

(* A wrong Derived: references are added, and none is ever removed.        *)
DerivedInAddition(a, doc) == [article[a] EXCEPT !.doc = doc, !.refs = @ \cup Assets(doc)]

(* The row with everything derived from the document, and its article_media*)
(* rows, replaced in one transaction.                                      *)
Derived(a, doc) == [article[a] EXCEPT !.doc = doc, !.refs = Assets(doc)]

Save(a, doc) ==
  /\ Renders(doc)
  /\ article[a].status = "published" => doc # <<>>
  /\ article' = [article EXCEPT ![a] = Derived(a, doc)]
  /\ Disturbed
  /\ UNCHANGED <<project, walk>>

(* The clock is read before the row is written, and may be set back: a new *)
(* article need not be the newest.                                         *)
Publish(a, doc) ==
  /\ doc # <<>> /\ Renders(doc)
  /\ \E born \in 1 .. MaxBorn :
       /\ IF article[a].born # 0 THEN born = article[a].born
          ELSE \A b \in Article : article[b].born # born
       /\ article' = [article EXCEPT ![a] =
            [Derived(a, doc) EXCEPT !.status = "published", !.born = born]]
  /\ Disturbed
  /\ walk' = [walk EXCEPT !.torn = @ \/ (walk.on /\ request.step = "list")]
  /\ UNCHANGED project

Withdraw(a) ==
  /\ article[a].status = "published"
  /\ article' = [article EXCEPT ![a].status = "draft"]
  /\ Disturbed
  /\ walk' = NoWalk
  /\ UNCHANGED project

(* Publishing, hiding or arranging projects.                               *)
Arrange(order) ==
  /\ order # project
  /\ project' = order
  /\ Disturbed
  /\ UNCHANGED <<article, walk>>

----------------------------------------------------------------------------
(* The statements.                                                         *)
Published == {a \in Article : article[a].status = "published"}

CountPublished == Cardinality(Published)

(* ORDER BY first_published_at DESC.                                       *)
PublishedOrder ==
  CHOOSE order \in [1 .. CountPublished -> Published] :
    \A i, j \in DOMAIN order : i < j => article[order[i]].born > article[order[j]].born

Slice(seq, limit, offset) ==
  SubSeq(seq, offset + 1, IF offset + limit < Len(seq) THEN offset + limit ELSE Len(seq))

ListPublished(limit, offset) == Slice(PublishedOrder, limit, offset)
GetPublishedByULID(address) == {a \in Published : article[a].born = address}

ListPublicProjects == project
ListFeatured == Slice(ListPublicProjects, HomeLimit, 0)
CountPublicProjects == Len(project)

----------------------------------------------------------------------------
Ask(of, step, page) ==
  /\ ~ Asking
  /\ request' = Asked(of, step, page)
  /\ UNCHANGED <<article, project>>

At(step) == request.step = step

Go(reads) ==
  /\ request' = reads
  /\ UNCHANGED <<article, project>>

(* A wrong PublishedTotalPages: an unfinished last page is not counted.    *)
TotalPagesRoundedDown(total) ==
  IF total < ArticlesPerPage THEN 1 ELSE total \div ArticlesPerPage

PublishedTotalPages(total) ==
  IF total <= 0 THEN 1 ELSE (total - 1) \div ArticlesPerPage + 1

(* articles and publicArticlesAPI; the first page begins a walk.           *)
AskArticles(page) ==
  /\ Ask("articles", "count", page)
  /\ walk' = IF page = 1 THEN [NoWalk EXCEPT !.on = TRUE, !.kept = Published] ELSE NoWalk

(* The visitor follows the link to the next page.                          *)
AskNext ==
  /\ At("answered") /\ request.of = "articles" /\ request.hasNext
  /\ request.page < MaxPage
  /\ Ask("articles", "count", request.page + 1)
  /\ UNCHANGED walk

(* parseArticlePage: any other query.                                      *)
RefuseArticles ==
  /\ ~ Asking
  /\ request' = Asked("nothing", "missing", 1)
  /\ walk' = NoWalk
  /\ UNCHANGED <<article, project>>

Count ==
  /\ At("count")
  /\ Go(IF request.page > PublishedTotalPages(CountPublished)
        THEN [request EXCEPT !.step = "missing"]
        ELSE [request EXCEPT !.step = "list", !.total = CountPublished])
  /\ UNCHANGED walk

Shown(items) ==
  /\ Go([request EXCEPT !.step = "answered", !.items = items,
                        !.hasNext = request.page < PublishedTotalPages(request.total)])
  /\ walk' = [walk EXCEPT !.seen = IF walk.on THEN @ \cup {items[i] : i \in DOMAIN items} ELSE @]

(* A wrong List: pages count from zero.                                    *)
ListShifted ==
  /\ At("list")
  /\ Shown(ListPublished(ArticlesPerPage, request.page * ArticlesPerPage))

List ==
  /\ At("list")
  /\ Shown(ListPublished(ArticlesPerPage, (request.page - 1) * ArticlesPerPage))

(* home and homeAPI.                                                       *)
AskHome == Ask("home", "newest", 1) /\ walk' = NoWalk

HomeArticles ==
  /\ At("newest")
  /\ Go([request EXCEPT !.step = "featured", !.items = ListPublished(HomeLimit, 0)])
  /\ UNCHANGED walk

HomeProjects ==
  /\ At("featured")
  /\ Go([request EXCEPT !.step = "answered", !.projects = ListFeatured])
  /\ UNCHANGED walk

(* about and publicAboutAPI.                                               *)
AskAbout == Ask("about", "articleCount", 1) /\ walk' = NoWalk

AboutArticles ==
  /\ At("articleCount")
  /\ Go([request EXCEPT !.step = "projectCount", !.total = CountPublished])
  /\ UNCHANGED walk

AboutProjects ==
  /\ At("projectCount")
  /\ Go([request EXCEPT !.step = "answered", !.page = CountPublicProjects])
  /\ UNCHANGED walk

(* projects and publicProjectsAPI.                                         *)
AskProjects == Ask("projects", "projects", 1) /\ walk' = NoWalk

Projects ==
  /\ At("projects")
  /\ Go([request EXCEPT !.step = "answered", !.projects = ListPublicProjects])
  /\ UNCHANGED walk

(* articleDetail and publicArticleDetailAPI: by public ULID.               *)
AskDetail(address) == Ask("detail", "detail", address) /\ walk' = NoWalk

Detail ==
  /\ At("detail")
  /\ IF GetPublishedByULID(request.page) = {}
     THEN Go([request EXCEPT !.step = "missing"])
     ELSE \E a \in GetPublishedByULID(request.page) :
            Go([request EXCEPT !.step = "answered", !.items = <<a>>, !.toc = TOC(article[a].doc)])
  /\ UNCHANGED walk

(* A statement fails: the error page, or 503.                              *)
ReadFails ==
  /\ Asking
  /\ Go([request EXCEPT !.step = "unavailable"])
  /\ UNCHANGED walk

Orders == {order \in UNION {[1 .. n -> Project] : n \in 0 .. Cardinality(Project)} :
             \A i, j \in DOMAIN order : order[i] = order[j] => i = j}

Next ==
  \/ \E a \in Article :
       \/ Withdraw(a)
       \/ \E doc \in Document : Save(a, doc) \/ Publish(a, doc)
  \/ \E order \in Orders : Arrange(order)
  \/ \E page \in 1 .. MaxPage : AskArticles(page)
  \/ AskNext \/ RefuseArticles \/ Count \/ List
  \/ AskHome \/ HomeArticles \/ HomeProjects
  \/ AskAbout \/ AboutArticles \/ AboutProjects
  \/ AskProjects \/ Projects
  \/ \E address \in 1 .. MaxBorn : AskDetail(address)
  \/ Detail \/ ReadFails

Spec == Init /\ [][Next]_vars

----------------------------------------------------------------------------
TypeOK ==
  /\ \A a \in Article :
       /\ article[a].status \in {"draft", "published"}
       /\ article[a].born \in 0 .. MaxBorn
       /\ article[a].doc \in Document \cup {<<>>} /\ article[a].refs \subseteq Asset
  /\ project \in Orders
  /\ request.of \in {"nothing", "articles", "home", "about", "projects", "detail"}
  /\ Asking \/ request.step \in {"answered", "missing", "unavailable"}
  /\ {request.page, request.total, Len(request.items)} \subseteq Nat
  /\ {request.quiet, request.hasNext} \subseteq BOOLEAN
  /\ {walk.on, walk.torn} \subseteq BOOLEAN
  /\ walk.seen \cup walk.kept \subseteq Article

Answered(of) == At("answered") /\ request.of = of
Shows(a) == \E i \in DOMAIN request.items : request.items[i] = a
Newer(a) == {b \in Published : article[b].born > article[a].born}

(* A page of the list: exactly the articles whose number of newer ones     *)
(* says so, newest first; a next page exactly when older ones remain; and  *)
(* no page only if there is nothing to show on it.                         *)
ListIsExact ==
  /\ Answered("articles") =>
       /\ \A a \in Article :
            Shows(a) <=> /\ a \in Published
                         /\ Cardinality(Newer(a)) \div ArticlesPerPage = request.page - 1
       /\ \A i, j \in DOMAIN request.items :
            i < j => request.items[i] \in Newer(request.items[j])
       /\ request.hasNext <=>
            \E a \in Published : Cardinality(Newer(a)) >= request.page * ArticlesPerPage
  /\ request.of = "articles" /\ At("missing") =>
       request.page > 1 /\ CountPublished <= (request.page - 1) * ArticlesPerPage

HomeIsExact ==
  Answered("home") =>
    /\ \A a \in Article : Shows(a) <=> a \in Published /\ Cardinality(Newer(a)) < HomeLimit
    /\ \A i \in DOMAIN project : i <= HomeLimit => request.projects[i] = project[i]
    /\ Len(request.projects) <= HomeLimit

DetailIsExact ==
  /\ Answered("detail") =>
       \E a \in Published : request.items = <<a>> /\ article[a].born = request.page
  /\ request.of = "detail" /\ At("missing") =>
       \A a \in Published : article[a].born # request.page

(* An answer put together by several statements, each of its own, is the   *)
(* exact answer when nothing changed between them: no paging, limit or     *)
(* order loses an article or shows one twice.                              *)
QuietAnswersAreExact ==
  request.quiet =>
    /\ ListIsExact /\ HomeIsExact /\ DetailIsExact
    /\ Answered("about") => request.total = CountPublished /\ request.page = Len(project)
    /\ Answered("projects") => request.projects = project

(* Whoever follows the links from the first page to the last has seen every*)
(* article that stayed published all along, and no link led nowhere,       *)
(* whatever was published meanwhile.  Two things alone can break this: a   *)
(* withdrawal, which moves older articles to an earlier page; and, for the *)
(* last page, a publication that falls between the count and the list of   *)
(* one request, which pushes an article off the page while the total that  *)
(* decides about a next page is the old one.                               *)
WalkMissesNothing ==
  walk.on =>
    /\ Answered("articles") /\ ~ request.hasNext /\ ~ walk.torn => walk.kept \subseteq walk.seen
    /\ ~ At("missing")

(* The images a browser asks for when it shows an article are the images  *)
(* the article makes public, no fewer and no more, whatever it referred to *)
(* before; and every heading of its table of contents can be reached: one  *)
(* entry for each, no two with the same id.                                *)
DerivedFitsDocument ==
  \A a \in Article :
    LET doc == article[a].doc IN
    /\ article[a].refs = HTMLImages(doc)
    /\ Len(TOC(doc)) = Cardinality(Headings(doc))
    /\ \A i, j \in DOMAIN TOC(doc) : TOC(doc)[i].id = TOC(doc)[j].id => i = j
=============================================================================
