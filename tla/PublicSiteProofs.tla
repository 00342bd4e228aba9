-------------------------- MODULE PublicSiteProofs --------------------------
(***************************************************************************)
(* Proofs about PublicSite, for any number of articles, any page size and  *)
(* any documents.  The list has every published article at its place, the  *)
(* number of newer ones (PlacesInOrder), so a page is an interval of       *)
(* places; and while a visitor walks, places only grow.  The last part is  *)
(* about Renderer and what of it is stored.                                *)
(***************************************************************************)
EXTENDS PublicSite, FiniteSetTheorems, TLAPS

----------------------------------------------------------------------------
(* Articles.  No two were born at the same moment.                         *)

IsRow(row) ==
  row = [status |-> row.status, born |-> row.born, doc |-> row.doc, refs |-> row.refs]

RowOK(a) ==
  /\ IsRow(article[a])
  /\ article[a].born \in Nat
  /\ article[a].status = "published" => article[a].born # 0

RowsOK ==
  /\ DOMAIN article = Article
  /\ \A a \in Article : RowOK(a)
  /\ \A a, b \in Article : article[a].born # 0 /\ article[a].born = article[b].born => a = b

LEMMA PublishedFinite ==
  /\ IsFiniteSet(Published) /\ Published \subseteq Article /\ CountPublished \in Nat
  /\ \A a : /\ IsFiniteSet(Newer(a)) /\ Newer(a) \subseteq Published
            /\ Cardinality(Newer(a)) \in Nat /\ Cardinality(Newer(a)) <= CountPublished
<1>1. IsFiniteSet(Published) /\ Published \subseteq Article /\ CountPublished \in Nat
  BY SiteAssumption, FS_Subset, FS_CardinalityType DEF Published, CountPublished
<1>2. ASSUME NEW a
      PROVE  /\ IsFiniteSet(Newer(a)) /\ Newer(a) \subseteq Published
             /\ Cardinality(Newer(a)) \in Nat /\ Cardinality(Newer(a)) <= CountPublished
  <2>1. Newer(a) \subseteq Published
    BY DEF Newer
  <2> QED BY <1>1, <2>1, FS_Subset, FS_CardinalityType DEF CountPublished
<1> QED BY <1>1, <1>2

(* The newer of two has fewer newer ones.                                  *)
LEMMA NewerIsBefore ==
  ASSUME RowsOK, NEW a \in Published, NEW b \in Published, article[a].born > article[b].born
  PROVE  Cardinality(Newer(a)) < Cardinality(Newer(b))
<1>1. a \in Article /\ b \in Article /\ article[a].born \in Nat /\ article[b].born \in Nat
  BY DEF Published, RowsOK, RowOK
<1>2. \A d \in Published : article[d].born \in Nat
  BY DEF Published, RowsOK, RowOK
<1>3. Newer(a) \subseteq Newer(b) /\ a \in Newer(b) /\ a \notin Newer(a)
  BY <1>1, <1>2 DEF Newer
<1>4. /\ IsFiniteSet(Newer(b))
      /\ Cardinality(Newer(a)) \in Nat /\ Cardinality(Newer(b)) \in Nat
  BY PublishedFinite
<1>5. Newer(a) # Newer(b)
  BY <1>3
<1> QED BY <1>3, <1>4, <1>5, FS_Subset

LEMMA BornApart ==
  ASSUME RowsOK, NEW a \in Published, NEW b \in Published, a # b
  PROVE  article[a].born > article[b].born \/ article[b].born > article[a].born
<1>1. a \in Article /\ b \in Article /\ article[a].born # 0
  BY DEF Published, RowsOK, RowOK
<1>2. article[a].born \in Nat /\ article[b].born \in Nat
  BY <1>1 DEF RowsOK, RowOK
<1>3. article[a].born # article[b].born
  BY <1>1 DEF RowsOK
<1> QED BY <1>2, <1>3

(* Sorted.                                                                 *)
NewestFirst(order) ==
  \A i, j \in DOMAIN order : i < j => article[order[i]].born > article[order[j]].born

(* There is an order from the newest to the oldest: an article's place is  *)
(* given by the number of newer ones, and no two have the same.            *)
LEMMA OrderExists ==
  ASSUME RowsOK
  PROVE  \E order \in [1 .. CountPublished -> Published] : NewestFirst(order)
<1> DEFINE n == CountPublished
           place == [a \in Published |-> Cardinality(Newer(a)) + 1]
<1>1. n \in Nat /\ IsFiniteSet(Published) /\ n = Cardinality(Published)
  BY PublishedFinite DEF CountPublished
<1>2. place \in [Published -> 1 .. n]
  <2> SUFFICES ASSUME NEW a \in Published PROVE Cardinality(Newer(a)) + 1 \in 1 .. n
    OBVIOUS
  <2>1. /\ Newer(a) \subseteq Published /\ Newer(a) # Published
        /\ Cardinality(Newer(a)) \in Nat
    <3>1. article[a].born \in Nat
      BY DEF Published, RowsOK, RowOK
    <3>2. a \notin Newer(a)
      BY <3>1 DEF Newer
    <3> QED BY <3>2, PublishedFinite
  <2>2. Cardinality(Newer(a)) < n
    BY <1>1, <2>1, FS_Subset
  <2> QED BY <1>1, <2>1, <2>2
<1>3. \A a, b \in Published : place[a] = place[b] => a = b
  <2> SUFFICES ASSUME NEW a \in Published, NEW b \in Published, a # b PROVE place[a] # place[b]
    OBVIOUS
  <2>1. Cardinality(Newer(a)) \in Nat /\ Cardinality(Newer(b)) \in Nat
    BY PublishedFinite
  <2>2. Cardinality(Newer(a)) # Cardinality(Newer(b))
    BY <2>1, BornApart, NewerIsBefore
  <2> QED BY <2>1, <2>2
<1> HIDE DEF n, place
<1>4. IsFiniteSet(1 .. n) /\ Cardinality(1 .. n) = n
  BY <1>1, FS_Interval
<1>5. place \in Injection(Published, 1 .. n)
  BY <1>2, <1>3 DEF Injection, IsInjective
<1>6. place \in Surjection(Published, 1 .. n)
  BY <1>1, <1>4, <1>5, FS_Injection
<1>7. \A i \in 1 .. n : \E a \in Published : place[a] = i
  BY <1>6 DEF Surjection
<1> DEFINE order == [i \in 1 .. n |-> CHOOSE a \in Published : place[a] = i]
<1>8. order \in [1 .. n -> Published] /\ \A i \in 1 .. n : place[order[i]] = i
  BY <1>7
<1> HIDE DEF order
<1>9. NewestFirst(order)
  <2> SUFFICES ASSUME NEW i \in 1 .. n, NEW j \in 1 .. n, i < j
               PROVE  article[order[i]].born > article[order[j]].born
    BY <1>8 DEF NewestFirst
  <2>1. order[i] \in Published /\ order[j] \in Published /\ order[i] # order[j]
    BY <1>8
  <2>2. Cardinality(Newer(order[i])) < Cardinality(Newer(order[j]))
    <3>1. place[order[i]] = Cardinality(Newer(order[i])) + 1
          /\ place[order[j]] = Cardinality(Newer(order[j])) + 1
      BY <2>1 DEF place
    <3>2. Cardinality(Newer(order[i])) \in Nat /\ Cardinality(Newer(order[j])) \in Nat
      BY PublishedFinite
    <3> QED BY <1>8, <3>1, <3>2
  <2>3. ~ (article[order[j]].born > article[order[i]].born)
    <3>1. Cardinality(Newer(order[i])) \in Nat /\ Cardinality(Newer(order[j])) \in Nat
      BY PublishedFinite
    <3> QED BY <2>1, <2>2, <3>1, NewerIsBefore
  <2> QED BY <2>1, <2>3, BornApart
<1> QED BY <1>8, <1>9 DEF n

LEMMA OrderIsSorted ==
  ASSUME RowsOK
  PROVE  PublishedOrder \in [1 .. CountPublished -> Published] /\ NewestFirst(PublishedOrder)
BY OrderExists DEF PublishedOrder, NewestFirst

(* The article at place k has k - 1 newer ones, and every one has a place. *)
LEMMA PlacesInOrder ==
  ASSUME RowsOK
  PROVE  /\ \A k \in 1 .. CountPublished :
              /\ PublishedOrder[k] \in Published
              /\ Cardinality(Newer(PublishedOrder[k])) = k - 1
         /\ \A a \in Published : \E k \in 1 .. CountPublished : PublishedOrder[k] = a
<1> DEFINE n == CountPublished
           order == PublishedOrder
<1>1. n \in Nat /\ IsFiniteSet(Published) /\ n = Cardinality(Published)
  BY PublishedFinite DEF CountPublished
<1>2. order \in [1 .. n -> Published] /\ NewestFirst(order)
  BY OrderIsSorted
<1> HIDE DEF n, order
<1>3. \A i, j \in 1 .. n : i < j => order[i] \in Newer(order[j])
  BY <1>2 DEF NewestFirst, Newer
<1>4. \A i \in 1 .. n : article[order[i]].born \in Nat
  BY <1>2 DEF Published, RowsOK, RowOK
<1>5. \A i, j \in 1 .. n : order[i] \in Newer(order[j]) <=> i < j
  <2> SUFFICES ASSUME NEW i \in 1 .. n, NEW j \in 1 .. n, order[i] \in Newer(order[j]), ~ (i < j)
               PROVE  FALSE
    BY <1>3
  <2>1. article[order[i]].born > article[order[j]].born
    BY DEF Newer
  <2>2. CASE i = j
    BY <1>4, <2>1, <2>2
  <2>3. CASE j < i
    <3>1. article[order[j]].born > article[order[i]].born
      BY <1>3, <2>3 DEF Newer
    <3> QED BY <1>4, <2>1, <3>1
  <2> QED BY <2>2, <2>3
<1>6. \A i, j \in 1 .. n : order[i] = order[j] => i = j
  <2> SUFFICES ASSUME NEW i \in 1 .. n, NEW j \in 1 .. n, order[i] = order[j], i < j PROVE FALSE
    OBVIOUS
  <2> QED BY <1>5
<1>7. IsFiniteSet(1 .. n) /\ Cardinality(1 .. n) = n
  BY <1>1, FS_Interval
<1>8. order \in Surjection(1 .. n, Published)
  <2>1. order \in Injection(1 .. n, Published)
    BY <1>2, <1>6 DEF Injection, IsInjective
  <2> QED BY <1>1, <1>7, <2>1, FS_Injection
<1>9. \A a \in Published : \E k \in 1 .. n : order[k] = a
  BY <1>8 DEF Surjection
<1>10. ASSUME NEW k \in 1 .. n PROVE Cardinality(Newer(order[k])) = k - 1
  <2> DEFINE before == [i \in 1 .. k - 1 |-> order[i]]
  <2>1. before \in [1 .. k - 1 -> Newer(order[k])]
    BY <1>1, <1>3
  <2>2. \A i, j \in 1 .. k - 1 : before[i] = before[j] => i = j
    BY <1>1, <1>6
  <2>3. \A a \in Newer(order[k]) : \E i \in 1 .. k - 1 : before[i] = a
    <3> SUFFICES ASSUME NEW a \in Newer(order[k]) PROVE \E i \in 1 .. k - 1 : order[i] = a
      OBVIOUS
    <3>1. PICK i \in 1 .. n : order[i] = a
      BY <1>9 DEF Newer
    <3>2. i < k
      BY <1>5, <3>1
    <3> QED BY <3>1, <3>2
  <2> HIDE DEF before
  <2>4. before \in Bijection(1 .. k - 1, Newer(order[k]))
    BY <2>1, <2>2, <2>3 DEF Bijection, Injection, Surjection, IsInjective
  <2>5. IsFiniteSet(1 .. k - 1) /\ Cardinality(1 .. k - 1) = k - 1
    <3>1. 1 \in Int /\ k - 1 \in Int /\ k - 1 >= 0 /\ (k - 1) - 1 + 1 = k - 1
      BY <1>1
    <3> QED BY <3>1, FS_Interval
  <2> QED BY <2>4, <2>5, FS_Bijection DEF ExistsBijection
<1> QED BY <1>2, <1>9, <1>10 DEF n, order

(* What a statement with LIMIT and OFFSET returns: the places of an        *)
(* interval, newest first.                                                 *)
LEMMA ListedAre ==
  ASSUME RowsOK, NEW limit \in Nat, NEW offset \in Nat, offset <= CountPublished,
         NEW items, items = ListPublished(limit, offset)
  PROVE  /\ \A a \in Article :
              (\E i \in DOMAIN items : items[i] = a) <=>
                /\ a \in Published
                /\ offset <= Cardinality(Newer(a)) /\ Cardinality(Newer(a)) < offset + limit
         /\ \A i, j \in DOMAIN items : i < j => items[i] \in Newer(items[j])
<1> DEFINE n == CountPublished
           order == PublishedOrder
           last == IF offset + limit < n THEN offset + limit ELSE n
<1>1. n \in Nat /\ order \in [1 .. n -> Published] /\ NewestFirst(order)
  BY OrderIsSorted, PublishedFinite
<1>2. /\ \A k \in 1 .. n : order[k] \in Published /\ Cardinality(Newer(order[k])) = k - 1
      /\ \A a \in Published : \E k \in 1 .. n : order[k] = a
  BY PlacesInOrder
<1>3. items = SubSeq(order, offset + 1, last)
  <2>1. Len(order) = n
    BY <1>1
  <2> QED BY <2>1 DEF ListPublished, Slice
<1> HIDE DEF n, order
<1>4. /\ DOMAIN items = 1 .. last - offset
      /\ \A i \in 1 .. last - offset : items[i] = order[offset + i]
  BY <1>1, <1>3 DEF n
<1>5. last \in Nat /\ offset <= last /\ last <= n
  BY <1>1 DEF n
<1>6. \A i \in 1 .. last - offset : offset + i \in 1 .. n
  BY <1>1, <1>5
<1>7. ASSUME NEW a \in Article
      PROVE  (\E i \in DOMAIN items : items[i] = a) <=>
               /\ a \in Published
               /\ offset <= Cardinality(Newer(a)) /\ Cardinality(Newer(a)) < offset + limit
  <2>1. ASSUME NEW i \in 1 .. last - offset, items[i] = a
        PROVE  /\ a \in Published
               /\ offset <= Cardinality(Newer(a)) /\ Cardinality(Newer(a)) < offset + limit
    <3>1. a = order[offset + i] /\ offset + i \in 1 .. n
      BY <1>4, <1>6, <2>1
    <3>2. Cardinality(Newer(a)) = offset + i - 1
      BY <1>2, <3>1
    <3>3. i <= limit
      BY <1>1
    <3> QED BY <1>2, <3>1, <3>2, <3>3
  <2>2. ASSUME a \in Published,
               offset <= Cardinality(Newer(a)), Cardinality(Newer(a)) < offset + limit
        PROVE  \E i \in 1 .. last - offset : items[i] = a
    <3>1. PICK k \in 1 .. n : order[k] = a
      BY <1>2, <2>2
    <3>2. Cardinality(Newer(a)) = k - 1
      BY <1>2, <3>1
    <3>3. k - offset \in 1 .. last - offset
      BY <1>1, <2>2, <3>2
    <3>4. items[k - offset] = order[offset + (k - offset)]
      BY <1>4, <3>3
    <3>5. offset + (k - offset) = k
      BY <1>1
    <3> QED BY <3>1, <3>3, <3>4, <3>5
  <2> HIDE DEF last
  <2> QED BY <1>4, <2>1, <2>2
<1>8. ASSUME NEW i \in DOMAIN items, NEW j \in DOMAIN items, i < j
      PROVE  items[i] \in Newer(items[j])
  <2> HIDE DEF last
  <2>0. i \in 1 .. last - offset /\ j \in 1 .. last - offset /\ i \in Int /\ j \in Int
    BY <1>4, <1>5
  <2>1. /\ items[i] = order[offset + i] /\ items[j] = order[offset + j]
        /\ offset + i \in 1 .. n /\ offset + j \in 1 .. n /\ offset + i < offset + j
    BY <1>4, <1>6, <1>8, <2>0
  <2>2. article[items[i]].born > article[items[j]].born /\ items[i] \in Published
    BY <1>1, <1>2, <2>1 DEF NewestFirst
  <2> QED BY <2>2 DEF Newer
<1> QED BY <1>7, <1>8

----------------------------------------------------------------------------
(* Pages.                                                                  *)

LEMMA Products ==
  ASSUME NEW P \in Nat \ {0}, NEW x \in Int, NEW y \in Int
  PROVE  /\ x * P \in Int
         /\ x < y <=> x * P < y * P
         /\ (x + 1) * P = x * P + P
         /\ x >= 0 => x * P >= 0
<1>1. ASSUME NEW u \in Int, NEW v \in Int, u < v PROVE u * P < v * P
  <2>1. PICK d \in Nat \ {0} : v = u + d
    <3>1. v - u \in Nat \ {0} /\ v = u + (v - u)
      BY <1>1
    <3> QED BY <3>1
  <2>2. v * P = u * P + d * P /\ d * P > 0
    BY <2>1
  <2> QED BY <2>2
<1>2. x * P \in Int /\ y * P \in Int /\ (x + 1) * P = x * P + P
  OBVIOUS
<1>3. x < y <=> x * P < y * P
  <2>1. CASE x < y
    BY <1>1, <2>1
  <2>2. CASE x = y
    BY <2>2
  <2>3. CASE y < x
    BY <1>1, <1>2, <2>3
  <2> QED BY <2>1, <2>2, <2>3
<1>4. x >= 0 => x * P >= 0
  OBVIOUS
<1> QED BY <1>2, <1>3, <1>4

LEMMA Quotients ==
  ASSUME NEW P \in Nat \ {0}, NEW m \in Nat
  PROVE  m \div P \in Nat /\ (m \div P) * P <= m /\ m < (m \div P) * P + P
  OBVIOUS

(* The number of an article's page is what its place says.                 *)
LEMMA PageOfPlace ==
  ASSUME NEW m \in Nat, NEW page \in Nat \ {0}
  PROVE  m \div ArticlesPerPage = page - 1 <=>
           (page - 1) * ArticlesPerPage <= m /\ m < page * ArticlesPerPage
<1> DEFINE P == ArticlesPerPage
           q == m \div P
<1>0. P \in Nat \ {0}
  BY SiteAssumption
<1>1. q \in Nat /\ q * P <= m /\ m < q * P + P
  BY <1>0, Quotients
<1> HIDE DEF P, q
<1>2. (q + 1) * P = q * P + P /\ q * P \in Int
  BY <1>0, <1>1, Products
<1>3. page * P = ((page - 1) + 1) * P /\ page - 1 \in Int /\ page \in Int
  OBVIOUS
<1>4. page * P = (page - 1) * P + P /\ (page - 1) * P \in Int
  BY <1>0, <1>3, Products
<1> DEFINE Goal == q = page - 1 <=> (page - 1) * P <= m /\ m < page * P
<1>5. ASSUME q = page - 1 PROVE Goal
  BY <1>1, <1>4, <1>5
<1>6. ASSUME q < page - 1 PROVE Goal
  <2>1. q + 1 \in Int /\ ~ (page - 1 < q + 1)
    BY <1>1, <1>3, <1>6
  <2>2. ~ ((page - 1) * P < (q + 1) * P)
    BY <1>0, <1>3, <2>1, Products
  <2> QED BY <1>0, <1>1, <1>2, <1>4, <1>6, <2>2
<1>7. ASSUME q > page - 1 PROVE Goal
  <2>1. q \in Int /\ ~ (q < page)
    BY <1>1, <1>3, <1>7
  <2>2. ~ (q * P < page * P)
    BY <1>0, <1>3, <2>1, Products
  <2> QED BY <1>0, <1>1, <1>2, <1>4, <1>7, <2>2
<1>8. Goal
  <2> HIDE DEF Goal
  <2> QED BY <1>1, <1>3, <1>5, <1>6, <1>7
<1> QED BY <1>8 DEF P, q

(* publishedTotalPages.                                                    *)
LEMMA TotalPages ==
  ASSUME NEW total \in Nat, NEW page \in Nat \ {0}
  PROVE  /\ (page - 1) * ArticlesPerPage \in Nat
         /\ page * ArticlesPerPage = (page - 1) * ArticlesPerPage + ArticlesPerPage
         /\ page > PublishedTotalPages(total) =>
              page > 1 /\ total <= (page - 1) * ArticlesPerPage
         /\ ~ (page > PublishedTotalPages(total)) =>
              page = 1 \/ (page - 1) * ArticlesPerPage < total
         /\ page < PublishedTotalPages(total) <=> page * ArticlesPerPage < total
<1> DEFINE P == ArticlesPerPage
<1>0. P \in Nat \ {0}
  BY SiteAssumption
<1>1. page - 1 \in Int /\ page \in Int /\ page = (page - 1) + 1
  OBVIOUS
<1>2. (page - 1) * P \in Nat /\ page * P = (page - 1) * P + P
  <2>1. (page - 1) * P \in Int /\ (page - 1) * P >= 0 /\ ((page - 1) + 1) * P = (page - 1) * P + P
    BY <1>0, <1>1, Products
  <2> QED BY <1>1, <2>1
<1>3. CASE total = 0
  <2>1. PublishedTotalPages(total) = 1
    BY <1>3 DEF PublishedTotalPages
  <2> QED BY <1>0, <1>2, <1>3, <2>1
<1>4. CASE total > 0
  <2> DEFINE q == (total - 1) \div P
  <2>1. PublishedTotalPages(total) = q + 1
    BY <1>4 DEF PublishedTotalPages
  <2>2. q \in Nat /\ q * P <= total - 1 /\ total - 1 < q * P + P
    BY <1>0, <1>4, Quotients
  <2> HIDE DEF P, q
  <2>3. q \in Int /\ q * P \in Int /\ (q + 1) * P = q * P + P /\ q + 1 \in Int
    BY <1>0, <2>2, Products
  <2>4. ~ (q * P < (page - 1) * P) => (page - 1) * P < total
    BY <1>0, <1>2, <2>2, <2>3
  <2>5. ~ ((page - 1) * P < (q + 1) * P) => total <= (page - 1) * P
    BY <1>0, <1>2, <2>2, <2>3
  <2>6. ~ (q * P < page * P) => page * P < total
    BY <1>0, <1>2, <2>2, <2>3
  <2>7. ~ (page * P < (q + 1) * P) => ~ (page * P < total)
    BY <1>0, <1>2, <2>2, <2>3
  <2>8. /\ q * P < (page - 1) * P <=> q < page - 1
        /\ (page - 1) * P < (q + 1) * P <=> page - 1 < q + 1
        /\ q * P < page * P <=> q < page
        /\ page * P < (q + 1) * P <=> page < q + 1
    BY <1>0, <1>1, <2>3, Products
  <2>9. page > q + 1 => page > 1 /\ total <= (page - 1) * P
    BY <2>2, <2>5, <2>8
  <2>10. ~ (page > q + 1) => (page - 1) * P < total
    BY <2>2, <2>4, <2>8
  <2>11. page < q + 1 <=> page * P < total
    BY <2>2, <2>6, <2>7, <2>8
  <2> QED BY <1>2, <2>1, <2>9, <2>10, <2>11 DEF P
<1> QED BY <1>3, <1>4

----------------------------------------------------------------------------
(* Undisturbed answers.                                                    *)

ProjectsOK == \E n \in Nat : project \in [1 .. n -> Project]

IsRequest(r) ==
  r = [of |-> r.of, step |-> r.step, page |-> r.page, total |-> r.total,
       items |-> r.items, projects |-> r.projects, toc |-> r.toc,
       hasNext |-> r.hasNext, quiet |-> r.quiet]

RequestOK == IsRequest(request) /\ request.page \in Nat /\ request.total \in Nat

(* Which statements belong to which page.                                  *)
StepsFit ==
  /\ request.step \in {"count", "list"} => request.of = "articles"
  /\ request.of = "articles" => request.page > 0
  /\ request.step \in {"newest", "featured"} => request.of = "home"
  /\ request.step \in {"articleCount", "projectCount"} => request.of = "about"
  /\ At("projects") => request.of = "projects"
  /\ At("detail") => request.of = "detail"

(* What the statements so far have read is still so.                       *)
QuietIInv ==
  request.quiet =>
    /\ At("list") =>
         /\ request.total = CountPublished
         /\ ~ (request.page > PublishedTotalPages(request.total))
    /\ At("featured") => request.items = ListPublished(HomeLimit, 0)
    /\ At("projectCount") => request.total = CountPublished

SiteIInv ==
  RowsOK /\ ProjectsOK /\ RequestOK /\ StepsFit /\ QuietIInv /\ QuietAnswersAreExact

LEMMA RequestFields ==
  ASSUME NEW of, NEW step, NEW page, NEW total, NEW items, NEW projects, NEW toc,
         NEW hasNext, NEW quiet, NEW r,
         r = [of |-> of, step |-> step, page |-> page, total |-> total, items |-> items,
              projects |-> projects, toc |-> toc, hasNext |-> hasNext, quiet |-> quiet]
  PROVE  /\ IsRequest(r)
         /\ r.of = of /\ r.step = step /\ r.page = page /\ r.total = total /\ r.items = items
         /\ r.projects = projects /\ r.toc = toc /\ r.hasNext = hasNext /\ r.quiet = quiet
  BY DEF IsRequest

LEMMA AskedFields ==
  ASSUME NEW of, NEW step, NEW page, NEW r, r = Asked(of, step, page)
  PROVE  /\ IsRequest(r)
         /\ r.of = of /\ r.step = step /\ r.page = page /\ r.total = 0
  BY RequestFields DEF Asked

LEMMA SiteInit == Init => SiteIInv
<1> SUFFICES ASSUME Init PROVE SiteIInv
  OBVIOUS
<1>1. RowsOK
  BY DEF Init, RowsOK, RowOK, IsRow, Unborn
<1>2. ProjectsOK
  <2>1. project \in [1 .. 0 -> Project]
    BY DEF Init
  <2> QED BY <2>1 DEF ProjectsOK
<1>3. request = Asked("nothing", "missing", 1)
  BY DEF Init
<1>4. /\ IsRequest(request) /\ request.of = "nothing" /\ request.step = "missing"
      /\ request.page = 1 /\ request.total = 0
  BY ONLY <1>3, AskedFields
<1>5. RequestOK /\ StepsFit /\ QuietIInv /\ QuietAnswersAreExact
  BY <1>4 DEF RequestOK, StepsFit, QuietIInv, QuietAnswersAreExact, ListIsExact, HomeIsExact,
              DetailIsExact, Answered, At
<1> QED BY <1>1, <1>2, <1>5 DEF SiteIInv

(* What is changed while a request is under way disturbs it.               *)
LEMMA DisturbedShape ==
  ASSUME RequestOK, Disturbed
  PROVE  /\ RequestOK'
         /\ ~ request'.quiet /\ request'.of = request.of /\ request'.step = request.step
         /\ request'.page = request.page /\ request'.hasNext = request.hasNext
         /\ Asking => request'.total = request.total
<1>0. IsRequest(request) /\ request.page \in Nat /\ request.total \in Nat
  BY DEF RequestOK
<1>1. CASE Asking
  <2>1. request' = [request EXCEPT !.quiet = FALSE]
    BY <1>1 DEF Disturbed
  <2>2. request' = [of |-> request.of, step |-> request.step, page |-> request.page,
                    total |-> request.total, items |-> request.items,
                    projects |-> request.projects, toc |-> request.toc,
                    hasNext |-> request.hasNext, quiet |-> FALSE]
    BY ONLY <1>0, <2>1 DEF IsRequest
  <2>3. /\ IsRequest(request')
        /\ ~ request'.quiet /\ request'.of = request.of /\ request'.step = request.step
        /\ request'.page = request.page /\ request'.hasNext = request.hasNext
        /\ request'.total = request.total
    BY ONLY <2>2, RequestFields
  <2> QED BY ONLY <1>0, <2>3 DEF RequestOK, IsRequest
<1>2. CASE ~ Asking
  <2>1. PICK r : r = Asked(request.of, request.step, request.page)
    OBVIOUS
  <2>2. /\ IsRequest(r)
        /\ r.of = request.of /\ r.step = request.step /\ r.page = request.page /\ r.total = 0
    BY ONLY <2>1, AskedFields
  <2>3. request' = [r EXCEPT !.quiet = FALSE, !.hasNext = request.hasNext]
    BY <1>2, <2>1 DEF Disturbed
  <2>4. request' = [of |-> r.of, step |-> r.step, page |-> r.page, total |-> r.total,
                    items |-> r.items, projects |-> r.projects, toc |-> r.toc,
                    hasNext |-> request.hasNext, quiet |-> FALSE]
    BY ONLY <2>2, <2>3 DEF IsRequest
  <2>5. /\ IsRequest(request')
        /\ ~ request'.quiet /\ request'.of = r.of /\ request'.step = r.step
        /\ request'.page = r.page /\ request'.hasNext = request.hasNext
        /\ request'.total = r.total
    BY ONLY <2>4, RequestFields
  <2> QED BY ONLY <1>0, <1>2, <2>2, <2>5 DEF RequestOK, IsRequest
<1> QED BY <1>1, <1>2

LEMMA DisturbedKeeps ==
  ASSUME SiteIInv, Disturbed, RowsOK', ProjectsOK'
  PROVE  SiteIInv'
<1>1. /\ RequestOK' /\ ~ request'.quiet
      /\ request'.of = request.of /\ request'.step = request.step /\ request'.page = request.page
  BY DisturbedShape DEF SiteIInv
<1>2. StepsFit'
  BY <1>1 DEF SiteIInv, StepsFit, At
<1>3. QuietIInv' /\ QuietAnswersAreExact'
  BY <1>1 DEF QuietIInv, QuietAnswersAreExact
<1> QED BY <1>1, <1>2, <1>3 DEF SiteIInv

(* What the administrator does to a row.                                   *)
LEMMA RowFields ==
  ASSUME NEW status, NEW born, NEW doc, NEW refs, NEW row,
         row = [status |-> status, born |-> born, doc |-> doc, refs |-> refs]
  PROVE  IsRow(row) /\ row.status = status /\ row.born = born
  BY DEF IsRow

LEMMA RowsKept ==
  ASSUME RowsOK, NEW a \in Article, NEW new,
         article' = [article EXCEPT ![a] = new],
         IsRow(new),
         new.born \in Nat, new.status = "published" => new.born # 0,
         \/ new.born = article[a].born
         \/ \A b \in Article : article[b].born # new.born
  PROVE  RowsOK' /\ article'[a] = new /\ \A b \in Article \ {a} : article'[b] = article[b]
<1>1. /\ DOMAIN article' = Article /\ article'[a] = new
      /\ \A b \in Article \ {a} : article'[b] = article[b]
  BY DEF RowsOK
<1>2. \A b \in Article : RowOK(b)'
  BY <1>1 DEF RowsOK, RowOK
<1>3. \A b, d \in Article :
        article'[b].born # 0 /\ article'[b].born = article'[d].born => b = d
  BY <1>1 DEF RowsOK
<1> QED BY <1>1, <1>2, <1>3 DEF RowsOK

LEMMA AdministratorKeeps ==
  ASSUME SiteIInv,
         \/ \E a \in Article :
              \/ Withdraw(a)
              \/ \E doc \in Document : Save(a, doc) \/ Publish(a, doc)
         \/ \E order \in Orders : Arrange(order)
  PROVE  SiteIInv'
<1>0. RowsOK /\ ProjectsOK
  BY DEF SiteIInv
<1>1. ASSUME NEW a \in Article, NEW doc, Save(a, doc) PROVE SiteIInv'
  <2>1. PICK new : new = Derived(a, doc)
    OBVIOUS
  <2>0. /\ article' = [article EXCEPT ![a] = new] /\ Disturbed /\ project' = project
    BY <1>1, <2>1 DEF Save
  <2>2. /\ IsRow(new) /\ new.status = article[a].status /\ new.born = article[a].born
    <3>1. IsRow(article[a])
      BY <1>0 DEF RowsOK, RowOK
    <3>2. new = [status |-> article[a].status, born |-> article[a].born,
                 doc |-> doc, refs |-> Assets(doc)]
      BY ONLY <2>1, <3>1 DEF Derived, IsRow
    <3> QED BY ONLY <3>2, RowFields
  <2>3. RowsOK'
    BY <1>0, <2>0, <2>2, RowsKept DEF RowsOK, RowOK
  <2> QED BY <1>0, <2>0, <2>3, DisturbedKeeps DEF ProjectsOK
<1>2. ASSUME NEW a \in Article, NEW doc, Publish(a, doc) PROVE SiteIInv'
  <2>1. PICK born \in 1 .. MaxBorn :
          /\ IF article[a].born # 0 THEN born = article[a].born
             ELSE \A b \in Article : article[b].born # born
          /\ article' = [article EXCEPT ![a] =
               [Derived(a, doc) EXCEPT !.status = "published", !.born = born]]
    BY <1>2 DEF Publish
  <2> PICK derived : derived = Derived(a, doc)
    OBVIOUS
  <2>0. PICK new : new = [derived EXCEPT !.status = "published", !.born = born]
    OBVIOUS
  <2>2. IsRow(new) /\ new.born = born
    <3>1. IsRow(article[a])
      BY <1>0 DEF RowsOK, RowOK
    <3>2. derived = [status |-> article[a].status, born |-> article[a].born,
                     doc |-> doc, refs |-> Assets(doc)]
      BY <3>1 DEF Derived, IsRow
    <3>3. new = [status |-> "published", born |-> born, doc |-> doc, refs |-> Assets(doc)]
      BY ONLY <2>0, <3>2
    <3> QED BY ONLY <3>3, RowFields
  <2>3. born \in Nat /\ born # 0
    BY SiteAssumption
  <2>4. article' = [article EXCEPT ![a] = new]
    BY <2>0, <2>1
  <2>5. RowsOK'
    BY <1>0, <2>1, <2>2, <2>3, <2>4, RowsKept
  <2> QED BY <1>0, <1>2, <2>5, DisturbedKeeps DEF ProjectsOK, Publish
<1>3. ASSUME NEW a \in Article, Withdraw(a) PROVE SiteIInv'
  <2>0. PICK new : new = [article[a] EXCEPT !.status = "draft"]
    OBVIOUS
  <2>1. /\ article' = [article EXCEPT ![a] = new] /\ Disturbed /\ project' = project
    BY <1>0, <1>3, <2>0 DEF Withdraw, RowsOK
  <2>2. /\ IsRow(new) /\ new.status = "draft" /\ new.born = article[a].born
    <3>1. IsRow(article[a])
      BY <1>0 DEF RowsOK, RowOK
    <3>2. new = [status |-> "draft", born |-> article[a].born,
                 doc |-> article[a].doc, refs |-> article[a].refs]
      BY ONLY <2>0, <3>1 DEF IsRow
    <3> QED BY ONLY <3>2, RowFields
  <2>3. RowsOK'
    BY <1>0, <2>1, <2>2, RowsKept DEF RowsOK, RowOK
  <2> QED BY <1>0, <2>1, <2>3, DisturbedKeeps DEF ProjectsOK
<1>4. ASSUME NEW order \in Orders, Arrange(order) PROVE SiteIInv'
  <2>1. \E n \in Nat : order \in [1 .. n -> Project]
    BY DEF Orders
  <2>2. ProjectsOK' /\ Disturbed /\ article' = article
    BY <1>4, <2>1 DEF Arrange, ProjectsOK
  <2>3. RowsOK'
    BY <1>0, <2>2 DEF RowsOK, RowOK
  <2> QED BY <2>2, <2>3, DisturbedKeeps
<1> QED BY <1>1, <1>2, <1>3, <1>4

(* A statement reads, and changes nothing it could read.                   *)
LEMMA SameReads ==
  ASSUME UNCHANGED <<article, project>>
  PROVE  /\ RowsOK => RowsOK'
         /\ ProjectsOK => ProjectsOK'
         /\ Published' = Published /\ CountPublished' = CountPublished
         /\ \A limit, offset : ListPublished(limit, offset)' = ListPublished(limit, offset)
         /\ \A a : Newer(a)' = Newer(a)
  BY DEF RowsOK, RowOK, ProjectsOK, CountPublished, Published, ListPublished, Slice,
         PublishedOrder, Newer

LEMMA AskKeeps ==
  ASSUME SiteIInv, NEW of, NEW step, NEW page \in Nat, request' = Asked(of, step, page),
         UNCHANGED <<article, project>>,
         \/ of = "articles" /\ step = "count" /\ page > 0
         \/ of = "nothing" /\ step = "missing"
         \/ of = "home" /\ step = "newest"
         \/ of = "about" /\ step = "articleCount"
         \/ of = "projects" /\ step = "projects"
         \/ of = "detail" /\ step = "detail"
  PROVE  SiteIInv'
<1>1. /\ IsRequest(request') /\ request'.of = of /\ request'.step = step
      /\ request'.page = page /\ request'.total = 0
  <2>1. request' = Asked(of, step, page)
    OBVIOUS
  <2> QED BY ONLY <2>1, AskedFields
<1>2. RequestOK' /\ StepsFit'
  BY <1>1 DEF RequestOK, IsRequest, StepsFit, At
<1>3. QuietIInv' /\ QuietAnswersAreExact'
  BY <1>1 DEF QuietIInv, QuietAnswersAreExact, ListIsExact, HomeIsExact, DetailIsExact,
              Answered, At
<1> QED BY <1>2, <1>3, SameReads DEF SiteIInv

LEMMA CountKeeps ==
  ASSUME SiteIInv, Count
  PROVE  SiteIInv'
<1>1. PICK r : r = request
  OBVIOUS
<1>2. /\ IsRequest(r) /\ r.page \in Nat /\ r.total \in Nat /\ r.step = "count" /\ r.of = "articles"
      /\ r.page > 0 /\ CountPublished \in Nat /\ UNCHANGED <<article, project>>
      /\ request' = IF r.page > PublishedTotalPages(CountPublished)
                    THEN [r EXCEPT !.step = "missing"]
                    ELSE [r EXCEPT !.step = "list", !.total = CountPublished]
  BY <1>1, PublishedFinite DEF SiteIInv, RequestOK, StepsFit, Count, At, Go
<1>3. CASE r.page > PublishedTotalPages(CountPublished)
  <2>1. /\ IsRequest(request') /\ request'.of = r.of /\ request'.step = "missing"
        /\ request'.page = r.page /\ request'.total = r.total
    <3>1. request' = [of |-> r.of, step |-> "missing", page |-> r.page, total |-> r.total,
                      items |-> r.items, projects |-> r.projects, toc |-> r.toc,
                      hasNext |-> r.hasNext, quiet |-> r.quiet]
      BY <1>2, <1>3 DEF IsRequest
    <3> QED BY ONLY <3>1, RequestFields
  <2>2. r.page > 1 /\ CountPublished <= (r.page - 1) * ArticlesPerPage
    BY <1>2, <1>3, TotalPages
  <2>3. RequestOK' /\ StepsFit' /\ QuietIInv'
    BY <1>2, <2>1 DEF RequestOK, IsRequest, StepsFit, QuietIInv, At
  <2>4. QuietAnswersAreExact'
    BY <1>2, <2>1, <2>2, SameReads
       DEF QuietAnswersAreExact, ListIsExact, HomeIsExact, DetailIsExact, Answered, At
  <2> QED BY <1>2, <2>3, <2>4, SameReads DEF SiteIInv
<1>4. CASE ~ (r.page > PublishedTotalPages(CountPublished))
  <2>1. /\ IsRequest(request') /\ request'.of = r.of /\ request'.step = "list"
        /\ request'.page = r.page /\ request'.total = CountPublished
    <3>1. request' = [of |-> r.of, step |-> "list", page |-> r.page, total |-> CountPublished,
                      items |-> r.items, projects |-> r.projects, toc |-> r.toc,
                      hasNext |-> r.hasNext, quiet |-> r.quiet]
      BY <1>2, <1>4 DEF IsRequest
    <3> QED BY ONLY <3>1, RequestFields
  <2>2. RequestOK' /\ StepsFit'
    BY <1>2, <2>1 DEF RequestOK, IsRequest, StepsFit, At
  <2>3. QuietIInv'
    BY <1>2, <1>4, <2>1, SameReads DEF QuietIInv, At, PublishedTotalPages
  <2>4. QuietAnswersAreExact'
    BY <1>2, <2>1
       DEF QuietAnswersAreExact, ListIsExact, HomeIsExact, DetailIsExact, Answered, At
  <2> QED BY <1>2, <2>2, <2>3, <2>4, SameReads DEF SiteIInv
<1> QED BY <1>3, <1>4

(* A page of the list as it is: between two places.                        *)
LEMMA PageIsExact ==
  ASSUME RowsOK, NEW page \in Nat \ {0}, ~ (page > PublishedTotalPages(CountPublished)),
         NEW items, items = ListPublished(ArticlesPerPage, (page - 1) * ArticlesPerPage)
  PROVE  /\ \A a \in Article :
              (\E i \in DOMAIN items : items[i] = a) <=>
                /\ a \in Published
                /\ Cardinality(Newer(a)) \div ArticlesPerPage = page - 1
         /\ \A i, j \in DOMAIN items : i < j => items[i] \in Newer(items[j])
         /\ (page < PublishedTotalPages(CountPublished)) <=>
              \E a \in Published : Cardinality(Newer(a)) >= page * ArticlesPerPage
<1> DEFINE n == CountPublished
           offset == (page - 1) * ArticlesPerPage
<1>1. n \in Nat /\ \A a : Cardinality(Newer(a)) \in Nat
  BY PublishedFinite
<1>2. /\ offset \in Nat /\ ArticlesPerPage \in Nat
      /\ page * ArticlesPerPage = offset + ArticlesPerPage
      /\ page = 1 \/ offset < n
      /\ page < PublishedTotalPages(n) <=> page * ArticlesPerPage < n
  BY <1>1, TotalPages, SiteAssumption
<1>3. offset <= n
  BY <1>1, <1>2
<1>4. items = ListPublished(ArticlesPerPage, offset)
  OBVIOUS
<1> HIDE DEF offset
<1>5. /\ \A a \in Article :
           (\E i \in DOMAIN items : items[i] = a) <=>
             /\ a \in Published
             /\ offset <= Cardinality(Newer(a))
             /\ Cardinality(Newer(a)) < offset + ArticlesPerPage
      /\ \A i, j \in DOMAIN items : i < j => items[i] \in Newer(items[j])
  BY ONLY RowsOK, <1>2, <1>3, <1>4, ListedAre
<1>6. ASSUME NEW a
      PROVE  Cardinality(Newer(a)) \div ArticlesPerPage = page - 1 <=>
               /\ offset <= Cardinality(Newer(a))
               /\ Cardinality(Newer(a)) < offset + ArticlesPerPage
  BY <1>1, <1>2, PageOfPlace DEF offset
<1>7. ASSUME page * ArticlesPerPage < n
      PROVE  \E a \in Published : Cardinality(Newer(a)) >= page * ArticlesPerPage
  <2> DEFINE k == page * ArticlesPerPage + 1
  <2>1. k \in 1 .. n
    BY <1>1, <1>2, <1>7
  <2>2. /\ PublishedOrder[k] \in Published
        /\ Cardinality(Newer(PublishedOrder[k])) = k - 1
    BY <2>1, PlacesInOrder
  <2> QED BY <1>2, <2>2
<1>8. ASSUME NEW a \in Published, Cardinality(Newer(a)) >= page * ArticlesPerPage
      PROVE  page * ArticlesPerPage < n
  <2>1. PICK k \in 1 .. n : PublishedOrder[k] = a
    BY PlacesInOrder
  <2>2. Cardinality(Newer(a)) = k - 1
    BY <2>1, PlacesInOrder
  <2> QED BY <1>1, <1>2, <1>8, <2>1, <2>2
<1> QED BY <1>2, <1>5, <1>6, <1>7, <1>8

LEMMA ListKeeps ==
  ASSUME SiteIInv, List
  PROVE  SiteIInv'
<1>1. PICK r : r = request
  OBVIOUS
<1> DEFINE next == r.page < PublishedTotalPages(r.total)
<1>2. PICK items : items = ListPublished(ArticlesPerPage, (r.page - 1) * ArticlesPerPage)
  OBVIOUS
<1>3. /\ IsRequest(r) /\ r.page \in Nat /\ r.total \in Nat /\ r.step = "list" /\ r.of = "articles"
      /\ r.page > 0 /\ UNCHANGED <<article, project>>
      /\ request' = [r EXCEPT !.step = "answered", !.items = items, !.hasNext = next]
  BY <1>1, <1>2 DEF SiteIInv, RequestOK, StepsFit, List, Shown, At, Go
<1>4. r.quiet => r.total = CountPublished /\ ~ (r.page > PublishedTotalPages(r.total))
  BY <1>1, <1>3 DEF SiteIInv, QuietIInv, At
<1>5. /\ IsRequest(request') /\ request'.of = r.of /\ request'.step = "answered"
      /\ request'.page = r.page /\ request'.total = r.total /\ request'.items = items
      /\ request'.hasNext = next /\ request'.quiet = r.quiet
  <2>0. PICK hasNext : hasNext = next
    OBVIOUS
  <2>1. request' = [of |-> r.of, step |-> "answered", page |-> r.page, total |-> r.total,
                    items |-> items, projects |-> r.projects, toc |-> r.toc,
                    hasNext |-> hasNext, quiet |-> r.quiet]
    BY <1>3, <2>0 DEF IsRequest
  <2> QED BY ONLY <2>0, <2>1, RequestFields
<1>6. RequestOK' /\ StepsFit' /\ QuietIInv'
  BY <1>3, <1>5 DEF RequestOK, IsRequest, StepsFit, QuietIInv, At
<1>7. QuietAnswersAreExact'
  <2>1. CASE ~ r.quiet
    BY <1>5, <2>1 DEF QuietAnswersAreExact
  <2>2. CASE r.quiet
    <3>1. /\ \A a \in Article :
               (\E i \in DOMAIN items : items[i] = a) <=>
                 /\ a \in Published
                 /\ Cardinality(Newer(a)) \div ArticlesPerPage = r.page - 1
          /\ \A i, j \in DOMAIN items : i < j => items[i] \in Newer(items[j])
          /\ (r.page < PublishedTotalPages(CountPublished)) <=>
               \E a \in Published : Cardinality(Newer(a)) >= r.page * ArticlesPerPage
      BY <1>2, <1>3, <1>4, <2>2, PageIsExact DEF SiteIInv
    <3>2. ListIsExact'
      <4>1. /\ Published' = Published /\ \A a : Newer(a)' = Newer(a)
        BY <1>3, SameReads
      <4>2. \A a \in Article : Shows(a)' <=> \E i \in DOMAIN items : items[i] = a
        BY <1>5 DEF Shows
      <4>3. \A a \in Article :
              Shows(a)' <=> /\ a \in Published'
                            /\ Cardinality(Newer(a)') \div ArticlesPerPage = request'.page - 1
        BY <1>5, <3>1, <4>1, <4>2
      <4>4. (\A i, j \in DOMAIN request.items :
               i < j => request.items[i] \in Newer(request.items[j]))'
        BY <1>3, <1>5, <3>1 DEF Newer, Published
      <4>5. request'.hasNext <=>
              \E a \in Published' : Cardinality(Newer(a)') >= request'.page * ArticlesPerPage
        BY <1>4, <1>5, <2>2, <3>1, <4>1
      <4>6. ~ At("missing")'
        BY <1>5 DEF At
      <4> QED BY <4>3, <4>4, <4>5, <4>6 DEF ListIsExact
    <3>3. HomeIsExact' /\ DetailIsExact' /\ ~ Answered("about")' /\ ~ Answered("projects")'
      BY <1>3, <1>5 DEF HomeIsExact, DetailIsExact, Answered, At
    <3> QED BY <3>2, <3>3 DEF QuietAnswersAreExact
  <2> QED BY <2>1, <2>2
<1> QED BY <1>3, <1>6, <1>7, SameReads DEF SiteIInv

LEMMA HomeKeeps ==
  ASSUME SiteIInv, HomeArticles \/ HomeProjects
  PROVE  SiteIInv'
<1>1. PICK r : r = request
  OBVIOUS
<1>2. /\ IsRequest(r) /\ r.page \in Nat /\ r.total \in Nat /\ r.of = "home"
      /\ UNCHANGED <<article, project>>
  BY <1>1 DEF SiteIInv, RequestOK, StepsFit, HomeArticles, HomeProjects, At, Go
<1>3. CASE HomeArticles
  <2>1. PICK items : items = ListPublished(HomeLimit, 0)
    OBVIOUS
  <2>2. /\ IsRequest(request') /\ request'.of = r.of /\ request'.step = "featured"
        /\ request'.page = r.page /\ request'.total = r.total /\ request'.items = items
    <3>1. request' = [r EXCEPT !.step = "featured", !.items = items]
      BY <1>1, <1>3, <2>1 DEF HomeArticles, Go
    <3>2. request' = [of |-> r.of, step |-> "featured", page |-> r.page, total |-> r.total,
                      items |-> items, projects |-> r.projects, toc |-> r.toc,
                      hasNext |-> r.hasNext, quiet |-> r.quiet]
      BY ONLY <1>2, <3>1 DEF IsRequest
    <3> QED BY ONLY <3>2, RequestFields
  <2>3. RequestOK' /\ StepsFit'
    BY <1>2, <2>2 DEF RequestOK, IsRequest, StepsFit, At
  <2>4. QuietIInv'
    BY <1>2, <2>1, <2>2, SameReads DEF QuietIInv, At
  <2>5. QuietAnswersAreExact'
    BY <1>2, <2>2
       DEF QuietAnswersAreExact, ListIsExact, HomeIsExact, DetailIsExact, Answered, At
  <2> QED BY <1>2, <2>3, <2>4, <2>5, SameReads DEF SiteIInv
<1>4. CASE HomeProjects
  <2>1. PICK projects : projects = ListFeatured
    OBVIOUS
  <2>2. /\ IsRequest(request') /\ request'.of = r.of /\ request'.step = "answered"
        /\ request'.page = r.page /\ request'.total = r.total /\ request'.items = r.items
        /\ request'.projects = projects /\ request'.quiet = r.quiet
    <3>1. request' = [r EXCEPT !.step = "answered", !.projects = projects]
      BY <1>1, <1>4, <2>1 DEF HomeProjects, Go
    <3>2. request' = [of |-> r.of, step |-> "answered", page |-> r.page, total |-> r.total,
                      items |-> r.items, projects |-> projects, toc |-> r.toc,
                      hasNext |-> r.hasNext, quiet |-> r.quiet]
      BY ONLY <1>2, <3>1 DEF IsRequest
    <3> QED BY ONLY <3>2, RequestFields
  <2>3. RequestOK' /\ StepsFit' /\ QuietIInv'
    BY <1>2, <2>2 DEF RequestOK, IsRequest, StepsFit, QuietIInv, At
  <2>4. r.quiet => r.items = ListPublished(HomeLimit, 0)
    BY <1>1, <1>4 DEF SiteIInv, QuietIInv, HomeProjects, At
  <2>5. ASSUME r.quiet PROVE HomeIsExact'
    <3>1. HomeLimit \in Nat \ {0}
      BY SiteAssumption
    <3>2. \A a \in Article :
            (\E i \in DOMAIN r.items : r.items[i] = a) <=>
              a \in Published /\ Cardinality(Newer(a)) < HomeLimit
      <4>1. RowsOK /\ CountPublished \in Nat /\ \A a : Cardinality(Newer(a)) \in Nat
        BY PublishedFinite DEF SiteIInv
      <4> QED BY <2>4, <2>5, <3>1, <4>1, ListedAre
    <3>3. \A a \in Article :
            Shows(a)' <=> a \in Published' /\ Cardinality(Newer(a)') < HomeLimit
      <4>1. /\ Published' = Published /\ \A a : Newer(a)' = Newer(a)
        BY <1>2, SameReads
      <4>2. \A a \in Article : Shows(a)' <=> \E i \in DOMAIN r.items : r.items[i] = a
        BY <2>2 DEF Shows
      <4> QED BY <3>2, <4>1, <4>2
    <3>4. /\ \A i \in DOMAIN project : i <= HomeLimit => projects[i] = project[i]
          /\ Len(projects) <= HomeLimit
      <4>1. PICK n \in Nat : project \in [1 .. n -> Project]
        BY DEF SiteIInv, ProjectsOK
      <4>2. projects = SubSeq(project, 1, IF HomeLimit < n THEN HomeLimit ELSE n)
        BY <2>1, <3>1, <4>1 DEF ListFeatured, ListPublicProjects, Slice
      <4> QED BY <3>1, <4>1, <4>2
    <3>5. /\ \A i \in DOMAIN project' : i <= HomeLimit => request'.projects[i] = project'[i]
          /\ Len(request'.projects) <= HomeLimit
      BY <1>2, <2>2, <3>4
    <3> QED BY <3>3, <3>5 DEF HomeIsExact
  <2>6. ListIsExact' /\ DetailIsExact' /\ ~ Answered("about")' /\ ~ Answered("projects")'
    BY <1>2, <2>2 DEF ListIsExact, DetailIsExact, Answered, At
  <2> QED BY <1>2, <2>2, <2>3, <2>5, <2>6, SameReads DEF SiteIInv, QuietAnswersAreExact
<1> QED BY <1>3, <1>4

LEMMA AboutKeeps ==
  ASSUME SiteIInv, AboutArticles \/ AboutProjects
  PROVE  SiteIInv'
<1>1. PICK r : r = request
  OBVIOUS
<1>2. /\ IsRequest(r) /\ r.page \in Nat /\ r.total \in Nat /\ r.of = "about"
      /\ UNCHANGED <<article, project>> /\ CountPublished \in Nat
  BY <1>1, PublishedFinite
     DEF SiteIInv, RequestOK, StepsFit, AboutArticles, AboutProjects, At, Go
<1>3. CASE AboutArticles
  <2>1. PICK total : total = CountPublished
    OBVIOUS
  <2>2. /\ IsRequest(request') /\ request'.of = r.of /\ request'.step = "projectCount"
        /\ request'.page = r.page /\ request'.total = total
    <3>1. request' = [r EXCEPT !.step = "projectCount", !.total = total]
      BY <1>1, <1>3, <2>1 DEF AboutArticles, Go
    <3>2. request' = [of |-> r.of, step |-> "projectCount", page |-> r.page, total |-> total,
                      items |-> r.items, projects |-> r.projects, toc |-> r.toc,
                      hasNext |-> r.hasNext, quiet |-> r.quiet]
      BY ONLY <1>2, <3>1 DEF IsRequest
    <3> QED BY ONLY <3>2, RequestFields
  <2>3. RequestOK' /\ StepsFit'
    BY <1>2, <2>1, <2>2 DEF RequestOK, IsRequest, StepsFit, At
  <2>4. QuietIInv'
    BY <1>2, <2>1, <2>2, SameReads DEF QuietIInv, At
  <2>5. QuietAnswersAreExact'
    BY <1>2, <2>2
       DEF QuietAnswersAreExact, ListIsExact, HomeIsExact, DetailIsExact, Answered, At
  <2> QED BY <1>2, <2>3, <2>4, <2>5, SameReads DEF SiteIInv
<1>4. CASE AboutProjects
  <2>1. PICK count : count = CountPublicProjects
    OBVIOUS
  <2>2. /\ IsRequest(request') /\ request'.of = r.of /\ request'.step = "answered"
        /\ request'.page = count /\ request'.total = r.total /\ request'.quiet = r.quiet
    <3>1. request' = [r EXCEPT !.step = "answered", !.page = count]
      BY <1>1, <1>4, <2>1 DEF AboutProjects, Go
    <3>2. request' = [of |-> r.of, step |-> "answered", page |-> count, total |-> r.total,
                      items |-> r.items, projects |-> r.projects, toc |-> r.toc,
                      hasNext |-> r.hasNext, quiet |-> r.quiet]
      BY ONLY <1>2, <3>1 DEF IsRequest
    <3> QED BY ONLY <3>2, RequestFields
  <2>3. count = Len(project) /\ count \in Nat
    BY <2>1 DEF CountPublicProjects, SiteIInv, ProjectsOK
  <2>4. RequestOK' /\ StepsFit' /\ QuietIInv'
    BY <1>2, <2>2, <2>3 DEF RequestOK, IsRequest, StepsFit, QuietIInv, At
  <2>5. r.quiet => r.total = CountPublished
    BY <1>1, <1>4 DEF SiteIInv, QuietIInv, AboutProjects, At
  <2>6. ASSUME request'.quiet
        PROVE  request'.total = CountPublished' /\ request'.page = Len(project')
    BY <1>2, <2>2, <2>3, <2>5, <2>6, SameReads
  <2>7. ListIsExact' /\ HomeIsExact' /\ DetailIsExact' /\ ~ Answered("projects")'
    BY <1>2, <2>2 DEF ListIsExact, HomeIsExact, DetailIsExact, Answered, At
  <2> QED BY <1>2, <2>4, <2>6, <2>7, SameReads DEF SiteIInv, QuietAnswersAreExact
<1> QED BY <1>3, <1>4

LEMMA ProjectsKeeps ==
  ASSUME SiteIInv, Projects
  PROVE  SiteIInv'
<1>1. PICK r : r = request
  OBVIOUS
<1>2. /\ IsRequest(r) /\ r.page \in Nat /\ r.total \in Nat /\ r.of = "projects"
      /\ UNCHANGED <<article, project>>
      /\ request' = [r EXCEPT !.step = "answered", !.projects = project]
  BY <1>1 DEF SiteIInv, RequestOK, StepsFit, Projects, ListPublicProjects, At, Go
<1>3. /\ IsRequest(request') /\ request'.of = r.of /\ request'.step = "answered"
      /\ request'.page = r.page /\ request'.total = r.total /\ request'.projects = project
  <2>1. request' = [of |-> r.of, step |-> "answered", page |-> r.page, total |-> r.total,
                    items |-> r.items, projects |-> project, toc |-> r.toc,
                    hasNext |-> r.hasNext, quiet |-> r.quiet]
    BY ONLY <1>2 DEF IsRequest
  <2> QED BY ONLY <2>1, RequestFields
<1>4. RequestOK' /\ StepsFit' /\ QuietIInv'
  BY <1>2, <1>3 DEF RequestOK, IsRequest, StepsFit, QuietIInv, At
<1>5. QuietAnswersAreExact'
  BY <1>2, <1>3
     DEF QuietAnswersAreExact, ListIsExact, HomeIsExact, DetailIsExact, Answered, At
<1> QED BY <1>2, <1>4, <1>5, SameReads DEF SiteIInv

LEMMA DetailKeeps ==
  ASSUME SiteIInv, Detail
  PROVE  SiteIInv'
<1>1. PICK r : r = request
  OBVIOUS
<1>2. /\ IsRequest(r) /\ r.page \in Nat /\ r.total \in Nat /\ r.of = "detail"
      /\ UNCHANGED <<article, project>>
      /\ \/ /\ GetPublishedByULID(r.page) = {}
            /\ request' = [r EXCEPT !.step = "missing"]
         \/ \E a \in GetPublishedByULID(r.page) :
              request' = [r EXCEPT !.step = "answered", !.items = <<a>>, !.toc = TOC(article[a].doc)]
  BY <1>1 DEF SiteIInv, RequestOK, StepsFit, Detail, At, Go
<1>3. CASE GetPublishedByULID(r.page) = {} /\ request' = [r EXCEPT !.step = "missing"]
  <2>1. /\ IsRequest(request') /\ request'.of = r.of /\ request'.step = "missing"
        /\ request'.page = r.page /\ request'.total = r.total
    <3>1. request' = [of |-> r.of, step |-> "missing", page |-> r.page, total |-> r.total,
                      items |-> r.items, projects |-> r.projects, toc |-> r.toc,
                      hasNext |-> r.hasNext, quiet |-> r.quiet]
      BY ONLY <1>2, <1>3 DEF IsRequest
    <3> QED BY ONLY <3>1, RequestFields
  <2>2. \A a \in Published' : article'[a].born # request'.page
    BY <1>2, <1>3, <2>1, SameReads DEF GetPublishedByULID
  <2>3. RequestOK' /\ StepsFit' /\ QuietIInv'
    BY <1>2, <2>1 DEF RequestOK, IsRequest, StepsFit, QuietIInv, At
  <2>4. QuietAnswersAreExact'
    BY <1>2, <2>1, <2>2
       DEF QuietAnswersAreExact, ListIsExact, HomeIsExact, DetailIsExact, Answered, At
  <2> QED BY <1>2, <2>3, <2>4, SameReads DEF SiteIInv
<1>4. ASSUME NEW a \in GetPublishedByULID(r.page), NEW toc,
             request' = [r EXCEPT !.step = "answered", !.items = <<a>>, !.toc = toc]
      PROVE  SiteIInv'
  <2>1. /\ IsRequest(request') /\ request'.of = r.of /\ request'.step = "answered"
        /\ request'.page = r.page /\ request'.total = r.total /\ request'.items = <<a>>
    <3>1. request' = [of |-> r.of, step |-> "answered", page |-> r.page, total |-> r.total,
                      items |-> <<a>>, projects |-> r.projects, toc |-> toc,
                      hasNext |-> r.hasNext, quiet |-> r.quiet]
      BY ONLY <1>2, <1>4 DEF IsRequest
    <3> QED BY ONLY <3>1, RequestFields
  <2>2. a \in Published' /\ request'.items = <<a>> /\ article'[a].born = request'.page
    BY <1>2, <2>1, SameReads DEF GetPublishedByULID
  <2>3. RequestOK' /\ StepsFit' /\ QuietIInv'
    BY <1>2, <2>1 DEF RequestOK, IsRequest, StepsFit, QuietIInv, At
  <2>4. QuietAnswersAreExact'
    BY <1>2, <2>1, <2>2
       DEF QuietAnswersAreExact, ListIsExact, HomeIsExact, DetailIsExact, Answered, At
  <2> QED BY <1>2, <2>3, <2>4, SameReads DEF SiteIInv
<1> QED BY <1>2, <1>3, <1>4

LEMMA ReadFailsKeeps ==
  ASSUME SiteIInv, ReadFails
  PROVE  SiteIInv'
<1>1. PICK r : r = request
  OBVIOUS
<1>2. /\ IsRequest(r) /\ r.page \in Nat /\ r.total \in Nat
      /\ UNCHANGED <<article, project>>
      /\ request' = [r EXCEPT !.step = "unavailable"]
  BY <1>1 DEF SiteIInv, RequestOK, ReadFails, Go
<1>3. /\ IsRequest(request') /\ request'.of = r.of /\ request'.step = "unavailable"
      /\ request'.page = r.page /\ request'.total = r.total
  <2>1. request' = [of |-> r.of, step |-> "unavailable", page |-> r.page, total |-> r.total,
                    items |-> r.items, projects |-> r.projects, toc |-> r.toc,
                    hasNext |-> r.hasNext, quiet |-> r.quiet]
    BY ONLY <1>2 DEF IsRequest
  <2> QED BY ONLY <2>1, RequestFields
<1>4. r.of = "articles" => r.page > 0
  BY <1>1 DEF SiteIInv, StepsFit
<1>5. RequestOK' /\ StepsFit' /\ QuietIInv'
  BY <1>2, <1>3, <1>4 DEF RequestOK, IsRequest, StepsFit, QuietIInv, At
<1>6. QuietAnswersAreExact'
  BY <1>3
     DEF QuietAnswersAreExact, ListIsExact, HomeIsExact, DetailIsExact, Answered, At
<1> QED BY <1>2, <1>5, <1>6, SameReads DEF SiteIInv

LEMMA AskingKeeps ==
  ASSUME SiteIInv,
         \/ \E page \in 1 .. MaxPage : AskArticles(page)
         \/ AskNext \/ RefuseArticles \/ AskHome \/ AskAbout \/ AskProjects
         \/ \E address \in 1 .. MaxBorn : AskDetail(address)
  PROVE  SiteIInv'
<1>1. ASSUME NEW page \in 1 .. MaxPage, AskArticles(page) PROVE SiteIInv'
  BY <1>1, AskKeeps DEF AskArticles, Ask
<1>2. CASE AskNext
  <2>1. request.page + 1 \in Nat /\ request.page + 1 > 0
    BY DEF SiteIInv, RequestOK
  <2> QED BY <1>2, <2>1, AskKeeps DEF AskNext, Ask
<1>3. CASE RefuseArticles
  BY <1>3, AskKeeps DEF RefuseArticles
<1>4. CASE AskHome
  BY <1>4, AskKeeps DEF AskHome, Ask
<1>5. CASE AskAbout
  BY <1>5, AskKeeps DEF AskAbout, Ask
<1>6. CASE AskProjects
  BY <1>6, AskKeeps DEF AskProjects, Ask
<1>7. ASSUME NEW address \in 1 .. MaxBorn, AskDetail(address) PROVE SiteIInv'
  BY <1>7, AskKeeps DEF AskDetail, Ask
<1> QED BY <1>1, <1>2, <1>3, <1>4, <1>5, <1>6, <1>7

LEMMA SiteNext == SiteIInv /\ [Next]_vars => SiteIInv'
<1> SUFFICES ASSUME SiteIInv, [Next]_vars PROVE SiteIInv'
  OBVIOUS
<1>1. CASE UNCHANGED vars
  <2>1. UNCHANGED <<article, project>> /\ request' = request
    BY <1>1 DEF vars
  <2>2. RequestOK' /\ StepsFit'
    BY <2>1 DEF SiteIInv, RequestOK, IsRequest, StepsFit, At
  <2>3. QuietIInv'
    BY <2>1, SameReads DEF SiteIInv, QuietIInv, At, PublishedTotalPages
  <2>4. QuietAnswersAreExact'
    BY <2>1 DEF SiteIInv, QuietAnswersAreExact, ListIsExact, HomeIsExact, DetailIsExact,
                Answered, At, Shows, Newer, Published, CountPublished
  <2> QED BY <2>1, <2>2, <2>3, <2>4, SameReads DEF SiteIInv
<1> QED BY <1>1, AdministratorKeeps, AskingKeeps, CountKeeps, ListKeeps, HomeKeeps, AboutKeeps,
           ProjectsKeeps, DetailKeeps, ReadFailsKeeps DEF Next

(* An answer put together by several statements is exact when nothing was  *)
(* changed between them, for any number of articles, any page size and any *)
(* limit: no page, count or limit is off by one, and no order loses an     *)
(* article or shows one twice.                                             *)
THEOREM QuietAnswers == Spec => []QuietAnswersAreExact
<1>1. SiteIInv => QuietAnswersAreExact
  BY DEF SiteIInv
<1> QED BY SiteInit, SiteNext, <1>1, PTL DEF Spec

----------------------------------------------------------------------------
(* The walk.                                                               *)

IsWalk == walk = [on |-> walk.on, seen |-> walk.seen, kept |-> walk.kept, torn |-> walk.torn]

(* Pages the visitor has been through.                                     *)
Covered == IF At("answered") THEN request.page ELSE request.page - 1

WalkIInv ==
  walk.on =>
    /\ request.of = "articles" /\ request.step \in {"count", "list", "answered", "unavailable"}
    /\ walk.kept \subseteq Published
    /\ \A a \in walk.kept :
         Cardinality(Newer(a)) < Covered * ArticlesPerPage => a \in walk.seen
    /\ At("count") => request.page = 1 \/ (request.page - 1) * ArticlesPerPage < CountPublished
    /\ At("list") =>
         /\ request.total <= CountPublished
         /\ ~ (request.page > PublishedTotalPages(request.total))
         /\ ~ walk.torn => request.total = CountPublished
    /\ At("answered") =>
         /\ request.hasNext => request.page * ArticlesPerPage < CountPublished
         /\ ~ request.hasNext /\ ~ walk.torn => walk.kept \subseteq walk.seen

SiteWalkIInv == SiteIInv /\ IsWalk /\ WalkIInv

LEMMA WalkFields ==
  ASSUME NEW on, NEW seen, NEW kept, NEW torn, NEW w,
         w = [on |-> on, seen |-> seen, kept |-> kept, torn |-> torn]
  PROVE  /\ w = [on |-> w.on, seen |-> w.seen, kept |-> w.kept, torn |-> w.torn]
         /\ w.on = on /\ w.seen = seen /\ w.kept = kept /\ w.torn = torn
  OBVIOUS

LEMMA NotWalking ==
  ASSUME walk' = NoWalk
  PROVE  IsWalk' /\ WalkIInv'
  BY DEF NoWalk, IsWalk, WalkIInv

LEMMA WalkInit == Init => IsWalk /\ WalkIInv
  BY DEF Init, NoWalk, IsWalk, WalkIInv

(* Publishing and saving only put articles before others.                  *)
LEMMA PlacesGrow ==
  ASSUME Published \subseteq Published', Published' \subseteq Article,
         \A b \in Published : article'[b].born = article[b].born
  PROVE  /\ CountPublished <= CountPublished' /\ CountPublished' \in Nat
         /\ \A a \in Published : /\ Cardinality(Newer(a)') \in Nat
                               /\ Cardinality(Newer(a)) <= Cardinality(Newer(a)')
<1>1. IsFiniteSet(Published')
  BY SiteAssumption, FS_Subset
<1>2. CountPublished <= CountPublished' /\ CountPublished' \in Nat
  BY <1>1, FS_Subset, FS_CardinalityType DEF CountPublished
<1>3. ASSUME NEW a \in Published
      PROVE  /\ Cardinality(Newer(a)') \in Nat
             /\ Cardinality(Newer(a)) <= Cardinality(Newer(a)')
  <2>1. Newer(a) \subseteq Newer(a)' /\ Newer(a)' \subseteq Published'
    BY DEF Newer
  <2> QED BY <1>1, <2>1, FS_Subset, FS_CardinalityType
<1> QED BY <1>2, <1>3

(* A walk goes on while others publish, save and arrange: walk may become  *)
(* torn, and does when an article is published during a list.              *)
LEMMA WalkEndures ==
  ASSUME SiteWalkIInv, Disturbed, Published \subseteq Published', Published' \subseteq Article,
         \A b \in Published : article'[b].born = article[b].born,
         NEW torn, walk' = [walk EXCEPT !.torn = torn], walk.torn => torn,
         CountPublished' = CountPublished \/ (walk.on /\ At("list") => torn)
  PROVE  IsWalk' /\ WalkIInv'
<1>1. IsWalk' /\ walk'.on = walk.on /\ walk'.seen = walk.seen /\ walk'.kept = walk.kept
      /\ walk'.torn = torn
  <2>1. walk' = [on |-> walk.on, seen |-> walk.seen, kept |-> walk.kept, torn |-> torn]
    BY DEF SiteWalkIInv, IsWalk
  <2> QED BY ONLY <2>1, WalkFields DEF IsWalk
<1>2. /\ request'.of = request.of /\ request'.step = request.step
      /\ request'.page = request.page /\ request'.hasNext = request.hasNext
      /\ Asking => request'.total = request.total
      /\ request.page \in Nat /\ request.total \in Nat
  BY DisturbedShape DEF SiteWalkIInv, SiteIInv, RequestOK
<1>3. SUFFICES ASSUME walk'.on PROVE WalkIInv'
  BY <1>1 DEF WalkIInv
<1>4. /\ request.of = "articles" /\ request.step \in {"count", "list", "answered", "unavailable"}
      /\ walk.kept \subseteq Published
      /\ \A a \in walk.kept :
           Cardinality(Newer(a)) < Covered * ArticlesPerPage => a \in walk.seen
      /\ At("count") => request.page = 1 \/ (request.page - 1) * ArticlesPerPage < CountPublished
      /\ At("list") =>
           /\ request.total <= CountPublished
           /\ ~ (request.page > PublishedTotalPages(request.total))
           /\ ~ walk.torn => request.total = CountPublished
      /\ At("answered") =>
           /\ request.hasNext => request.page * ArticlesPerPage < CountPublished
           /\ ~ request.hasNext /\ ~ walk.torn => walk.kept \subseteq walk.seen
  BY <1>1, <1>3 DEF SiteWalkIInv, WalkIInv
<1>5. /\ CountPublished <= CountPublished' /\ CountPublished' \in Nat /\ CountPublished \in Nat
      /\ \A a \in Published : /\ Cardinality(Newer(a)') \in Nat /\ Cardinality(Newer(a)) \in Nat
                            /\ Cardinality(Newer(a)) <= Cardinality(Newer(a)')
  BY PlacesGrow, PublishedFinite
<1>6. Covered' = Covered /\ Covered * ArticlesPerPage \in Int
  BY <1>2, SiteAssumption DEF Covered, At
<1>7. (request.page - 1) * ArticlesPerPage \in Int /\ request.page * ArticlesPerPage \in Int
  BY <1>2, SiteAssumption
<1>8. \A a \in walk'.kept :
        Cardinality(Newer(a)') < Covered' * ArticlesPerPage => a \in walk'.seen
  BY <1>1, <1>4, <1>5, <1>6
<1>9. At("count")' => request'.page = 1 \/ (request'.page - 1) * ArticlesPerPage < CountPublished'
  BY <1>2, <1>4, <1>5, <1>7 DEF At
<1>10. At("list")' =>
         /\ request'.total <= CountPublished'
         /\ ~ (request'.page > PublishedTotalPages(request'.total))
         /\ ~ walk'.torn => request'.total = CountPublished'
  <2> SUFFICES ASSUME At("list")'
               PROVE  /\ request'.total <= CountPublished'
                      /\ ~ (request'.page > PublishedTotalPages(request'.total))
                      /\ ~ walk'.torn => request'.total = CountPublished'
    OBVIOUS
  <2>1. At("list") /\ request'.total = request.total
    BY <1>2 DEF At, Asking
  <2> QED BY <1>1, <1>2, <1>3, <1>4, <1>5, <2>1
<1>11. At("answered")' =>
         /\ request'.hasNext => request'.page * ArticlesPerPage < CountPublished'
         /\ ~ request'.hasNext /\ ~ walk'.torn => walk'.kept \subseteq walk'.seen
  BY <1>1, <1>2, <1>4, <1>5, <1>7 DEF At
<1>12. /\ request'.of = "articles"
       /\ request'.step \in {"count", "list", "answered", "unavailable"}
       /\ walk'.kept \subseteq Published'
  BY <1>1, <1>2, <1>4
<1> QED BY <1>8, <1>9, <1>10, <1>11, <1>12 DEF WalkIInv

LEMMA WalkAdministrator ==
  ASSUME SiteWalkIInv,
         \/ \E a \in Article :
              \/ Withdraw(a)
              \/ \E doc \in Document : Save(a, doc) \/ Publish(a, doc)
         \/ \E order \in Orders : Arrange(order)
  PROVE  IsWalk' /\ WalkIInv'
<1>0. RowsOK /\ IsWalk
  BY DEF SiteWalkIInv, SiteIInv
<1>1. \A torn : torn = walk.torn => walk = [walk EXCEPT !.torn = torn]
  BY <1>0 DEF IsWalk
<1>2. ASSUME NEW a \in Article, NEW doc, Save(a, doc) PROVE IsWalk' /\ WalkIInv'
  <2>1. /\ \A b \in Article : /\ article'[b].status = article[b].status
                              /\ article'[b].born = article[b].born
        /\ Disturbed /\ walk' = walk
    <3>1. PICK new : new = Derived(a, doc)
      OBVIOUS
    <3>2. article' = [article EXCEPT ![a] = new] /\ Disturbed /\ walk' = walk
      BY <1>2, <3>1 DEF Save
    <3>3. new.status = article[a].status /\ new.born = article[a].born
      <4>1. IsRow(article[a])
        BY <1>0 DEF RowsOK, RowOK
      <4>2. new = [status |-> article[a].status, born |-> article[a].born,
                   doc |-> doc, refs |-> Assets(doc)]
        BY ONLY <3>1, <4>1 DEF Derived, IsRow
      <4> QED BY ONLY <4>2, RowFields
    <3> QED BY <1>0, <3>2, <3>3 DEF RowsOK
  <2>2. Published' = Published /\ Published \subseteq Article /\ CountPublished' = CountPublished
    BY <2>1 DEF Published, CountPublished
  <2>3. \A b \in Published : article'[b].born = article[b].born
    BY <2>1 DEF Published
  <2>4. PICK torn : torn = walk.torn
    OBVIOUS
  <2> QED BY <1>1, <2>1, <2>2, <2>3, <2>4, WalkEndures
<1>3. ASSUME NEW a \in Article, NEW doc, Publish(a, doc) PROVE IsWalk' /\ WalkIInv'
  <2>1. /\ Disturbed
        /\ walk' = [walk EXCEPT !.torn = walk.torn \/ (walk.on /\ request.step = "list")]
    BY <1>3 DEF Publish
  <2>2. PICK born \in 1 .. MaxBorn :
          /\ IF article[a].born # 0 THEN born = article[a].born
             ELSE \A b \in Article : article[b].born # born
          /\ article' = [article EXCEPT ![a] =
               [Derived(a, doc) EXCEPT !.status = "published", !.born = born]]
    BY <1>3 DEF Publish
  <2> PICK derived : derived = Derived(a, doc)
    OBVIOUS
  <2>3. PICK new : new = [derived EXCEPT !.status = "published", !.born = born]
    OBVIOUS
  <2>4. new.status = "published" /\ new.born = born
    <3>1. IsRow(article[a])
      BY <1>0 DEF RowsOK, RowOK
    <3>2. derived = [status |-> article[a].status, born |-> article[a].born,
                     doc |-> doc, refs |-> Assets(doc)]
      BY <3>1 DEF Derived, IsRow
    <3>3. new = [status |-> "published", born |-> born, doc |-> doc, refs |-> Assets(doc)]
      BY ONLY <2>3, <3>2
    <3> QED BY ONLY <3>3, RowFields
  <2>5. /\ article'[a] = new /\ \A b \in Article \ {a} : article'[b] = article[b]
    BY <1>0, <2>2, <2>3 DEF RowsOK
  <2>6. /\ Published \subseteq Published' /\ Published' \subseteq Article
        /\ \A b \in Published : article'[b].born = article[b].born
    <3>1. a \in Published => article[a].born # 0
      BY <1>0 DEF Published, RowsOK, RowOK
    <3> QED BY <2>2, <2>4, <2>5, <3>1 DEF Published
  <2>7. PICK torn : torn = (walk.torn \/ (walk.on /\ request.step = "list"))
    OBVIOUS
  <2>8. walk' = [walk EXCEPT !.torn = torn]
    BY <2>1, <2>7
  <2>9. (walk.torn => torn) /\ (walk.on /\ At("list") => torn)
    BY <2>7 DEF At
  <2> QED BY <2>1, <2>6, <2>8, <2>9, WalkEndures
<1>4. ASSUME NEW a \in Article, Withdraw(a) PROVE IsWalk' /\ WalkIInv'
  BY <1>4, NotWalking DEF Withdraw
<1>5. ASSUME NEW order, Arrange(order) PROVE IsWalk' /\ WalkIInv'
  <2>1. Disturbed /\ article' = article /\ walk' = walk
    BY <1>5 DEF Arrange
  <2>2. /\ Published' = Published /\ Published \subseteq Article
        /\ CountPublished' = CountPublished
        /\ \A b \in Published : article'[b].born = article[b].born
    BY <2>1 DEF Published, CountPublished
  <2>3. PICK torn : torn = walk.torn
    OBVIOUS
  <2> QED BY <1>1, <2>1, <2>2, <2>3, WalkEndures
<1> QED BY <1>2, <1>3, <1>4, <1>5

LEMMA WalkAsking ==
  ASSUME SiteWalkIInv,
         \/ \E page \in 1 .. MaxPage : AskArticles(page)
         \/ AskNext \/ RefuseArticles \/ AskHome \/ AskAbout \/ AskProjects
         \/ \E address \in 1 .. MaxBorn : AskDetail(address)
  PROVE  IsWalk' /\ WalkIInv'
<1>1. ASSUME NEW page \in 1 .. MaxPage, AskArticles(page) PROVE IsWalk' /\ WalkIInv'
  <2>1. CASE page # 1
    BY <1>1, <2>1, NotWalking DEF AskArticles
  <2>2. CASE page = 1
    <3>1. /\ request' = Asked("articles", "count", 1) /\ UNCHANGED <<article, project>>
          /\ walk' = [NoWalk EXCEPT !.on = TRUE, !.kept = Published]
      BY <1>1, <2>2 DEF AskArticles, Ask
    <3>2. /\ request'.of = "articles" /\ request'.step = "count" /\ request'.page = 1
      BY ONLY <3>1, AskedFields
    <3>3. walk' = [on |-> TRUE, seen |-> {}, kept |-> Published, torn |-> FALSE]
      BY <3>1 DEF NoWalk
    <3>4. IsWalk' /\ walk'.kept = Published
      BY ONLY <3>3, WalkFields DEF IsWalk
    <3>5. Published' = Published /\ \A a : Newer(a)' = Newer(a) /\ Cardinality(Newer(a)) \in Nat
      BY <3>1, SameReads, PublishedFinite
    <3>6. Covered' * ArticlesPerPage = 0
      BY <3>2, SiteAssumption DEF Covered, At
    <3>7. \A a \in walk'.kept : ~ (Cardinality(Newer(a)') < Covered' * ArticlesPerPage)
      BY <3>5, <3>6
    <3>8. ~ At("list")' /\ ~ At("answered")'
      BY <3>2 DEF At
    <3> QED BY <3>2, <3>4, <3>5, <3>7, <3>8 DEF WalkIInv
  <2> QED BY <2>1, <2>2
<1>2. CASE AskNext
  <2>1. PICK page : page = request.page + 1
    OBVIOUS
  <2>2. /\ request' = Asked("articles", "count", page)
        /\ UNCHANGED <<article, project>> /\ walk' = walk
        /\ request.step = "answered" /\ request.hasNext /\ request.page \in Nat
    BY <1>2, <2>1 DEF AskNext, Ask, At, SiteWalkIInv, SiteIInv, RequestOK
  <2>3. /\ request'.of = "articles" /\ request'.step = "count" /\ request'.page = page
    BY ONLY <2>2, AskedFields
  <2>4. IsWalk'
    BY <2>2 DEF SiteWalkIInv, IsWalk
  <2>5. SUFFICES ASSUME walk.on PROVE WalkIInv'
    BY <2>2, <2>4 DEF WalkIInv
  <2>6. /\ walk.kept \subseteq Published /\ request.page * ArticlesPerPage < CountPublished
        /\ \A a \in walk.kept :
             Cardinality(Newer(a)) < Covered * ArticlesPerPage => a \in walk.seen
    BY <2>2, <2>5 DEF SiteWalkIInv, WalkIInv, At
  <2>7. Covered = request.page /\ Covered' = request.page /\ page - 1 = request.page
    BY <2>1, <2>2, <2>3 DEF Covered, At
  <2>8. /\ Published' = Published /\ CountPublished' = CountPublished
        /\ \A a : Newer(a)' = Newer(a)
    BY <2>2, SameReads
  <2>9. \A a \in walk'.kept :
          Cardinality(Newer(a)') < Covered' * ArticlesPerPage => a \in walk'.seen
    BY <2>2, <2>6, <2>7, <2>8
  <2>10. /\ (request'.page - 1) * ArticlesPerPage < CountPublished'
         /\ ~ At("list")' /\ ~ At("answered")'
    BY <2>3, <2>6, <2>7, <2>8 DEF At
  <2> QED BY <2>2, <2>3, <2>6, <2>8, <2>9, <2>10 DEF WalkIInv
<1>3. CASE ~ AskNext /\ ~ \E page \in 1 .. MaxPage : AskArticles(page)
  <2>1. walk' = NoWalk
    BY <1>3 DEF RefuseArticles, AskHome, AskAbout, AskProjects, AskDetail
  <2> QED BY <2>1, NotWalking
<1> QED BY <1>1, <1>2, <1>3

LEMMA WalkCount ==
  ASSUME SiteWalkIInv, Count
  PROVE  IsWalk' /\ WalkIInv'
<1>1. PICK r : r = request
  OBVIOUS
<1>2. /\ IsRequest(r) /\ r.page \in Nat /\ r.total \in Nat /\ r.step = "count" /\ r.of = "articles"
      /\ r.page > 0 /\ CountPublished \in Nat
      /\ UNCHANGED <<article, project>> /\ walk' = walk
      /\ request' = IF r.page > PublishedTotalPages(CountPublished)
                    THEN [r EXCEPT !.step = "missing"]
                    ELSE [r EXCEPT !.step = "list", !.total = CountPublished]
  BY <1>1, PublishedFinite DEF SiteWalkIInv, SiteIInv, RequestOK, StepsFit, Count, At, Go
<1>3. IsWalk'
  BY <1>2 DEF SiteWalkIInv, IsWalk
<1>4. SUFFICES ASSUME walk.on PROVE WalkIInv'
  BY <1>2, <1>3 DEF WalkIInv
<1>5. /\ walk.kept \subseteq Published
      /\ \A a \in walk.kept :
           Cardinality(Newer(a)) < Covered * ArticlesPerPage => a \in walk.seen
      /\ r.page = 1 \/ (r.page - 1) * ArticlesPerPage < CountPublished
  BY <1>1, <1>2, <1>4 DEF SiteWalkIInv, WalkIInv, At
<1>6. ~ (r.page > PublishedTotalPages(CountPublished))
  <2>1. (r.page - 1) * ArticlesPerPage \in Nat
    BY <1>2, TotalPages
  <2> QED BY <1>2, <1>5, <2>1, TotalPages
<1>7. /\ request'.of = r.of /\ request'.step = "list"
      /\ request'.page = r.page /\ request'.total = CountPublished
  <2>1. request' = [of |-> r.of, step |-> "list", page |-> r.page, total |-> CountPublished,
                    items |-> r.items, projects |-> r.projects, toc |-> r.toc,
                    hasNext |-> r.hasNext, quiet |-> r.quiet]
    BY <1>2, <1>6 DEF IsRequest
  <2> QED BY ONLY <2>1, RequestFields
<1>8. Covered' = Covered
  BY <1>1, <1>2, <1>7 DEF Covered, At
<1>9. /\ Published' = Published /\ CountPublished' = CountPublished
      /\ \A a : Newer(a)' = Newer(a)
  BY <1>2, SameReads
<1>10. \A a \in walk'.kept :
         Cardinality(Newer(a)') < Covered' * ArticlesPerPage => a \in walk'.seen
  BY <1>2, <1>5, <1>8, <1>9
<1>11. /\ request'.total <= CountPublished' /\ request'.total = CountPublished'
       /\ ~ (request'.page > PublishedTotalPages(request'.total))
  BY <1>2, <1>6, <1>7, <1>9
<1>12. ~ At("count")' /\ ~ At("answered")'
  BY <1>7 DEF At
<1> QED BY <1>2, <1>5, <1>7, <1>9, <1>10, <1>11, <1>12 DEF WalkIInv

LEMMA WalkList ==
  ASSUME SiteWalkIInv, List
  PROVE  IsWalk' /\ WalkIInv'
<1>1. PICK r : r = request
  OBVIOUS
<1> DEFINE next == r.page < PublishedTotalPages(r.total)
<1>2. PICK items : items = ListPublished(ArticlesPerPage, (r.page - 1) * ArticlesPerPage)
  OBVIOUS
<1>3. PICK seen : seen = IF walk.on THEN walk.seen \cup {items[i] : i \in DOMAIN items}
                         ELSE walk.seen
  OBVIOUS
<1>4. /\ IsRequest(r) /\ r.page \in Nat /\ r.total \in Nat /\ r.step = "list" /\ r.of = "articles"
      /\ r.page > 0 /\ UNCHANGED <<article, project>> /\ RowsOK
      /\ request' = [r EXCEPT !.step = "answered", !.items = items, !.hasNext = next]
      /\ walk' = [walk EXCEPT !.seen = seen]
  BY <1>1, <1>2, <1>3 DEF SiteWalkIInv, SiteIInv, RequestOK, StepsFit, List, Shown, At, Go
<1>5. /\ IsWalk' /\ walk'.on = walk.on /\ walk'.seen = seen /\ walk'.kept = walk.kept
      /\ walk'.torn = walk.torn
  <2>1. walk' = [on |-> walk.on, seen |-> seen, kept |-> walk.kept, torn |-> walk.torn]
    BY <1>4 DEF SiteWalkIInv, IsWalk
  <2> QED BY ONLY <2>1, WalkFields DEF IsWalk
<1>6. SUFFICES ASSUME walk.on PROVE WalkIInv'
  BY <1>5 DEF WalkIInv
<1>7. /\ walk.kept \subseteq Published
      /\ \A a \in walk.kept :
           Cardinality(Newer(a)) < (r.page - 1) * ArticlesPerPage => a \in walk.seen
      /\ r.total <= CountPublished /\ ~ (r.page > PublishedTotalPages(r.total))
      /\ ~ walk.torn => r.total = CountPublished
  BY <1>1, <1>4, <1>6 DEF SiteWalkIInv, WalkIInv, At, Covered
<1>8. /\ request'.of = "articles" /\ request'.step = "answered" /\ request'.page = r.page
      /\ request'.hasNext = next
  <2>0. PICK hasNext : hasNext = next
    OBVIOUS
  <2>1. request' = [of |-> r.of, step |-> "answered", page |-> r.page, total |-> r.total,
                    items |-> items, projects |-> r.projects, toc |-> r.toc,
                    hasNext |-> hasNext, quiet |-> r.quiet]
    BY <1>4, <2>0 DEF IsRequest
  <2>2. request'.of = r.of /\ request'.step = "answered" /\ request'.page = r.page
        /\ request'.hasNext = next
    BY ONLY <2>0, <2>1, RequestFields
  <2> QED BY <1>4, <2>2
<1>9. PICK offset : offset = (r.page - 1) * ArticlesPerPage
  OBVIOUS
<1>10. /\ offset \in Nat /\ ArticlesPerPage \in Nat
       /\ r.page * ArticlesPerPage = offset + ArticlesPerPage
       /\ r.page = 1 \/ offset < r.total
       /\ next <=> r.page * ArticlesPerPage < r.total
  BY <1>4, <1>7, <1>9, TotalPages, SiteAssumption
<1>11. CountPublished \in Nat /\ \A a : Cardinality(Newer(a)) \in Nat
  BY PublishedFinite
<1>12. offset <= CountPublished
  <2>1. r.page = 1 => offset = 0
    BY <1>9, SiteAssumption
  <2> QED BY <1>4, <1>7, <1>10, <1>11, <2>1
<1>13. \A a \in Article :
         (\E i \in DOMAIN items : items[i] = a) <=>
           /\ a \in Published
           /\ offset <= Cardinality(Newer(a))
           /\ Cardinality(Newer(a)) < offset + ArticlesPerPage
  <2>1. items = ListPublished(ArticlesPerPage, offset)
    BY <1>2, <1>9
  <2> QED BY ONLY <1>4, <1>10, <1>12, <2>1, ListedAre
<1>14. ASSUME NEW a \in walk.kept, Cardinality(Newer(a)) < r.page * ArticlesPerPage
       PROVE  a \in seen
  <2>1. a \in Published /\ a \in Article /\ Cardinality(Newer(a)) \in Nat
    BY <1>7, <1>11 DEF Published
  <2>2. CASE Cardinality(Newer(a)) < offset
    BY <1>3, <1>6, <1>7, <1>9, <1>14, <2>2
  <2>3. CASE offset <= Cardinality(Newer(a))
    <3>1. \E i \in DOMAIN items : items[i] = a
      BY <1>10, <1>13, <1>14, <2>1, <2>3
    <3> QED BY <1>3, <1>6, <3>1
  <2> QED BY <1>10, <2>1, <2>2, <2>3
<1>15. ASSUME ~ next, ~ walk.torn PROVE walk.kept \subseteq seen
  <2> SUFFICES ASSUME NEW a \in walk.kept PROVE a \in seen
    OBVIOUS
  <2>1. a \in Published
    BY <1>7
  <2>2. PICK k \in 1 .. CountPublished : PublishedOrder[k] = a
    BY <1>4, <2>1, PlacesInOrder
  <2>3. Cardinality(Newer(a)) = k - 1
    BY <1>4, <2>2, PlacesInOrder
  <2>4. ~ (r.page * ArticlesPerPage < CountPublished)
    BY <1>7, <1>10, <1>15
  <2>5. Cardinality(Newer(a)) < r.page * ArticlesPerPage
    BY <1>10, <1>11, <2>2, <2>3, <2>4
  <2> QED BY <1>14, <2>5
<1>16. next => r.page * ArticlesPerPage < CountPublished
  BY <1>4, <1>7, <1>10, <1>11
<1>17. /\ Published' = Published /\ CountPublished' = CountPublished
       /\ \A a : Newer(a)' = Newer(a)
  BY <1>4, SameReads
<1>18. Covered' = r.page
  BY <1>8 DEF Covered, At
<1>19. \A a \in walk'.kept :
         Cardinality(Newer(a)') < Covered' * ArticlesPerPage => a \in walk'.seen
  BY <1>5, <1>14, <1>17, <1>18
<1>20. /\ request'.hasNext => request'.page * ArticlesPerPage < CountPublished'
       /\ ~ request'.hasNext /\ ~ walk'.torn => walk'.kept \subseteq walk'.seen
       /\ walk'.kept \subseteq Published'
  BY <1>5, <1>7, <1>8, <1>15, <1>16, <1>17
<1>21. ~ At("count")' /\ ~ At("list")'
  BY <1>8 DEF At
<1> QED BY <1>8, <1>19, <1>20, <1>21 DEF WalkIInv

LEMMA WalkReadFails ==
  ASSUME SiteWalkIInv, ReadFails
  PROVE  IsWalk' /\ WalkIInv'
<1>1. PICK r : r = request
  OBVIOUS
<1>2. /\ IsRequest(r) /\ UNCHANGED <<article, project>> /\ walk' = walk
      /\ request' = [r EXCEPT !.step = "unavailable"]
  BY <1>1 DEF SiteWalkIInv, SiteIInv, RequestOK, ReadFails, Go
<1>3. IsWalk'
  BY <1>2 DEF SiteWalkIInv, IsWalk
<1>4. SUFFICES ASSUME walk.on PROVE WalkIInv'
  BY <1>2, <1>3 DEF WalkIInv
<1>5. /\ r.of = "articles" /\ walk.kept \subseteq Published
      /\ \A a \in walk.kept :
           Cardinality(Newer(a)) < Covered * ArticlesPerPage => a \in walk.seen
  BY <1>1, <1>4 DEF SiteWalkIInv, WalkIInv
<1>6. request'.of = r.of /\ request'.step = "unavailable" /\ request'.page = r.page
  <2>1. request' = [of |-> r.of, step |-> "unavailable", page |-> r.page, total |-> r.total,
                    items |-> r.items, projects |-> r.projects, toc |-> r.toc,
                    hasNext |-> r.hasNext, quiet |-> r.quiet]
    BY ONLY <1>2 DEF IsRequest
  <2> QED BY ONLY <2>1, RequestFields
<1>7. Covered' = Covered
  BY <1>1, <1>6 DEF Covered, At, ReadFails, Asking
<1>8. Published' = Published /\ \A a : Newer(a)' = Newer(a)
  BY <1>2, SameReads
<1>9. \A a \in walk'.kept :
        Cardinality(Newer(a)') < Covered' * ArticlesPerPage => a \in walk'.seen
  BY <1>2, <1>5, <1>7, <1>8
<1>10. ~ At("count")' /\ ~ At("list")' /\ ~ At("answered")'
  BY <1>6 DEF At
<1> QED BY <1>2, <1>5, <1>6, <1>8, <1>9, <1>10 DEF WalkIInv

(* Whoever reads another page is not walking.                              *)
LEMMA WalkElsewhere ==
  ASSUME SiteWalkIInv,
         \/ HomeArticles \/ HomeProjects \/ AboutArticles \/ AboutProjects \/ Projects \/ Detail
  PROVE  IsWalk' /\ WalkIInv'
<1>1. walk' = walk /\ ~ walk.on
  <2>1. request.step \notin {"count", "list", "answered", "unavailable"} /\ walk' = walk
    BY DEF HomeArticles, HomeProjects, AboutArticles, AboutProjects, Projects, Detail, At
  <2> QED BY <2>1 DEF SiteWalkIInv, WalkIInv
<1> QED BY <1>1 DEF SiteWalkIInv, IsWalk, WalkIInv

LEMMA WalkNext == SiteWalkIInv /\ [Next]_vars => SiteWalkIInv'
<1> SUFFICES ASSUME SiteWalkIInv, [Next]_vars PROVE SiteWalkIInv'
  OBVIOUS
<1>1. SiteIInv'
  BY SiteNext DEF SiteWalkIInv
<1>2. CASE UNCHANGED vars
  <2>1. /\ UNCHANGED <<article, project>> /\ request' = request /\ walk' = walk
    BY <1>2 DEF vars
  <2>2. IsWalk' /\ WalkIInv'
    BY <2>1 DEF SiteWalkIInv, IsWalk, WalkIInv, Covered, At, Newer, Published, CountPublished,
                PublishedTotalPages
  <2> QED BY <1>1, <2>2 DEF SiteWalkIInv
<1>3. CASE Next
  <2>1. IsWalk' /\ WalkIInv'
    BY <1>3, WalkAdministrator, WalkAsking, WalkCount, WalkList, WalkReadFails, WalkElsewhere
       DEF Next
  <2> QED BY <1>1, <2>1 DEF SiteWalkIInv
<1> QED BY <1>2, <1>3

(* Whoever follows the links to the last page has seen every article that  *)
(* stayed published, whatever was published and edited between the pages,  *)
(* and followed no link to a page that is not there.                       *)
THEOREM WalkIsComplete == Spec => []WalkMissesNothing
<1>1. SiteWalkIInv => WalkMissesNothing
  BY DEF SiteWalkIInv, WalkIInv, WalkMissesNothing, Answered, At
<1>2. Init => SiteWalkIInv
  BY SiteInit, WalkInit DEF SiteWalkIInv
<1> QED BY WalkNext, <1>1, <1>2, PTL DEF Spec

----------------------------------------------------------------------------
(* What a document derives.  The walks over a document are recursive       *)
(* functions; induction is over the set of the places a fact holds at.     *)

LEMMA AllPlaces ==
  ASSUME NEW N \in Nat, NEW S, 0 \in S, \A n \in 1 .. N : n - 1 \in S => n \in S
  PROVE  0 .. N \subseteq S
<1> SUFFICES ASSUME NEW x \in 0 .. N, x \notin S PROVE FALSE
  OBVIOUS
<1> DEFINE Bad == {0 .. n : n \in {k \in 0 .. N : k \notin S}}
<1>1. IsFiniteSet(0 .. N)
  BY FS_Interval
<1>2. Bad # {} /\ Bad \subseteq FiniteSubsetsOf(0 .. N)
  <2>1. Bad \subseteq SUBSET (0 .. N) /\ 0 .. x \in Bad
    OBVIOUS
  <2>2. \A T \in SUBSET (0 .. N) : IsFiniteSet(T)
    BY <1>1, FS_Subset
  <2> QED BY <2>1, <2>2 DEF FiniteSubsetsOf
<1>3. IsWellFoundedOn(StrictSubsetOrdering(0 .. N), FiniteSubsetsOf(0 .. N))
  BY <1>1, FS_StrictSubsetOrderingWellFounded
<1>4. PICK T \in Bad : \A U \in Bad : <<U, T>> \notin StrictSubsetOrdering(0 .. N)
  <2> HIDE DEF Bad
  <2> QED BY <1>2, <1>3, WFMin
<1>5. PICK n \in 0 .. N : n \notin S /\ T = 0 .. n
  BY <1>4
<1>6. n # 0 /\ n \in 1 .. N /\ n - 1 \in 0 .. N /\ n - 1 \notin S
  BY <1>5
<1>7. 0 .. n - 1 \in Bad
  BY <1>6
<1>8. 0 .. n - 1 \subseteq T /\ 0 .. n - 1 # T /\ T \subseteq 0 .. N
  <2>1. n \in T /\ n \notin 0 .. n - 1
    BY <1>5
  <2> QED BY <1>5, <2>1
<1>9. <<0 .. n - 1, T>> \in StrictSubsetOrdering(0 .. N)
  <2> DEFINE U == 0 .. n - 1
  <2>1. U \in SUBSET (0 .. N) /\ T \in SUBSET (0 .. N) /\ U \subseteq T /\ U # T
    BY <1>8
  <2> HIDE DEF U
  <2>2. <<U, T>> \in StrictSubsetOrdering(0 .. N)
    BY <2>1 DEF StrictSubsetOrdering
  <2> QED BY <2>2 DEF U
<1> QED BY <1>4, <1>7, <1>9

LEMMA LeastOf ==
  ASSUME NEW T, T \subseteq Nat, T # {}
  PROVE  \E m \in T : \A k \in T : m <= k
<1> SUFFICES ASSUME \A m \in T : \E k \in T : ~ (m <= k) PROVE FALSE
  OBVIOUS
<1>1. PICK x \in T : x \in Nat
  OBVIOUS
<1> DEFINE S == {n \in 0 .. x : \A k \in T : k > n}
<1>2. 0 \in S
  <2>1. 0 \notin T
    OBVIOUS
  <2> QED BY <1>1, <2>1
<1>3. ASSUME NEW n \in 1 .. x, n - 1 \in S PROVE n \in S
  <2>1. \A k \in T : k \in Nat /\ n <= k
    BY <1>3
  <2>2. n \notin T
    BY <2>1
  <2>3. \A k \in T : k > n
    BY <2>1, <2>2
  <2> QED BY <2>3
<1>4. 0 .. x \subseteq S
  <2> HIDE DEF S
  <2> QED BY <1>1, <1>2, <1>3, AllPlaces
<1>5. x \in S
  BY <1>1, <1>4
<1> QED BY <1>1, <1>5

(* A walk over N nodes that starts with empty and lets step go on.         *)
IsWalkOver(f, N, X, empty, step) ==
  f \in [0 .. N -> X] /\ f[0] = empty /\ \A n \in 1 .. N : f[n] = step[n][f[n - 1]]

LEMMA WalkExists ==
  ASSUME NEW N \in Nat, NEW X, NEW empty \in X, NEW step \in [1 .. N -> [X -> X]]
  PROVE  \E f : IsWalkOver(f, N, X, empty, step)
<1> DEFINE Fits(f, m) ==
             /\ f \in [0 .. m -> X] /\ f[0] = empty
             /\ \A n \in 1 .. m : f[n] = step[n][f[n - 1]]
           S == {m \in 0 .. N : \E f : Fits(f, m)}
<1>1. 0 \in S
  <2> DEFINE f == [n \in 0 .. 0 |-> empty]
  <2>1. Fits(f, 0)
    OBVIOUS
  <2> HIDE DEF Fits, f
  <2> QED BY <2>1
<1>2. ASSUME NEW m \in 1 .. N, m - 1 \in S PROVE m \in S
  <2>1. PICK f : Fits(f, m - 1)
    BY <1>2
  <2> DEFINE g == [n \in 0 .. m |-> IF n = m THEN step[m][f[m - 1]] ELSE f[n]]
  <2>2. f[m - 1] \in X /\ step[m][f[m - 1]] \in X
    <3>1. m - 1 \in 0 .. m - 1
      OBVIOUS
    <3>2. f[m - 1] \in X
      BY <2>1, <3>1
    <3> QED BY <3>2
  <2>3. \A n \in 0 .. m - 1 : n \in 0 .. m /\ g[n] = f[n]
    OBVIOUS
  <2>4. g \in [0 .. m -> X] /\ g[0] = empty
    BY <2>1, <2>2
  <2>5. ASSUME NEW n \in 1 .. m PROVE g[n] = step[n][g[n - 1]]
    <3>1. n - 1 \in 0 .. m - 1 /\ g[n - 1] = f[n - 1]
      BY <2>3
    <3>2. CASE n = m
      BY <3>1, <3>2
    <3>3. CASE n # m
      <4>1. n \in 1 .. m - 1
        BY <3>3
      <4>2. g[n] = f[n] /\ f[n] = step[n][f[n - 1]]
        BY <2>1, <2>3, <4>1
      <4> QED BY <3>1, <4>2
    <3> QED BY <3>2, <3>3
  <2>6. Fits(g, m)
    <3> HIDE DEF g
    <3> QED BY <2>4, <2>5
  <2> HIDE DEF Fits, g
  <2> QED BY <2>6
<1>3. 0 .. N \subseteq S
  <2> HIDE DEF S
  <2> QED BY <1>1, <1>2, AllPlaces
<1>4. PICK f : Fits(f, N)
  BY <1>3
<1> QED BY <1>4 DEF IsWalkOver

(* The references of a document are to the images in it, whatever their    *)
(* number and order, and however often one is repeated.                    *)
LEMMA AssetsAreImages ==
  ASSUME NEW doc \in Seq(Node)
  PROVE  Assets(doc) = {doc[p].asset : p \in Images(doc)}
<1> DEFINE N == Len(doc)
           Ref(n) == [asset |-> doc[n].asset, alt |-> doc[n].alt]
           R == {Ref(n) : n \in 1 .. N}
           X == Seq(R)
           Known(refs, n) == \E i \in DOMAIN refs : refs[i].asset = doc[n].asset
           Step(refs, n) ==
             IF n \notin Images(doc) \/ Known(refs, n) THEN refs ELSE Append(refs, Ref(n))
           step == [n \in 1 .. N |-> [refs \in X |-> Step(refs, n)]]
           Is(f) == f = [n \in 0 .. N |-> IF n = 0 THEN <<>> ELSE Step(f[n - 1], n)]
<1>1. N \in Nat /\ DOMAIN doc = 1 .. N /\ Images(doc) \subseteq 1 .. N
  BY DEF Images
<1>2. ASSUME NEW n \in 1 .. N, NEW refs \in X PROVE Step(refs, n) \in X
  <2>1. Append(refs, Ref(n)) \in X
    <3>1. Ref(n) \in R
      OBVIOUS
    <3> HIDE DEF Ref, R
    <3> QED BY <1>2, <3>1
  <2> QED BY <1>2, <2>1
<1>3. <<>> \in X /\ step \in [1 .. N -> [X -> X]]
  <2>1. step \in [1 .. N -> [X -> X]]
    <3> HIDE DEF Step, X
    <3> QED BY <1>2
  <2> QED BY <2>1
<1>4. PICK g : IsWalkOver(g, N, X, <<>>, step)
  <2> HIDE DEF N, step, X
  <2> QED BY <1>1, <1>3, WalkExists
<1>5. Is(g)
  <2>1. ASSUME NEW n \in 1 .. N PROVE g[n] = Step(g[n - 1], n)
    <3>1. n - 1 \in 0 .. N
      BY <1>1
    <3>2. g[n - 1] \in X
      BY <1>4, <3>1 DEF IsWalkOver
    <3> HIDE DEF N, Step, X
    <3> QED BY <1>4, <3>2 DEF IsWalkOver
  <2>2. \A n \in 0 .. N : g[n] = IF n = 0 THEN <<>> ELSE Step(g[n - 1], n)
    <3> HIDE DEF N, Step, X, step
    <3> QED BY <1>1, <1>4, <2>1 DEF IsWalkOver
  <2> HIDE DEF N, Step, step, X
  <2> QED BY <1>4, <2>2 DEF IsWalkOver
<1> DEFINE f == CHOOSE f : Is(f)
<1>6. MediaReferences(doc) = f[N]
  BY DEF MediaReferences
<1>7. Is(f)
  <2> HIDE DEF Is
  <2> QED BY <1>5
<1>8. f[0] = <<>> /\ \A n \in 1 .. N : f[n] = Step(f[n - 1], n)
  <2> HIDE DEF N, Step, f
  <2> QED BY <1>1, <1>7
<1> DEFINE Of(refs) == {refs[i].asset : i \in DOMAIN refs}
           Upto(n) == {doc[p].asset : p \in {p \in Images(doc) : p <= n}}
           S == {n \in 0 .. N : f[n] \in X /\ Of(f[n]) = Upto(n)}
<1> HIDE DEF f
<1>9. 0 \in S
  <2>1. Upto(0) = {}
    BY <1>1
  <2>2. Of(<<>>) = {}
    OBVIOUS
  <2>3. 0 \in 0 .. N /\ f[0] \in X
    BY <1>1, <1>3, <1>8
  <2> HIDE DEF X, Of, Upto
  <2> QED BY <1>8, <2>1, <2>2, <2>3
<1>10. ASSUME NEW n \in 1 .. N, n - 1 \in S PROVE n \in S
  <2> DEFINE refs == f[n - 1]
  <2>1. refs \in X /\ Of(refs) = Upto(n - 1) /\ f[n] = Step(refs, n)
    BY <1>8, <1>10
  <2>2. f[n] \in X
    <3> HIDE DEF refs, Step, X
    <3> QED BY <1>2, <2>1
  <2>3. n \in Images(doc) => Upto(n) = Upto(n - 1) \cup {doc[n].asset}
    BY <1>1
  <2>4. n \notin Images(doc) => Upto(n) = Upto(n - 1)
    BY <1>1
  <2>5. Known(refs, n) <=> doc[n].asset \in Of(refs)
    OBVIOUS
  <2>6. Of(Append(refs, Ref(n))) = Of(refs) \cup {doc[n].asset}
    <3>1. Ref(n).asset = doc[n].asset /\ Ref(n) \in R /\ refs \in Seq(R)
      BY <2>1
    <3> HIDE DEF refs, Ref, R
    <3>2. /\ DOMAIN Append(refs, Ref(n)) = DOMAIN refs \cup {Len(refs) + 1}
          /\ \A i \in DOMAIN refs : Append(refs, Ref(n))[i] = refs[i]
          /\ Append(refs, Ref(n))[Len(refs) + 1] = Ref(n)
      BY <3>1
    <3> DEFINE after == Append(refs, Ref(n))
    <3> HIDE DEF after
    <3>3. /\ DOMAIN after = DOMAIN refs \cup {Len(refs) + 1}
          /\ \A i \in DOMAIN refs : after[i] = refs[i]
          /\ after[Len(refs) + 1] = Ref(n)
      BY <3>2 DEF after
    <3>4. Of(after) = Of(refs) \cup {doc[n].asset}
      BY <3>1, <3>3
    <3> QED BY <3>4 DEF after
  <2>7. Of(f[n]) = Upto(n)
    <3>1. CASE n \notin Images(doc)
      <4> HIDE DEF Of, Upto, Known, Ref, refs
      <4> QED BY <2>1, <2>4, <3>1
    <3>2. CASE n \in Images(doc) /\ Known(refs, n)
      <4>1. f[n] = refs /\ doc[n].asset \in Upto(n - 1)
        <5> HIDE DEF Of, Upto, Known, Ref, refs
        <5> QED BY <2>1, <2>5, <3>2
      <4> HIDE DEF Of, Upto, Known, Ref, refs
      <4> QED BY <2>1, <2>3, <3>2, <4>1
    <3>3. CASE n \in Images(doc) /\ ~ Known(refs, n)
      <4> HIDE DEF Of, Upto, Known, Ref, refs
      <4> QED BY <2>1, <2>3, <2>6, <3>3
    <3> QED BY <3>1, <3>2, <3>3
  <2> HIDE DEF X, Of, Upto
  <2> QED BY <2>2, <2>7
<1>11. N \in S
  <2>1. 0 .. N \subseteq S
    <3> HIDE DEF N, S
    <3> QED BY <1>1, <1>9, <1>10, AllPlaces
  <2> HIDE DEF N, S
  <2> QED BY <1>1, <2>1
<1>12. Upto(N) = {doc[p].asset : p \in Images(doc)}
  BY <1>1
<1> QED BY <1>6, <1>11, <1>12 DEF Assets, f

(* A number that is free: used takes at most as many as it has members.    *)
LEMMA HeadingIDIsFree ==
  ASSUME NEW base \in Seq(Word \cup Nat), NEW used, IsFiniteSet(used)
  PROVE  /\ UniqueHeadingID(base, used) \in Seq(Word \cup Nat)
         /\ UniqueHeadingID(base, used) \notin used
<1> DEFINE c == Cardinality(used)
           free == {n \in 2 .. c + 2 : Append(base, n) \notin used}
           least == CHOOSE n \in free : \A m \in free : n <= m
<1>1. c \in Nat
  BY FS_CardinalityType
<1>2. CASE base \notin used
  BY <1>2 DEF UniqueHeadingID
<1>3. CASE base \in used
  <2>1. UniqueHeadingID(base, used) = Append(base, least)
    BY <1>3 DEF UniqueHeadingID
  <2>2. free # {}
    <3> SUFFICES ASSUME \A n \in 2 .. c + 2 : Append(base, n) \in used PROVE FALSE
      OBVIOUS
    <3> DEFINE f == [n \in 2 .. c + 2 |-> Append(base, n)]
    <3>1. \A m, n \in 2 .. c + 2 : Append(base, m) = Append(base, n) => m = n
      <4> SUFFICES ASSUME NEW m \in 2 .. c + 2, NEW n \in 2 .. c + 2,
                          Append(base, m) = Append(base, n)
                   PROVE  m = n
        OBVIOUS
      <4>1. m \in Word \cup Nat /\ n \in Word \cup Nat
        BY <1>1
      <4>2. /\ Append(base, m)[Len(base) + 1] = m
            /\ Append(base, n)[Len(base) + 1] = n
        BY <4>1
      <4> QED BY <4>2
    <3>2. f \in Injection(2 .. c + 2, used)
      <4>1. f \in [2 .. c + 2 -> used]
        OBVIOUS
      <4>2. \A m, n \in 2 .. c + 2 : f[m] = f[n] => m = n
        BY <3>1
      <4> HIDE DEF f
      <4> QED BY <4>1, <4>2 DEF Injection, IsInjective
    <3>3. Cardinality(2 .. c + 2) = c + 1
      BY <1>1, FS_Interval
    <3>4. Cardinality(2 .. c + 2) <= c
      <4> HIDE DEF f
      <4> QED BY <3>2, FS_Injection
    <3> HIDE DEF c
    <3> QED BY <1>1, <3>3, <3>4
  <2>3. free \subseteq Nat
    BY <1>1
  <2>4. least \in free
    <3> HIDE DEF free
    <3>1. \E n \in free : \A m \in free : n <= m
      BY <2>2, <2>3, LeastOf
    <3> QED BY <3>1
  <2>5. least \in Nat /\ Append(base, least) \notin used
    <3> HIDE DEF least
    <3> QED BY <2>3, <2>4
  <2>6. Append(base, least) \in Seq(Word \cup Nat)
    <3> HIDE DEF least
    <3> QED BY <2>5
  <2> QED BY <2>1, <2>5, <2>6
<1> QED BY <1>2, <1>3

(* Different ids for different entries, and nothing but ids.               *)
ItemsApart(items) == \A i, j \in DOMAIN items : items[i].id = items[j].id => i = j

(* One entry for every heading of the two levels, each with its own id.    *)
LEMMA ContentsFit ==
  ASSUME NEW doc \in Seq(Node)
  PROVE  Len(TOC(doc)) = Cardinality(Headings(doc)) /\ ItemsApart(TOC(doc))
<1> DEFINE N == Len(doc)
           I == [id : Seq(Word \cup Nat), level : 1 .. 6]
           X == Seq(I)
           IDs(items) == {items[i].id : i \in DOMAIN items}
           Item(items, n) ==
             [id |-> UniqueHeadingID(doc[n].slug, IDs(items)), level |-> doc[n].level]
           Step(items, n) ==
             IF n \notin Headings(doc) THEN items ELSE Append(items, Item(items, n))
           step == [n \in 1 .. N |-> [items \in X |-> Step(items, n)]]
           Is(f) == f = [n \in 0 .. N |-> IF n = 0 THEN <<>> ELSE Step(f[n - 1], n)]
<1>1. N \in Nat /\ DOMAIN doc = 1 .. N /\ Headings(doc) \subseteq 1 .. N
  BY DEF Headings
<1>2. ASSUME NEW n \in Headings(doc), NEW items \in X
      PROVE  Item(items, n) \in I /\ Item(items, n).id \notin IDs(items)
  <2>1. doc[n].slug \in Seq(Word \cup Nat) /\ doc[n].level \in 1 .. 6
    <3>1. doc[n] \in Node /\ doc[n].kind = "heading"
      BY <1>1 DEF Headings
    <3> QED BY <3>1 DEF Node
  <2>2. IsFiniteSet(IDs(items))
    <3>1. IsFiniteSet(DOMAIN items)
      <4>1. Len(items) \in Nat /\ DOMAIN items = 1 .. Len(items)
        OBVIOUS
      <4> HIDE DEF X
      <4> QED BY <4>1, FS_Interval
    <3> DEFINE f == [i \in DOMAIN items |-> items[i].id]
    <3>2. f \in Surjection(DOMAIN items, IDs(items))
      BY DEF Surjection
    <3> HIDE DEF f, X, IDs
    <3> QED BY <3>1, <3>2, FS_Surjection
  <2> DEFINE id == UniqueHeadingID(doc[n].slug, IDs(items))
  <2>3. id \in Seq(Word \cup Nat) /\ id \notin IDs(items)
    <3> HIDE DEF IDs
    <3> QED BY <2>1, <2>2, HeadingIDIsFree
  <2> HIDE DEF id, IDs
  <2>4. Item(items, n) = [id |-> id, level |-> doc[n].level]
    BY DEF id
  <2> HIDE DEF Item
  <2> QED BY <2>1, <2>3, <2>4
<1>3. ASSUME NEW n \in 1 .. N, NEW items \in X PROVE Step(items, n) \in X
  <2>1. n \in Headings(doc) => Item(items, n) \in I
    <3> HIDE DEF Item, I, X
    <3> QED BY <1>2
  <2> HIDE DEF Item, I
  <2> QED BY <2>1
<1>4. <<>> \in X /\ step \in [1 .. N -> [X -> X]]
  <2>1. step \in [1 .. N -> [X -> X]]
    <3> HIDE DEF Step, X
    <3> QED BY <1>3
  <2>2. <<>> \in X
    <3> HIDE DEF I
    <3> QED OBVIOUS
  <2> QED BY <2>1, <2>2
<1>5. PICK g : IsWalkOver(g, N, X, <<>>, step)
  <2> HIDE DEF N, step, X
  <2> QED BY <1>1, <1>4, WalkExists
<1>6. Is(g)
  <2>1. ASSUME NEW n \in 1 .. N PROVE g[n] = Step(g[n - 1], n)
    <3>1. n - 1 \in 0 .. N
      BY <1>1
    <3>2. g[n - 1] \in X
      BY <1>5, <3>1 DEF IsWalkOver
    <3> HIDE DEF N, Step, X
    <3> QED BY <1>5, <3>2 DEF IsWalkOver
  <2>2. \A n \in 0 .. N : g[n] = IF n = 0 THEN <<>> ELSE Step(g[n - 1], n)
    <3> HIDE DEF N, Step, X, step
    <3> QED BY <1>1, <1>5, <2>1 DEF IsWalkOver
  <2> HIDE DEF N, Step, step, X
  <2> QED BY <1>5, <2>2 DEF IsWalkOver
<1> DEFINE f == CHOOSE f : Is(f)
<1>7. TOC(doc) = f[N]
  BY DEF TOC
<1>8. Is(f)
  <2> HIDE DEF Is
  <2> QED BY <1>6
<1>9. f[0] = <<>> /\ \A n \in 1 .. N : f[n] = Step(f[n - 1], n)
  <2> HIDE DEF N, Step, f
  <2> QED BY <1>1, <1>8
<1> DEFINE Upto(n) == {p \in Headings(doc) : p <= n}
           S == {n \in 0 .. N : /\ f[n] \in X /\ Len(f[n]) = Cardinality(Upto(n))
                                /\ ItemsApart(f[n])}
<1> HIDE DEF f
<1>10. 0 \in S
  <2>1. Upto(0) = {}
    BY <1>1
  <2>2. Len(f[0]) = 0 /\ ItemsApart(f[0])
    BY <1>9 DEF ItemsApart
  <2>3. 0 \in 0 .. N /\ f[0] \in X
    BY <1>1, <1>4, <1>9
  <2> HIDE DEF X, Upto
  <2> QED BY <2>1, <2>2, <2>3, FS_EmptySet
<1>11. ASSUME NEW n \in 1 .. N, n - 1 \in S PROVE n \in S
  <2> DEFINE items == f[n - 1]
             after == Append(items, Item(items, n))
  <2>1. /\ items \in X /\ f[n] = Step(items, n)
        /\ Len(items) = Cardinality(Upto(n - 1)) /\ ItemsApart(items)
    BY <1>9, <1>11
  <2>2. f[n] \in X
    <3> HIDE DEF items, Step, X
    <3> QED BY <1>3, <2>1
  <2>3. CASE n \notin Headings(doc)
    <3>1. Upto(n) = Upto(n - 1)
      BY <1>1, <2>3
    <3> HIDE DEF X, Upto, Item
    <3> QED BY <2>1, <2>2, <2>3, <3>1
  <2>4. CASE n \in Headings(doc)
    <3>1. f[n] = after
      BY <2>1, <2>4
    <3>2. Upto(n) = Upto(n - 1) \cup {n} /\ n \notin Upto(n - 1)
      BY <1>1, <2>4
    <3>3. Cardinality(Upto(n)) = Cardinality(Upto(n - 1)) + 1
      <4>1. IsFiniteSet(Upto(n - 1))
        <5>1. Upto(n - 1) \subseteq 1 .. N /\ IsFiniteSet(1 .. N)
          BY <1>1, FS_Interval
        <5> HIDE DEF Upto
        <5> QED BY <5>1, FS_Subset
      <4> HIDE DEF Upto
      <4> QED BY <3>2, <4>1, FS_AddElement
    <3>4. Item(items, n) \in I /\ Item(items, n).id \notin IDs(items)
      <4> HIDE DEF items, Item, I, X, IDs
      <4> QED BY <1>2, <2>1, <2>4
    <3> HIDE DEF Item, I
    <3>5. /\ Len(after) = Len(items) + 1 /\ Len(items) \in Nat
          /\ DOMAIN items = 1 .. Len(items) /\ DOMAIN after = 1 .. Len(items) + 1
          /\ \A i \in DOMAIN items : after[i] = items[i]
          /\ after[Len(items) + 1] = Item(items, n)
      <4> DEFINE item == Item(items, n)
      <4>1. items \in Seq(I) /\ item \in I
        BY <2>1, <3>4
      <4> HIDE DEF items, item
      <4>2. /\ Len(items) \in Nat /\ DOMAIN items = 1 .. Len(items)
            /\ Append(items, item) \in Seq(I) /\ Len(Append(items, item)) = Len(items) + 1
            /\ \A i \in 1 .. Len(items) : Append(items, item)[i] = items[i]
            /\ Append(items, item)[Len(items) + 1] = item
        BY ONLY <4>1
      <4>3. DOMAIN Append(items, item) = 1 .. Len(items) + 1
        BY ONLY <4>2
      <4> QED BY <4>2, <4>3 DEF item
    <3> HIDE DEF after, items
    <3>6. ItemsApart(after)
      <4> SUFFICES ASSUME NEW i \in DOMAIN after, NEW j \in DOMAIN after,
                          after[i].id = after[j].id
                   PROVE  i = j
        BY DEF ItemsApart
      <4> DEFINE last == Len(items) + 1
      <4>1. \A k \in DOMAIN after : k = last \/ k \in DOMAIN items
        BY <3>5
      <4>2. \A k \in DOMAIN items : after[k].id \in IDs(items)
        BY <3>5
      <4>3. after[last].id \notin IDs(items)
        BY <3>4, <3>5
      <4>4. CASE i \in DOMAIN items /\ j \in DOMAIN items
        BY <2>1, <3>5, <4>4 DEF ItemsApart
      <4> HIDE DEF last, IDs
      <4> QED BY <4>1, <4>2, <4>3, <4>4
    <3> HIDE DEF X, Upto
    <3> QED BY <2>1, <2>2, <3>1, <3>3, <3>5, <3>6
  <2> QED BY <2>3, <2>4
<1>12. N \in S
  <2>1. 0 .. N \subseteq S
    <3> HIDE DEF N, S
    <3> QED BY <1>1, <1>10, <1>11, AllPlaces
  <2> HIDE DEF N, S
  <2> QED BY <1>1, <2>1
<1>13. Upto(N) = Headings(doc)
  BY <1>1
<1> HIDE DEF X, Upto, N
<1> QED BY <1>7, <1>12, <1>13

(* What is stored of an article is what its document, which renders, says. *)
DocumentOK(row) ==
  /\ row.doc \in Seq(Node) /\ Renders(row.doc)
  /\ row.refs = Assets(row.doc)

DerivedIInv == SiteIInv /\ \A a \in Article : DocumentOK(article[a])

LEMMA NothingRenders == <<>> \in Seq(Node) /\ Renders(<<>>) /\ Assets(<<>>) = {}
<1>1. <<>> \in Seq(Node) /\ Images(<<>>) = {}
  BY DEF Images
<1>2. Assets(<<>>) = {}
  BY <1>1, AssetsAreImages
<1> QED BY <1>1, <1>2 DEF Renders

(* A row written with what derives from a document that renders.           *)
LEMMA DerivedIsRight ==
  ASSUME NEW a \in Article, RowOK(a), NEW doc \in Document, Renders(doc)
  PROVE  /\ DocumentOK(Derived(a, doc))
         /\ \A born : DocumentOK([Derived(a, doc) EXCEPT !.status = "published", !.born = born])
<1>1. Derived(a, doc) = [status |-> article[a].status, born |-> article[a].born,
                         doc |-> doc, refs |-> Assets(doc)]
  <2>1. PICK new : new = Derived(a, doc)
    OBVIOUS
  <2>2. IsRow(article[a])
    BY DEF RowOK
  <2>3. new = [status |-> article[a].status, born |-> article[a].born,
               doc |-> doc, refs |-> Assets(doc)]
    BY ONLY <2>1, <2>2 DEF Derived, IsRow
  <2> QED BY <2>1, <2>3
<1>2. doc \in Seq(Node)
  BY DocumentAssumption
<1> DEFINE row == Derived(a, doc)
<1>3. /\ row.doc = doc /\ row.refs = Assets(doc)
      /\ \A born : /\ [row EXCEPT !.status = "published", !.born = born].doc = doc
                   /\ [row EXCEPT !.status = "published", !.born = born].refs = Assets(doc)
  BY <1>1
<1> QED BY <1>2, <1>3 DEF DocumentOK

LEMMA DerivedInit == Init => DerivedIInv
<1> SUFFICES ASSUME Init PROVE DerivedIInv
  OBVIOUS
<1>1. ASSUME NEW a \in Article PROVE DocumentOK(article[a])
  <2>1. article[a].doc = <<>> /\ article[a].refs = {}
    BY DEF Init, Unborn
  <2> QED BY <2>1, NothingRenders DEF DocumentOK
<1> QED BY <1>1, SiteInit DEF DerivedIInv

LEMMA DerivedNext == DerivedIInv /\ [Next]_vars => DerivedIInv'
<1> SUFFICES ASSUME DerivedIInv, [Next]_vars PROVE DerivedIInv'
  OBVIOUS
<1>1. SiteIInv'
  BY SiteNext DEF DerivedIInv
<1>2. DOMAIN article = Article /\ \A a \in Article : RowOK(a)
  BY DEF DerivedIInv, SiteIInv, RowsOK
<1> SUFFICES ASSUME NEW b \in Article PROVE DocumentOK(article[b])'
  BY <1>1 DEF DerivedIInv
<1>3. DocumentOK(article[b])
  BY DEF DerivedIInv
<1>4. CASE article' = article
  BY <1>3, <1>4
<1>5. ASSUME NEW a \in Article, Withdraw(a) PROVE DocumentOK(article[b])'
  <2>1. article'[b].doc = article[b].doc /\ article'[b].refs = article[b].refs
    <3>1. CASE b = a
      <4>1. article'[b] = [article[b] EXCEPT !.status = "draft"]
        BY <1>2, <1>5, <3>1 DEF Withdraw
      <4> QED BY <1>2, <4>1 DEF RowOK, IsRow
    <3>2. CASE b # a
      BY <1>2, <1>5, <3>2 DEF Withdraw
    <3> QED BY <3>1, <3>2
  <2> QED BY <1>3, <2>1 DEF DocumentOK
<1>6. ASSUME NEW a \in Article, NEW doc \in Document, Save(a, doc) PROVE DocumentOK(article[b])'
  <2>1. CASE b = a
    <3>1. article'[b] = Derived(b, doc) /\ Renders(doc)
      BY <1>2, <1>6, <2>1 DEF Save
    <3> QED BY <1>2, <3>1, DerivedIsRight
  <2>2. CASE b # a
    <3>1. article'[b] = article[b]
      BY <1>2, <1>6, <2>2 DEF Save
    <3> QED BY <1>3, <3>1
  <2> QED BY <2>1, <2>2
<1>7. ASSUME NEW a \in Article, NEW doc \in Document, Publish(a, doc)
      PROVE  DocumentOK(article[b])'
  <2>1. PICK born : article' = [article EXCEPT ![a] =
                      [Derived(a, doc) EXCEPT !.status = "published", !.born = born]]
    BY <1>7 DEF Publish
  <2>2. CASE b = a
    <3>1. /\ article'[b] = [Derived(b, doc) EXCEPT !.status = "published", !.born = born]
          /\ Renders(doc)
      BY <1>2, <1>7, <2>1, <2>2 DEF Publish
    <3>2. DocumentOK([Derived(b, doc) EXCEPT !.status = "published", !.born = born])
      BY ONLY <1>2, <3>1, DerivedIsRight
    <3> QED BY <3>1, <3>2
  <2>3. CASE b # a
    <3>1. article'[b] = article[b]
      BY <1>2, <2>1, <2>3
    <3> QED BY <1>3, <3>1
  <2> QED BY <2>2, <2>3
<1>8. CASE UNCHANGED vars
  BY <1>4, <1>8 DEF vars
<1>9. CASE Next
  <2>1. \/ article' = article
        \/ \E a \in Article : Withdraw(a) \/ \E doc \in Document : Save(a, doc) \/ Publish(a, doc)
    BY <1>9 DEF Next, Arrange, AskArticles, AskNext, RefuseArticles, Count, List, Shown, AskHome,
                HomeArticles, HomeProjects, AskAbout, AboutArticles, AboutProjects, AskProjects,
                Projects, AskDetail, Detail, ReadFails, Ask, Go
  <2> QED BY <1>4, <1>5, <1>6, <1>7, <2>1
<1> QED BY <1>8, <1>9

(* Whatever was written and saved before, the images an article makes      *)
(* public are those its HTML shows; and its table of contents has an entry *)
(* for every heading of it, each with an id of its own.                    *)
THEOREM DerivedFits == Spec => []DerivedFitsDocument
<1>1. ASSUME DerivedIInv, NEW a \in Article
      PROVE  LET doc == article[a].doc IN
             /\ article[a].refs = HTMLImages(doc)
             /\ Len(TOC(doc)) = Cardinality(Headings(doc))
             /\ \A i, j \in DOMAIN TOC(doc) : TOC(doc)[i].id = TOC(doc)[j].id => i = j
  <2> DEFINE doc == article[a].doc
  <2>1. doc \in Seq(Node) /\ Renders(doc) /\ article[a].refs = Assets(doc)
    BY <1>1 DEF DerivedIInv, DocumentOK
  <2>2. article[a].refs = {doc[p].asset : p \in Images(doc)}
    <3> HIDE DEF doc
    <3> QED BY <2>1, AssetsAreImages
  <2>3. HTMLImages(doc) = {doc[p].asset : p \in Images(doc)}
    BY <2>1 DEF HTMLImages, Renders, KeepsSource, ValidateMediaDestination
  <2>4. /\ Len(TOC(doc)) = Cardinality(Headings(doc))
        /\ \A i, j \in DOMAIN TOC(doc) : TOC(doc)[i].id = TOC(doc)[j].id => i = j
    <3> HIDE DEF doc
    <3> QED BY <2>1, ContentsFit DEF ItemsApart
  <2> QED BY <2>2, <2>3, <2>4
<1>2. DerivedIInv => DerivedFitsDocument
  BY <1>1 DEF DerivedFitsDocument
<1> QED BY DerivedInit, DerivedNext, <1>2, PTL DEF Spec
=============================================================================
