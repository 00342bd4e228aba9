-------------------------- MODULE ProjectOrderProofs --------------------------
(***************************************************************************)
(* Theorems about ProjectOrder, for any finite set of projects, any tabs   *)
(* and any bounds, and about the statements of OrderRewrite.               *)
(*                                                                         *)
(* The public order (OrderIsDense) and the types are inductive together:   *)
(* the types need a new place to be positive, which rests on the largest   *)
(* place of a finite set.  The screens need more than they promise:        *)
(* ScreensGood below.                                                      *)
(***************************************************************************)
EXTENDS OrderRewrite, FiniteSetTheorems, WellFoundedInduction, TLAPS

(* A nonempty finite set of numbers has a largest one.  (Of the nonempty   *)
(* subsets without one, take a smallest: without one element it is empty,  *)
(* or has a largest after all.)                                            *)
LEMMA FiniteMax ==
  ASSUME NEW S, S \subseteq Nat, S # {}, IsFiniteSet(S)
  PROVE  \E m \in S : \A k \in S : k <= m
<1> DEFINE HasMax(T) == \E m \in T : \A k \in T : k <= m
           Bad == {T \in SUBSET S : T # {} /\ ~ HasMax(T)}
<1>1. SUFFICES ASSUME Bad # {} PROVE FALSE
  OBVIOUS
<1>2. IsWellFoundedOn(StrictSubsetOrdering(S), FiniteSubsetsOf(S))
  BY FS_StrictSubsetOrderingWellFounded
<1>3. Bad \subseteq FiniteSubsetsOf(S)
  BY FS_Subset DEF FiniteSubsetsOf
<1>4. PICK T \in Bad : \A U \in Bad : <<U, T>> \notin StrictSubsetOrdering(S)
  BY <1>1, <1>2, <1>3, WFMin
<1>5. PICK x \in T : TRUE
  OBVIOUS
<1>6. CASE T \ {x} = {}
  <2>1. x \in Nat /\ \A k \in T : k = x
    BY <1>5, <1>6
  <2>2. HasMax(T)
    BY <1>5, <2>1
  <2> QED BY <2>2
<1>7. CASE T \ {x} # {}
  <2>1. T \ {x} \notin Bad
    BY <1>4, <1>5 DEF StrictSubsetOrdering
  <2>2. HasMax(T \ {x})
    BY <2>1, <1>7
  <2>3. PICK m \in T \ {x} : \A k \in T \ {x} : k <= m
    BY <2>2
  <2>4. x \in Nat /\ m \in Nat /\ T \subseteq Nat
    BY <1>5, <2>3
  <2>5. CASE x <= m
    <3>1. \A k \in T : k <= m
      BY <2>3, <2>5
    <3> QED BY <3>1, <2>3
  <2>6. CASE ~ (x <= m)
    <3>1. \A k \in T : k <= x
      BY <2>3, <2>4, <2>6
    <3> QED BY <3>1, <1>5
  <2> QED BY <2>5, <2>6
<1> QED BY <1>6, <1>7

(* Among the public projects one has the largest place.                    *)
LEMMA LargestPlace ==
  ASSUME TypeOK, Public # {}
  PROVE  \E m \in {rows[p].sort : p \in Public} : \A q \in Public : rows[q].sort <= m
<1> DEFINE S == {rows[p].sort : p \in Public}
           f == [p \in Public |-> rows[p].sort]
<1>1. IsFiniteSet(Public)
  BY ConstantsAssumption, FS_Subset DEF Public
<1>2. \A p \in Public : rows[p].sort \in Nat
  BY DEF TypeOK, Row, Public
<1>3. f \in Surjection(Public, S)
  BY DEF Surjection
<1>4. IsFiniteSet(S)
  <2> HIDE DEF S, f
  <2> QED BY <1>1, <1>3, FS_Surjection
<1>5. \E m \in S : \A k \in S : k <= m
  <2>1. S # {} /\ S \subseteq Nat
    BY <1>2
  <2> HIDE DEF S
  <2> QED BY <1>4, <2>1, FiniteMax
<1> QED BY <1>5

(* The place a newly published project gets is one more than a public      *)
(* project has, or 1, and comes after every place there is.                *)
LEMMA NextSortIsLast ==
  ASSUME TypeOK
  PROVE  /\ NextSort \in Nat \ {0}
         /\ \A p \in Public : rows[p].sort < NextSort
         /\ Public # {} => \E p \in Public : NextSort = 1 + rows[p].sort
<1> DEFINE S == {rows[p].sort : p \in Public}
           Largest(m) == \A p \in Public : rows[p].sort <= m
           max == CHOOSE m \in S : Largest(m)
<1>1. \A p \in Public : rows[p].sort \in Nat
  BY DEF TypeOK, Row, Public
<1>2. CASE Public = {}
  BY <1>2 DEF NextSort
<1>3. CASE Public # {}
  <2>1. \E m \in S : Largest(m)
    BY <1>3, LargestPlace
  <2>2. max \in S /\ Largest(max)
    <3> HIDE DEF S, Largest
    <3> QED BY <2>1
  <2>3. NextSort = 1 + max
    BY <1>3 DEF NextSort
  <2> HIDE DEF max
  <2>4. max \in Nat
    BY <1>1, <2>2
  <2> QED BY <1>1, <2>2, <2>3, <2>4
<1> QED BY <1>2, <1>3

(* Numbering by rank gives distinct places 1 .. n to any set of projects   *)
(* with distinct sort_order values, and none to the others.                *)
LEMMA PlacesAreDense ==
  ASSUME TypeOK, NEW S, S \subseteq Project,
         \A p, q \in S : rows[p].sort = rows[q].sort => p = q
  PROVE  /\ Places(S) \in [Project -> Nat]
         /\ \A p \in S : Places(S)[p] \in 1 .. Cardinality(S)
         /\ \A p \in Project \ S : Places(S)[p] = 0
         /\ \A p, q \in S : Places(S)[p] = Places(S)[q] => p = q
<1> DEFINE Below(p) == {q \in S : rows[q].sort <= rows[p].sort}
<1>1. IsFiniteSet(S)
  BY ConstantsAssumption, FS_Subset
<1>2. \A p \in S : IsFiniteSet(Below(p)) /\ Cardinality(Below(p)) <= Cardinality(S)
  BY <1>1, FS_Subset
<1>3. \A p \in S : rows[p].sort \in Nat
  BY DEF TypeOK, Row
<1>4. \A p \in S : p \in Below(p)
  BY <1>3
<1>5. \A p \in S : Cardinality(Below(p)) \in 1 .. Cardinality(S)
  <2> TAKE p \in S
  <2>1. Below(p) # {} /\ IsFiniteSet(Below(p))
    BY <1>2, <1>4
  <2>2. Cardinality(Below(p)) \in Nat /\ Cardinality(Below(p)) # 0
    <3> HIDE DEF Below
    <3> QED BY <2>1, FS_CardinalityType, FS_EmptySet
  <2>3. Cardinality(S) \in Nat
    BY <1>1, FS_CardinalityType
  <2> QED BY <1>2, <2>2, <2>3
<1>6. \A p \in S : Places(S)[p] = Cardinality(Below(p))
  BY DEF Places
<1>7. ASSUME NEW p \in S, NEW q \in S, rows[p].sort < rows[q].sort
      PROVE  Cardinality(Below(p)) # Cardinality(Below(q))
  <2>1. Below(p) \in SUBSET Below(q) /\ Below(p) # Below(q)
    BY <1>3, <1>4, <1>7
  <2>2. IsFiniteSet(Below(q))
    BY <1>2
  <2> HIDE DEF Below
  <2> QED BY <2>1, <2>2, FS_Subset
<1>8. \A p, q \in S : Cardinality(Below(p)) = Cardinality(Below(q)) => p = q
  <2> SUFFICES ASSUME NEW p \in S, NEW q \in S, p # q
               PROVE  Cardinality(Below(p)) # Cardinality(Below(q))
    OBVIOUS
  <2>1. rows[p].sort \in Nat /\ rows[q].sort \in Nat /\ rows[p].sort # rows[q].sort
    BY <1>3
  <2> HIDE DEF Below
  <2> QED BY <1>7, <2>1
<1>9. \A p \in Project \ S : Places(S)[p] = 0
  BY DEF Places
<1>10. Places(S) \in [Project -> Nat]
  <2>1. \A p \in Project : Places(S)[p] \in Nat
    <3> HIDE DEF Below
    <3> QED BY <1>5, <1>6, <1>9
  <2> QED BY <2>1 DEF Places
<1> HIDE DEF Below
<1> QED BY <1>5, <1>6, <1>8, <1>9, <1>10

----------------------------------------------------------------------------
(* The types and the dense order.                                          *)

OrderIInv == TypeOK /\ OrderIsDense

LEMMA OrderInit == Init => OrderIInv
<1> SUFFICES ASSUME Init PROVE OrderIInv
  OBVIOUS
<1>1. TypeOK
  <2>1. PICK p \in Project : client = [c \in Client |-> Blank("closed", p)]
    BY DEF Init
  <2>2. Blank("closed", p) \in Screen
    BY DEF Blank, Screen, Form
  <2>3. rows \in [Project -> Row]
    BY DEF Init, Row, Form
  <2> QED BY <2>1, <2>2, <2>3 DEF Init, TypeOK
<1>2. Public = {}
  BY DEF Init, Public
<1> QED BY <1>1, <1>2 DEF OrderIInv, OrderIsDense

(* A step that leaves every status and sort_order alone keeps the order.   *)
LEMMA OrderUntouched ==
  ASSUME OrderIsDense,
         \A p \in Project : rows'[p].status = rows[p].status /\ rows'[p].sort = rows[p].sort
  PROVE  OrderIsDense'
<1>1. Public' = Public
  BY DEF Public
<1>2. \A p \in Public : rows'[p].sort = rows[p].sort
  BY DEF Public
<1> QED BY <1>1, <1>2 DEF OrderIsDense

(* The reads, the answers and the refusals: only screens change.           *)
ScreenAction(c) ==
  \/ OpenList(c) \/ LoadPublic(c) \/ LoadProject(c) \/ LoadOrder(c) \/ LoadFails(c)
  \/ \E p \in Project : OpenEditor(c, p)
  \/ \E content \in Content : BeginUpdate(c, content)
  \/ RejectUpdate(c) \/ AnswerUpdate(c) \/ LoseUpdateAnswer(c)
  \/ AnswerCreate(c) \/ LoseCreateAnswer(c)

LEMMA ScreensOnly ==
  ASSUME TypeOK, NEW c \in Client, ScreenAction(c)
  PROVE  UNCHANGED rows /\ client' \in [Client -> Screen]
<1> DEFINE row == rows[client[c].project]
<1>1. client[c] \in Screen /\ client[c].project \in Project
  BY DEF TypeOK, Screen
<1>2. row.version \in Nat /\ row.content \in Form
  BY <1>1 DEF TypeOK, Row
<1>3. orderVersion \in Nat
  BY DEF TypeOK
<1>4. Places(Public) \in [Project -> Nat]
  <2>1. \A p \in Project : IsFiniteSet({q \in Public : rows[q].sort <= rows[p].sort})
    BY ConstantsAssumption, FS_Subset DEF Public
  <2>2. \A p \in Project : Cardinality({q \in Public : rows[q].sort <= rows[p].sort}) \in Nat
    BY <2>1, FS_CardinalityType
  <2> QED BY <2>2 DEF Places
<1>5. \A p \in Project, m \in {"closed", "list", "editor"} : Blank(m, p) \in Screen
  BY DEF Blank, Screen, Form
<1>6. CASE OpenList(c)
  <2> DEFINE new == [Blank("list", client[c].project) EXCEPT !.waits = {"public", "order"}]
  <2>1. new \in Screen
    BY <1>1, <1>5 DEF Screen
  <2>2. client' = [client EXCEPT ![c] = new]
    BY <1>6 DEF OpenList
  <2> HIDE DEF new
  <2> QED BY <1>6, <2>1, <2>2 DEF OpenList, TypeOK
<1>7. CASE LoadPublic(c)
  <2> DEFINE new == [client[c] EXCEPT !.waits = @ \ {"public"}, !.list = Places(Public)]
  <2>1. new \in Screen
    BY <1>1, <1>4 DEF Screen
  <2>2. client' = [client EXCEPT ![c] = new]
    BY <1>7 DEF LoadPublic
  <2> HIDE DEF new
  <2> QED BY <1>7, <2>1, <2>2 DEF LoadPublic, TypeOK
<1>8. CASE LoadProject(c)
  <2> DEFINE new == [client[c] EXCEPT !.waits = @ \ {"project"}, !.version = row.version,
                                       !.content = row.content, !.basis = "row"]
  <2>1. new \in Screen
    BY <1>1, <1>2 DEF Screen
  <2>2. client' = [client EXCEPT ![c] = new]
    BY <1>8 DEF LoadProject
  <2>3. UNCHANGED rows
    BY <1>8 DEF LoadProject
  <2> HIDE DEF new
  <2> QED BY <2>1, <2>2, <2>3 DEF TypeOK
<1>9. CASE LoadOrder(c)
  <2> DEFINE new == [client[c] EXCEPT !.waits = @ \ {"order"}, !.saving = "no",
                                       !.orderVersion = orderVersion]
  <2>1. new \in Screen
    BY <1>1, <1>3 DEF Screen
  <2>2. client' = [client EXCEPT ![c] = new]
    BY <1>9 DEF LoadOrder
  <2> HIDE DEF new
  <2> QED BY <1>9, <2>1, <2>2 DEF LoadOrder, TypeOK
<1>10. CASE LoadFails(c)
  <2> DEFINE new == IF client[c].saving = "refresh"
                THEN [client[c] EXCEPT !.waits = {}, !.saving = "no"]
                ELSE Blank(client[c].mode, client[c].project)
  <2>1. new \in Screen
    BY <1>1, <1>5 DEF Screen
  <2>2. client' = [client EXCEPT ![c] = new]
    BY <1>10 DEF LoadFails
  <2> HIDE DEF new
  <2> QED BY <1>10, <2>1, <2>2 DEF LoadFails, TypeOK
<1>11. ASSUME NEW p \in Project, OpenEditor(c, p) PROVE UNCHANGED rows /\ client' \in [Client -> Screen]
  <2> DEFINE new == [Blank("editor", p) EXCEPT !.waits = {"project", "order"}]
  <2>1. new \in Screen
    BY <1>1, <1>5 DEF Screen
  <2>2. client' = [client EXCEPT ![c] = new]
    BY <1>11 DEF OpenEditor
  <2> HIDE DEF new
  <2> QED BY <1>11, <2>1, <2>2 DEF OpenEditor, TypeOK
<1>12. ASSUME NEW content \in Content, BeginUpdate(c, content) PROVE UNCHANGED rows /\ client' \in [Client -> Screen]
  <2> DEFINE new == [client[c] EXCEPT !.saving = "check", !.draft = content]
  <2>1. new \in Screen
    BY <1>1 DEF Screen, Form
  <2>2. client' = [client EXCEPT ![c] = new]
    BY <1>12 DEF BeginUpdate
  <2> HIDE DEF new
  <2> QED BY <1>12, <2>1, <2>2 DEF BeginUpdate, TypeOK
<1>13. CASE RejectUpdate(c)
  <2> DEFINE new == [client[c] EXCEPT !.saving = "no", !.waits = {}]
  <2>1. new \in Screen
    BY <1>1 DEF Screen
  <2>2. client' = [client EXCEPT ![c] = new]
    BY <1>13 DEF RejectUpdate
  <2> HIDE DEF new
  <2> QED BY <1>13, <2>1, <2>2 DEF RejectUpdate, TypeOK
<1>14. CASE AnswerUpdate(c)
  <2> DEFINE new == [client[c] EXCEPT !.saving = AfterUpdate(c), !.version = row.version,
                                      !.content = row.content, !.basis = "row"]
  <2>1. new \in Screen
    BY <1>1, <1>2 DEF Screen, AfterUpdate
  <2>2. client' = [client EXCEPT ![c] = new]
    BY <1>14 DEF AnswerUpdate
  <2>3. UNCHANGED rows
    BY <1>14 DEF AnswerUpdate
  <2> HIDE DEF new
  <2> QED BY <2>1, <2>2, <2>3 DEF TypeOK
<1>15. CASE LoseUpdateAnswer(c)
  <2> DEFINE new == [client[c] EXCEPT !.saving = "no", !.waits = {}]
  <2>1. new \in Screen
    BY <1>1 DEF Screen
  <2>2. client' = [client EXCEPT ![c] = new]
    BY <1>15 DEF LoseUpdateAnswer
  <2> HIDE DEF new
  <2> QED BY <1>15, <2>1, <2>2 DEF LoseUpdateAnswer, TypeOK
<1>16. CASE AnswerCreate(c)
  <2> DEFINE own == [client[c] EXCEPT !.saving = "create", !.waits = {"order"},
                                      !.version = row.version, !.basis = "create"]
             shown == [client[c] EXCEPT !.saving = "refresh", !.waits = {"order"},
                                        !.version = row.version, !.basis = "row",
                                        !.content = row.content]
  <2>1. own \in Screen /\ shown \in Screen
    BY <1>1, <1>2 DEF Screen
  <2>2. client' = [client EXCEPT ![c] = own] \/ client' = [client EXCEPT ![c] = shown]
    BY <1>16 DEF AnswerCreate
  <2> HIDE DEF own, shown
  <2> QED BY <1>16, <2>1, <2>2 DEF AnswerCreate, TypeOK
<1>17. CASE LoseCreateAnswer(c)
  <2>1. Blank("closed", client[c].project) \in Screen
    BY <1>1, <1>5
  <2> QED BY <1>17, <2>1 DEF LoseCreateAnswer, TypeOK
<1> QED BY <1>6, <1>7, <1>8, <1>9, <1>10, <1>11, <1>12, <1>13, <1>14, <1>15, <1>16, <1>17
        DEF ScreenAction

LEMMA CreateOrder ==
  ASSUME OrderIInv, NEW c \in Client, NEW p \in Project, Create(c, p)
  PROVE  OrderIInv'
<1> USE DEF OrderIInv, Create
<1>1. Blank("editor", p) \in Screen
  BY DEF Blank, Screen, Form
<1>0. PICK name \in NameOnly :
        /\ rows' = [rows EXCEPT ![p] = [status |-> "hidden", sort |-> 0,
                                        version |-> 1, content |-> name]]
        /\ client' = [client EXCEPT ![c] =
             [Blank("editor", p) EXCEPT !.saving = "insert", !.content = name]]
  OBVIOUS
<1>a. name \in Form
  BY ConstantsAssumption DEF Form
<1>2. rows' \in [Project -> Row]
  BY <1>0, <1>a DEF TypeOK, Row
<1>3. client' \in [Client -> Screen]
  <2> DEFINE new == [Blank("editor", p) EXCEPT !.saving = "insert", !.content = name]
  <2>2. new \in Screen
    BY <1>1, <1>a DEF Screen
  <2>3. client' = [client EXCEPT ![c] = new]
    BY <1>0
  <2> HIDE DEF new
  <2> QED BY <2>2, <2>3 DEF TypeOK
<1>4. Public' = Public
  BY <1>0 DEF Public, TypeOK
<1>5. \A q \in Public : rows'[q].sort = rows[q].sort
  BY <1>0 DEF Public, TypeOK
<1>6. OrderIsDense'
  BY <1>4, <1>5 DEF OrderIsDense
<1> QED BY <1>2, <1>3, <1>6 DEF TypeOK

LEMMA WriteOrder ==
  ASSUME OrderIInv, NEW c \in Client, WriteUpdate(c)
  PROVE  OrderIInv'
<1> USE DEF OrderIInv, WriteUpdate
<1>1. client[c].project \in Project /\ client[c].draft \in Form
  BY DEF TypeOK, Screen
<1>2. rows' \in [Project -> Row]
  BY <1>1 DEF TypeOK, Row
<1>3. client' \in [Client -> Screen]
  <2> DEFINE new == [client[c] EXCEPT !.saving = "reread"]
  <2>0. client[c] \in Screen
    BY DEF TypeOK
  <2>1. new \in Screen
    BY <2>0 DEF Screen
  <2>2. client' = [client EXCEPT ![c] = new]
    OBVIOUS
  <2> HIDE DEF new
  <2> QED BY <2>1, <2>2 DEF TypeOK
<1>4. \A q \in Project : rows'[q].status = rows[q].status /\ rows'[q].sort = rows[q].sort
  BY DEF TypeOK, Row
<1> QED BY <1>2, <1>3, <1>4, OrderUntouched DEF TypeOK

LEMMA PublishOrder ==
  ASSUME OrderIInv, NEW c \in Client, NEW content \in Content, Publish(c, content)
  PROVE  OrderIInv'
<1> DEFINE p == client[c].project
<1> USE DEF OrderIInv, Publish
<1>1. p \in Project /\ p \notin Public
  BY DEF TypeOK, Screen, Public
<1>2. NextSort \in Nat \ {0} /\ \A q \in Public : rows[q].sort < NextSort
  BY NextSortIsLast
<1>3. rows' \in [Project -> Row]
  <2>1. rows[p].version + 1 \in Nat
    BY <1>1 DEF TypeOK, Row
  <2>2. rows'[p] \in Row
    BY <1>1, <1>2, <2>1 DEF TypeOK, Row, Form
  <2> QED BY <1>1, <2>2 DEF TypeOK
<1>4. client' \in [Client -> Screen]
  <2> DEFINE new == [client[c] EXCEPT !.version = @ + 1, !.content = content, !.basis = "row",
                                      !.waits = {"order"}, !.saving = "refresh"]
  <2>0. client[c] \in Screen /\ client[c].version + 1 \in Nat
    BY DEF TypeOK, Screen
  <2>1. new \in Screen
    BY <2>0 DEF Screen, Form
  <2>2. client' = client \/ client' = [client EXCEPT ![c] = new]
    OBVIOUS
  <2>3. client \in [Client -> Screen]
    BY DEF TypeOK
  <2> HIDE DEF new
  <2> QED BY <2>1, <2>2, <2>3
<1>5. Public' = Public \cup {p}
  BY <1>1 DEF Public, TypeOK
<1>6. rows'[p].sort = NextSort /\ \A q \in Public : rows'[q].sort = rows[q].sort
  BY <1>1 DEF Public, TypeOK
<1>7. Cardinality(Public) \in Nat /\ Cardinality(Public') = Cardinality(Public) + 1
  <2>1. IsFiniteSet(Public)
    BY ConstantsAssumption, FS_Subset DEF Public
  <2> QED BY <1>1, <1>5, <2>1, FS_AddElement, FS_CardinalityType
<1>8. NextSort <= Cardinality(Public) + 1
  <2>1. CASE Public = {}
    BY <1>7, <2>1 DEF NextSort
  <2>2. CASE Public # {}
    <3>1. PICK q \in Public : NextSort = 1 + rows[q].sort
      BY <2>2, NextSortIsLast
    <3>2. rows[q].sort \in 1 .. Cardinality(Public)
      BY <3>1 DEF OrderIsDense
    <3> QED BY <1>7, <3>1, <3>2
  <2> QED BY <2>1, <2>2
<1>9. OrderIsDense'
  <2>1. \A q \in Public' : rows'[q].sort \in 1 .. Cardinality(Public')
    BY <1>2, <1>5, <1>6, <1>7, <1>8 DEF OrderIsDense
  <2>2. \A q \in Public : rows'[q].sort \in Nat /\ rows'[q].sort < rows'[p].sort
    BY <1>2, <1>6 DEF OrderIsDense
  <2>3. \A q, r \in Public' : rows'[q].sort = rows'[r].sort => q = r
    BY <1>5, <1>6, <2>2, <1>2 DEF OrderIsDense
  <2> QED BY <2>1, <2>3 DEF OrderIsDense
<1> QED BY <1>3, <1>4, <1>9 DEF TypeOK, Current

LEMMA HideOrder ==
  ASSUME OrderIInv, NEW c \in Client, Hide(c)
  PROVE  OrderIInv'
<1> DEFINE p == client[c].project
           rest == Public \ {p}
           place == Places(rest)
<1> USE DEF OrderIInv
<1>1. p \in Project /\ p \in Public
  BY DEF TypeOK, Screen, Public, Hide
<1>2. /\ place \in [Project -> Nat]
      /\ \A q \in rest : place[q] \in 1 .. Cardinality(rest)
      /\ \A q \in Project \ rest : place[q] = 0
      /\ \A q, r \in rest : place[q] = place[r] => q = r
  BY PlacesAreDense DEF OrderIsDense, Public
<1>3. rows' = [q \in Project |->
                 [status |-> IF q = p THEN "hidden" ELSE rows[q].status,
                  sort |-> place[q],
                  version |-> IF q = p THEN rows[q].version + 1 ELSE rows[q].version,
                  content |-> rows[q].content]]
  BY <1>1 DEF Hide, Reposition, TypeOK, Row
<1> HIDE DEF place
<1>4. Public' = rest
  BY <1>1, <1>3 DEF Public
<1>5. rows' \in [Project -> Row]
  <2>1. ASSUME NEW q \in rest PROVE rows'[q] \in Row
    <3>0. place[q] \in 1 .. Cardinality(rest)
      BY <1>2
    <3>1. place[q] \in Nat \ {0} /\ q \in Project /\ q # p /\ rows[q].status = "public"
      BY <3>0 DEF Public
    <3> QED BY <1>3, <3>1 DEF TypeOK, Row
  <2>2. ASSUME NEW q \in Project \ rest PROVE rows'[q] \in Row
    <3>1. place[q] = 0
      BY <1>2
    <3>2. rows[q].version \in Nat /\ rows[q].version + 1 \in Nat /\ rows[q].content \in Form
      BY DEF TypeOK, Row
    <3>3. q = p \/ rows[q].status \in {"absent", "hidden"}
      BY DEF TypeOK, Row, Public
    <3> QED BY <1>3, <3>1, <3>2, <3>3 DEF Row
  <2> QED BY <1>3, <2>1, <2>2
<1>6. client' \in [Client -> Screen]
  <2> DEFINE new == [client[c] EXCEPT !.waits = {"project", "order"}, !.saving = "refresh"]
  <2>1. new \in Screen
    BY DEF TypeOK, Screen
  <2>2. client' = client \/ client' = [client EXCEPT ![c] = new]
    BY DEF Hide
  <2>3. client \in [Client -> Screen]
    BY DEF TypeOK
  <2> HIDE DEF new
  <2> QED BY <2>1, <2>2, <2>3
<1>7. \A q \in rest : rows'[q].sort = place[q]
  BY <1>3 DEF Public
<1>8. OrderIsDense'
  <2>1. \A q \in rest : rows'[q].sort \in 1 .. Cardinality(rest)
    BY <1>2, <1>7
  <2>2. \A q, r \in rest : rows'[q].sort = rows'[r].sort => q = r
    BY <1>2, <1>7
  <2> HIDE DEF rest
  <2> QED BY <1>4, <2>1, <2>2 DEF OrderIsDense
<1>9. orderVersion' \in Nat
  BY DEF Hide, TypeOK
<1> QED BY <1>5, <1>6, <1>8, <1>9 DEF TypeOK

LEMMA ReorderOrder ==
  ASSUME OrderIInv, NEW c \in Client, NEW place \in Arrangements(c), Reorder(c, place)
  PROVE  OrderIInv'
<1> USE DEF OrderIInv
<1>1. /\ place \in [Project -> Nat]
      /\ \A q \in Public : place[q] \in 1 .. Cardinality(Public)
      /\ \A q \in Project \ Public : place[q] = 0
      /\ \A q, r \in Public : place[q] = place[r] => q = r
  <2>1. Placed(place) = Public /\ Placed(client[c].list) = Public
    BY DEF Reorder, Arrangements
  <2>2. place \in [Project -> 0 .. Cardinality(Public)]
    BY <2>1 DEF Arrangements
  <2>3. \A q \in Project : q \in Public <=> place[q] > 0
    BY <2>1 DEF Placed, Public
  <2>4. Public \subseteq Project
    BY DEF Public
  <2>5. \A q, r \in Public : place[q] = place[r] => q = r
    BY <2>1 DEF Arrangements
  <2>6. place \in [Project -> Nat]
    BY <2>2
  <2>7. \A q \in Public : place[q] \in 1 .. Cardinality(Public)
    BY <2>2, <2>3, <2>4
  <2>8. \A q \in Project \ Public : place[q] = 0
    BY <2>2, <2>3, <2>6
  <2> QED BY <2>5, <2>6, <2>7, <2>8
<1>2. rows' = [q \in Project |-> [rows[q] EXCEPT !.sort = place[q]]]
  BY DEF Reorder, Reposition
<1>3. Public' = Public
  BY <1>2 DEF Public, TypeOK, Row
<1>4. \A q \in Public : rows'[q].sort = place[q]
  BY <1>2 DEF Public, TypeOK, Row
<1>5. rows' \in [Project -> Row]
  <2>1. ASSUME NEW q \in Public PROVE rows'[q] \in Row
    <3>0. place[q] \in 1 .. Cardinality(Public)
      BY <1>1
    <3>1. place[q] \in Nat \ {0} /\ q \in Project /\ rows[q].status = "public"
      BY <3>0 DEF Public
    <3> QED BY <1>2, <3>1 DEF TypeOK, Row
  <2>2. ASSUME NEW q \in Project \ Public PROVE rows'[q] \in Row
    <3>1. place[q] = 0 /\ rows[q].status # "public"
      BY <1>1 DEF Public
    <3> QED BY <1>2, <3>1 DEF TypeOK, Row
  <2> QED BY <1>2, <2>1, <2>2
<1>6. client' \in [Client -> Screen]
  <2> DEFINE new == [client[c] EXCEPT !.orderVersion = @ + 1, !.list = place]
  <2>0. /\ client[c] \in Screen /\ client[c].orderVersion + 1 \in Nat
        /\ place \in [Project -> Nat]
    BY <1>1 DEF TypeOK, Screen
  <2>1. new \in Screen
    BY <2>0 DEF Screen
  <2>2. client' = client \/ client' = [client EXCEPT ![c] = new]
    BY DEF Reorder
  <2>3. client \in [Client -> Screen]
    BY DEF TypeOK
  <2> HIDE DEF new
  <2> QED BY <2>1, <2>2, <2>3
<1>7. OrderIsDense'
  BY <1>1, <1>3, <1>4 DEF OrderIsDense
<1>8. orderVersion' \in Nat
  BY DEF Reorder, TypeOK
<1> QED BY <1>5, <1>6, <1>7, <1>8 DEF TypeOK

LEMMA OrderStep == OrderIInv /\ [Next]_vars => OrderIInv'
<1> SUFFICES ASSUME OrderIInv, [Next]_vars PROVE OrderIInv'
  OBVIOUS
<1>1. ASSUME NEW c \in Client, ScreenAction(c) PROVE OrderIInv'
  <2>1. UNCHANGED rows /\ client' \in [Client -> Screen]
    BY <1>1, ScreensOnly DEF OrderIInv
  <2>2. orderVersion' = orderVersion
    BY <1>1 DEF ScreenAction, OpenList, LoadPublic, LoadProject, LoadOrder, LoadFails,
                OpenEditor, BeginUpdate, RejectUpdate, AnswerUpdate, LoseUpdateAnswer,
                AnswerCreate, LoseCreateAnswer
  <2> QED BY <2>1, <2>2, OrderUntouched DEF OrderIInv, TypeOK
<1>2. CASE UNCHANGED vars
  BY <1>2 DEF vars, OrderIInv, TypeOK, OrderIsDense, Public
<1> QED
  BY <1>1, <1>2, CreateOrder, WriteOrder, PublishOrder, HideOrder, ReorderOrder
     DEF Next, ScreenAction

(* The types hold in every reachable state, for any constants.             *)
THEOREM ProjectTypes == Spec => []TypeOK
<1>1. OrderIInv => TypeOK
  BY DEF OrderIInv
<1> QED BY <1>1, OrderInit, OrderStep, PTL DEF Spec

(* The public projects always hold the places 1 .. n, each once, whatever  *)
(* publications, withdrawals and rearrangements came before.               *)
THEOREM PublicOrderIsDense == Spec => []OrderIsDense
<1>1. OrderIInv => OrderIsDense
  BY DEF OrderIInv
<1> QED BY <1>1, OrderInit, OrderStep, PTL DEF Spec

----------------------------------------------------------------------------
(* The screens.  ScreenTruthful and PublicLinkVerified need each other's   *)
(* company and more: a project untouched since its creation is a name      *)
(* alone, and version 1 is the only one a form without a row has; a form   *)
(* being created or saved waits for no read of its project; and the        *)
(* content of a save that was checked is verified if the project is public *)
(* and still at the version checked.                                       *)

RowGood(r) ==
  /\ r.status # "absent" => /\ r.version >= 1 /\ r.content \in Content
                            /\ r.version = 1 => r.content \in NameOnly
  /\ r.status = "public" => r.content \in Verified

ScreenGood(s, r) ==
  /\ s.mode = "editor" => r.status # "absent" /\ s.version <= r.version
  /\ s.mode = "editor" /\ s.basis = "row" /\ s.version = r.version => s.content = r.content
  /\ s.basis = "blank" => s.version = 1
  /\ s.saving \in {"insert", "create", "check", "reread"} =>
       s.mode = "editor" /\ s.waits \subseteq {"order"}
  /\ s.saving = "check" => s.draft \in Content
  /\ s.saving = "check" /\ s.version = r.version /\ r.status = "public" =>
       s.draft \in Verified

ScreensGood ==
  /\ \A p \in Project : RowGood(rows[p])
  /\ \A c \in Client : ScreenGood(client[c], rows[client[c].project])

LEMMA ScreensInit == Init => ScreensGood
<1> SUFFICES ASSUME Init PROVE ScreensGood
  OBVIOUS
<1>1. \A p \in Project : RowGood(rows[p])
  BY DEF Init, RowGood
<1>2. \A c \in Client : /\ client[c].mode = "closed" /\ client[c].saving = "no"
                         /\ client[c].version = 1
  BY DEF Init, Blank
<1> QED BY <1>1, <1>2 DEF ScreensGood, ScreenGood

LEMMA ScreensImply == TypeOK /\ ScreensGood => ScreenTruthful /\ PublicLinkVerified
<1> SUFFICES ASSUME TypeOK, ScreensGood PROVE ScreenTruthful /\ PublicLinkVerified
  OBVIOUS
<1>1. ScreenTruthful
  BY DEF ScreensGood, ScreenGood, ScreenTruthful, Shows
<1>2. PublicLinkVerified
  BY DEF ScreensGood, RowGood, PublicLinkVerified, Public
<1> QED BY <1>1, <1>2

(* A row moves on: it keeps what screens see of it, or its version grows.  *)
MovesOn(r, t) ==
  \/ t.status = r.status /\ t.version = r.version /\ t.content = r.content
  \/ t.version > r.version /\ r.status # "absent" /\ t.status # "absent"

(* A screen that stays good of a row stays good of what the row becomes.   *)
LEMMA GoodMovesOn ==
  ASSUME NEW s \in Screen, NEW r \in Row, NEW t \in Row,
         ScreenGood(s, r), MovesOn(r, t)
  PROVE  ScreenGood(s, t)
<1>1. s.version \in Nat /\ r.version \in Nat /\ t.version \in Nat
  BY DEF Screen, Row
<1> QED BY <1>1 DEF ScreenGood, MovesOn

(* What is left to show of a step: the rows move on and stay good, and so  *)
(* does the one screen that changes.                                       *)
LEMMA OneScreenChanges ==
  ASSUME TypeOK, TypeOK', ScreensGood, NEW c \in Client, NEW new \in Screen,
         client' = client \/ client' = [client EXCEPT ![c] = new],
         \A p \in Project : RowGood(rows'[p]) /\ MovesOn(rows[p], rows'[p]),
         client' # client => ScreenGood(new, rows'[new.project])
  PROVE  ScreensGood'
<1>1. ASSUME NEW d \in Client PROVE ScreenGood(client'[d], rows'[client'[d].project])
  <2>1. client[d] \in Screen /\ client[d].project \in Project
    BY DEF TypeOK, Screen
  <2>2. rows[client[d].project] \in Row /\ rows'[client[d].project] \in Row
    BY <2>1 DEF TypeOK
  <2>3. ScreenGood(client[d], rows'[client[d].project])
    BY <2>1, <2>2, GoodMovesOn DEF ScreensGood
  <2>4. CASE client'[d] = client[d]
    BY <2>3, <2>4
  <2>5. CASE client'[d] # client[d]
    <3>1. client'[d] = new /\ client' # client
      BY <2>5 DEF TypeOK
    <3> QED BY <3>1
  <2> QED BY <2>4, <2>5
<1> QED BY <1>1 DEF ScreensGood

(* Reads and answers: the rows stay, and the screen takes over a row whole *)
(* or not at all.                                                          *)
LEMMA ScreenActionGood ==
  ASSUME TypeOK, TypeOK', ScreensGood, NEW c \in Client, ScreenAction(c)
  PROVE  ScreensGood'
<1> DEFINE row == rows[client[c].project]
<1>1. client[c] \in Screen /\ client[c].project \in Project
  BY DEF TypeOK, Screen
<1>2. row.version \in Nat /\ row.content \in Form
  BY <1>1 DEF TypeOK, Row
<1>3. orderVersion \in Nat
  BY DEF TypeOK
<1>4. Places(Public) \in [Project -> Nat]
  <2>1. \A p \in Project : IsFiniteSet({q \in Public : rows[q].sort <= rows[p].sort})
    BY ConstantsAssumption, FS_Subset DEF Public
  <2>2. \A p \in Project : Cardinality({q \in Public : rows[q].sort <= rows[p].sort}) \in Nat
    BY <2>1, FS_CardinalityType
  <2> QED BY <2>2 DEF Places
<1>5. \A p \in Project, m \in {"closed", "list", "editor"} : Blank(m, p) \in Screen
  BY DEF Blank, Screen, Form
<1>6. ScreenGood(client[c], row) /\ RowGood(row) /\ \A p \in Project : RowGood(rows[p])
  BY <1>1 DEF ScreensGood
<1>7. rows' = rows /\ \A p \in Project : RowGood(rows'[p]) /\ MovesOn(rows[p], rows'[p])
  BY <1>6, ScreensOnly DEF MovesOn
<1>8. CASE OpenList(c)
  <2> DEFINE new == [Blank("list", client[c].project) EXCEPT !.waits = {"public", "order"}]
  <2>1. new \in Screen
    BY <1>1, <1>2, <1>3, <1>4, <1>5 DEF Screen
  <2>2. client' = [client EXCEPT ![c] = new]
    BY <1>8 DEF OpenList
  <2>3. ScreenGood(new, rows[new.project])
    BY <1>8, <1>1, <1>2, <1>6 DEF OpenList, ScreenGood, RowGood, Blank
  <2> HIDE DEF new
  <2> QED BY <1>7, <2>1, <2>2, <2>3, OneScreenChanges
<1>9. CASE LoadPublic(c)
  <2> DEFINE new == [client[c] EXCEPT !.waits = @ \ {"public"}, !.list = Places(Public)]
  <2>1. new \in Screen
    BY <1>1, <1>2, <1>3, <1>4, <1>5 DEF Screen
  <2>2. client' = [client EXCEPT ![c] = new]
    BY <1>9 DEF LoadPublic
  <2>3. ScreenGood(new, rows[new.project])
    BY <1>9, <1>1, <1>2, <1>6 DEF LoadPublic, ScreenGood, RowGood
  <2> HIDE DEF new
  <2> QED BY <1>7, <2>1, <2>2, <2>3, OneScreenChanges
<1>10. CASE LoadProject(c)
  <2> DEFINE new == [client[c] EXCEPT !.waits = @ \ {"project"}, !.version = row.version,
                                       !.content = row.content, !.basis = "row"]
  <2>1. new \in Screen
    BY <1>1, <1>2, <1>3, <1>4, <1>5 DEF Screen
  <2>2. client' = [client EXCEPT ![c] = new]
    BY <1>10 DEF LoadProject
  <2>3. ScreenGood(new, rows[new.project])
    BY <1>10, <1>1, <1>2, <1>6 DEF LoadProject, ScreenGood, RowGood
  <2> HIDE DEF new
  <2> QED BY <1>7, <2>1, <2>2, <2>3, OneScreenChanges
<1>11. CASE LoadOrder(c)
  <2> DEFINE new == [client[c] EXCEPT !.waits = @ \ {"order"}, !.saving = "no",
                                       !.orderVersion = orderVersion]
  <2>1. new \in Screen
    BY <1>1, <1>2, <1>3, <1>4, <1>5 DEF Screen
  <2>2. client' = [client EXCEPT ![c] = new]
    BY <1>11 DEF LoadOrder
  <2>3. ScreenGood(new, rows[new.project])
    BY <1>11, <1>1, <1>2, <1>6 DEF LoadOrder, Reading, ScreenGood, RowGood
  <2> HIDE DEF new
  <2> QED BY <1>7, <2>1, <2>2, <2>3, OneScreenChanges
<1>12. CASE LoadFails(c)
  <2> DEFINE new == IF client[c].saving = "refresh"
                THEN [client[c] EXCEPT !.waits = {}, !.saving = "no"]
                ELSE Blank(client[c].mode, client[c].project)
  <2>1. new \in Screen
    BY <1>1, <1>2, <1>3, <1>4, <1>5 DEF Screen
  <2>2. client' = [client EXCEPT ![c] = new]
    BY <1>12 DEF LoadFails
  <2>3. ScreenGood(new, rows[new.project])
    BY <1>12, <1>1, <1>2, <1>6 DEF LoadFails, Reading, ScreenGood, RowGood, Blank
  <2> HIDE DEF new
  <2> QED BY <1>7, <2>1, <2>2, <2>3, OneScreenChanges
<1>13. ASSUME NEW p \in Project, OpenEditor(c, p) PROVE ScreensGood'
  <2> DEFINE new == [Blank("editor", p) EXCEPT !.waits = {"project", "order"}]
  <2>1. new \in Screen
    BY <1>1, <1>2, <1>3, <1>4, <1>5 DEF Screen
  <2>2. client' = [client EXCEPT ![c] = new]
    BY <1>13 DEF OpenEditor
  <2>3. ScreenGood(new, rows[new.project])
    BY <1>13, <1>1, <1>2, <1>6 DEF OpenEditor, ScreenGood, RowGood, Blank, TypeOK, Row
  <2> HIDE DEF new
  <2> QED BY <1>7, <2>1, <2>2, <2>3, OneScreenChanges
<1>14. ASSUME NEW content \in Content, BeginUpdate(c, content) PROVE ScreensGood'
  <2> DEFINE new == [client[c] EXCEPT !.saving = "check", !.draft = content]
  <2>1. new \in Screen
    BY <1>1 DEF Screen, Form
  <2>2. client' = [client EXCEPT ![c] = new]
    BY <1>14 DEF BeginUpdate
  <2>3. ScreenGood(new, rows[new.project])
    BY <1>14, <1>1, <1>2, <1>6 DEF BeginUpdate, ScreenGood, RowGood, Quiet
  <2> HIDE DEF new
  <2> QED BY <1>7, <2>1, <2>2, <2>3, OneScreenChanges
<1>15. CASE RejectUpdate(c)
  <2> DEFINE new == [client[c] EXCEPT !.saving = "no", !.waits = {}]
  <2>1. new \in Screen
    BY <1>1, <1>2, <1>3, <1>4, <1>5 DEF Screen
  <2>2. client' = [client EXCEPT ![c] = new]
    BY <1>15 DEF RejectUpdate
  <2>3. ScreenGood(new, rows[new.project])
    BY <1>15, <1>1, <1>2, <1>6 DEF RejectUpdate, ScreenGood, RowGood
  <2> HIDE DEF new
  <2> QED BY <1>7, <2>1, <2>2, <2>3, OneScreenChanges
<1>16. CASE AnswerUpdate(c)
  <2> DEFINE new == [client[c] EXCEPT !.saving = AfterUpdate(c), !.version = row.version,
                                      !.content = row.content, !.basis = "row"]
  <2>0. AfterUpdate(c) \in {"no", "refresh"}
    BY DEF AfterUpdate
  <2>1. new \in Screen
    BY <1>1, <1>2, <2>0 DEF Screen
  <2>2. client' = [client EXCEPT ![c] = new]
    BY <1>16 DEF AnswerUpdate
  <2>3. /\ new.saving \in {"no", "refresh"} /\ new.project = client[c].project
        /\ new.version = row.version /\ new.content = row.content
        /\ new.mode = client[c].mode /\ new.basis = "row"
    BY <1>1 DEF Screen, AfterUpdate
  <2>4. client[c].mode = "editor" /\ row.status # "absent"
    BY <1>16, <1>6 DEF AnswerUpdate, ScreenGood
  <2>5. ScreenGood(new, rows[new.project])
    BY <1>2, <2>3, <2>4 DEF ScreenGood
  <2> HIDE DEF new
  <2> QED BY <1>7, <2>1, <2>2, <2>5, OneScreenChanges
<1>17. CASE LoseUpdateAnswer(c)
  <2> DEFINE new == [client[c] EXCEPT !.saving = "no", !.waits = {}]
  <2>1. new \in Screen
    BY <1>1, <1>2, <1>3, <1>4, <1>5 DEF Screen
  <2>2. client' = [client EXCEPT ![c] = new]
    BY <1>17 DEF LoseUpdateAnswer
  <2>3. ScreenGood(new, rows[new.project])
    BY <1>17, <1>1, <1>2, <1>6 DEF LoseUpdateAnswer, ScreenGood, RowGood
  <2> HIDE DEF new
  <2> QED BY <1>7, <2>1, <2>2, <2>3, OneScreenChanges
<1>18. CASE AnswerCreate(c)
  <2> DEFINE own == [client[c] EXCEPT !.saving = "create", !.waits = {"order"},
                                      !.version = row.version, !.basis = "create"]
             shown == [client[c] EXCEPT !.saving = "refresh", !.waits = {"order"},
                                        !.version = row.version, !.basis = "row",
                                        !.content = row.content]
  <2>1. own \in Screen /\ shown \in Screen
    BY <1>1, <1>2 DEF Screen
  <2>2. client' = [client EXCEPT ![c] = own] \/ client' = [client EXCEPT ![c] = shown]
    BY <1>18 DEF AnswerCreate
  <2>3. client[c].mode = "editor" /\ row.status # "absent"
    BY <1>18, <1>6 DEF AnswerCreate, ScreenGood
  <2>4. ScreenGood(own, rows[own.project]) /\ ScreenGood(shown, rows[shown.project])
    BY <1>1, <1>2, <2>3 DEF ScreenGood, Screen
  <2> HIDE DEF own, shown
  <2>5. CASE client' = [client EXCEPT ![c] = own]
    BY <1>7, <2>1, <2>4, <2>5, OneScreenChanges
  <2>6. CASE client' = [client EXCEPT ![c] = shown]
    BY <1>7, <2>1, <2>4, <2>6, OneScreenChanges
  <2> QED BY <2>2, <2>5, <2>6
<1>19. CASE LoseCreateAnswer(c)
  <2> DEFINE new == Blank("closed", client[c].project)
  <2>1. new \in Screen
    BY <1>1, <1>5
  <2>2. client' = [client EXCEPT ![c] = new]
    BY <1>19 DEF LoseCreateAnswer
  <2>3. ScreenGood(new, rows[new.project])
    BY DEF ScreenGood, Blank
  <2> HIDE DEF new
  <2> QED BY <1>7, <2>1, <2>2, <2>3, OneScreenChanges
<1> QED BY <1>8, <1>9, <1>10, <1>11, <1>12, <1>13, <1>14, <1>15, <1>16, <1>17, <1>18, <1>19
        DEF ScreenAction

LEMMA CreateGood ==
  ASSUME TypeOK, TypeOK', ScreensGood, NEW c \in Client, NEW p \in Project, Create(c, p)
  PROVE  ScreensGood'
<1>0. PICK name \in NameOnly :
        /\ rows' = [rows EXCEPT ![p] = [status |-> "hidden", sort |-> 0,
                                        version |-> 1, content |-> name]]
        /\ client' = [client EXCEPT ![c] =
             [Blank("editor", p) EXCEPT !.saving = "insert", !.content = name]]
  BY DEF Create
<1> DEFINE new == [Blank("editor", p) EXCEPT !.saving = "insert", !.content = name]
<1>a. name \in Content
  BY ConstantsAssumption
<1>1. new \in Screen
  BY <1>a DEF Blank, Screen, Form
<1>2. client' = [client EXCEPT ![c] = new] /\ rows[p].status = "absent"
  BY <1>0 DEF Create
<1>3. rows'[p].status = "hidden" /\ rows'[p].version = 1 /\ rows'[p].content = name
  BY <1>0 DEF TypeOK
<1>4. \A q \in Project \ {p} : rows'[q] = rows[q]
  BY <1>0 DEF TypeOK
<1>5. \A q \in Project : RowGood(rows'[q])
  BY <1>3, <1>4, <1>a DEF ScreensGood, RowGood
<1>6. ScreenGood(new, rows'[p])
  BY <1>3 DEF ScreenGood, Blank
<1>7. ASSUME NEW d \in Client PROVE ScreenGood(client'[d], rows'[client'[d].project])
  <2>1. CASE d = c
    <3>1. client'[d] = new /\ new.project = p
      BY <1>2, <2>1 DEF TypeOK, Blank
    <3> HIDE DEF new
    <3> QED BY <1>6, <3>1
  <2>2. CASE d # c
    <3>1. client'[d] = client[d] /\ client[d].project \in Project
      BY <1>2, <2>2 DEF TypeOK, Screen
    <3>2. CASE client[d].project # p
      BY <1>4, <3>1, <3>2 DEF ScreensGood
    <3>3. CASE client[d].project = p
      BY <1>2, <3>1, <3>3 DEF ScreensGood, ScreenGood
    <3> QED BY <3>2, <3>3
  <2> QED BY <2>1, <2>2
<1> QED BY <1>5, <1>7 DEF ScreensGood

(* The save that is written: its version check makes the row the very one  *)
(* that was checked, so a public project gets a verified link.             *)
LEMMA WriteGood ==
  ASSUME TypeOK, TypeOK', ScreensGood, NEW c \in Client, WriteUpdate(c)
  PROVE  ScreensGood'
<1> DEFINE p == client[c].project
           new == [client[c] EXCEPT !.saving = "reread"]
<1>1. client[c] \in Screen /\ p \in Project /\ rows[p].version \in Nat
  BY DEF TypeOK, Screen, Row
<1>2. /\ client' = [client EXCEPT ![c] = new]
      /\ client[c].saving = "check" /\ client[c].version = rows[p].version
  BY DEF WriteUpdate
<1>3. new \in Screen
  BY <1>1 DEF Screen
<1>4. ScreenGood(client[c], rows[p]) /\ RowGood(rows[p])
  BY <1>1 DEF ScreensGood
<1>5. /\ rows'[p].status = rows[p].status /\ rows'[p].version = rows[p].version + 1
      /\ rows'[p].content = client[c].draft
  BY <1>1 DEF WriteUpdate, TypeOK, Row
<1>6. \A q \in Project \ {p} : rows'[q] = rows[q]
  BY <1>1 DEF WriteUpdate, TypeOK
<1>7. RowGood(rows'[p]) /\ MovesOn(rows[p], rows'[p])
  BY <1>1, <1>2, <1>4, <1>5 DEF RowGood, ScreenGood, MovesOn
<1>8. \A q \in Project : RowGood(rows'[q]) /\ MovesOn(rows[q], rows'[q])
  BY <1>6, <1>7 DEF ScreensGood, MovesOn
<1>9. ScreenGood(new, rows'[new.project])
  BY <1>1, <1>2, <1>4, <1>5 DEF ScreenGood
<1> HIDE DEF new
<1> QED BY <1>2, <1>3, <1>8, <1>9, OneScreenChanges

LEMMA PublishGood ==
  ASSUME TypeOK, TypeOK', ScreensGood, NEW c \in Client, NEW content \in Content,
         Publish(c, content)
  PROVE  ScreensGood'
<1> DEFINE p == client[c].project
           new == [client[c] EXCEPT !.version = @ + 1, !.content = content, !.basis = "row",
                                    !.waits = {"order"}, !.saving = "refresh"]
<1>1. /\ client[c] \in Screen /\ p \in Project /\ rows[p].version \in Nat
      /\ client[c].version + 1 \in Nat
  BY DEF TypeOK, Screen, Row
<1>2. /\ client' = client \/ client' = [client EXCEPT ![c] = new]
      /\ client[c].version = rows[p].version /\ rows[p].status = "hidden"
      /\ content \in Verified
  BY DEF Publish, CurrentProject
<1>3. new \in Screen
  BY <1>1 DEF Screen, Form
<1>4. RowGood(rows[p])
  BY <1>1 DEF ScreensGood
<1>5. /\ rows'[p].status = "public" /\ rows'[p].version = rows[p].version + 1
      /\ rows'[p].content = content
  BY <1>1 DEF Publish, TypeOK
<1>6. \A q \in Project \ {p} : rows'[q] = rows[q]
  BY <1>1 DEF Publish, TypeOK
<1>7. RowGood(rows'[p]) /\ MovesOn(rows[p], rows'[p])
  BY <1>1, <1>2, <1>4, <1>5 DEF RowGood, MovesOn
<1>8. \A q \in Project : RowGood(rows'[q]) /\ MovesOn(rows[q], rows'[q])
  BY <1>6, <1>7 DEF ScreensGood, MovesOn
<1>9. ScreenGood(new, rows'[new.project])
  BY <1>1, <1>2, <1>5 DEF ScreenGood
<1> HIDE DEF new
<1> QED BY <1>2, <1>3, <1>8, <1>9, OneScreenChanges

LEMMA HideGood ==
  ASSUME TypeOK, TypeOK', ScreensGood, NEW c \in Client, Hide(c)
  PROVE  ScreensGood'
<1> DEFINE p == client[c].project
           new == [client[c] EXCEPT !.waits = {"project", "order"}, !.saving = "refresh"]
<1>1. client[c] \in Screen /\ p \in Project /\ rows[p].version \in Nat
  BY DEF TypeOK, Screen, Row
<1>2. /\ client' = client \/ client' = [client EXCEPT ![c] = new]
      /\ client[c].version = rows[p].version /\ rows[p].status = "public"
  BY DEF Hide, CurrentProject
<1>3. new \in Screen
  BY <1>1 DEF Screen
<1>4. RowGood(rows[p]) /\ ScreenGood(client[c], rows[p])
  BY <1>1 DEF ScreensGood
<1>5. /\ rows'[p].status = "hidden" /\ rows'[p].version = rows[p].version + 1
      /\ rows'[p].content = rows[p].content
  BY <1>1 DEF Hide, Reposition, TypeOK, Row
<1>6. \A q \in Project \ {p} : /\ rows'[q].status = rows[q].status
                               /\ rows'[q].version = rows[q].version
                               /\ rows'[q].content = rows[q].content
  BY <1>1 DEF Hide, Reposition, TypeOK, Row
<1>7. RowGood(rows'[p]) /\ MovesOn(rows[p], rows'[p])
  BY <1>1, <1>2, <1>4, <1>5 DEF RowGood, MovesOn
<1>8. \A q \in Project : RowGood(rows'[q]) /\ MovesOn(rows[q], rows'[q])
  BY <1>6, <1>7 DEF ScreensGood, RowGood, MovesOn
<1>9. ScreenGood(new, rows'[new.project])
  BY <1>1, <1>2, <1>4, <1>5 DEF ScreenGood
<1> HIDE DEF new
<1> QED BY <1>2, <1>3, <1>8, <1>9, OneScreenChanges

LEMMA ReorderGood ==
  ASSUME TypeOK, TypeOK', ScreensGood, NEW c \in Client, NEW place \in Arrangements(c),
         Reorder(c, place)
  PROVE  ScreensGood'
<1> DEFINE new == [client[c] EXCEPT !.orderVersion = @ + 1, !.list = place]
<1>1. /\ client[c] \in Screen /\ client[c].project \in Project
      /\ client[c].orderVersion + 1 \in Nat
  BY DEF TypeOK, Screen
<1>2. client' = client \/ client' = [client EXCEPT ![c] = new]
  BY DEF Reorder
<1>3. \A q \in Project : /\ rows'[q].status = rows[q].status
                         /\ rows'[q].version = rows[q].version
                         /\ rows'[q].content = rows[q].content
  BY DEF Reorder, Reposition, TypeOK, Row
<1>4. \A q \in Project : RowGood(rows'[q]) /\ MovesOn(rows[q], rows'[q])
  BY <1>3 DEF ScreensGood, RowGood, MovesOn
<1>5. new \in Screen
  <2>1. place \in [Project -> Nat]
    BY DEF Arrangements
  <2> QED BY <1>1, <2>1 DEF Screen
<1>6. ScreenGood(new, rows'[new.project])
  <2>1. ScreenGood(client[c], rows[client[c].project])
    BY DEF ScreensGood
  <2> QED BY <1>1, <1>3, <2>1 DEF ScreenGood
<1> HIDE DEF new
<1> QED BY <1>2, <1>4, <1>5, <1>6, OneScreenChanges

LEMMA ScreensStep == TypeOK /\ TypeOK' /\ ScreensGood /\ [Next]_vars => ScreensGood'
<1> SUFFICES ASSUME TypeOK, TypeOK', ScreensGood, [Next]_vars PROVE ScreensGood'
  OBVIOUS
<1>1. CASE UNCHANGED vars
  BY <1>1 DEF vars, ScreensGood
<1> QED
  BY <1>1, ScreenActionGood, CreateGood, WriteGood, PublishGood, HideGood, ReorderGood
     DEF Next, ScreenAction

(* Whatever the tabs do at once, no editor is ahead of its row, and one    *)
(* that took the row's version from the row shows the row's content.       *)
THEOREM ScreensAreTruthful == Spec => []ScreenTruthful
<1> QED BY ProjectTypes, ScreensInit, ScreensStep, ScreensImply, PTL DEF Spec

(* A public project always links to a verified repository.                 *)
THEOREM PublicLinksAreVerified == Spec => []PublicLinkVerified
<1> QED BY ProjectTypes, ScreensInit, ScreensStep, ScreensImply, PTL DEF Spec

----------------------------------------------------------------------------
(* What a step may not do.                                                 *)

EditSeen ==
  \A c \in Client :
    Replaces(c) =>
      LET old == rows[client[c].project].content IN
      \/ client[c].content = old
      \/ client[c].basis = "blank" /\ old \in NameOnly
      \/ client[c].basis = "create"

(* A tab that replaces a content holds the version of its row: one that    *)
(* took it from the row shows the content, and one that never took any     *)
(* holds version 1, at which there is a name alone.                        *)
LEMMA EditIsSeen == TypeOK /\ ScreensGood => EditSeen
<1> SUFFICES ASSUME TypeOK, ScreensGood, NEW c \in Client, Replaces(c)
             PROVE  LET old == rows[client[c].project].content IN
                    \/ client[c].content = old
                    \/ client[c].basis = "blank" /\ old \in NameOnly
                    \/ client[c].basis = "create"
  BY DEF EditSeen
<1> DEFINE row == rows[client[c].project]
<1>1. client[c] \in Screen /\ client[c].project \in Project
  BY DEF TypeOK, Screen
<1>2. ScreenGood(client[c], row) /\ RowGood(row)
  BY <1>1 DEF ScreensGood
<1>3. client[c].mode = "editor" /\ client[c].version = row.version
  <2>1. CASE WriteUpdate(c)
    BY <1>2, <2>1 DEF WriteUpdate, ScreenGood
  <2>2. ASSUME NEW content \in Content, Publish(c, content)
        PROVE  client[c].mode = "editor" /\ client[c].version = row.version
    BY <2>2 DEF Publish, CurrentProject
  <2> QED BY <2>1, <2>2 DEF Replaces
<1>4. CASE client[c].basis = "row"
  BY <1>2, <1>3, <1>4 DEF ScreenGood
<1>5. CASE client[c].basis = "blank"
  BY <1>2, <1>3, <1>5 DEF ScreenGood, RowGood
<1> QED BY <1>1, <1>4, <1>5 DEF Screen

(* A tab replaces a content it was not given only where NoLostEdit says:   *)
(* a first name, from a form that failed to load, and whatever came        *)
(* between a create and its answer.                                        *)
THEOREM NoEditIsLost == Spec => NoLostEdit
<1>1. TypeOK /\ ScreensGood => [EditSeen]_vars
  BY EditIsSeen
<1>2. [EditSeen]_vars <=>
      [\A c \in Client :
         Replaces(c) =>
           LET old == rows[client[c].project].content IN
           \/ client[c].content = old
           \/ client[c].basis = "blank" /\ old \in NameOnly
           \/ client[c].basis = "create"]_vars
  BY DEF EditSeen
<1> QED BY <1>1, <1>2, ProjectTypes, ScreensInit, ScreensStep, PTL DEF Spec, NoLostEdit

OrderNamed ==
  orderVersion' = orderVersion =>
    /\ Public' = Public
    /\ \A p \in Public : rows'[p].sort = rows[p].sort

LEMMA OrderIsNamed == TypeOK /\ [Next]_vars => [OrderNamed]_vars
<1> SUFFICES ASSUME TypeOK, Next PROVE OrderNamed
  OBVIOUS
<1>1. ASSUME \A p \in Project : rows'[p].status = rows[p].status
                             /\ rows'[p].sort = rows[p].sort
      PROVE  OrderNamed
  BY <1>1 DEF OrderNamed, Public
<1>2. ASSUME NEW c \in Client, ScreenAction(c) PROVE OrderNamed
  BY <1>1, <1>2, ScreensOnly
<1>3. ASSUME NEW c \in Client, NEW q \in Project, Create(c, q) PROVE OrderNamed
  <2>1. rows[q].status = "absent" /\ rows'[q].status = "hidden"
        /\ \A p \in Project \ {q} : rows'[p] = rows[p]
    BY <1>3 DEF Create, TypeOK
  <2> QED BY <2>1 DEF OrderNamed, Public
<1>4. ASSUME NEW c \in Client, WriteUpdate(c) PROVE OrderNamed
  BY <1>1, <1>4 DEF WriteUpdate, TypeOK, Row
<1>5. orderVersion' # orderVersion => OrderNamed
  BY DEF OrderNamed
<1>6. ASSUME NEW c \in Client,
             \/ Hide(c) \/ \E content \in Content : Publish(c, content)
             \/ \E place \in Arrangements(c) : Reorder(c, place)
      PROVE  OrderNamed
  <2>1. orderVersion' = orderVersion + 1
    BY <1>6 DEF Hide, Publish, Reorder
  <2>2. orderVersion \in Nat
    BY DEF TypeOK
  <2> QED BY <1>5, <2>1, <2>2
<1> QED BY <1>2, <1>3, <1>4, <1>6 DEF Next, ScreenAction

(* The order version names the order.                                      *)
THEOREM VersionNamesOrder == Spec => OrderVersionNamesOrder
<1>1. [OrderNamed]_vars <=>
      [orderVersion' = orderVersion =>
       /\ Public' = Public
       /\ \A p \in Public : rows'[p].sort = rows[p].sort]_vars
  BY DEF OrderNamed
<1> QED BY <1>1, ProjectTypes, OrderIsNamed, PTL DEF Spec, OrderVersionNamesOrder

(* Numbering by rank keeps what was first first.                           *)
LEMMA PlacesKeepOrder ==
  ASSUME TypeOK, NEW S, S \subseteq Project, NEW p \in S, NEW q \in S,
         Places(S)[p] < Places(S)[q]
  PROVE  rows[p].sort < rows[q].sort
<1> DEFINE Below(r) == {s \in S : rows[s].sort <= rows[r].sort}
<1>1. IsFiniteSet(S) /\ \A r \in S : rows[r].sort \in Nat
  BY ConstantsAssumption, FS_Subset DEF TypeOK, Row
<1>2. Places(S)[p] = Cardinality(Below(p)) /\ Places(S)[q] = Cardinality(Below(q))
  BY DEF Places
<1> SUFFICES ASSUME rows[q].sort <= rows[p].sort PROVE FALSE
  BY <1>1
<1>3. Below(q) \in SUBSET Below(p)
  BY <1>1
<1>4. IsFiniteSet(Below(p)) /\ IsFiniteSet(Below(q))
  BY <1>1, FS_Subset
<1>5. Cardinality(Below(q)) <= Cardinality(Below(p))
  <2> HIDE DEF Below
  <2> QED BY <1>3, <1>4, FS_Subset
<1>6. Cardinality(Below(p)) \in Nat /\ Cardinality(Below(q)) \in Nat
  BY <1>4, FS_CardinalityType
<1> HIDE DEF Below
<1> QED BY <1>2, <1>5, <1>6

PlaceKept ==
  Public' # Public =>
    \A p, q \in Public' :
      rows'[p].sort < rows'[q].sort =>
        \/ p \in Public /\ q \in Public /\ rows[p].sort < rows[q].sort
        \/ q \notin Public

LEMMA PlaceIsKept == TypeOK /\ [Next]_vars => [PlaceKept]_vars
<1> SUFFICES ASSUME TypeOK, Next, Public' # Public PROVE PlaceKept
  BY DEF PlaceKept
<1>1. ASSUME \A p \in Project : rows'[p].status = rows[p].status PROVE FALSE
  BY <1>1 DEF Public
<1>2. ASSUME NEW c \in Client, ScreenAction(c) PROVE FALSE
  BY <1>1, <1>2, ScreensOnly
<1>3. ASSUME NEW c \in Client, NEW p \in Project, Create(c, p) PROVE FALSE
  <2>1. rows[p].status = "absent" /\ rows'[p].status = "hidden"
        /\ \A q \in Project \ {p} : rows'[q] = rows[q]
    BY <1>3 DEF Create, TypeOK
  <2> QED BY <2>1 DEF Public
<1>4. ASSUME NEW c \in Client, WriteUpdate(c) PROVE FALSE
  BY <1>1, <1>4 DEF WriteUpdate, TypeOK, Row
<1>5. ASSUME NEW c \in Client, NEW place \in Arrangements(c), Reorder(c, place) PROVE FALSE
  BY <1>1, <1>5 DEF Reorder, Reposition, TypeOK, Row
<1>6. ASSUME NEW c \in Client, NEW content \in Content, Publish(c, content) PROVE PlaceKept
  <2> DEFINE p == client[c].project
  <2>1. p \in Project /\ p \notin Public
    BY <1>6 DEF Publish, TypeOK, Screen, Public
  <2>2. NextSort \in Nat /\ \A q \in Public : rows[q].sort < NextSort /\ rows[q].sort \in Nat
    BY NextSortIsLast DEF TypeOK, Row, Public
  <2>3. /\ Public' = Public \cup {p} /\ rows'[p].sort = NextSort
        /\ \A q \in Public : rows'[q].sort = rows[q].sort
    BY <1>6, <2>1 DEF Publish, Public, TypeOK
  <2> HIDE DEF p
  <2>4. ASSUME NEW q \in Public', NEW r \in Public, rows'[q].sort < rows'[r].sort
        PROVE  q \in Public /\ rows[q].sort < rows[r].sort
    <3>1. q # p
      BY <2>2, <2>3, <2>4
    <3> QED BY <2>3, <2>4, <3>1
  <2> QED BY <2>4 DEF PlaceKept
<1>7. ASSUME NEW c \in Client, Hide(c) PROVE PlaceKept
  <2> DEFINE p == client[c].project
             rest == Public \ {p}
             place == Places(rest)
  <2>1. p \in Project /\ p \in Public /\ rest \subseteq Project
    BY <1>7 DEF Hide, TypeOK, Screen, Public
  <2>2. rows' = [q \in Project |->
                   [status |-> IF q = p THEN "hidden" ELSE rows[q].status,
                    sort |-> place[q],
                    version |-> IF q = p THEN rows[q].version + 1 ELSE rows[q].version,
                    content |-> rows[q].content]]
    BY <1>7, <2>1 DEF Hide, Reposition, TypeOK, Row
  <2> HIDE DEF place
  <2>3. Public' = rest /\ \A q \in rest : rows'[q].sort = place[q]
    BY <2>1, <2>2 DEF Public
  <2>4. ASSUME NEW q \in rest, NEW r \in rest, place[q] < place[r]
        PROVE  rows[q].sort < rows[r].sort
    <3> HIDE DEF rest
    <3> QED BY <2>1, <2>4, PlacesKeepOrder DEF place
  <2> QED BY <2>3, <2>4 DEF PlaceKept
<1> QED BY <1>2, <1>3, <1>4, <1>5, <1>6, <1>7 DEF Next, ScreenAction

(* Publishing and hiding never rearrange the others, and a newly published *)
(* project comes last.                                                     *)
THEOREM OthersAlwaysKeepPlace == Spec => OthersKeepPlace
<1>1. [PlaceKept]_vars <=>
      [Public' # Public =>
       \A p, q \in Public' :
         rows'[p].sort < rows'[q].sort =>
           \/ p \in Public /\ q \in Public /\ rows[p].sort < rows[q].sort
           \/ q \notin Public]_vars
  BY DEF PlaceKept
<1> QED BY <1>1, ProjectTypes, PlaceIsKept, PTL DEF Spec, OthersKeepPlace

----------------------------------------------------------------------------
(* The rewrite of the order, statement by statement, comes to what         *)
(* ProjectOrder does in one step, whatever places the projects held.       *)

(* The projects whose turn has come.                                       *)
Moved(p) == 0 < goal[p] /\ goal[p] < index

(* None that is at or after p in the new order was where p is to go first. *)
Clear(p) == \A q \in Project : goal[q] >= goal[p] => rows[q].sort # Count + goal[p]

RewriteTypes ==
  /\ (\A p \in Project : rows[p].sort \in Nat) /\ goal \in [Project -> 0 .. Count]
  /\ sort \in [Project -> Nat] /\ index \in Nat \ {0}
  /\ Count \in Nat
  /\ phase \in {"temporary", "final", "done", "failed"}
  /\ \A p \in Project : rows[p].sort > 0 <=> goal[p] > 0
  /\ \A p, q \in Project : goal[p] > 0 /\ goal[p] = goal[q] => p = q

(* How far the statements have got.  The second pass begins with all       *)
(* projects past the places it gives; the first may find one taken.        *)
RewriteProgress ==
  /\ phase = "temporary" => \A p \in Project :
       /\ sort[p] = IF Moved(p) THEN Count + goal[p] ELSE rows[p].sort
       /\ Moved(p) => Clear(p)
  /\ phase \in {"final", "done"} => \A p \in Project :
       /\ sort[p] = IF Moved(p) \/ goal[p] = 0 THEN goal[p] ELSE Count + goal[p]
       /\ goal[p] > 0 => Clear(p)
  /\ phase = "done" => index > Count
  /\ phase = "failed" => \E p \in Project : goal[p] > 0 /\ ~ Clear(p)

RewriteIInv == RewriteTypes /\ RewriteProgress

LEMMA CountIsNat == ASSUME NEW S, S \subseteq Project PROVE Cardinality(S) \in Nat
BY ConstantsAssumption, FS_Subset, FS_CardinalityType

(* ProjectOrder's test, in the terms of the proof.                         *)
LEMMA RewritableIsClear ==
  ASSUME RewriteTypes
  PROVE  Rewritable(goal) <=> \A p \in Project : goal[p] > 0 => Clear(p)
<1>1. \A p \in Project : p \in Placed(goal) <=> goal[p] > 0
  BY DEF Placed
<1>2. \A p, q \in Project : goal[p] > 0 /\ goal[q] >= goal[p] => goal[q] > 0
  BY DEF RewriteTypes
<1>3. Rewritable(goal) <=>
        \A p, q \in Placed(goal) : goal[q] >= goal[p] => rows[q].sort # Count + goal[p]
  BY DEF Rewritable, Count
<1>4. Placed(goal) \subseteq Project
  BY DEF Placed
<1> QED BY <1>1, <1>2, <1>3, <1>4 DEF Clear

LEMMA RewriteBegins == RewriteInit => RewriteIInv
<1> SUFFICES ASSUME RewriteInit PROVE RewriteIInv
  OBVIOUS
<1>1. PICK S \in SUBSET Project :
        /\ sort \in PlacesOf(S, MaxSort) /\ goal \in PlacesOf(S, Cardinality(S))
        /\ \E content \in Verified :
             rows = [p \in Project |-> [status |-> IF p \in S THEN "public" ELSE "hidden",
                                        sort |-> sort[p], version |-> 2,
                                        content |-> content]]
  BY DEF RewriteInit
<1>2. Placed(goal) = S /\ Count = Cardinality(S) /\ Count \in Nat
  BY <1>1, CountIsNat DEF PlacesOf, Placed, Count
<1>3. sort \in [Project -> Nat] /\ goal \in [Project -> 0 .. Count]
  BY <1>1, <1>2, RewriteAssumption DEF PlacesOf
<1>4. \A p \in Project : rows[p].sort = sort[p]
  BY <1>1
<1>5. /\ \A p \in Project : sort[p] > 0 <=> goal[p] > 0
      /\ \A p, q \in Project : goal[p] > 0 /\ goal[p] = goal[q] => p = q
  BY <1>1 DEF PlacesOf
<1>6. RewriteTypes
  BY <1>2, <1>3, <1>4, <1>5 DEF RewriteTypes, RewriteInit
<1>7. \A p \in Project : ~ Moved(p)
  BY <1>3 DEF RewriteInit, Moved
<1>8. RewriteProgress
  BY <1>4, <1>7 DEF RewriteProgress, RewriteInit
<1> QED BY <1>6, <1>8 DEF RewriteIInv

(* One statement fails, or moves one project and passes to the next.       *)
LEMMA SetOutcome ==
  ASSUME RewriteTypes, NEW p \in Project, NEW value \in Nat \ {0}, Set(p, value)
  PROVE  \/ /\ \E q \in Project : sort[q] = value
            /\ phase' = "failed" /\ UNCHANGED <<sort, index>>
         \/ /\ \A q \in Project : sort[q] # value
            /\ phase' = phase /\ index' = index + 1
            /\ sort' \in [Project -> Nat] /\ sort'[p] = value
            /\ \A q \in Project \ {p} : sort'[q] = sort[q]
BY DEF RewriteTypes, Set

LEMMA SetTemporaryKeeps ==
  ASSUME RewriteIInv, SetTemporary
  PROVE  RewriteIInv'
<1>1. PICK p \in Project : goal[p] = index /\ Set(p, Count + index)
  BY DEF SetTemporary
<1>2. phase = "temporary" /\ UNCHANGED <<rows, goal>> /\ Count' = Count
  BY DEF SetTemporary, Count, Placed, seen
<1>3. RewriteTypes
  BY DEF RewriteIInv
<1>4. \A q \in Project : /\ sort[q] = IF Moved(q) THEN Count + goal[q] ELSE rows[q].sort
                         /\ Moved(q) => Clear(q)
  BY <1>2 DEF RewriteIInv, RewriteProgress
<1>5. Count + index \in Nat \ {0}
  BY <1>3 DEF RewriteTypes
<1>6. CASE /\ \E q \in Project : sort[q] = Count + index
           /\ phase' = "failed" /\ UNCHANGED <<sort, index>>
  <2>1. PICK q \in Project : sort[q] = Count + index
    BY <1>6
  <2>2. ~ Moved(q)
    BY <1>3, <1>4, <2>1 DEF Moved, RewriteTypes
  <2>3. rows[q].sort = Count + index /\ goal[q] >= index
    BY <1>3, <1>4, <1>5, <2>1, <2>2 DEF Moved, RewriteTypes
  <2>4. goal[p] > 0 /\ ~ Clear(p)
    BY <1>1, <1>3, <2>3 DEF Clear, RewriteTypes
  <2>5. RewriteTypes'
    BY <1>2, <1>3, <1>6 DEF RewriteTypes
  <2>6. (goal[p] > 0 /\ ~ Clear(p))'
    BY <1>2, <2>4 DEF Clear
  <2> QED BY <1>6, <2>5, <2>6 DEF RewriteIInv, RewriteProgress
<1>7. CASE /\ \A q \in Project : sort[q] # Count + index
           /\ phase' = phase /\ index' = index + 1
           /\ sort' \in [Project -> Nat] /\ sort'[p] = Count + index
           /\ \A q \in Project \ {p} : sort'[q] = sort[q]
  <2>1. RewriteTypes'
    BY <1>2, <1>3, <1>7 DEF RewriteTypes
  <2>2. \A q \in Project : Moved(q)' <=> Moved(q) \/ q = p
    BY <1>1, <1>2, <1>3, <1>7 DEF Moved, RewriteTypes
  <2>3. Clear(p)
    <3> SUFFICES ASSUME NEW q \in Project, goal[q] >= goal[p], rows[q].sort = Count + goal[p]
                 PROVE  FALSE
      BY DEF Clear
    <3>1. ~ Moved(q)
      BY <1>1, <1>3 DEF Moved, RewriteTypes
    <3> QED BY <1>1, <1>4, <1>7, <3>1
  <2>4. \A q \in Project : Clear(q)' <=> Clear(q)
    BY <1>2 DEF Clear
  <2>5. \A q \in Project : /\ sort'[q] = IF Moved(q)' THEN Count + goal[q] ELSE rows[q].sort
                           /\ Moved(q)' => Clear(q)'
    BY <1>1, <1>4, <1>7, <2>2, <2>3, <2>4
  <2>6. RewriteProgress'
    BY <1>2, <1>7, <2>5 DEF RewriteProgress
  <2> QED BY <2>1, <2>6 DEF RewriteIInv
<1> QED BY <1>1, <1>3, <1>5, <1>6, <1>7, SetOutcome

LEMMA BeginFinalKeeps ==
  ASSUME RewriteIInv, BeginFinal
  PROVE  RewriteIInv'
<1>1. /\ phase = "temporary" /\ index > Count /\ phase' = "final" /\ index' = 1
      /\ UNCHANGED <<rows, goal, sort>> /\ Count' = Count
  BY DEF BeginFinal, Count, Placed, seen
<1>2. RewriteTypes
  BY DEF RewriteIInv
<1>3. \A q \in Project : /\ sort[q] = IF Moved(q) THEN Count + goal[q] ELSE rows[q].sort
                         /\ Moved(q) => Clear(q)
  BY <1>1 DEF RewriteIInv, RewriteProgress
<1>4. \A q \in Project : (Moved(q) <=> goal[q] > 0) /\ ~ Moved(q)' /\ (Clear(q)' <=> Clear(q))
  BY <1>1, <1>2 DEF Moved, RewriteTypes, Clear
<1>5. \A q \in Project : goal[q] = 0 => rows[q].sort = 0
  BY <1>2 DEF RewriteTypes
<1>6. \A q \in Project :
        /\ sort'[q] = IF Moved(q)' \/ goal[q] = 0 THEN goal[q] ELSE Count + goal[q]
        /\ goal[q] > 0 => Clear(q)'
  <2> SUFFICES ASSUME NEW q \in Project
               PROVE  /\ sort'[q] = IF Moved(q)' \/ goal[q] = 0 THEN goal[q] ELSE Count + goal[q]
                      /\ goal[q] > 0 => Clear(q)'
    OBVIOUS
  <2>1. goal[q] \in Nat
    BY <1>2 DEF RewriteTypes
  <2> QED BY <1>1, <1>3, <1>4, <1>5, <2>1
<1>7. RewriteTypes'
  BY <1>1, <1>2 DEF RewriteTypes
<1>8. RewriteProgress'
  BY <1>1, <1>6 DEF RewriteProgress
<1> QED BY <1>7, <1>8 DEF RewriteIInv

LEMMA SetFinalKeeps ==
  ASSUME RewriteIInv, SetFinal
  PROVE  RewriteIInv'
<1>1. PICK p \in Project : goal[p] = index /\ Set(p, index)
  BY DEF SetFinal
<1>2. phase = "final" /\ UNCHANGED <<rows, goal>> /\ Count' = Count
  BY DEF SetFinal, Count, Placed, seen
<1>3. RewriteTypes
  BY DEF RewriteIInv
<1>4. \A q \in Project :
        /\ sort[q] = IF Moved(q) \/ goal[q] = 0 THEN goal[q] ELSE Count + goal[q]
        /\ goal[q] > 0 => Clear(q)
  BY <1>2 DEF RewriteIInv, RewriteProgress
<1>5. index \in 1 .. Count
  BY <1>1, <1>3 DEF RewriteTypes
<1>6. \A q \in Project : sort[q] # index
  <2> SUFFICES ASSUME NEW q \in Project, sort[q] = index PROVE FALSE
    OBVIOUS
  <2>1. goal[q] \in Nat
    BY <1>3 DEF RewriteTypes
  <2> QED BY <1>3, <1>4, <1>5, <2>1 DEF Moved, RewriteTypes
<1>7. /\ phase' = phase /\ index' = index + 1
      /\ sort' \in [Project -> Nat] /\ sort'[p] = index
      /\ \A q \in Project \ {p} : sort'[q] = sort[q]
  BY <1>1, <1>3, <1>5, <1>6, SetOutcome
<1>8. RewriteTypes'
  BY <1>2, <1>3, <1>7 DEF RewriteTypes
<1>9. \A q \in Project : (Moved(q)' <=> Moved(q) \/ q = p) /\ (Clear(q)' <=> Clear(q))
  BY <1>1, <1>2, <1>3, <1>7 DEF Moved, RewriteTypes, Clear
<1>10. \A q \in Project :
         /\ sort'[q] = IF Moved(q)' \/ goal[q] = 0 THEN goal[q] ELSE Count + goal[q]
         /\ goal[q] > 0 => Clear(q)'
  BY <1>1, <1>4, <1>7, <1>9
<1>11. RewriteProgress'
  BY <1>2, <1>7, <1>10 DEF RewriteProgress
<1> QED BY <1>8, <1>11 DEF RewriteIInv

LEMMA RewriteStep == RewriteIInv /\ [RewriteNext]_rewriteVars => RewriteIInv'
<1> SUFFICES ASSUME RewriteIInv, [RewriteNext]_rewriteVars PROVE RewriteIInv'
  OBVIOUS
<1>1. ASSUME UNCHANGED <<rows, goal, sort, index>>, phase' = phase \/ Finish PROVE RewriteIInv'
  <2>1. RewriteTypes'
    BY <1>1 DEF RewriteIInv, RewriteTypes, Count, Placed, Finish
  <2>2. \A q \in Project : (Moved(q)' <=> Moved(q)) /\ (Clear(q)' <=> Clear(q))
    BY <1>1 DEF Moved, Clear, Count, Placed
  <2>3. RewriteProgress'
    BY <1>1, <2>2 DEF RewriteIInv, RewriteProgress, Finish, Count, Placed
  <2> QED BY <2>1, <2>3 DEF RewriteIInv
<1>2. CASE Finish
  BY <1>1, <1>2 DEF Finish, seen
<1>3. CASE UNCHANGED rewriteVars
  BY <1>1, <1>3 DEF rewriteVars, seen
<1> QED BY <1>2, <1>3, SetTemporaryKeeps, BeginFinalKeeps, SetFinalKeeps DEF RewriteNext

(* The statements end with the places asked for exactly when ProjectOrder  *)
(* lets its one step through, and fail otherwise; a dense order can always *)
(* be rewritten.                                                           *)
THEOREM RewriteIsAtomic == RewriteSpec => []OutcomeIsAtomic
<1>1. RewriteIInv => OutcomeIsAtomic
  <2> SUFFICES ASSUME RewriteIInv PROVE OutcomeIsAtomic
    OBVIOUS
  <2>1. RewriteTypes
    BY DEF RewriteIInv
  <2>2. CASE phase = "done"
    <3>1. \A p \in Project : sort[p] = goal[p] /\ (goal[p] > 0 => Clear(p))
      BY <2>1, <2>2 DEF RewriteIInv, RewriteProgress, Moved, RewriteTypes
    <3>2. sort = goal
      BY <2>1, <3>1 DEF RewriteTypes
    <3> QED BY <2>1, <2>2, <3>1, <3>2, RewritableIsClear DEF OutcomeIsAtomic
  <2>3. CASE phase = "failed"
    <3>1. PICK p \in Project : goal[p] > 0 /\ ~ Clear(p)
      BY <2>3 DEF RewriteIInv, RewriteProgress
    <3>2. \E q \in Project : rows[q].sort > Count
      BY <2>1, <3>1 DEF Clear, RewriteTypes
    <3>3. ~ \A q \in Project : rows[q].sort <= Count
      BY <2>1, <3>2 DEF RewriteTypes
    <3> QED BY <2>1, <2>3, <3>1, <3>3, RewritableIsClear DEF OutcomeIsAtomic
  <2> QED BY <2>2, <2>3 DEF OutcomeIsAtomic
<1> QED BY <1>1, RewriteBegins, RewriteStep, PTL DEF RewriteSpec
=============================================================================
